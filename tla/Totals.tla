-------------------------------- MODULE Totals --------------------------------
(***************************************************************************)
(* The sum of a function's values, which several modules count with.       *)
(***************************************************************************)
EXTENDS Integers, FiniteSetsExt, Functions

Total(counts) == MapThenSumSet(LAMBDA x : counts[x], DOMAIN counts)
=============================================================================
