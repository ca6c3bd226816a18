----------------------------- MODULE MCDataPlane -----------------------------
(***************************************************************************)
(* Instances of DataPlane for TLC.                                         *)
(***************************************************************************)
EXTENDS DataPlane

CONSTANTS r1, r2, w1, w2

\* One redirect over :443, the others over :80.
MCServerOf == [r \in Requests |-> IF r = r1 THEN 1 ELSE 2]
=============================================================================
