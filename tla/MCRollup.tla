------------------------------- MODULE MCRollup -------------------------------
(***************************************************************************)
(* Instances of Rollup and Reports for TLC.                                *)
(***************************************************************************)
EXTENDS Reports

CONSTANTS n1, n2, d1, d2, p1
=============================================================================
