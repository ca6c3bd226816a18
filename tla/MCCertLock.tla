------------------------------ MODULE MCCertLock ------------------------------
(***************************************************************************)
(* Instances of CertLock for TLC.                                          *)
(***************************************************************************)
EXTENDS CertLock, TLC

CONSTANTS p, q, a, b, c, d, e

MCProcOf == [cl \in Clients |-> IF cl \in {a, b, c} THEN p ELSE q]

\* "Aa" and "BB" have the same key.
Aa == <<65, 97>>
BB == <<66, 66>>
C == <<67>>

\* Two processes lock two keys each; in one of them two clients wait for one key,
\* on all the connections of its pool, while a third has to unlock the other key.
MCNamings == {a :> Aa @@ b :> C @@ c :> C @@ d :> C @@ e :> BB}
=============================================================================
