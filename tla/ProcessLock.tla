----------------------------- MODULE ProcessLock -----------------------------
(***************************************************************************)
(* What Lock and Unlock of internal/certs promise, apart from connections  *)
(* and sessions: a lock between processes.  It does not keep the clients   *)
(* of one process apart, a process may go on holding a key that none of    *)
(* its clients needs, and it may break.                                    *)
(***************************************************************************)
CONSTANTS Clients, ProcOf, Keys

VARIABLES
  keyOf,    \* keyOf[cl]: the key of the name a client locks
  inside,   \* the clients that have the lock
  holders,  \* holders[k]: the processes that hold key k
  broken    \* a key may have been given back behind a client's back

pvars == <<keyOf, inside, holders, broken>>

PInit ==
  /\ keyOf \in [Clients -> Keys]
  /\ inside = {}
  /\ holders = [k \in Keys |-> {}]
  /\ broken = FALSE

\* Of the keys held, some are given back; none that a client inside has, unless
\* the lock breaks.
GivesBack(held, gone) ==
  /\ holders' = [k \in Keys |-> IF k \in gone THEN {} ELSE held[k]]
  /\ broken' \in {broken, TRUE}
  /\ broken' \/ \A cl \in inside' : keyOf[cl] \notin gone

Enter(cl, gone) ==
  /\ cl \notin inside
  /\ holders[keyOf[cl]] \subseteq {ProcOf[cl]}
  /\ inside' = inside \cup {cl}
  /\ GivesBack([holders EXCEPT ![keyOf[cl]] = {ProcOf[cl]}], gone)

Leave(cl, gone) ==
  /\ cl \in inside
  /\ inside' = inside \ {cl}
  /\ GivesBack(holders, gone)

Free(gone) == inside' = inside /\ GivesBack(holders, gone)

PNext ==
  /\ \E gone \in SUBSET Keys :
       \/ Free(gone)
       \/ \E cl \in Clients : Enter(cl, gone) \/ Leave(cl, gone)
  /\ UNCHANGED keyOf

PSpec == PInit /\ [][PNext]_pvars
=============================================================================
