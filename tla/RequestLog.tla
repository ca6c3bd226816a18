----------------------------- MODULE RequestLog -----------------------------
(***************************************************************************)
(* What the analytics pipeline of one data node promises about the         *)
(* request_log table, apart from how it batches: entries are accepted in   *)
(* some order, and each is either written once, in that order, or lost.    *)
(***************************************************************************)
EXTENDS Integers, Redirects

VARIABLES
  pending,   \* entries accepted and not yet written or lost, oldest first
  rows       \* the table

lvars == <<pending, rows>>

LInit == pending = <<>> /\ rows = <<>>

\* An entry that was never seen before is accepted.
Accept(e) ==
  /\ e \notin ToSet(rows) \cup ToSet(pending)
  /\ pending' = Append(pending, e)
  /\ UNCHANGED rows

\* The oldest entries leave; of those, the first ones are written.
Settle(written, gone) ==
  /\ rows' = rows \o SubSeq(pending, 1, written)
  /\ pending' = SubSeq(pending, gone + 1, Len(pending))

LNext ==
  \/ \E e \in Requests : Accept(e)
  \/ \E gone \in 1..Len(pending) : \E written \in 0..gone : Settle(written, gone)

LSpec == LInit /\ [][LNext]_lvars
=============================================================================
