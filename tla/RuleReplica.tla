---------------------------- MODULE RuleReplica ----------------------------
(***************************************************************************)
(* What a data-plane node with a database of its own promises, apart from  *)
(* how it polls: there is one growing log of published rulesets, a replica *)
(* adopts entries of it in order (skipping some), and everything it serves *)
(* is said by the entry it has adopted.                                    *)
(***************************************************************************)
EXTENDS RuleStore

CONSTANT Replicas

VARIABLES
  log,      \* published rulesets, oldest first
  at,       \* at[r]: the entry replica r has adopted, 0 before the first
  serving   \* serving[r]: what replica r answers requests from

rvars == <<log, at, serving>>

\* The ruleset of the k-th entry as a database holds it after importing it.
Entry(k) == IF k = 0 THEN Nothing ELSE Normalise(log[k])

RInit ==
  /\ log = <<>>
  /\ at = [r \in Replicas |-> 0]
  /\ serving = [r \in Replicas |-> Nothing]

Publication ==
  /\ Len(log') = Len(log) + 1
  /\ \A k \in 1..Len(log) : log'[k] = log[k]
  /\ UNCHANGED <<at, serving>>

Adoption(r) ==
  /\ \E k \in 1..Len(log) :
       /\ k >= at[r]
       /\ at' = [at EXCEPT ![r] = k]
  /\ UNCHANGED <<log, serving>>

\* A replica may serve less than the entry says: it may have lost everything in
\* a crash, or failed to read a domain's rules.
Refresh(r) ==
  /\ \E m \in {serving'[r]} :
       /\ ServesOnly(m, Entry(at[r]))
       /\ serving' = [serving EXCEPT ![r] = m]
  /\ UNCHANGED <<log, at>>

RNext == Publication \/ \E r \in Replicas : Adoption(r) \/ Refresh(r)

RSpec == RInit /\ [][RNext]_rvars
=============================================================================
