------------------------------- MODULE Beacon -------------------------------
(***************************************************************************)
(* The DS2 beacon of internal/beacon: a buffered channel and workers that  *)
(* each take an entry and send one HTTP request about it.  An entry is     *)
(* named by the redirect it is about; how it is encoded in the URL is left *)
(* out.                                                                    *)
(***************************************************************************)
EXTENDS Integers, Redirects

CONSTANTS
  Workers,       \* the goroutines (4)
  BeaconBuffer,  \* capacity of the beacon channel (10000)
  NoEntry        \* what an idle worker is sending

ASSUME BeaconAssumption == BeaconBuffer \in Nat \ {0} /\ NoEntry \notin Requests

VARIABLES
  beaconCh,    \* the channel, oldest entry first
  sending,     \* sending[w]: the entry worker w is sending
  alive,       \* the workers that have not returned
  beaconDone,  \* Stop was called
  attempts,    \* attempts[r]: how many times a request about r was sent
  received     \* what the endpoint has received

beaconVars == <<beaconCh, sending, alive, beaconDone, attempts, received>>

BeaconInit ==
  /\ beaconCh = <<>>
  /\ sending = [w \in Workers |-> NoEntry]
  /\ alive = Workers
  /\ beaconDone = FALSE
  /\ attempts = [r \in Requests |-> 0]
  /\ received = {}

\* The send of ServeHTTP: an entry that finds the channel full is dropped.
SendBeacon(e) ==
  /\ beaconCh' = IF Len(beaconCh) < BeaconBuffer THEN Append(beaconCh, e) ELSE beaconCh
  /\ UNCHANGED <<sending, alive, beaconDone, attempts, received>>

\* Mutant: the worker looks at the entry and leaves it in the channel.
TakeLeaving(w) ==
  /\ w \in alive
  /\ sending[w] = NoEntry
  /\ beaconCh # <<>>
  /\ sending' = [sending EXCEPT ![w] = Head(beaconCh)]
  /\ attempts' = [attempts EXCEPT ![Head(beaconCh)] = @ + 1]
  /\ UNCHANGED <<beaconCh, alive, beaconDone, received>>

Take(w) ==
  /\ w \in alive
  /\ sending[w] = NoEntry
  /\ beaconCh # <<>>
  /\ sending' = [sending EXCEPT ![w] = Head(beaconCh)]
  /\ beaconCh' = Tail(beaconCh)
  /\ attempts' = [attempts EXCEPT ![Head(beaconCh)] = @ + 1]
  /\ UNCHANGED <<alive, beaconDone, received>>

Deliver(w) ==
  /\ sending[w] # NoEntry
  /\ received' = received \cup {sending[w]}
  /\ sending' = [sending EXCEPT ![w] = NoEntry]
  /\ UNCHANGED <<beaconCh, alive, beaconDone, attempts>>

\* The request fails or times out after 2 s; the endpoint may have got it.
SendFails(w) ==
  /\ sending[w] # NoEntry
  /\ received' \in {received, received \cup {sending[w]}}
  /\ sending' = [sending EXCEPT ![w] = NoEntry]
  /\ UNCHANGED <<beaconCh, alive, beaconDone, attempts>>

\* Mutant: a worker that finds the channel empty returns.
WorkerReturnsWhenIdle(w) ==
  /\ w \in alive
  /\ sending[w] = NoEntry
  /\ beaconDone \/ beaconCh = <<>>
  /\ alive' = alive \ {w}
  /\ UNCHANGED <<beaconCh, sending, beaconDone, attempts, received>>

\* A worker that is not sending returns, whatever is left in the channel.
WorkerReturns(w) ==
  /\ w \in alive
  /\ sending[w] = NoEntry
  /\ beaconDone
  /\ alive' = alive \ {w}
  /\ UNCHANGED <<beaconCh, sending, beaconDone, attempts, received>>

WorkerStep(w) == Take(w) \/ Deliver(w) \/ WorkerReturns(w)

StopBeacon ==
  /\ beaconDone' = TRUE
  /\ UNCHANGED <<beaconCh, sending, alive, attempts, received>>

\* The process is gone; what was on its way may still arrive.
BeaconEnds ==
  /\ \E late \in SUBSET {sending[w] : w \in {v \in Workers : sending[v] # NoEntry}} :
       received' = received \cup late
  /\ beaconCh' = <<>>
  /\ sending' = [w \in Workers |-> NoEntry]
  /\ alive' = {}
  /\ UNCHANGED <<beaconDone, attempts>>

BeaconStarts ==
  /\ alive' = Workers
  /\ beaconDone' = FALSE
  /\ UNCHANGED <<beaconCh, sending, attempts, received>>

BeaconTypeOK ==
  /\ beaconCh \in Seq(Requests) /\ Len(beaconCh) <= BeaconBuffer
  /\ sending \in [Workers -> Requests \cup {NoEntry}]
  /\ alive \subseteq Workers
  /\ beaconDone \in BOOLEAN
  /\ attempts \in [Requests -> Nat]
  /\ received \subseteq Requests
=============================================================================
