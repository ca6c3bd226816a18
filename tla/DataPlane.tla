------------------------------ MODULE DataPlane ------------------------------
(***************************************************************************)
(* What happens to the record of a redirect on one data node (runData):    *)
(* the handlers of two HTTP servers (1 is :443, 2 is :80) offer an entry   *)
(* to the analytics pipeline and to the beacon, and main takes everything  *)
(* down again.  All requests are for served domains; Serving says what     *)
(* they are answered with.                                                 *)
(***************************************************************************)
EXTENDS Analytics, Beacon, Totals

CONSTANTS
  ServerOf,    \* ServerOf[r]: the server request r arrives at
  WithBeacon,  \* a DS2 endpoint is configured
  MaxFaults    \* bound: faults in all

Faults == {"insert", "beacon", "overrun", "crash"}

ASSUME DataPlaneAssumption ==
  /\ ServerOf \in [Requests -> 1..2]
  /\ WithBeacon \in BOOLEAN
  /\ MaxFaults \in Nat

VARIABLES
  pc,        \* pc[r]: where the handler of request r is
  main,      \* where the main goroutine is
  closed,    \* servers whose listener is closed: 1..closed
  spent,     \* spent[k]: how often fault k has happened
  accepted   \* history: the entries the log channel has accepted, in order

lifeVars == <<pc, main, closed>>
vars == <<pipeVars, beaconVars, lifeVars, spent, accepted>>

Up == main \notin {"exited", "crashed"}

Init ==
  /\ PipeInit
  /\ BeaconInit
  /\ pc = [r \in Requests |-> "new"]
  /\ main = "running"
  /\ closed = 0
  /\ spent = [k \in Faults |-> 0]
  /\ accepted = <<>>

Spend(k) ==
  /\ Total(spent) < MaxFaults
  /\ spent' = [spent EXCEPT ![k] = @ + 1]

-----------------------------------------------------------------------------
(* A request *)

Arrive(r) ==
  /\ Up
  /\ pc[r] = "new"
  /\ ServerOf[r] > closed
  /\ pc' = [pc EXCEPT ![r] = "log"]
  /\ UNCHANGED <<pipeVars, beaconVars, main, closed, spent, accepted>>

OfferLog(r) ==
  /\ pc[r] = "log"
  /\ Send(r)
  /\ accepted' = IF r \in ToSet(logCh') THEN Append(accepted, r) ELSE accepted
  /\ pc' = [pc EXCEPT ![r] = IF WithBeacon THEN "beacon" ELSE "answer"]
  /\ UNCHANGED <<beaconVars, main, closed, spent>>

OfferBeacon(r) ==
  /\ pc[r] = "beacon"
  /\ SendBeacon(r)
  /\ pc' = [pc EXCEPT ![r] = "answer"]
  /\ UNCHANGED <<pipeVars, main, closed, spent, accepted>>

Answer(r) ==
  /\ pc[r] = "answer"
  /\ pc' = [pc EXCEPT ![r] = "answered"]
  /\ UNCHANGED <<pipeVars, beaconVars, main, closed, spent, accepted>>

Handle(r) == OfferLog(r) \/ OfferBeacon(r) \/ Answer(r)

InHandler(r) == pc[r] \in {"log", "beacon", "answer"}

-----------------------------------------------------------------------------
(* The goroutines of the pipeline and the beacon *)

Write == WriterStep /\ UNCHANGED <<beaconVars, lifeVars, spent, accepted>>

LoseBatch ==
  /\ InsertFails
  /\ Spend("insert")
  /\ UNCHANGED <<beaconVars, lifeVars, accepted>>

Work(w) == WorkerStep(w) /\ UNCHANGED <<pipeVars, lifeVars, spent, accepted>>

LoseBeacon(w) ==
  /\ SendFails(w)
  /\ Spend("beacon")
  /\ UNCHANGED <<pipeVars, lifeVars, accepted>>

-----------------------------------------------------------------------------
(* waitForShutdown and the deferred calls, which run last one first *)

Signal ==
  /\ main = "running"
  /\ main' = "shutdown"
  /\ closed' = 1
  /\ UNCHANGED <<pipeVars, beaconVars, pc, spent, accepted>>

Idle(s) == \A r \in Requests : ServerOf[r] = s => ~InHandler(r)

\* The servers are shut down one after the other under one 10 s deadline.
NextServer ==
  /\ closed' = IF closed < 2 THEN closed + 1 ELSE closed
  /\ main' = IF closed < 2 THEN "shutdown" ELSE "stopBeacon"
  /\ UNCHANGED <<pipeVars, beaconVars, pc, accepted>>

\* Mutant: the handlers that are running are not waited for.
ServerIsDownAtOnce == main = "shutdown" /\ NextServer /\ UNCHANGED spent

ServerIsDown == main = "shutdown" /\ Idle(closed) /\ NextServer /\ UNCHANGED spent

\* The deadline has passed: Shutdown closes the listener and does not wait.
ServerIsLeft == main = "shutdown" /\ ~Idle(closed) /\ NextServer /\ Spend("overrun")

Defers ==
  \/ /\ main = "stopBeacon"
     /\ StopBeacon
     /\ main' = "stopPipeline"
     /\ UNCHANGED <<pipeVars, pc, closed, spent, accepted>>
  \/ /\ main = "stopPipeline"
     /\ StopPipeline
     /\ main' = "closeDB"
     /\ UNCHANGED <<beaconVars, pc, closed, spent, accepted>>
  \/ /\ main = "closeDB"
     /\ CloseDB
     /\ main' = "exit"
     /\ UNCHANGED <<beaconVars, pc, closed, spent, accepted>>

ProcessEnds ==
  /\ PipeEnds
  /\ BeaconEnds
  /\ pc' = [r \in Requests |-> IF InHandler(r) THEN "cut" ELSE pc[r]]
  /\ UNCHANGED <<closed, accepted>>

Exit == main = "exit" /\ ProcessEnds /\ main' = "exited" /\ UNCHANGED spent

Crash == Up /\ Spend("crash") /\ ProcessEnds /\ main' = "crashed"

Restart ==
  /\ main = "crashed"
  /\ PipeStarts
  /\ BeaconStarts
  /\ main' = "running"
  /\ closed' = 0
  /\ UNCHANGED <<pc, spent, accepted>>

Halted == main = "exited" /\ UNCHANGED vars

Next ==
  \/ \E r \in Requests : Arrive(r) \/ Handle(r)
  \/ Write
  \/ LoseBatch
  \/ \E w \in Workers : Work(w) \/ LoseBeacon(w)
  \/ Signal \/ ServerIsDown \/ ServerIsLeft \/ Defers \/ Exit
  \/ Crash \/ Restart
  \/ Halted

Spec == Init /\ [][Next]_vars

\* The Go scheduler runs every goroutine that can run; the database may hang
\* for ever, and so may the endpoint.
HandlersRun == \A r \in Requests : WF_vars(Handle(r))
WriterRuns == WF_vars(Write)
WorkersRun == \A w \in Workers : WF_vars(Work(w))

HandlersSpec == Spec /\ HandlersRun

-----------------------------------------------------------------------------

TypeOK ==
  /\ PipeTypeOK
  /\ BeaconTypeOK
  /\ pc \in [Requests -> {"new", "log", "beacon", "answer", "answered", "cut"}]
  /\ main \in {"running", "shutdown", "stopBeacon", "stopPipeline", "closeDB",
               "exit", "exited", "crashed"}
  /\ closed \in 0..2
  /\ spent \in [Faults -> Nat]
  /\ accepted \in Seq(Requests)

\* Only a failed insert, a crash and the end of the process lose an accepted
\* entry; until then each is in the table, the batch or the channel, in the
\* order of the redirects (engine.go:125, pipeline.go:48).
NothingMislaid ==
  spent["insert"] + spent["crash"] = 0 /\ dbOpen /\ main # "exited"
    => accepted = rows \o batch \o logCh

\* A redirect is reported to the endpoint once at most, by one worker, and
\* before that only by a handler that served it ("No retry", ds2-beacon.md).
BeaconAtMostOnce ==
  /\ \A r \in Requests : attempts[r] <= 1
  /\ \A r \in ToSet(beaconCh) : attempts[r] = 0
  /\ received \subseteq {r \in Requests : attempts[r] = 1 /\ pc[r] \notin {"new", "log"}}

\* Once a server is shut down without the deadline passing, no handler of it
\* is cut off by the exit: every redirect taken is answered (waitForShutdown).
ShutdownAnswers ==
  spent["crash"] + spent["overrun"] = 0 => \A r \in Requests : pc[r] # "cut"

\* The pipeline is a log that accepts each entry once and writes or loses it
\* in order.
LogSpec == INSTANCE RequestLog WITH pending <- batch \o logCh
ImplementsRequestLog == LogSpec!LSpec

\* A redirect is answered whatever the database and the beacon endpoint do:
\* only the handler's own steps are needed (DECISIONS.md, "Redirect latency is
\* never impacted").
RequestsAnswered == \A r \in Requests : InHandler(r) ~> pc[r] \in {"answered", "cut"}

\* What the channel accepted is in the table in the end, even if no batch ever
\* gets full, if the writer gets to run (the database answers), no insert fails
\* and the process goes on.
EntriesAreWritten ==
  WriterRuns =>
    \A r \in Requests :
      r \in ToSet(logCh) ~> \/ r \in ToSet(rows)
                            \/ spent["insert"] > 0
                            \/ main # "running"

\* What the beacon channel accepted is sent in the end, whatever became of the
\* requests before it, if the workers get to run (a request takes 2 s at most)
\* and the process goes on.
BeaconsAreSent ==
  WorkersRun =>
    \A r \in Requests : r \in ToSet(beaconCh) ~> attempts[r] > 0 \/ main # "running"
=============================================================================
