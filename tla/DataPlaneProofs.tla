--------------------------- MODULE DataPlaneProofs ---------------------------
(***************************************************************************)
(* What becomes of the record of a redirect, for any number of requests,   *)
(* workers and faults and any capacity of the channels.                    *)
(***************************************************************************)
EXTENDS DataPlane, SequenceTheorems, TLAPS

(* Sequences and the sets of their elements *)

LEMMA ToSetEmpty == ToSet(<<>>) = {}
BY DEF ToSet

LEMMA ToSetAppend ==
  ASSUME NEW S, NEW s \in Seq(S), NEW e \in S
  PROVE  ToSet(Append(s, e)) = ToSet(s) \cup {e}
<1>1. /\ Len(Append(s, e)) = Len(s) + 1 /\ Append(s, e) \in Seq(S)
      /\ \A i \in 1..Len(s) : Append(s, e)[i] = s[i]
      /\ Append(s, e)[Len(s) + 1] = e
  BY AppendProperties
<1>2. Len(s) \in Nat /\ DOMAIN s = 1..Len(s) BY LenProperties
<1>3. DOMAIN Append(s, e) = 1..(Len(s) + 1) BY <1>1, LenProperties
<1>4. \A i \in DOMAIN Append(s, e) : i \in DOMAIN s \/ i = Len(s) + 1 BY <1>2, <1>3
<1>5. Len(s) + 1 \in DOMAIN Append(s, e) /\ DOMAIN s \subseteq DOMAIN Append(s, e)
  BY <1>2, <1>3
<1> QED BY <1>1, <1>2, <1>4, <1>5 DEF ToSet

LEMMA ToSetConcat ==
  ASSUME NEW S, NEW s \in Seq(S), NEW t \in Seq(S)
  PROVE  ToSet(s \o t) = ToSet(s) \cup ToSet(t)
<1>1. /\ Len(s \o t) = Len(s) + Len(t) /\ s \o t \in Seq(S)
      /\ \A i \in 1..(Len(s) + Len(t)) :
           (s \o t)[i] = IF i <= Len(s) THEN s[i] ELSE t[i - Len(s)]
  BY ConcatProperties
<1>2. /\ Len(s) \in Nat /\ DOMAIN s = 1..Len(s)
      /\ Len(t) \in Nat /\ DOMAIN t = 1..Len(t)
  BY LenProperties
<1>3. DOMAIN (s \o t) = 1..(Len(s) + Len(t)) BY <1>1, LenProperties
<1>4. \A i \in DOMAIN (s \o t) : (s \o t)[i] \in ToSet(s) \cup ToSet(t)
  BY <1>1, <1>2, <1>3 DEF ToSet
<1>5. \A i \in DOMAIN s : i \in DOMAIN (s \o t) /\ (s \o t)[i] = s[i]
  BY <1>1, <1>2, <1>3
<1>6. \A i \in DOMAIN t : i + Len(s) \in DOMAIN (s \o t) /\ (s \o t)[i + Len(s)] = t[i]
  BY <1>1, <1>2, <1>3
<1> DEFINE u == s \o t
<1>7. ToSet(u) \subseteq ToSet(s) \cup ToSet(t) BY <1>4 DEF ToSet
<1>8. ToSet(s) \subseteq ToSet(u)
  <2> SUFFICES ASSUME NEW i \in DOMAIN s PROVE s[i] \in ToSet(u) BY DEF ToSet
  <2>1. i \in DOMAIN u /\ u[i] = s[i] BY <1>5
  <2> HIDE DEF u
  <2> QED BY <2>1 DEF ToSet
<1>9. ToSet(t) \subseteq ToSet(u)
  <2> SUFFICES ASSUME NEW i \in DOMAIN t PROVE t[i] \in ToSet(u) BY DEF ToSet
  <2>1. i + Len(s) \in DOMAIN u /\ u[i + Len(s)] = t[i] BY <1>6
  <2> HIDE DEF u
  <2> QED BY <2>1 DEF ToSet
<1> HIDE DEF u
<1> QED BY <1>7, <1>8, <1>9 DEF u

LEMMA ToSetTail ==
  ASSUME NEW S, NEW s \in Seq(S), s # <<>>
  PROVE  Head(s) \in ToSet(s) /\ ToSet(Tail(s)) \subseteq ToSet(s)
<1>1. /\ Len(s) \in Nat \ {0} /\ DOMAIN s = 1..Len(s) BY EmptySeq, LenProperties
<1>2. /\ Tail(s) \in Seq(S) /\ Len(Tail(s)) = Len(s) - 1
      /\ \A i \in 1..Len(Tail(s)) : Tail(s)[i] = s[i + 1]
  BY HeadTailProperties
<1>3. DOMAIN Tail(s) = 1..(Len(s) - 1) BY <1>2, LenProperties
<1>4. \A i \in DOMAIN Tail(s) : i + 1 \in DOMAIN s /\ Tail(s)[i] = s[i + 1]
  BY <1>1, <1>2, <1>3
<1>5. Head(s) = s[1] /\ 1 \in DOMAIN s BY <1>1
<1> QED BY <1>4, <1>5 DEF ToSet

LEMMA ToSetType ==
  ASSUME NEW S, NEW s \in Seq(S)
  PROVE  ToSet(s) \subseteq S
BY LenProperties DEF ToSet

\* Moving the head of one sequence to the end of another keeps the two in order.
LEMMA MoveHead ==
  ASSUME NEW S, NEW b \in Seq(S), NEW s \in Seq(S), s # <<>>
  PROVE  Append(b, Head(s)) \o Tail(s) = b \o s
<1>1. Head(s) \in S /\ Tail(s) \in Seq(S) BY HeadTailProperties
<1>2. <<Head(s)>> \in Seq(S) BY <1>1
<1>3. Append(b, Head(s)) = b \o <<Head(s)>> BY <1>1, AppendIsConcat
<1>4. <<Head(s)>> \o Tail(s) = s
  <2>1. Len(s) \in Nat \ {0} BY EmptySeq
  <2>2. SubSeq(s, 1, Len(s)) = s BY SubSeqFull
  <2>3. Tail(s) = SubSeq(s, 2, Len(s)) BY TailIsSubSeq
  <2>4. SubSeq(s, 1, Len(s)) = <<s[1]>> \o SubSeq(s, 2, Len(s))
    <3>1. 1 \in 1..Len(s) /\ Len(s) \in 1..Len(s) /\ 1 + 1 = 2 BY <2>1
    <3> QED BY <3>1, SubSeqRecursiveFirst
  <2> QED BY <2>2, <2>3, <2>4
<1> QED BY <1>1, <1>2, <1>3, <1>4, ConcatAssociative

-----------------------------------------------------------------------------
(* Types *)

LEMMA Constants ==
  /\ LogBuffer \in Nat \ {0} /\ BatchSize \in Nat \ {0} /\ BeaconBuffer \in Nat \ {0}
  /\ NoEntry \notin Requests
  /\ ServerOf \in [Requests -> 1..2] /\ WithBeacon \in BOOLEAN
BY PipelineAssumption, BeaconAssumption, DataPlaneAssumption

LEMMA TypeInit == Init => TypeOK
<1> SUFFICES ASSUME Init PROVE TypeOK OBVIOUS
<1>1. <<>> \in Seq(Requests) /\ Len(<<>>) = 0 BY EmptySeq
<1>2. PipeTypeOK
  <2>1. /\ logCh \in Seq(Requests) /\ batch \in Seq(Requests) /\ rows \in Seq(Requests)
        /\ Len(logCh) = 0 /\ Len(batch) = 0
    BY <1>1 DEF Init, PipeInit
  <2>2. Len(logCh) <= LogBuffer /\ Len(batch) <= BatchSize BY <2>1, Constants
  <2> QED BY <2>1, <2>2 DEF Init, PipeInit, PipeTypeOK
<1>3. BeaconTypeOK
  <2>1. beaconCh \in Seq(Requests) /\ Len(beaconCh) = 0 BY <1>1 DEF Init, BeaconInit
  <2>2. Len(beaconCh) <= BeaconBuffer BY <2>1, Constants
  <2> QED BY <2>1, <2>2 DEF Init, BeaconInit, BeaconTypeOK
<1> QED BY <1>1, <1>2, <1>3 DEF Init, TypeOK

\* A fault is counted.
LEMMA SpendType ==
  ASSUME TypeOK, NEW k \in Faults, Spend(k)
  PROVE  /\ spent' \in [Faults -> Nat]
         /\ spent'[k] > 0
         /\ \A f \in Faults : spent'[f] >= spent[f]
BY DEF TypeOK, Spend

LEMMA FlushType ==
  ASSUME TypeOK
  PROVE  rows \o batch \in Seq(Requests) /\ Outcomes \subseteq Seq(Requests)
<1>1. rows \o batch \in Seq(Requests) BY ConcatProperties DEF TypeOK, PipeTypeOK
<1> QED BY <1>1 DEF Outcomes, TypeOK, PipeTypeOK

LEMMA SendType ==
  ASSUME PipeTypeOK, NEW r \in Requests, Send(r)
  PROVE  PipeTypeOK'
<1>1. CASE Len(logCh) < LogBuffer
  <2>1. Append(logCh, r) \in Seq(Requests) /\ Len(Append(logCh, r)) = Len(logCh) + 1
    BY AppendProperties DEF PipeTypeOK
  <2>2. Len(logCh) \in Nat BY LenProperties DEF PipeTypeOK
  <2> QED BY <1>1, <2>1, <2>2, Constants DEF Send, PipeTypeOK
<1>2. CASE ~(Len(logCh) < LogBuffer)
  BY <1>2 DEF Send, PipeTypeOK
<1> QED BY <1>1, <1>2

LEMMA SendBeaconType ==
  ASSUME BeaconTypeOK, NEW r \in Requests, SendBeacon(r)
  PROVE  BeaconTypeOK'
<1>1. CASE Len(beaconCh) < BeaconBuffer
  <2>1. Append(beaconCh, r) \in Seq(Requests) /\ Len(Append(beaconCh, r)) = Len(beaconCh) + 1
    BY AppendProperties DEF BeaconTypeOK
  <2>2. Len(beaconCh) \in Nat BY LenProperties DEF BeaconTypeOK
  <2> QED BY <1>1, <2>1, <2>2, Constants DEF SendBeacon, BeaconTypeOK
<1>2. CASE ~(Len(beaconCh) < BeaconBuffer)
  BY <1>2 DEF SendBeacon, BeaconTypeOK
<1> QED BY <1>1, <1>2

\* While the writer waits for entries its batch is not full.
Filling == ~draining /\ writer = "select" => Len(batch) < BatchSize

\* Nothing is left of a process that ended.
Down ==
  main \in {"exited", "crashed"} =>
    /\ logCh = <<>> /\ batch = <<>> /\ writer = "stopped"
    /\ beaconCh = <<>> /\ alive = {} /\ \A w \in Workers : sending[w] = NoEntry
    /\ \A r \in Requests : ~InHandler(r)

TypeInv == TypeOK /\ Filling /\ Down

LEMMA WriterType ==
  ASSUME TypeOK, Filling, WriterStep \/ InsertFails
  PROVE  PipeTypeOK' /\ Filling'
<1> USE DEF TypeOK
<1>1. CASE Receive
  <2>1. /\ Head(logCh) \in Requests /\ Tail(logCh) \in Seq(Requests)
        /\ Len(Tail(logCh)) = Len(logCh) - 1 /\ Len(logCh) \in Nat
    BY <1>1, HeadTailProperties, LenProperties DEF Receive, PipeTypeOK
  <2>2. batch \in Seq(Requests) /\ batch' = Append(batch, Head(logCh))
    BY <1>1 DEF Receive, PipeTypeOK
  <2>3. /\ batch' \in Seq(Requests) /\ batch' # <<>> /\ Len(batch') = Len(batch) + 1
        /\ Len(batch) \in Nat
    <3> DEFINE e == Head(logCh)
    <3>1. /\ Append(batch, e) \in Seq(Requests) /\ Append(batch, e) # <<>>
          /\ Len(Append(batch, e)) = Len(batch) + 1
      <4> HIDE DEF e
      <4>1. e \in Requests BY <2>1 DEF e
      <4> QED BY <2>2, <4>1, AppendProperties
    <3>2. Len(batch) \in Nat BY <2>2, LenProperties
    <3> QED BY <2>2, <3>1, <3>2
  <2>4. ~draining => Len(batch') <= BatchSize
    BY <1>1, <2>3, Constants DEF Receive, Filling
  <2>5. Len(logCh') <= LogBuffer
    BY <1>1, <2>1, Constants DEF Receive, PipeTypeOK
  <2>6. Filling' BY <1>1, <2>3, Constants DEF Receive, Filling
  <2>7. PipeTypeOK'
    BY <1>1, <2>1, <2>3, <2>4, <2>5 DEF Receive, PipeTypeOK
  <2> QED BY <2>6, <2>7
<1>2. CASE FlushTick BY <1>2 DEF FlushTick, PipeTypeOK, Filling
<1>3. CASE StartDrain BY <1>3 DEF StartDrain, PipeTypeOK, Filling
<1>4. CASE EndDrain BY <1>4 DEF EndDrain, PipeTypeOK, Filling
<1>5. CASE BeginInsert BY <1>5 DEF BeginInsert, PipeTypeOK, Filling
<1>6. CASE Commit \/ InsertFails
  <2>1. batch' = <<>> /\ rows' \in Seq(Requests) /\ writer' \in {"select", "stopped"}
    BY <1>6, FlushType DEF Commit, InsertFails, AfterFlush, Outcomes
  <2>2. batch' \in Seq(Requests) /\ Len(batch') = 0 BY <2>1, EmptySeq
  <2>3. Len(batch') < BatchSize BY <2>2, Constants
  <2>4. UNCHANGED <<logCh, draining, done, dbOpen>> BY <1>6 DEF Commit, InsertFails
  <2> QED BY <2>1, <2>2, <2>3, <2>4, Constants DEF PipeTypeOK, Filling
<1> QED BY <1>1, <1>2, <1>3, <1>4, <1>5, <1>6 DEF WriterStep, InsertRefused

LEMMA WorkerType ==
  ASSUME TypeOK, NEW w \in Workers, WorkerStep(w) \/ SendFails(w)
  PROVE  BeaconTypeOK'
<1> USE DEF TypeOK
<1>1. CASE Take(w)
  <2>1. /\ Head(beaconCh) \in Requests /\ Tail(beaconCh) \in Seq(Requests)
        /\ Len(Tail(beaconCh)) = Len(beaconCh) - 1 /\ Len(beaconCh) \in Nat
    BY <1>1, HeadTailProperties, LenProperties DEF Take, BeaconTypeOK
  <2>2. Len(beaconCh') <= BeaconBuffer
    BY <1>1, <2>1, Constants DEF Take, BeaconTypeOK
  <2> QED BY <1>1, <2>1, <2>2 DEF Take, BeaconTypeOK
<1>2. CASE Deliver(w) BY <1>2 DEF Deliver, BeaconTypeOK
<1>3. CASE SendFails(w) BY <1>3 DEF SendFails, BeaconTypeOK
<1>4. CASE WorkerReturns(w) BY <1>4 DEF WorkerReturns, BeaconTypeOK
<1> QED BY <1>1, <1>2, <1>3, <1>4 DEF WorkerStep

\* When the process ends the channels are empty and nobody is at work.
LEMMA EndType ==
  ASSUME TypeOK, ProcessEnds
  PROVE  /\ PipeTypeOK' /\ BeaconTypeOK' /\ Filling'
         /\ pc' \in [Requests -> {"new", "log", "beacon", "answer", "answered", "cut"}]
         /\ logCh' = <<>> /\ batch' = <<>> /\ writer' = "stopped"
         /\ beaconCh' = <<>> /\ alive' = {} /\ \A w \in Workers : sending'[w] = NoEntry
         /\ \A r \in Requests : ~InHandler(r)'
<1>1. <<>> \in Seq(Requests) /\ Len(<<>>) = 0 BY EmptySeq
<1>2. PipeTypeOK' /\ Filling'
  <2>1. logCh' = <<>> /\ batch' = <<>> /\ writer' = "stopped" /\ rows' \in Seq(Requests)
    BY FlushType DEF ProcessEnds, PipeEnds
  <2>2. Len(logCh') <= LogBuffer /\ Len(batch') <= BatchSize
    BY <1>1, <2>1, Constants
  <2>3. UNCHANGED <<draining, done, dbOpen>> BY DEF ProcessEnds, PipeEnds
  <2> QED BY <1>1, <2>1, <2>2, <2>3 DEF PipeTypeOK, TypeOK, Filling
<1>3. BeaconTypeOK'
  <2>1. /\ beaconCh' = <<>> /\ sending' = [w \in Workers |-> NoEntry] /\ alive' = {}
        /\ UNCHANGED <<beaconDone, attempts>>
    BY DEF ProcessEnds, BeaconEnds
  <2>2. received' \subseteq Requests
    BY DEF ProcessEnds, BeaconEnds, TypeOK, BeaconTypeOK
  <2>3. Len(beaconCh') <= BeaconBuffer BY <1>1, <2>1, Constants
  <2> QED BY <1>1, <2>1, <2>2, <2>3 DEF TypeOK, BeaconTypeOK
<1>4. /\ pc' \in [Requests -> {"new", "log", "beacon", "answer", "answered", "cut"}]
      /\ \A r \in Requests : ~InHandler(r)'
  BY DEF ProcessEnds, TypeOK, InHandler
<1> QED BY <1>2, <1>3, <1>4 DEF ProcessEnds, PipeEnds, BeaconEnds

\* The steps, spelled out.
LEMMA Steps ==
  ASSUME [Next]_vars
  PROVE  \/ \E r \in Requests : Arrive(r) \/ OfferLog(r) \/ OfferBeacon(r) \/ Answer(r)
         \/ Write \/ LoseBatch
         \/ \E w \in Workers : Work(w) \/ LoseBeacon(w)
         \/ Signal \/ ServerIsDown \/ ServerIsLeft \/ Defers \/ Exit \/ Crash \/ Restart
         \/ UNCHANGED vars
BY DEF Next, Handle, Halted

LEMMA TypeInvariant == TypeInv /\ [Next]_vars => TypeInv'
<1> SUFFICES ASSUME TypeInv, [Next]_vars PROVE TypeInv'
  OBVIOUS
<1> USE DEF TypeInv
<1>1. ASSUME NEW r \in Requests, Arrive(r) PROVE TypeInv'
  <2>1. UNCHANGED <<pipeVars, beaconVars, main, closed, spent, accepted>> BY <1>1 DEF Arrive
  <2>2. PipeTypeOK' /\ Filling' /\ BeaconTypeOK'
    BY <2>1 DEF pipeVars, beaconVars, TypeOK, PipeTypeOK, BeaconTypeOK, Filling
  <2>3. main' \notin {"exited", "crashed"} BY <1>1, <2>1 DEF Arrive, Up
  <2>4. pc' \in [Requests -> {"new", "log", "beacon", "answer", "answered", "cut"}]
    BY <1>1 DEF Arrive, TypeOK
  <2> QED BY <2>1, <2>2, <2>3, <2>4 DEF TypeOK, Down
<1>2. ASSUME NEW r \in Requests, OfferLog(r) PROVE TypeInv'
  <2>1. UNCHANGED <<beaconVars, main, closed, spent>> /\ Send(r) BY <1>2 DEF OfferLog
  <2>2. PipeTypeOK' BY <2>1, SendType DEF TypeOK
  <2>3. Filling' BY <2>1 DEF Send, Filling
  <2>4. BeaconTypeOK' BY <2>1 DEF beaconVars, TypeOK, BeaconTypeOK
  <2>5. accepted' \in Seq(Requests) BY <1>2, AppendProperties DEF OfferLog, TypeOK
  <2>6. pc' \in [Requests -> {"new", "log", "beacon", "answer", "answered", "cut"}]
    BY <1>2 DEF OfferLog, TypeOK
  <2>7. main' \notin {"exited", "crashed"} BY <1>2, <2>1 DEF OfferLog, InHandler, Down
  <2> QED BY <2>1, <2>2, <2>3, <2>4, <2>5, <2>6, <2>7 DEF TypeOK, Down
<1>3. ASSUME NEW r \in Requests, OfferBeacon(r) PROVE TypeInv'
  <2>1. UNCHANGED <<pipeVars, main, closed, spent, accepted>> /\ SendBeacon(r)
    BY <1>3 DEF OfferBeacon
  <2>2. PipeTypeOK' /\ Filling' BY <2>1 DEF pipeVars, TypeOK, PipeTypeOK, Filling
  <2>3. BeaconTypeOK' BY <2>1, SendBeaconType DEF TypeOK
  <2>4. pc' \in [Requests -> {"new", "log", "beacon", "answer", "answered", "cut"}]
    BY <1>3 DEF OfferBeacon, TypeOK
  <2>5. main' \notin {"exited", "crashed"} BY <1>3, <2>1 DEF OfferBeacon, InHandler, Down
  <2> QED BY <2>1, <2>2, <2>3, <2>4, <2>5 DEF TypeOK, Down
<1>4. ASSUME NEW r \in Requests, Answer(r) PROVE TypeInv'
  <2>1. UNCHANGED <<pipeVars, beaconVars, main, closed, spent, accepted>> BY <1>4 DEF Answer
  <2>2. PipeTypeOK' /\ Filling' /\ BeaconTypeOK'
    BY <2>1 DEF pipeVars, beaconVars, TypeOK, PipeTypeOK, BeaconTypeOK, Filling
  <2>3. main' \notin {"exited", "crashed"} BY <1>4, <2>1 DEF Answer, InHandler, Down
  <2>4. pc' \in [Requests -> {"new", "log", "beacon", "answer", "answered", "cut"}]
    BY <1>4 DEF Answer, TypeOK
  <2> QED BY <2>1, <2>2, <2>3, <2>4 DEF TypeOK, Down
<1>5. CASE Write \/ LoseBatch
  <2>1. UNCHANGED <<beaconVars, pc, main, closed, accepted>> /\ (WriterStep \/ InsertFails)
    BY <1>5 DEF Write, LoseBatch, lifeVars
  <2>2. PipeTypeOK' /\ Filling' BY <2>1, WriterType
  <2>3. BeaconTypeOK' BY <2>1 DEF beaconVars, TypeOK, BeaconTypeOK
  <2>4. spent' \in [Faults -> Nat]
    BY <1>5, SpendType DEF Write, LoseBatch, TypeOK, Faults
  <2>5. writer # "stopped"
    BY <2>1 DEF WriterStep, InsertFails, InsertRefused, Receive, FlushTick, StartDrain,
                EndDrain, BeginInsert, Commit
  <2>6. main' \notin {"exited", "crashed"} BY <2>1, <2>5 DEF Down
  <2> QED BY <2>1, <2>2, <2>3, <2>4, <2>6 DEF TypeOK, Down
<1>6. ASSUME NEW w \in Workers, Work(w) \/ LoseBeacon(w) PROVE TypeInv'
  <2>1. /\ UNCHANGED <<pipeVars, pc, main, closed, accepted>>
        /\ WorkerStep(w) \/ SendFails(w)
    BY <1>6 DEF Work, LoseBeacon, lifeVars
  <2>2. PipeTypeOK' /\ Filling' BY <2>1 DEF pipeVars, TypeOK, PipeTypeOK, Filling
  <2>3. BeaconTypeOK' BY <2>1, WorkerType
  <2>4. spent' \in [Faults -> Nat]
    BY <1>6, SpendType DEF Work, LoseBeacon, TypeOK, Faults
  <2>5. w \in alive \/ sending[w] # NoEntry
    BY <2>1 DEF WorkerStep, Take, Deliver, WorkerReturns, SendFails
  <2>6. main' \notin {"exited", "crashed"} BY <2>1, <2>5 DEF Down
  <2> QED BY <2>1, <2>2, <2>3, <2>4, <2>6 DEF TypeOK, Down
<1>7. CASE Signal \/ ServerIsDown \/ ServerIsLeft
  <2>1. /\ UNCHANGED <<pipeVars, beaconVars, pc, accepted>>
        /\ closed' \in 0..2 /\ main' \in {"shutdown", "stopBeacon"}
    BY <1>7 DEF Signal, ServerIsDown, ServerIsLeft, NextServer, TypeOK
  <2>2. PipeTypeOK' /\ Filling' /\ BeaconTypeOK'
    BY <2>1 DEF pipeVars, beaconVars, TypeOK, PipeTypeOK, BeaconTypeOK, Filling
  <2>3. spent' \in [Faults -> Nat]
    BY <1>7, SpendType DEF Signal, ServerIsDown, ServerIsLeft, TypeOK, Faults
  <2> QED BY <2>1, <2>2, <2>3 DEF TypeOK, Down
<1>8. CASE Defers
  <2>1. /\ UNCHANGED <<pc, closed, spent, accepted>>
        /\ main' \in {"stopPipeline", "closeDB", "exit"}
        /\ UNCHANGED <<logCh, batch, writer, draining, rows, beaconCh, sending, alive,
                       attempts, received>>
        /\ done' \in BOOLEAN /\ dbOpen' \in BOOLEAN /\ beaconDone' \in BOOLEAN
        /\ done => done'
    BY <1>8 DEF Defers, StopBeacon, StopPipeline, CloseDB, pipeVars, beaconVars, TypeOK,
                PipeTypeOK, BeaconTypeOK
  <2>2. PipeTypeOK' /\ Filling' /\ BeaconTypeOK'
    BY <2>1 DEF TypeOK, PipeTypeOK, BeaconTypeOK, Filling
  <2> QED BY <2>1, <2>2 DEF TypeOK, Down
<1>9. CASE Exit \/ Crash
  <2>1. /\ ProcessEnds /\ main' \in {"exited", "crashed"} /\ UNCHANGED <<closed, accepted>>
    BY <1>9 DEF Exit, Crash, ProcessEnds
  <2>2. spent' \in [Faults -> Nat] BY <1>9, SpendType DEF Exit, Crash, TypeOK, Faults
  <2> QED BY <2>1, <2>2, EndType DEF TypeOK, Down
<1>10. CASE Restart
  <2>1. /\ batch = <<>> /\ Len(batch) = 0 /\ UNCHANGED <<logCh, batch, rows>>
        /\ writer' = "select" /\ draining' = FALSE /\ done' = FALSE /\ dbOpen' = TRUE
    BY <1>10, EmptySeq DEF Restart, PipeStarts, Down
  <2>2. Len(batch') < BatchSize /\ Len(batch') <= BatchSize BY <2>1, Constants
  <2>3. PipeTypeOK' /\ Filling'
    BY <2>1, <2>2 DEF PipeTypeOK, TypeOK, Filling
  <2>4. BeaconTypeOK' BY <1>10 DEF Restart, BeaconStarts, BeaconTypeOK, TypeOK
  <2>5. main' = "running" /\ closed' = 0 /\ UNCHANGED <<pc, spent, accepted>>
    BY <1>10 DEF Restart
  <2> QED BY <2>3, <2>4, <2>5 DEF TypeOK, Down
<1>11. CASE UNCHANGED vars
  BY <1>11 DEF vars, pipeVars, beaconVars, lifeVars, TypeOK, PipeTypeOK, BeaconTypeOK,
               Filling, Down, InHandler
<1> QED BY <1>1, <1>2, <1>3, <1>4, <1>5, <1>6, <1>7, <1>8, <1>9, <1>10, <1>11, Steps

LEMMA TypeInvInit == Init => TypeInv
<1>1. ASSUME Init PROVE Len(batch) < BatchSize
  <2>1. Len(batch) = 0 BY <1>1, EmptySeq DEF Init, PipeInit
  <2> QED BY <2>1, Constants
<1> QED BY <1>1, TypeInit DEF Init, TypeInv, Filling, Down

LEMMA TypeInvAlways == Spec => []TypeInv
BY TypeInvInit, TypeInvariant, PTL DEF Spec

\* The channels stay within their capacities, batches within their size until
\* the writer drains, and every other part of the state keeps its type.
THEOREM TypeCorrect == Spec => []TypeOK
BY TypeInvAlways, PTL DEF TypeInv

-----------------------------------------------------------------------------
(* The analytics pipeline.  What a step does to the table, the batch and   *)
(* the channel is one of four things.                                      *)

\* A redirect that has not been offered to the log is nowhere in it.
Fresh ==
  \A r \in Requests : pc[r] \in {"new", "log"} =>
                        r \notin ToSet(rows) \cup ToSet(batch) \cup ToSet(logCh)

Crashed == main = "crashed" => spent["crash"] > 0

\* No entry was lost so far.
Sound == spent["insert"] + spent["crash"] = 0 /\ dbOpen /\ main # "exited"

LogInv == TypeInv /\ Fresh /\ Crashed /\ NothingMislaid

Accepts(r) ==
  /\ pc[r] = "log" /\ pc'[r] \notin {"new", "log"}
  /\ logCh' = Append(logCh, r) /\ accepted' = Append(accepted, r)
  /\ UNCHANGED <<rows, batch>>

Moves ==
  /\ batch' \o logCh' = batch \o logCh
  /\ ToSet(batch') \cup ToSet(logCh') \subseteq ToSet(batch) \cup ToSet(logCh)
  /\ UNCHANGED <<rows, accepted>>

Flushes ==
  /\ batch # <<>> /\ rows' \in {rows, rows \o batch} /\ batch' = <<>>
  /\ Sound' => rows' = rows \o batch
  /\ UNCHANGED <<logCh, accepted>>

Ends ==
  /\ rows' \in {rows, rows \o batch} /\ batch' = <<>> /\ logCh' = <<>>
  /\ ~Sound'
  /\ UNCHANGED accepted

LogStep == (\E r \in Requests : Accepts(r)) \/ Moves \/ Flushes \/ Ends

\* The handlers go forward and faults stay counted.
Onward ==
  /\ \A r \in Requests : pc'[r] \in {"new", "log"} => pc[r] \in {"new", "log"}
  /\ Sound' => Sound
  /\ Crashed'

LEMMA OfferLogStep ==
  ASSUME TypeInv, Fresh, Crashed, NEW r \in Requests, OfferLog(r)
  PROVE  (Accepts(r) \/ Moves) /\ Onward
<1>1. /\ pc[r] = "log" /\ pc' = [pc EXCEPT ![r] = IF WithBeacon THEN "beacon" ELSE "answer"]
      /\ UNCHANGED <<rows, batch, dbOpen, main, spent>>
  BY DEF OfferLog, Send, lifeVars
<1>2. Onward BY <1>1 DEF Onward, Sound, Crashed, TypeInv, TypeOK
<1>3. pc'[r] \notin {"new", "log"} BY <1>1 DEF TypeInv, TypeOK
<1>4. CASE Len(logCh) < LogBuffer
  <2>1. logCh' = Append(logCh, r) BY <1>4 DEF OfferLog, Send
  <2>2. r \in ToSet(logCh')
    BY <2>1, ToSetAppend DEF TypeInv, TypeOK, PipeTypeOK
  <2>3. accepted' = Append(accepted, r) BY <2>2 DEF OfferLog
  <2> QED BY <1>1, <1>2, <1>3, <2>1, <2>3 DEF Accepts
<1>5. CASE ~(Len(logCh) < LogBuffer)
  <2>1. logCh' = logCh BY <1>5 DEF OfferLog, Send
  <2>2. r \notin ToSet(logCh') BY <1>1, <2>1 DEF Fresh
  <2>3. accepted' = accepted BY <2>2 DEF OfferLog
  <2> QED BY <1>1, <1>2, <2>1, <2>3 DEF Moves
<1> QED BY <1>4, <1>5

LEMMA ReceiveStep == ASSUME TypeInv, Receive, UNCHANGED accepted PROVE Moves
<1>1. /\ logCh \in Seq(Requests) /\ logCh # <<>> /\ batch \in Seq(Requests)
      /\ batch' = Append(batch, Head(logCh)) /\ logCh' = Tail(logCh) /\ rows' = rows
  BY DEF Receive, TypeInv, TypeOK, PipeTypeOK
<1>2. batch' \o logCh' = batch \o logCh BY <1>1, MoveHead
<1>3. Head(logCh) \in Requests BY <1>1, HeadTailProperties
<1>4. Head(logCh) \in ToSet(logCh) /\ ToSet(Tail(logCh)) \subseteq ToSet(logCh)
  BY <1>1, ToSetTail
<1>5. ToSet(batch') = ToSet(batch) \cup {Head(logCh)}
  <2> DEFINE e == Head(logCh)
  <2>1. ToSet(Append(batch, e)) = ToSet(batch) \cup {e}
    <3> HIDE DEF e
    <3>1. e \in Requests BY <1>3 DEF e
    <3> QED BY <1>1, <3>1, ToSetAppend
  <2> QED BY <1>1, <2>1
<1> QED BY <1>1, <1>2, <1>4, <1>5 DEF Moves

LEMMA WriteStep ==
  ASSUME TypeInv, Crashed, Write \/ LoseBatch
  PROVE  (Moves \/ Flushes) /\ Onward
<1>1. UNCHANGED <<pc, main, dbOpen, accepted>> /\ (WriterStep \/ InsertFails)
  BY DEF Write, LoseBatch, lifeVars, WriterStep, InsertFails, InsertRefused, Receive,
         FlushTick, StartDrain, EndDrain, BeginInsert, Commit
<1>2. \A f \in Faults : spent'[f] \in Nat /\ spent'[f] >= spent[f] /\ spent[f] \in Nat
  BY SpendType DEF Write, LoseBatch, TypeInv, TypeOK, Faults
<1>3. LoseBatch => spent'["insert"] > 0
  BY SpendType DEF LoseBatch, TypeInv, Faults
<1>4. Onward BY <1>1, <1>2 DEF Onward, Sound, Crashed, Faults
<1>5. CASE LoseBatch \/ InsertRefused
  <2>1. /\ batch # <<>> /\ rows' \in {rows, rows \o batch} /\ batch' = <<>>
        /\ UNCHANGED logCh
    BY <1>5 DEF LoseBatch, InsertRefused, InsertFails, Outcomes, TypeInv, TypeOK, PipeTypeOK
  <2>2. ~Sound'
    BY <1>1, <1>2, <1>3, <1>5 DEF InsertRefused, Sound, Faults
  <2> QED BY <1>1, <1>4, <2>1, <2>2 DEF Flushes
<1>6. CASE WriterStep /\ ~InsertRefused
  <2>1. CASE Receive BY <1>1, <1>4, <2>1, ReceiveStep
  <2>2. CASE Commit
    BY <1>1, <1>4, <2>2 DEF Commit, Flushes, TypeInv, TypeOK, PipeTypeOK
  <2>3. CASE FlushTick \/ StartDrain \/ EndDrain \/ BeginInsert
    BY <1>1, <1>4, <2>3 DEF FlushTick, StartDrain, EndDrain, BeginInsert, Moves
  <2> QED BY <1>6, <2>1, <2>2, <2>3 DEF WriterStep
<1> QED BY <1>5, <1>6 DEF Write

LEMMA EndStep ==
  ASSUME TypeInv, Exit \/ Crash
  PROVE  Ends /\ Onward
<1>1. /\ rows' \in {rows, rows \o batch} /\ batch' = <<>> /\ logCh' = <<>>
      /\ UNCHANGED accepted /\ main' \in {"exited", "crashed"}
      /\ pc' = [r \in Requests |-> IF InHandler(r) THEN "cut" ELSE pc[r]]
  BY DEF Exit, Crash, ProcessEnds, PipeEnds, Outcomes
<1>2. spent' \in [Faults -> Nat]
  BY SpendType DEF Exit, Crash, TypeInv, TypeOK, Faults
<1>3. ~Sound' /\ Crashed'
  <2>1. spent'["insert"] \in Nat /\ spent'["crash"] \in Nat BY <1>2 DEF Faults
  <2>2. CASE Exit BY <2>2 DEF Exit, Sound, Crashed
  <2>3. CASE Crash
    <3>1. spent'["crash"] > 0 BY <2>3, SpendType DEF Crash, TypeInv, Faults
    <3> QED BY <2>1, <3>1 DEF Sound, Crashed
  <2> QED BY <2>2, <2>3
<1>4. \A r \in Requests : pc'[r] \in {"new", "log"} => pc[r] \in {"new", "log"}
  BY <1>1 DEF InHandler
<1> QED BY <1>1, <1>3, <1>4 DEF Ends, Onward

\* Every step of the data node does one of the four to the log.
LEMMA LogSteps ==
  ASSUME TypeInv, Fresh, Crashed, [Next]_vars
  PROVE  LogStep /\ Onward
<1>1. ASSUME UNCHANGED <<rows, batch, logCh, accepted>> PROVE Moves
  BY <1>1 DEF Moves
<1>2. ASSUME NEW r \in Requests, Arrive(r) \/ OfferBeacon(r) \/ Answer(r)
      PROVE  Moves /\ Onward
  BY <1>1, <1>2 DEF Arrive, OfferBeacon, Answer, pipeVars, Onward, Sound, Crashed, TypeInv,
                    TypeOK
<1>3. ASSUME NEW w \in Workers, Work(w) \/ LoseBeacon(w) PROVE Moves /\ Onward
  <2>1. UNCHANGED <<rows, batch, logCh, accepted, pc, main, dbOpen>>
    BY <1>3 DEF Work, LoseBeacon, pipeVars, lifeVars
  <2>2. \A f \in Faults : spent'[f] \in Nat /\ spent'[f] >= spent[f] /\ spent[f] \in Nat
    BY <1>3, SpendType DEF Work, LoseBeacon, TypeInv, TypeOK, Faults
  <2> QED BY <1>1, <2>1, <2>2 DEF Onward, Sound, Crashed, Faults
<1>4. CASE Signal \/ ServerIsDown \/ ServerIsLeft
  <2>1. /\ UNCHANGED <<rows, batch, logCh, accepted, pc, dbOpen>>
        /\ main # "exited" /\ main' # "crashed"
    BY <1>4 DEF Signal, ServerIsDown, ServerIsLeft, NextServer, pipeVars
  <2>2. \A f \in Faults : spent'[f] \in Nat /\ spent'[f] >= spent[f] /\ spent[f] \in Nat
    BY <1>4, SpendType DEF Signal, ServerIsDown, ServerIsLeft, TypeInv, TypeOK, Faults
  <2> QED BY <1>1, <2>1, <2>2 DEF LogStep, Onward, Sound, Crashed, Faults
<1>5. CASE Defers
  BY <1>1, <1>5 DEF Defers, StopBeacon, StopPipeline, CloseDB, pipeVars, beaconVars,
                    LogStep, Onward, Sound, Crashed
<1>6. CASE Restart
  <2>1. /\ UNCHANGED <<rows, batch, logCh, accepted, pc, spent>>
        /\ main = "crashed" /\ main' = "running"
    BY <1>6 DEF Restart, PipeStarts
  <2>2. spent["crash"] > 0 /\ spent["insert"] \in Nat /\ spent["crash"] \in Nat
    BY <2>1 DEF Crashed, TypeInv, TypeOK, Faults
  <2> QED BY <1>1, <2>1, <2>2 DEF LogStep, Onward, Sound, Crashed
<1>7. CASE UNCHANGED vars
  BY <1>1, <1>7 DEF vars, pipeVars, lifeVars, LogStep, Onward, Sound, Crashed
<1> QED BY <1>2, <1>3, <1>4, <1>5, <1>6, <1>7, OfferLogStep, WriteStep, EndStep, Steps
      DEF LogStep

LEMMA FreshKept ==
  ASSUME TypeInv, Fresh, Crashed, [Next]_vars PROVE Fresh'
<1>1. LogStep /\ Onward BY LogSteps
<1>2. SUFFICES ASSUME NEW r \in Requests, pc'[r] \in {"new", "log"}
               PROVE  r \notin ToSet(rows') \cup ToSet(batch') \cup ToSet(logCh')
  BY DEF Fresh
<1>3. r \notin ToSet(rows) \cup ToSet(batch) \cup ToSet(logCh)
  BY <1>1, <1>2 DEF Fresh, Onward
<1>4. rows \in Seq(Requests) /\ batch \in Seq(Requests) /\ logCh \in Seq(Requests)
  BY DEF TypeInv, TypeOK, PipeTypeOK
<1>5. r \notin ToSet(rows \o batch) BY <1>3, <1>4, ToSetConcat
<1>6. ASSUME NEW q \in Requests, Accepts(q)
      PROVE  r \notin ToSet(rows') \cup ToSet(batch') \cup ToSet(logCh')
  <2>1. q # r BY <1>2, <1>6 DEF Accepts
  <2>2. ToSet(logCh') = ToSet(logCh) \cup {q} BY <1>4, <1>6, ToSetAppend DEF Accepts
  <2> QED BY <1>3, <1>6, <2>1, <2>2 DEF Accepts
<1>7. CASE Moves BY <1>3, <1>7 DEF Moves
<1>8. CASE Flushes BY <1>3, <1>5, <1>8, ToSetEmpty DEF Flushes
<1>9. CASE Ends BY <1>3, <1>5, <1>9, ToSetEmpty DEF Ends
<1> QED BY <1>1, <1>6, <1>7, <1>8, <1>9 DEF LogStep

LEMMA NothingMislaidKept ==
  ASSUME LogInv, [Next]_vars PROVE NothingMislaid'
<1> USE DEF LogInv
<1>1. LogStep /\ Onward BY LogSteps
<1>2. SUFFICES ASSUME Sound' PROVE accepted' = rows' \o batch' \o logCh'
  BY DEF NothingMislaid, Sound
<1>3. accepted = rows \o batch \o logCh
  BY <1>1, <1>2 DEF NothingMislaid, Sound, Onward
<1>4. rows \in Seq(Requests) /\ batch \in Seq(Requests) /\ logCh \in Seq(Requests)
  BY DEF TypeInv, TypeOK, PipeTypeOK
<1>5. TypeOK' BY TypeInvariant DEF TypeInv
<1>6. batch' \in Seq(Requests) /\ logCh' \in Seq(Requests) BY <1>5 DEF TypeOK, PipeTypeOK
<1> DEFINE written == rows \o batch
<1>7. written \in Seq(Requests) BY <1>4, ConcatProperties
<1>8. ASSUME NEW q \in Requests, Accepts(q) PROVE accepted' = rows' \o batch' \o logCh'
  <2>1. <<q>> \in Seq(Requests) OBVIOUS
  <2>2. rows \o batch \o logCh \in Seq(Requests) BY <1>4, <1>7, ConcatProperties
  <2>3. Append(logCh, q) = logCh \o <<q>> BY <1>4, AppendIsConcat
  <2>4. Append(rows \o batch \o logCh, q) = (rows \o batch \o logCh) \o <<q>>
    BY <2>2, AppendIsConcat
  <2>5. (rows \o batch \o logCh) \o <<q>> = (rows \o batch) \o (logCh \o <<q>>)
    <3>1. logCh \in Seq(Requests) BY <1>4
    <3> HIDE DEF written
    <3>2. (written \o logCh) \o <<q>> = written \o (logCh \o <<q>>)
      BY <1>7, <2>1, <3>1, ConcatAssociative
    <3> QED BY <3>2 DEF written
  <2> QED BY <1>3, <1>8, <2>3, <2>4, <2>5 DEF Accepts
<1>9. CASE Moves
  <2>1. rows \o (batch \o logCh) = rows \o (batch' \o logCh') BY <1>9 DEF Moves
  <2>2. (rows \o batch) \o logCh = rows \o (batch \o logCh) BY <1>4, ConcatAssociative
  <2>3. (rows \o batch') \o logCh' = rows \o (batch' \o logCh')
    <3>1. rows \in Seq(Requests) BY <1>4
    <3> QED BY <1>6, <3>1, ConcatAssociative
  <2> QED BY <1>3, <1>9, <2>1, <2>2, <2>3 DEF Moves
<1>10. CASE Flushes
  <2>1. rows' = rows \o batch /\ batch' = <<>> /\ logCh' = logCh
    BY <1>2, <1>10 DEF Flushes
  <2>2. (rows \o batch) \o <<>> = rows \o batch BY <1>7, ConcatEmptySeq
  <2> QED BY <1>3, <1>10, <2>1, <2>2 DEF Flushes
<1>11. CASE Ends BY <1>2, <1>11 DEF Ends
<1> QED BY <1>1, <1>8, <1>9, <1>10, <1>11 DEF LogStep

LEMMA LogInvariant == Spec => []LogInv
<1>1. Init => LogInv
  <2> SUFFICES ASSUME Init PROVE LogInv OBVIOUS
  <2>1. TypeInv BY TypeInvInit
  <2>2. rows = <<>> /\ batch = <<>> /\ logCh = <<>> /\ accepted = <<>> /\ main = "running"
    BY DEF Init, PipeInit
  <2>3. Fresh BY <2>2, ToSetEmpty DEF Fresh
  <2>4. <<>> \o <<>> \o <<>> = <<>> BY EmptySeq, ConcatEmptySeq
  <2> QED BY <2>1, <2>2, <2>3, <2>4 DEF LogInv, Crashed, NothingMislaid
<1>2. LogInv /\ [Next]_vars => LogInv'
  <2> SUFFICES ASSUME LogInv, [Next]_vars PROVE LogInv' OBVIOUS
  <2>1. Onward BY LogSteps DEF LogInv
  <2> QED BY <2>1, TypeInvariant, FreshKept, NothingMislaidKept DEF LogInv, Onward
<1> QED BY <1>1, <1>2, PTL DEF Spec

\* Until an insert fails or the process goes down, every entry the channel
\* accepted is in the table, the batch or the channel, in order.
THEOREM NothingMislaidAlways == Spec => []NothingMislaid
BY LogInvariant, PTL DEF LogInv

-----------------------------------------------------------------------------
(* The pipeline implements RequestLog, of whose pending entries the oldest *)
(* are in the batch and the others in the channel.                         *)

LEMMA SplitConcat ==
  ASSUME NEW S, NEW b \in Seq(S), NEW c \in Seq(S)
  PROVE  /\ SubSeq(b \o c, 1, Len(b)) = b
         /\ SubSeq(b \o c, Len(b) + 1, Len(b \o c)) = c
<1>1. /\ Len(b) \in Nat /\ Len(c) \in Nat /\ Len(b \o c) = Len(b) + Len(c)
      /\ b \o c \in Seq(S)
  BY LenProperties, ConcatProperties
<1>2. SubSeq(b \o c, 1, Len(b)) = b
  <2>1. CASE b = <<>>
    <3>1. Len(b) = 0 BY <2>1, EmptySeq
    <3>2. SubSeq(b \o c, 1, 0) = <<>> BY SubSeqEmpty
    <3> QED BY <2>1, <3>1, <3>2
  <2>2. CASE b # <<>>
    <3>1. 1 \in 1..Len(b) /\ Len(b) \in 1..Len(b) BY <1>1, <2>2, EmptySeq
    <3>2. SubSeq(b \o c, 1, Len(b)) = SubSeq(b, 1, Len(b)) BY <3>1, SubSeqOfConcat1
    <3> QED BY <3>2, SubSeqFull
  <2> QED BY <2>1, <2>2
<1>3. SubSeq(b \o c, Len(b) + 1, Len(b) + Len(c)) = c
  <2>1. CASE c = <<>>
    <3>1. Len(c) = 0 BY <2>1, EmptySeq
    <3>2. Len(b) + 1 \in Int /\ Len(b) + Len(c) \in Int /\ Len(b) + Len(c) < Len(b) + 1
      BY <1>1, <3>1
    <3> QED BY <2>1, <3>2, SubSeqEmpty
  <2>2. CASE c # <<>>
    <3> DEFINE m == Len(b) + 1
               n == Len(b) + Len(c)
    <3>1. /\ m \in Len(b) + 1 .. Len(b) + Len(c) /\ n \in Len(b) + 1 .. Len(b) + Len(c)
          /\ m - Len(b) = 1 /\ n - Len(b) = Len(c)
      BY <1>1, <2>2, EmptySeq
    <3> HIDE DEF m, n
    <3>2. SubSeq(b \o c, m, n) = SubSeq(c, m - Len(b), n - Len(b)) BY <3>1, SubSeqOfConcat2
    <3>3. SubSeq(b \o c, m, n) = c BY <3>1, <3>2, SubSeqFull
    <3> QED BY <3>3 DEF m, n
  <2> QED BY <2>1, <2>2
<1> QED BY <1>1, <1>2, <1>3

LEMMA ImplementsInit == Init => LogSpec!LInit
<1>1. <<>> \o <<>> = <<>> BY EmptySeq, ConcatEmptySeq
<1> QED BY <1>1 DEF Init, PipeInit, LogSpec!LInit

LEMMA ImplementsStep ==
  LogInv /\ [Next]_vars => [LogSpec!LNext]_(LogSpec!lvars)
<1> SUFFICES ASSUME LogInv, [Next]_vars PROVE [LogSpec!LNext]_(LogSpec!lvars)
  OBVIOUS
<1> DEFINE pending == batch \o logCh
<1>1. LogStep /\ Onward BY LogSteps DEF LogInv
<1>2. rows \in Seq(Requests) /\ batch \in Seq(Requests) /\ logCh \in Seq(Requests)
  BY DEF LogInv, TypeInv, TypeOK, PipeTypeOK
<1>3. /\ pending \in Seq(Requests) /\ Len(pending) = Len(batch) + Len(logCh)
      /\ Len(batch) \in Nat /\ Len(logCh) \in Nat
  BY <1>2, ConcatProperties, LenProperties
<1>4. ASSUME NEW r \in Requests, Accepts(r) PROVE LogSpec!Accept(r)
  <2>1. r \notin ToSet(rows) \cup ToSet(pending)
    BY <1>2, <1>4, ToSetConcat DEF Accepts, LogInv, Fresh
  <2>2. batch' \o logCh' = Append(pending, r)
    <3>1. <<r>> \in Seq(Requests) OBVIOUS
    <3>2. Append(logCh, r) = logCh \o <<r>> BY <1>2, AppendIsConcat
    <3>3. Append(pending, r) = pending \o <<r>>
      <4> HIDE DEF pending
      <4> QED BY <1>3, AppendIsConcat
    <3>4. (batch \o logCh) \o <<r>> = batch \o (logCh \o <<r>>)
      BY <1>2, <3>1, ConcatAssociative
    <3> QED BY <1>4, <3>2, <3>3, <3>4 DEF Accepts
  <2> QED BY <1>4, <2>1, <2>2 DEF LogSpec!Accept, LogSpec!ToSet, ToSet, Accepts
<1>5. CASE Moves BY <1>5 DEF Moves, LogSpec!lvars
<1>6. SubSeq(pending, 1, 0) = <<>> /\ rows \o <<>> = rows
  BY <1>2, SubSeqEmpty, ConcatEmptySeq
<1>7. CASE Flushes
  <2>1. Len(batch) \in 1..Len(pending)
    BY <1>2, <1>3, <1>7, EmptySeq DEF Flushes
  <2>2. SubSeq(pending, 1, Len(batch)) = batch
        /\ SubSeq(pending, Len(batch) + 1, Len(pending)) = logCh
    BY <1>2, SplitConcat
  <2>3. batch' \o logCh' = logCh BY <1>2, <1>7, ConcatEmptySeq DEF Flushes
  <2>4. PICK written \in {0, Len(batch)} : rows' = rows \o SubSeq(pending, 1, written)
    BY <1>6, <1>7, <2>2 DEF Flushes
  <2>5. written \in 0..Len(batch) BY <1>3
  <2>6. LogSpec!Settle(written, Len(batch)) BY <2>2, <2>3, <2>4 DEF LogSpec!Settle
  <2> QED BY <2>1, <2>5, <2>6 DEF LogSpec!LNext
<1>8. CASE Ends
  <2>1. batch' \o logCh' = <<>> BY <1>8, EmptySeq, ConcatEmptySeq DEF Ends
  <2>2. CASE pending = <<>>
    <3>1. batch = <<>> BY <1>2, <2>2, ConcatEqualIffEmpty
    <3>2. rows' = rows BY <1>6, <1>8, <3>1 DEF Ends
    <3> QED BY <2>1, <2>2, <3>2 DEF LogSpec!lvars
  <2>3. CASE pending # <<>>
    <3>1. Len(pending) \in 1..Len(pending)
      <4> HIDE DEF pending
      <4> QED BY <1>3, <2>3, EmptySeq
    <3>2. SubSeq(pending, 1, Len(batch)) = batch BY <1>2, SplitConcat
    <3>3. SubSeq(pending, Len(pending) + 1, Len(pending)) = <<>>
      <4>1. Len(pending) + 1 \in Int /\ Len(pending) \in Int /\ Len(pending) < Len(pending) + 1
        BY <1>3
      <4> HIDE DEF pending
      <4> QED BY <4>1, SubSeqEmpty
    <3>4. PICK written \in {0, Len(batch)} : rows' = rows \o SubSeq(pending, 1, written)
      BY <1>6, <1>8, <3>2 DEF Ends
    <3>5. written \in 0..Len(pending) BY <1>3
    <3>6. LogSpec!Settle(written, Len(pending)) BY <2>1, <3>3, <3>4 DEF LogSpec!Settle
    <3> QED BY <3>1, <3>5, <3>6 DEF LogSpec!LNext
  <2> QED BY <2>2, <2>3
<1> QED BY <1>1, <1>4, <1>5, <1>7, <1>8 DEF LogStep, LogSpec!LNext

\* The pipeline is a log that accepts each entry once and writes or loses it in
\* the order in which it was accepted.
THEOREM RequestLogImplemented == Spec => ImplementsRequestLog
BY LogInvariant, ImplementsInit, ImplementsStep, PTL
   DEF Spec, ImplementsRequestLog, LogSpec!LSpec

-----------------------------------------------------------------------------
(* The beacon.  A redirect that is on its way to the endpoint is in one    *)
(* place, and has been on its way once.                                    *)

Distinct(s) == \A i, j \in DOMAIN s : i # j => s[i] # s[j]

OnceInv ==
  /\ \A r \in Requests : attempts[r] \in 0..1
  /\ Distinct(beaconCh)
  /\ \A r \in ToSet(beaconCh) : attempts[r] = 0
  /\ \A r \in Requests :
       attempts[r] > 0 \/ r \in ToSet(beaconCh) => pc[r] \notin {"new", "log", "beacon"}
  /\ \A w \in Workers : sending[w] # NoEntry => attempts[sending[w]] = 1
  /\ \A r \in received : attempts[r] = 1

LEMMA DistinctAppend ==
  ASSUME NEW S, NEW s \in Seq(S), NEW e \in S, Distinct(s), e \notin ToSet(s)
  PROVE  Distinct(Append(s, e))
<1>1. /\ Len(Append(s, e)) = Len(s) + 1 /\ Append(s, e) \in Seq(S)
      /\ \A i \in 1..Len(s) : Append(s, e)[i] = s[i]
      /\ Append(s, e)[Len(s) + 1] = e
  BY AppendProperties
<1>2. Len(s) \in Nat /\ DOMAIN s = 1..Len(s) BY LenProperties
<1>3. DOMAIN Append(s, e) = 1..(Len(s) + 1) BY <1>1, LenProperties
<1>4. \A i \in DOMAIN Append(s, e) : i \in DOMAIN s \/ i = Len(s) + 1 BY <1>2, <1>3
<1>5. \A i \in DOMAIN s : s[i] # e BY DEF ToSet
<1> QED BY <1>1, <1>2, <1>4, <1>5 DEF Distinct

LEMMA DistinctTail ==
  ASSUME NEW S, NEW s \in Seq(S), s # <<>>, Distinct(s)
  PROVE  Distinct(Tail(s)) /\ Head(s) \notin ToSet(Tail(s))
<1>1. /\ Len(s) \in Nat \ {0} /\ DOMAIN s = 1..Len(s) BY EmptySeq, LenProperties
<1>2. /\ Tail(s) \in Seq(S) /\ Len(Tail(s)) = Len(s) - 1
      /\ \A i \in 1..Len(Tail(s)) : Tail(s)[i] = s[i + 1]
  BY HeadTailProperties
<1>3. DOMAIN Tail(s) = 1..(Len(s) - 1) BY <1>2, LenProperties
<1>4. \A i \in DOMAIN Tail(s) : i + 1 \in DOMAIN s /\ i + 1 # 1 /\ Tail(s)[i] = s[i + 1]
  BY <1>1, <1>2, <1>3
<1>5. \A i, j \in DOMAIN Tail(s) : i # j => i + 1 # j + 1 BY <1>1, <1>3
<1>6. Head(s) = s[1] /\ 1 \in DOMAIN s BY <1>1
<1> QED BY <1>4, <1>5, <1>6 DEF Distinct, ToSet

\* What a step that neither takes from the channel nor puts into it may do.
Passes ==
  /\ beaconCh' \in {beaconCh, <<>>}
  /\ attempts' = attempts
  /\ \A w \in Workers : sending'[w] \in {sending[w], NoEntry}
  /\ \A r \in received' : r \in received \/ \E w \in Workers : sending[w] = r /\ r # NoEntry
  /\ \A r \in Requests :
       pc'[r] \in {"new", "log", "beacon"} => pc[r] \in {"new", "log", "beacon"}

LEMMA BeaconSteps ==
  ASSUME TypeInv, [Next]_vars
  PROVE  \/ \E r \in Requests : OfferBeacon(r)
         \/ \E w \in Workers : Take(w) /\ UNCHANGED pc
         \/ Passes
<1> USE DEF Passes
<1>1. ASSUME NEW r \in Requests, Arrive(r) \/ OfferLog(r) \/ Answer(r) PROVE Passes
  BY <1>1 DEF Arrive, OfferLog, Answer, beaconVars, TypeInv, TypeOK
<1>2. CASE Write \/ LoseBatch
  BY <1>2 DEF Write, LoseBatch, beaconVars, lifeVars
<1>3. ASSUME NEW w \in Workers, Work(w) \/ LoseBeacon(w)
      PROVE  Passes \/ (Take(w) /\ UNCHANGED pc)
  BY <1>3 DEF Work, LoseBeacon, WorkerStep, Deliver, WorkerReturns, SendFails, lifeVars,
              TypeInv, TypeOK, BeaconTypeOK
<1>4. CASE Signal \/ ServerIsDown \/ ServerIsLeft
  BY <1>4 DEF Signal, ServerIsDown, ServerIsLeft, NextServer, beaconVars
<1>5. CASE Defers
  BY <1>5 DEF Defers, StopBeacon, beaconVars
<1>6. CASE Exit \/ Crash
  <2>1. BeaconEnds /\ pc' = [r \in Requests |-> IF InHandler(r) THEN "cut" ELSE pc[r]]
    BY <1>6 DEF Exit, Crash, ProcessEnds
  <2>2. \A r \in received' : r \in received \/ \E w \in Workers : sending[w] = r /\ r # NoEntry
    BY <2>1 DEF BeaconEnds
  <2> QED BY <2>1, <2>2 DEF BeaconEnds, InHandler
<1>7. CASE Restart
  BY <1>7 DEF Restart, BeaconStarts
<1>8. CASE UNCHANGED vars
  BY <1>8 DEF vars, beaconVars, lifeVars
<1> HIDE DEF Passes
<1> QED BY <1>1, <1>2, <1>3, <1>4, <1>5, <1>6, <1>7, <1>8, Steps

LEMMA OnceKept == TypeInv /\ OnceInv /\ [Next]_vars => OnceInv'
<1> SUFFICES ASSUME TypeInv, OnceInv, [Next]_vars PROVE OnceInv'
  OBVIOUS
<1>1. /\ beaconCh \in Seq(Requests) /\ NoEntry \notin Requests
      /\ sending \in [Workers -> Requests \cup {NoEntry}]
      /\ attempts \in [Requests -> Nat] /\ received \subseteq Requests
  BY Constants DEF TypeInv, TypeOK, BeaconTypeOK
<1>2. ASSUME NEW r \in Requests, OfferBeacon(r) PROVE OnceInv'
  <2>1. /\ UNCHANGED <<sending, attempts, received>>
        /\ pc[r] = "beacon" /\ pc' = [pc EXCEPT ![r] = "answer"]
        /\ beaconCh' = IF Len(beaconCh) < BeaconBuffer THEN Append(beaconCh, r) ELSE beaconCh
    BY <1>2 DEF OfferBeacon, SendBeacon
  <2>2. r \notin ToSet(beaconCh) /\ attempts[r] = 0
    BY <1>1, <2>1 DEF OnceInv
  <2>3. Distinct(beaconCh') BY <1>1, <2>1, <2>2, DistinctAppend DEF OnceInv
  <2>4. ToSet(beaconCh') \subseteq ToSet(beaconCh) \cup {r} BY <1>1, <2>1, ToSetAppend
  <2>5. \A q \in Requests : q # r => pc'[q] = pc[q] BY <2>1 DEF TypeInv, TypeOK
  <2>6. pc'[r] = "answer" BY <2>1 DEF TypeInv, TypeOK
  <2> QED BY <2>1, <2>2, <2>3, <2>4, <2>5, <2>6 DEF OnceInv
<1>3. ASSUME NEW w \in Workers, Take(w), UNCHANGED pc PROVE OnceInv'
  <2> DEFINE e == Head(beaconCh)
  <2>1. /\ sending' = [sending EXCEPT ![w] = e] /\ beaconCh' = Tail(beaconCh)
        /\ attempts' = [attempts EXCEPT ![e] = @ + 1]
        /\ beaconCh # <<>> /\ received' = received
    BY <1>3 DEF Take
  <2>2. e \in Requests /\ e \in ToSet(beaconCh) /\ ToSet(Tail(beaconCh)) \subseteq ToSet(beaconCh)
    BY <1>1, <2>1, HeadTailProperties, ToSetTail
  <2>3. Distinct(Tail(beaconCh)) /\ e \notin ToSet(Tail(beaconCh))
    BY <1>1, <2>1, DistinctTail DEF OnceInv
  <2> HIDE DEF e
  <2>4. attempts[e] = 0 /\ pc[e] \notin {"new", "log", "beacon"}
    BY <2>2 DEF OnceInv
  <2>5. attempts'[e] = 1 /\ \A q \in Requests : q # e => attempts'[q] = attempts[q]
    BY <1>1, <2>1, <2>2, <2>4
  <2>6. \A v \in Workers : v # w => sending'[v] = sending[v] BY <1>1, <2>1
  <2>7. sending'[w] = e BY <1>1, <2>1
  <2>8. \A v \in Workers : sending'[v] # NoEntry => attempts'[sending'[v]] = 1
    BY <1>1, <2>4, <2>5, <2>6, <2>7 DEF OnceInv
  <2>9. \A q \in received' : attempts'[q] = 1
    BY <1>1, <2>1, <2>4, <2>5 DEF OnceInv
  <2>10. \A q \in ToSet(beaconCh') : attempts'[q] = 0
    <3>1. ToSet(beaconCh) \subseteq Requests BY <1>1, ToSetType
    <3> QED BY <2>1, <2>2, <2>3, <2>5, <3>1 DEF OnceInv
  <2>11. \A q \in Requests : attempts'[q] \in 0..1 BY <2>5 DEF OnceInv
  <2>12. \A q \in Requests :
           attempts'[q] > 0 \/ q \in ToSet(beaconCh') => pc'[q] \notin {"new", "log", "beacon"}
    BY <1>3, <2>1, <2>2, <2>4, <2>5 DEF OnceInv
  <2> QED BY <2>1, <2>3, <2>8, <2>9, <2>10, <2>11, <2>12 DEF OnceInv
<1>4. CASE Passes
  <2>1. Distinct(<<>>) BY DEF Distinct
  <2>2. Distinct(beaconCh') /\ ToSet(beaconCh') \subseteq ToSet(beaconCh)
    BY <1>4, <2>1, ToSetEmpty DEF Passes, OnceInv
  <2>3. \A v \in Workers : sending'[v] # NoEntry => attempts'[sending'[v]] = 1
    BY <1>4 DEF Passes, OnceInv
  <2>4. \A q \in received' : attempts'[q] = 1 BY <1>4 DEF Passes, OnceInv
  <2> QED BY <1>4, <2>2, <2>3, <2>4 DEF Passes, OnceInv
<1> QED BY <1>2, <1>3, <1>4, BeaconSteps

\* No redirect is reported twice, whichever workers look at the channel and
\* however often the process goes down and comes back.
THEOREM BeaconAtMostOnceAlways == Spec => []BeaconAtMostOnce
<1>1. Init => OnceInv
  BY ToSetEmpty DEF Init, BeaconInit, OnceInv, Distinct
<1>2. TypeInv /\ OnceInv => BeaconAtMostOnce
  <2> SUFFICES ASSUME TypeInv, OnceInv PROVE BeaconAtMostOnce OBVIOUS
  <2>1. received \subseteq Requests BY DEF TypeInv, TypeOK, BeaconTypeOK
  <2>2. \A r \in received : attempts[r] = 1 /\ pc[r] \notin {"new", "log"}
    BY <2>1 DEF OnceInv
  <2>3. \A r \in Requests : attempts[r] <= 1 BY DEF OnceInv
  <2> QED BY <2>1, <2>2, <2>3 DEF OnceInv, BeaconAtMostOnce
<1> QED BY <1>1, <1>2, TypeInvAlways, OnceKept, PTL DEF Spec

-----------------------------------------------------------------------------
(* Shutdown.  A server that was waited for has no handler left, and it     *)
(* takes no more requests.                                                 *)

WaitInv ==
  spent["crash"] + spent["overrun"] = 0 =>
    /\ main = "running" => closed = 0
    /\ main = "shutdown" => closed \in 1..2 /\ (closed = 2 => Idle(1))
    /\ main \in {"stopBeacon", "stopPipeline", "closeDB", "exit"} =>
         closed = 2 /\ Idle(1) /\ Idle(2)
    /\ main # "crashed"
    /\ \A r \in Requests : pc[r] # "cut"

\* The faults that cut handlers off.
NoCutFault == spent["crash"] + spent["overrun"] = 0

LEMMA WaitKept == TypeInv /\ WaitInv /\ [Next]_vars => WaitInv'
<1> SUFFICES ASSUME TypeInv, WaitInv, [Next]_vars, NoCutFault' PROVE WaitInv'
  BY DEF WaitInv, NoCutFault
<1>1. /\ pc \in [Requests -> {"new", "log", "beacon", "answer", "answered", "cut"}]
      /\ ServerOf \in [Requests -> 1..2] /\ spent \in [Faults -> Nat] /\ TypeOK
  BY Constants DEF TypeInv, TypeOK
<1>2. \A k \in Faults : Spend(k) =>
         /\ \A f \in Faults : spent'[f] \in Nat /\ spent'[f] >= spent[f] /\ spent[f] \in Nat
         /\ spent'[k] > 0
  BY <1>1, SpendType
<1>3. ASSUME NoCutFault, UNCHANGED <<main, closed>>,
             \A r \in Requests : InHandler(r)' => InHandler(r),
             \A r \in Requests : pc'[r] # "cut"
      PROVE  WaitInv'
  BY <1>3 DEF WaitInv, NoCutFault, Idle
<1>4. ASSUME NEW r \in Requests, Arrive(r) PROVE WaitInv'
  <2>1. /\ ServerOf[r] > closed /\ main \notin {"exited", "crashed"}
        /\ pc[r] = "new" /\ pc' = [pc EXCEPT ![r] = "log"] /\ UNCHANGED <<main, closed, spent>>
    BY <1>4 DEF Arrive, Up
  <2>2. NoCutFault BY <2>1 DEF NoCutFault
  <2>3. closed \in 0..2 /\ ServerOf[r] \in 1..2 BY <1>1 DEF TypeOK
  <2>4. \A q \in Requests : q # r => InHandler(q)' = InHandler(q)
    BY <1>1, <2>1 DEF InHandler
  <2>5. \A q \in Requests : pc'[q] # "cut"
    BY <1>1, <2>1, <2>2 DEF WaitInv, NoCutFault
  <2>6. CASE main = "running"
    BY <2>1, <2>2, <2>5, <2>6 DEF WaitInv, NoCutFault
  <2>7. CASE main = "shutdown"
    BY <2>1, <2>2, <2>3, <2>4, <2>5, <2>7 DEF WaitInv, NoCutFault, Idle
  <2>8. CASE main \in {"stopBeacon", "stopPipeline", "closeDB", "exit"}
    BY <2>1, <2>2, <2>3, <2>8 DEF WaitInv, NoCutFault
  <2> QED BY <1>1, <2>1, <2>6, <2>7, <2>8 DEF TypeOK
<1>5. ASSUME NEW r \in Requests, OfferLog(r) \/ OfferBeacon(r) \/ Answer(r) PROVE WaitInv'
  <2>1. UNCHANGED <<main, closed, spent>> /\ NoCutFault
    BY <1>5 DEF OfferLog, OfferBeacon, Answer, NoCutFault
  <2>2. \A q \in Requests : InHandler(q)' => InHandler(q)
    BY <1>1, <1>5 DEF OfferLog, OfferBeacon, Answer, InHandler
  <2>3. \A q \in Requests : pc'[q] # "cut"
    BY <1>1, <1>5, <2>1 DEF OfferLog, OfferBeacon, Answer, WaitInv, NoCutFault
  <2> QED BY <1>3, <2>1, <2>2, <2>3
<1>6. CASE Write \/ LoseBatch \/ \E w \in Workers : Work(w) \/ LoseBeacon(w)
  <2>1. UNCHANGED <<pc, main, closed>>
    BY <1>6 DEF Write, LoseBatch, Work, LoseBeacon, lifeVars
  <2>2. UNCHANGED spent \/ \E k \in Faults : Spend(k)
    BY <1>6 DEF Write, LoseBatch, Work, LoseBeacon, Faults
  <2>3. NoCutFault BY <1>1, <1>2, <2>2 DEF NoCutFault, Faults
  <2> QED BY <1>3, <2>1, <2>3 DEF InHandler, WaitInv, NoCutFault
<1>7. CASE Signal
  BY <1>7 DEF Signal, WaitInv, NoCutFault
<1>8. CASE ServerIsDown
  <2>1. /\ main = "shutdown" /\ Idle(closed) /\ UNCHANGED <<pc, spent>>
        /\ closed' = IF closed < 2 THEN closed + 1 ELSE closed
        /\ main' = IF closed < 2 THEN "shutdown" ELSE "stopBeacon"
    BY <1>8 DEF ServerIsDown, NextServer
  <2>2. NoCutFault /\ closed \in 1..2 /\ (closed = 2 => Idle(1))
    BY <2>1 DEF WaitInv, NoCutFault
  <2>3. \A k \in 1..2 : Idle(k) => Idle(k)' BY <2>1 DEF Idle, InHandler
  <2>4. \A r \in Requests : pc'[r] # "cut" BY <2>1, <2>2 DEF WaitInv, NoCutFault
  <2>5. CASE closed = 1 BY <2>1, <2>3, <2>4, <2>5 DEF WaitInv
  <2>6. CASE closed = 2 BY <2>1, <2>2, <2>3, <2>4, <2>6 DEF WaitInv
  <2> QED BY <2>2, <2>5, <2>6
<1>9. CASE ServerIsLeft \/ Crash
  BY <1>2, <1>9 DEF ServerIsLeft, Crash, NoCutFault, Faults
<1>10. CASE Defers
  <2>1. /\ UNCHANGED <<pc, closed, spent>>
        /\ main \in {"stopBeacon", "stopPipeline", "closeDB"}
        /\ main' \in {"stopPipeline", "closeDB", "exit"}
    BY <1>10 DEF Defers
  <2>2. closed = 2 /\ Idle(1) /\ Idle(2) /\ \A r \in Requests : pc[r] # "cut"
    BY <2>1 DEF WaitInv, NoCutFault
  <2>3. \A k \in 1..2 : Idle(k) => Idle(k)' BY <2>1 DEF Idle, InHandler
  <2> QED BY <2>1, <2>2, <2>3 DEF WaitInv
<1>11. CASE Exit
  <2>1. /\ main = "exit" /\ main' = "exited" /\ UNCHANGED spent
        /\ pc' = [r \in Requests |-> IF InHandler(r) THEN "cut" ELSE pc[r]]
    BY <1>11 DEF Exit, ProcessEnds
  <2>2. Idle(1) /\ Idle(2) /\ \A r \in Requests : pc[r] # "cut"
    BY <2>1 DEF WaitInv, NoCutFault
  <2>3. \A r \in Requests : ~InHandler(r) BY <1>1, <2>2 DEF Idle
  <2>4. \A r \in Requests : pc'[r] # "cut" BY <2>1, <2>2, <2>3
  <2> QED BY <2>1, <2>4 DEF WaitInv
<1>12. CASE Restart
  BY <1>12 DEF Restart, WaitInv, NoCutFault
<1>13. CASE UNCHANGED vars
  BY <1>13 DEF vars, lifeVars, WaitInv, Idle, InHandler
<1> QED BY <1>4, <1>5, <1>6, <1>7, <1>8, <1>9, <1>10, <1>11, <1>12, <1>13, Steps

\* Unless the deadline passes or the process crashes, the end of the process
\* cuts no handler off.
THEOREM ShutdownAnswersAlways == Spec => []ShutdownAnswers
<1>1. Init => WaitInv BY DEF Init, WaitInv
<1>2. WaitInv => ShutdownAnswers BY DEF WaitInv, ShutdownAnswers
<1> QED BY <1>1, <1>2, TypeInvAlways, WaitKept, PTL DEF Spec
=============================================================================
