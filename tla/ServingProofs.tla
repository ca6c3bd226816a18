----------------------------- MODULE ServingProofs -----------------------------
(***************************************************************************)
(* What a request is answered, for any number of nodes, requests, rules    *)
(* and reloads.                                                            *)
(***************************************************************************)
EXTENDS Serving, TotalsProofs

-----------------------------------------------------------------------------
(* Taking a rule *)

\* The least of some numbers is one of them and no other is less.
LEMMA MinOfSome ==
  ASSUME NEW S \in SUBSET Nat, S # {}
  PROVE  Min(S) \in S /\ \A i \in S : Min(S) <= i
<1>1. \E n \in S : \A m \in S : n <= m BY LeastNumber
<1> QED BY <1>1 DEF Min

\* The engine takes a best rule: the first that matches has the highest priority.
LEMMA TakenIsBest ==
  ASSUME NEW s, IsRanked(s), NEW path
  PROVE  Taken(s, path, Default) \in Best(ToSet(s), path)
<1> DEFINE found == {i \in DOMAIN s : matchPath(s[i].path, path)}
           matching == {x \in ToSet(s) : matchPath(x.path, path)}
<1>1. s \in Seq(Rules) BY DEF IsRanked
<1>2. DOMAIN s = 1..Len(s) /\ Len(s) \in Nat BY <1>1
<1>3. ToSet(s) = {s[i] : i \in DOMAIN s} BY DEF ToSet
<1>4. CASE found = {}
  <2>1. matching = {} BY <1>3, <1>4
  <2>2. Taken(s, path, Default) = Default BY <1>4 DEF Taken
  <2> QED BY <2>1, <2>2 DEF Best
<1>5. CASE found # {}
  <2>1. found \in SUBSET Nat BY <1>2
  <2> DEFINE k == Min(found)
  <2>2. k \in found /\ \A i \in found : k <= i
    <3> HIDE DEF found
    <3> QED BY <1>5, <2>1, MinOfSome
  <2>3. Taken(s, path, Default) = s[k].target BY <1>5 DEF Taken
  <2> HIDE DEF k
  <2>4. s[k] \in matching BY <1>3, <2>2
  <2>5. ASSUME NEW z \in matching PROVE z.priority <= s[k].priority
    <3>1. PICK i \in DOMAIN s : z = s[i] BY <1>3
    <3>2. i \in found BY <3>1
    <3>3. k <= i /\ k \in DOMAIN s BY <2>2, <3>2
    <3>4. s[i] \in Rules /\ s[k] \in Rules BY <1>1, <3>3
    <3>5. s[i].priority \in Nat /\ s[k].priority \in Nat BY <3>4, ServingAssumption
    <3>6. CASE i = k BY <3>1, <3>5, <3>6
    <3>7. CASE i # k
      <4>1. k < i BY <1>2, <3>3, <3>7
      <4>2. s[k].priority >= s[i].priority BY <3>3, <4>1 DEF IsRanked
      <4> QED BY <3>1, <3>5, <4>2
    <3> QED BY <3>6, <3>7
  <2>6. s[k].target \in {x.target : x \in {y \in matching : \A z \in matching : z.priority <= y.priority}}
    BY <2>4, <2>5
  <2>7. matching # {} BY <2>4
  <2> QED BY <2>3, <2>6, <2>7 DEF Best
<1> QED BY <1>4, <1>5

\* A best rule's target is a URL.
LEMMA BestIsTarget ==
  ASSUME NEW S \in SUBSET Rules, NEW path, NEW a \in Best(S, path)
  PROVE  a \in {Default} \cup {x.target : x \in Rules} /\ a \notin {NotFound, Upgrade}
<1>1. a = Default \/ \E x \in S : a = x.target BY DEF Best
<1> QED BY <1>1, ServingAssumption

LEMMA RankedRules == ASSUME NEW s, IsRanked(s) PROVE ToSet(s) \in SUBSET Rules
BY DEF IsRanked, ToSet

\* Whatever Orders puts the rules in, they are ranked.
LEMMA OrdersRanked ==
  ASSUME NEW S \in SUBSET Rules, NEW s \in Orders(S)
  PROVE  IsRanked(s)
<1>1. IsFiniteSet(S) BY ServingAssumption, FS_Subset
<1>2. Cardinality(S) \in Nat BY <1>1, FS_CardinalityType
<1>3. s \in [1..Cardinality(S) -> S] BY DEF Orders, SetToSeqs
<1>4. s \in [1..Cardinality(S) -> Rules] BY <1>3
<1>5. s \in Seq(Rules) BY <1>2, <1>4
<1> QED BY <1>5 DEF Orders, IsRanked

LEMMA EntryRules == \A s : RulesOf(Entry(s)) = s /\ Loaded(Entry(s))
BY DEF RulesOf, Entry, Loaded, NotServed

\* What a reload brings is an entry.
LEMMA LoadedEntry ==
  ASSUME rules \subseteq Rules,
         NEW e \in IF enabled THEN {Entry(s) : s \in Orders(rules)} ELSE {NotServed}
  PROVE  IsEntry(e)
<1>1. CASE enabled
  <2>1. PICK s \in Orders(rules) : e = Entry(s) BY <1>1
  <2>2. IsRanked(s) BY OrdersRanked
  <2> QED BY <2>1, <2>2, EntryRules DEF IsEntry
<1>2. CASE ~enabled BY <1>2 DEF IsEntry
<1> QED BY <1>1, <1>2

-----------------------------------------------------------------------------
(* Requests.  The entry a request works with is one it could have seen. *)

Underway(r) ==
  /\ req[r].pc \in {"check", "lookup", "match"} => engine[req[r].node] \in seen[r]
  /\ req[r].pc \in {"lookup", "match"} /\ req[r].port = 80 => \E e \in seen[r] : Loaded(e)
  /\ req[r].pc = "done" /\ req[r].port = 80 /\ req[r].answer # Upgrade =>
       \E e \in seen[r] : Loaded(e)
  /\ req[r].pc = "match" => req[r].entry \in seen[r] /\ Loaded(req[r].entry)
  /\ req[r].pc = "done" =>
       \/ req[r].answer = Upgrade /\ req[r].port = 80 /\ NotServed \in seen[r]
       \/ req[r].answer = NotFound /\ NotServed \in seen[r]
       \/ \E e \in seen[r] : Loaded(e) /\ req[r].answer \in Best(ToSet(RulesOf(e)), req[r].path)

ServingInv == TypeOK /\ \A r \in Requests : Underway(r)

LEMMA IdleType == IsReq(Idle)
BY DEF Idle, IsReq, IsEntry, Ports

LEMMA InitInv == Init => ServingInv
<1> SUFFICES ASSUME Init PROVE ServingInv OBVIOUS
<1>1. IsRanked(<<>>) BY DEF IsRanked
<1>2. IsEntry(Entry(<<>>)) BY <1>1, EntryRules DEF IsEntry
<1>3. IsFiniteSet({}) /\ Cardinality({}) = 0 BY FS_EmptySet
<1>4. TypeOK BY <1>2, <1>3, IdleType, ServingAssumption DEF Init, TypeOK
<1>5. \A r \in Requests : Underway(r) BY DEF Init, Underway, Idle
<1> QED BY <1>4, <1>5 DEF ServingInv

-----------------------------------------------------------------------------
(* The steps of a request change its own record only. *)

\* What is true of a request with record q under which the entries E were in force.
OnItsWay(q, E) ==
  /\ q.pc \in {"check", "lookup", "match"} => engine[q.node] \in E
  /\ q.pc \in {"lookup", "match"} /\ q.port = 80 => \E e \in E : Loaded(e)
  /\ q.pc = "done" /\ q.port = 80 /\ q.answer # Upgrade => \E e \in E : Loaded(e)
  /\ q.pc = "match" => q.entry \in E /\ Loaded(q.entry)
  /\ q.pc = "done" =>
       \/ q.answer = Upgrade /\ q.port = 80 /\ NotServed \in E
       \/ q.answer = NotFound /\ NotServed \in E
       \/ \E e \in E : Loaded(e) /\ q.answer \in Best(ToSet(RulesOf(e)), q.path)

\* A request's record after a step, and what the step may rely on.
LEMMA OwnStep ==
  ASSUME ServingInv, NEW r \in Requests, NEW q, IsReq(q), NEW E,
         req' = [req EXCEPT ![r] = q], seen' = [seen EXCEPT ![r] = E],
         Cardinality(E) <= MaxVersions, \A e \in E : IsEntry(e),
         UNCHANGED <<enabled, rules, engine>>, OnItsWay(q, E)
  PROVE  ServingInv'
<1>1. TypeOK BY DEF ServingInv
<1>2. req'[r] = q /\ seen'[r] = E /\ DOMAIN req' = Requests /\ DOMAIN seen' = Requests
  BY <1>1 DEF TypeOK
<1>3. \A m \in Requests : m # r => req'[m] = req[m] /\ seen'[m] = seen[m] BY <1>1 DEF TypeOK
<1>4. TypeOK'
  <2>1. \A m \in Requests : IsReq(req'[m]) BY <1>1, <1>2, <1>3 DEF TypeOK
  <2>2. \A m \in Requests : Cardinality(seen'[m]) <= MaxVersions /\ \A e \in seen'[m] : IsEntry(e)
    BY <1>1, <1>2, <1>3 DEF TypeOK
  <2> QED BY <1>1, <1>2, <2>1, <2>2 DEF TypeOK
<1>5. Underway(r)' BY <1>2 DEF Underway, OnItsWay
<1>6. \A m \in Requests : m # r => Underway(m)' BY <1>3 DEF ServingInv, Underway
<1>7. \A m \in Requests : Underway(m)' BY <1>5, <1>6
<1> QED BY <1>4, <1>7 DEF ServingInv

LEMMA ArriveInv ==
  ASSUME ServingInv, NEW r \in Requests, NEW n \in Nodes, NEW port \in Ports, NEW path \in Urls,
         Arrive(r, n, port, path)
  PROVE  ServingInv'
<1> DEFINE q == [Idle EXCEPT !.pc = IF port = 80 THEN "check" ELSE "lookup",
                             !.node = n, !.port = port, !.path = path]
           E == {engine[n]}
<1>1. /\ q.pc = IF port = 80 THEN "check" ELSE "lookup"
      /\ q.node = n /\ q.port = port /\ q.path = path /\ q.entry = NotServed
      /\ q.answer = NoAnswer
  BY DEF Idle
<1>2. IsReq(q) BY IdleType DEF IsReq, Idle
<1>3. IsEntry(engine[n]) BY DEF ServingInv, TypeOK
<1>4. Cardinality(E) <= MaxVersions
  <2>1. Cardinality(E) = 1 BY FS_Singleton
  <2> HIDE DEF E
  <2> QED BY <2>1, ServingAssumption
<1>5. req' = [req EXCEPT ![r] = q] /\ seen' = [seen EXCEPT ![r] = E]
      /\ UNCHANGED <<enabled, rules, engine>>
  BY DEF Arrive
<1>6. \A e \in E : IsEntry(e) BY <1>3
<1>7. OnItsWay(q, E) BY <1>1 DEF OnItsWay
<1> HIDE DEF q, E
<1> QED BY <1>2, <1>4, <1>5, <1>6, <1>7, OwnStep

\* What is known of a request before its next step.
LEMMA Known ==
  ASSUME ServingInv, NEW r \in Requests
  PROVE  /\ IsReq(req[r]) /\ Underway(r)
         /\ Cardinality(seen[r]) <= MaxVersions /\ \A e \in seen[r] : IsEntry(e)
         /\ seen = [seen EXCEPT ![r] = seen[r]]
<1>1. /\ IsReq(req[r]) /\ Underway(r)
      /\ Cardinality(seen[r]) <= MaxVersions /\ \A e \in seen[r] : IsEntry(e)
  BY DEF ServingInv, TypeOK
<1>2. seen = [m \in Requests |-> seen[m]] BY DEF ServingInv, TypeOK
<1>3. seen = [seen EXCEPT ![r] = seen[r]] BY <1>2
<1> QED BY <1>1, <1>3

\* The request gets an answer that an entry it could have seen gives.
LEMMA AnsweredInv ==
  ASSUME ServingInv, NEW r \in Requests, req[r].pc # "idle", NEW a, Answered(r, a),
         UNCHANGED <<enabled, rules, engine, seen>>,
         a \in {NotFound, Upgrade, Default} \cup {x.target : x \in Rules},
         req[r].port = 80 /\ a # Upgrade => \E e \in seen[r] : Loaded(e),
         \/ a = Upgrade /\ req[r].port = 80 /\ NotServed \in seen[r]
         \/ a = NotFound /\ NotServed \in seen[r]
         \/ \E e \in seen[r] : Loaded(e) /\ a \in Best(ToSet(RulesOf(e)), req[r].path)
  PROVE  ServingInv'
<1> DEFINE q == [req[r] EXCEPT !.pc = "done", !.answer = a, !.entry = NotServed]
           E == seen[r]
<1>1. IsReq(req[r]) /\ Cardinality(E) <= MaxVersions /\ (\A e \in E : IsEntry(e)) /\ DOMAIN req = Requests
  BY Known DEF ServingInv, TypeOK
<1>2. /\ q.pc = "done" /\ q.answer = a /\ q.entry = NotServed
      /\ q.node = req[r].node /\ q.port = req[r].port /\ q.path = req[r].path
  BY <1>1 DEF IsReq
<1>3. IsReq(q) BY <1>1, <1>2 DEF IsReq, IsEntry
<1>4. req' = [req EXCEPT ![r] = q] BY <1>1 DEF Answered
<1>5. seen' = [seen EXCEPT ![r] = E] BY Known
<1>6. q.port = 80 /\ q.answer # Upgrade => \E e \in E : Loaded(e) BY <1>2
<1>7. \/ q.answer = Upgrade /\ q.port = 80 /\ NotServed \in E
      \/ q.answer = NotFound /\ NotServed \in E
      \/ \E e \in E : Loaded(e) /\ q.answer \in Best(ToSet(RulesOf(e)), q.path)
  BY <1>2
<1>8. OnItsWay(q, E)
  <2> HIDE DEF q, E
  <2> QED BY <1>2, <1>6, <1>7 DEF OnItsWay
<1> HIDE DEF q, E
<1> QED BY <1>1, <1>3, <1>4, <1>5, <1>8, OwnStep

\* The request goes on, with an entry or without.
LEMMA GoesOnInv ==
  ASSUME ServingInv, NEW r \in Requests, NEW q, IsReq(q), req' = [req EXCEPT ![r] = q],
         req[r].pc \in {"check", "lookup"}, Loaded(engine[req[r].node]),
         q.pc \in {"lookup", "match"}, q.node = req[r].node,
         q.pc = "match" => q.entry = engine[req[r].node],
         UNCHANGED <<enabled, rules, engine, seen>>
  PROVE  ServingInv'
<1> DEFINE E == seen[r]
<1>1. Cardinality(E) <= MaxVersions /\ (\A e \in E : IsEntry(e)) /\ Underway(r)
  BY Known
<1>2. seen' = [seen EXCEPT ![r] = E] BY Known
<1>3. engine[req[r].node] \in E BY <1>1 DEF Underway
<1>4. engine[q.node] \in E /\ \E e \in E : Loaded(e) BY <1>3
<1>5. q.pc = "match" => q.entry \in E /\ Loaded(q.entry) BY <1>3
<1>6. OnItsWay(q, E)
  <2>1. q.pc # "done" OBVIOUS
  <2> HIDE DEF E
  <2> QED BY <1>4, <1>5, <2>1 DEF OnItsWay
<1> HIDE DEF E
<1> QED BY <1>1, <1>2, <1>6, OwnStep

LEMMA CheckInv == ASSUME ServingInv, NEW r \in Requests, Check(r) PROVE ServingInv'
<1>1. IsReq(req[r]) /\ Underway(r) /\ DOMAIN req = Requests BY Known DEF ServingInv, TypeOK
<1>2. req[r].pc = "check" /\ req[r].port = 80 BY <1>1 DEF Check, IsReq
<1>3. engine[req[r].node] \in seen[r] BY <1>1, <1>2 DEF Underway
<1>4. CASE Loaded(engine[req[r].node])
  <2> DEFINE q == [req[r] EXCEPT !.pc = "lookup"]
  <2>1. req' = [req EXCEPT ![r] = q] BY <1>1, <1>4 DEF Check, GoesOn
  <2>2. q.pc = "lookup" /\ q.node = req[r].node BY <1>1 DEF IsReq
  <2>3. IsReq(q) BY <1>1, <1>2 DEF IsReq
  <2> HIDE DEF q
  <2> QED BY <1>2, <1>4, <2>1, <2>2, <2>3, GoesOnInv DEF Check
<1>5. CASE ~Loaded(engine[req[r].node])
  <2>1. NotServed \in seen[r] BY <1>3, <1>5 DEF Loaded
  <2>2. Answered(r, Upgrade) BY <1>5 DEF Check
  <2> QED BY <1>2, <2>1, <2>2, AnsweredInv DEF Check
<1> QED BY <1>4, <1>5

LEMMA LookupInv == ASSUME ServingInv, NEW r \in Requests, Lookup(r) PROVE ServingInv'
<1>1. IsReq(req[r]) /\ Underway(r) /\ DOMAIN req = Requests BY Known DEF ServingInv, TypeOK
<1>2. req[r].pc = "lookup" /\ UNCHANGED <<enabled, rules, engine, seen>> BY DEF Lookup
<1>3. engine[req[r].node] \in seen[r] BY <1>1, <1>2 DEF Underway
<1>4. CASE Loaded(engine[req[r].node])
  <2> DEFINE q == [req[r] EXCEPT !.pc = "match", !.entry = engine[req[r].node]]
  <2>1. req' = [req EXCEPT ![r] = q] BY <1>1, <1>4 DEF Lookup
  <2>2. q.pc = "match" /\ q.node = req[r].node /\ q.entry = engine[req[r].node] BY <1>1 DEF IsReq
  <2>3. IsEntry(engine[req[r].node]) BY <1>3, Known
  <2>4. IsReq(q) BY <1>1, <1>2, <2>3 DEF IsReq
  <2> HIDE DEF q
  <2> QED BY <1>2, <1>4, <2>1, <2>2, <2>4, GoesOnInv
<1>5. CASE ~Loaded(engine[req[r].node])
  <2>1. NotServed \in seen[r] BY <1>3, <1>5 DEF Loaded
  <2>2. req[r].port = 80 => \E e \in seen[r] : Loaded(e) BY <1>1, <1>2 DEF Underway
  <2>3. Answered(r, NotFound) BY <1>5 DEF Lookup
  <2> QED BY <1>2, <2>1, <2>2, <2>3, AnsweredInv
<1> QED BY <1>4, <1>5

LEMMA MatchInv == ASSUME ServingInv, NEW r \in Requests, Match(r) PROVE ServingInv'
<1> DEFINE e == req[r].entry
           a == Taken(RulesOf(e), req[r].path, Default)
<1>1. IsReq(req[r]) /\ Underway(r) BY Known
<1>2. req[r].pc = "match" BY DEF Match
<1>3. e \in seen[r] /\ Loaded(e) BY <1>1, <1>2 DEF Underway
<1>4. IsRanked(RulesOf(e)) BY <1>1, <1>3 DEF IsReq, IsEntry, Loaded
<1>5. a \in Best(ToSet(RulesOf(e)), req[r].path) BY <1>4, TakenIsBest
<1>6. a \in {Default} \cup {x.target : x \in Rules} BY <1>4, <1>5, RankedRules, BestIsTarget
<1>7. Answered(r, a) /\ UNCHANGED <<enabled, rules, engine, seen>> BY DEF Match
<1> HIDE DEF a
<1> QED BY <1>2, <1>3, <1>5, <1>6, <1>7, AnsweredInv

LEMMA LeaveInv == ASSUME ServingInv, NEW r \in Requests, Leave(r) PROVE ServingInv'
<1>1. Cardinality({}) <= MaxVersions BY FS_EmptySet, ServingAssumption
<1>2. OnItsWay(Idle, {}) BY DEF Idle, OnItsWay
<1> QED BY <1>1, <1>2, IdleType, OwnStep DEF Leave

\* A reload shows its entry to the requests the node is serving.
LEMMA ReloadInv == ASSUME ServingInv, NEW n \in Nodes, Reload(n) PROVE ServingInv'
<1>1. TypeOK BY DEF ServingInv
<1>2. PICK e : IsEntry(e) /\ engine' = [engine EXCEPT ![n] = e]
  BY <1>1, LoadedEntry DEF Reload, TypeOK
<1>3. /\ seen' = [r \in Requests |->
                    IF r \in InFlight(n) THEN seen[r] \cup {engine'[n]} ELSE seen[r]]
      /\ \A r \in Requests : Cardinality(seen'[r]) <= MaxVersions
      /\ UNCHANGED <<enabled, rules, req>>
  BY DEF Reload
<1>4. engine'[n] = e /\ \A m \in Nodes : m # n => engine'[m] = engine[m] BY <1>1, <1>2 DEF TypeOK
<1>5. \A r \in Requests : seen[r] \subseteq seen'[r] /\ seen'[r] \subseteq seen[r] \cup {e}
  BY <1>3, <1>4
<1>6. TypeOK'
  <2>1. engine' = [m \in Nodes |-> engine'[m]] /\ \A m \in Nodes : IsEntry(engine'[m])
    BY <1>1, <1>2, <1>4 DEF TypeOK
  <2>2. \A r \in Requests : \A x \in seen'[r] : IsEntry(x) BY <1>1, <1>2, <1>5 DEF TypeOK
  <2>3. seen' = [r \in Requests |-> seen'[r]] BY <1>3
  <2> QED BY <1>1, <1>3, <2>1, <2>2, <2>3 DEF TypeOK
<1>7. ASSUME NEW r \in Requests PROVE Underway(r)'
  <2>1. Underway(r) /\ IsReq(req[r]) /\ req' = req BY <1>3, Known
  <2>2. req[r].pc # "idle" /\ engine[req[r].node] \in seen[r]
                    => engine'[req[r].node] \in seen'[r]
    <3> SUFFICES ASSUME req[r].pc # "idle", engine[req[r].node] \in seen[r]
                 PROVE  engine'[req[r].node] \in seen'[r]
      OBVIOUS
    <3>1. req[r].node \in Nodes BY <2>1 DEF IsReq
    <3>2. CASE req[r].node = n BY <1>3, <3>2 DEF InFlight
    <3>3. CASE req[r].node # n BY <1>4, <1>5, <3>1, <3>3
    <3> QED BY <3>2, <3>3
  <2>3. seen[r] \subseteq seen'[r] BY <1>5
  <2> QED BY <2>1, <2>2, <2>3 DEF Underway
<1> QED BY <1>6, <1>7 DEF ServingInv

-----------------------------------------------------------------------------
(* The rules change under the requests. *)

LEMMA RulesInv ==
  ASSUME ServingInv, UNCHANGED <<engine, req, seen>>, enabled' \in BOOLEAN,
         rules' \subseteq Rules, Cardinality(rules') <= MaxRules
  PROVE  ServingInv'
BY DEF ServingInv, TypeOK, Underway

LEMMA EnableInv ==
  ASSUME ServingInv, NEW x \in Rules, Enable(x) \/ Disable(x) PROVE ServingInv'
<1>1. rules \subseteq Rules /\ Cardinality(rules) <= MaxRules /\ enabled \in BOOLEAN
  BY DEF ServingInv, TypeOK
<1>2. IsFiniteSet(rules) /\ Cardinality(rules) \in Nat /\ MaxRules \in Nat
  BY <1>1, ServingAssumption, FS_Subset, FS_CardinalityType
<1>3. CASE Enable(x)
  <2>1. Cardinality(rules \cup {x}) = Cardinality(rules) + 1 BY <1>2, <1>3, FS_AddElement DEF Enable
  <2>2. Cardinality(rules) < MaxRules /\ rules' = rules \cup {x} BY <1>3 DEF Enable
  <2>3. Cardinality(rules') <= MaxRules BY <1>2, <2>1, <2>2
  <2> QED BY <1>1, <1>3, <2>2, <2>3, RulesInv DEF Enable
<1>4. CASE Disable(x)
  <2>1. rules' \in SUBSET rules BY <1>4 DEF Disable
  <2>2. Cardinality(rules') <= Cardinality(rules) /\ Cardinality(rules') \in Nat
    BY <1>2, <2>1, FS_Subset, FS_CardinalityType
  <2> QED BY <1>1, <1>2, <1>4, <2>1, <2>2, RulesInv DEF Disable
<1> QED BY <1>3, <1>4

LEMMA NextInv == ASSUME ServingInv, [Next]_vars PROVE ServingInv'
<1>1. CASE UNCHANGED vars BY <1>1 DEF vars, ServingInv, TypeOK, Underway
<1>2. ASSUME NEW x \in Rules, Enable(x) \/ Disable(x) PROVE ServingInv' BY <1>2, EnableInv
<1>3. CASE ToggleDomain
  <2>1. rules \subseteq Rules /\ Cardinality(rules) <= MaxRules BY DEF ServingInv, TypeOK
  <2> QED BY <1>3, <2>1, RulesInv DEF ToggleDomain
<1>4. ASSUME NEW n \in Nodes, Reload(n) PROVE ServingInv' BY <1>4, ReloadInv
<1>5. ASSUME NEW r \in Requests, NEW n \in Nodes, NEW port \in Ports, NEW path \in Urls,
             Arrive(r, n, port, path)
      PROVE  ServingInv'
  BY <1>5, ArriveInv
<1>6. ASSUME NEW r \in Requests, Check(r) \/ Lookup(r) \/ Match(r) \/ Leave(r) PROVE ServingInv'
  BY <1>6, CheckInv, LookupInv, MatchInv, LeaveInv
<1> QED BY <1>1, <1>2, <1>3, <1>4, <1>5, <1>6 DEF Next

LEMMA ServingInvariant == Spec => []ServingInv
BY InitInv, NextInv, PTL DEF Spec

\* Every variable keeps its type: what a node serves from is always rules in the
\* order of their priorities, or nothing.
THEOREM TypeCorrect == Spec => []TypeOK
BY ServingInvariant, PTL DEF ServingInv

\* However many reloads run while a request is served, its redirect comes from one
\* version of the rules that was loaded meanwhile, and from a best rule of it.
THEOREM AnswersOneVersionAlways == Spec => []AnswersOneVersion
<1>1. ServingInv => AnswersOneVersion
  <2> SUFFICES ASSUME ServingInv, NEW r \in Requests, Redirected(r)
               PROVE  \E e \in seen[r] \ {NotServed} :
                        req[r].answer \in Best(ToSet(RulesOf(e)), req[r].path)
    BY DEF AnswersOneVersion
  <2>1. Underway(r) BY DEF ServingInv
  <2> QED BY <2>1 DEF Redirected, Underway, Loaded
<1> QED BY <1>1, ServingInvariant, PTL

\* A domain that stays loaded is redirected on both ports, and a request for a
\* domain that is not is refused, on port 80 by an upgrade.
THEOREM KnownDomainAnsweredAlways == Spec => []KnownDomainAnswered
<1>1. ServingInv => KnownDomainAnswered
  <2> SUFFICES ASSUME ServingInv, NEW r \in Requests, req[r].pc = "done"
               PROVE  /\ NotServed \notin seen[r] => Redirected(r)
                      /\ seen[r] = {NotServed} =>
                           req[r].answer = IF req[r].port = 80 THEN Upgrade ELSE NotFound
    BY DEF KnownDomainAnswered
  <2>1. Underway(r) /\ \A e \in seen[r] : IsEntry(e) BY Known
  <2>2. ASSUME NotServed \notin seen[r] PROVE Redirected(r)
    <3>1. PICK e \in seen[r] : Loaded(e) /\ req[r].answer \in Best(ToSet(RulesOf(e)), req[r].path)
      BY <2>1, <2>2 DEF Underway
    <3>2. ToSet(RulesOf(e)) \in SUBSET Rules BY <2>1, <3>1, RankedRules DEF IsEntry, Loaded
    <3>3. req[r].answer \notin {NotFound, Upgrade} BY <3>1, <3>2, BestIsTarget
    <3> QED BY <3>3 DEF Redirected
  <2>3. ASSUME seen[r] = {NotServed}
        PROVE  req[r].answer = IF req[r].port = 80 THEN Upgrade ELSE NotFound
    <3>1. \A e \in seen[r] : ~Loaded(e) BY <2>3 DEF Loaded
    <3>2. req[r].port = 80 => req[r].answer = Upgrade BY <2>1, <3>1 DEF Underway
    <3>3. req[r].port # 80 => req[r].answer = NotFound BY <2>1, <3>1 DEF Underway
    <3> QED BY <3>2, <3>3
  <2> QED BY <2>2, <2>3
<1> QED BY <1>1, ServingInvariant, PTL

\* Nodes that loaded the same rules, in whatever order their sorts left equal
\* priorities, agree on every path for which the best rule is unique.
THEOREM NodesAgreeAlways == Spec => []NodesAgree
<1>1. ServingInv => NodesAgree
  <2> SUFFICES ASSUME ServingInv, NEW n \in Nodes, NEW m \in Nodes,
                      Loaded(engine[n]), Loaded(engine[m]),
                      ToSet(RulesOf(engine[n])) = ToSet(RulesOf(engine[m])), NEW path \in Urls,
                      Taken(RulesOf(engine[n]), path, Default)
                        # Taken(RulesOf(engine[m]), path, Default)
               PROVE  Cardinality(Best(ToSet(RulesOf(engine[n])), path)) > 1
    BY DEF NodesAgree
  <2> DEFINE S == ToSet(RulesOf(engine[n]))
             B == Best(S, path)
             a == Taken(RulesOf(engine[n]), path, Default)
             b == Taken(RulesOf(engine[m]), path, Default)
  <2>1. IsRanked(RulesOf(engine[n])) /\ IsRanked(RulesOf(engine[m]))
    BY DEF ServingInv, TypeOK, IsEntry, Loaded
  <2>2. a \in B /\ b \in B /\ a # b BY <2>1, TakenIsBest
  <2>3. S \in SUBSET Rules BY <2>1, RankedRules
  <2>4. B \subseteq {Default} \cup {x.target : x \in S}
    <3> HIDE DEF S
    <3> QED BY DEF Best
  <2>5. IsFiniteSet({Default} \cup {x.target : x \in S})
    <3>1. IsFiniteSet(S) BY <2>3, ServingAssumption, FS_Subset
    <3> HIDE DEF S
    <3>2. IsFiniteSet({x.target : x \in S})
      <4> DEFINE f == [x \in S |-> x.target]
                 T == {x.target : x \in S}
      <4>1. f \in Surjection(S, T) BY DEF Surjection
      <4> HIDE DEF f, T
      <4>2. IsFiniteSet(T) BY <3>1, <4>1, FS_Surjection
      <4> QED BY <4>2 DEF T
    <3> QED BY <3>2, FS_AddElement
  <2>6. IsFiniteSet(B) BY <2>4, <2>5, FS_Subset
  <2> HIDE DEF B, a, b
  <2>7. Cardinality({a, b}) = 2
    <3>1. IsFiniteSet({a}) /\ Cardinality({a}) = 1 BY FS_Singleton
    <3>2. Cardinality({a} \cup {b}) = Cardinality({a}) + 1 BY <2>2, <3>1, FS_AddElement
    <3>3. {a} \cup {b} = {a, b} OBVIOUS
    <3> QED BY <3>1, <3>2, <3>3
  <2>8. {a, b} \in SUBSET B BY <2>2
  <2>9. Cardinality({a, b}) <= Cardinality(B) /\ Cardinality(B) \in Nat
    BY <2>6, <2>8, FS_Subset, FS_CardinalityType
  <2> QED BY <2>7, <2>9 DEF B
<1> QED BY <1>1, ServingInvariant, PTL
=============================================================================
