------------------------------- MODULE Serving -------------------------------
(***************************************************************************)
(* How a node answers requests for one domain while its rules change: the  *)
(* engine swaps in a new map on Reload, a handler takes the domain's entry *)
(* out of the map once and matches the path against it, and the handler of *)
(* port 80 asks for the domain first.  Where the rules come from and what  *)
(* makes a node reload is the business of RuleSync.                        *)
(***************************************************************************)
EXTENDS Matching

CONSTANTS
  Nodes,
  Rules,       \* the rules that may be stored, each [path, priority, target]
  MaxRules,    \* bound: rules enabled at a time
  MaxVersions, \* bound: entries loaded while one request is served
  Requests,
  Urls,        \* the paths that are asked for
  Default      \* the domain's default target

Ports == {80, 443}
NotServed == {}                          \* the map has no entry
Entry(s) == {s}                          \* the entry with rules s
Loaded(e) == e # NotServed
RulesOf(e) == CHOOSE s \in e : TRUE
NotFound == "404"
Upgrade == "https"
NoAnswer == "none"

\* Targets are URLs; the rules of a domain are few.
ASSUME ServingAssumption ==
  /\ IsFiniteSet(Rules) /\ MaxRules \in Nat /\ MaxVersions \in Nat \ {0}
  /\ Default \notin {NotFound, Upgrade}
  /\ \A r \in Rules : r.priority \in Nat /\ r.target \notin {NotFound, Upgrade}

VARIABLES
  enabled,   \* the domain is stored and enabled
  rules,     \* its enabled rules
  engine,    \* engine[n]: node n's entry of the domain
  req,       \* req[r]: a request
  seen       \* history: seen[r]: the entries request r could have found

vars == <<enabled, rules, engine, req, seen>>

Idle == [pc |-> "idle", node |-> NoAnswer, port |-> 80, path |-> <<>>,
         entry |-> NotServed, answer |-> NoAnswer]

Init ==
  /\ enabled = TRUE
  /\ rules = {}
  /\ engine = [n \in Nodes |-> Entry(<<>>)]
  /\ req = [r \in Requests |-> Idle]
  /\ seen = [r \in Requests |-> {}]

-----------------------------------------------------------------------------
(* The rules *)

\* Paths are unique within a domain.
Enable(r) ==
  /\ r \notin rules
  /\ \A x \in rules : x.path # r.path
  /\ Cardinality(rules) < MaxRules
  /\ rules' = rules \cup {r}
  /\ UNCHANGED <<enabled, engine, req, seen>>

Disable(r) ==
  /\ rules' = rules \ {r}
  /\ UNCHANGED <<enabled, engine, req, seen>>

ToggleDomain ==
  /\ enabled' = ~enabled
  /\ UNCHANGED <<rules, engine, req, seen>>

InFlight(n) == {r \in Requests : req[r].pc # "idle" /\ req[r].node = n}

Reload(n) ==
  /\ \E e \in IF enabled THEN {Entry(s) : s \in Orders(rules)} ELSE {NotServed} :
       engine' = [engine EXCEPT ![n] = e]
  /\ seen' = [r \in Requests |-> IF r \in InFlight(n) THEN seen[r] \cup {engine'[n]} ELSE seen[r]]
  /\ \A r \in Requests : Cardinality(seen'[r]) <= MaxVersions
  /\ UNCHANGED <<enabled, rules, req>>

-----------------------------------------------------------------------------
(* Requests *)

Arrive(r, n, port, path) ==
  /\ req[r].pc = "idle"
  /\ req' = [req EXCEPT ![r] = [Idle EXCEPT !.pc = IF port = 80 THEN "check" ELSE "lookup",
                                            !.node = n, !.port = port, !.path = path]]
  /\ seen' = [seen EXCEPT ![r] = {engine[n]}]
  /\ UNCHANGED <<enabled, rules, engine>>

Answered(r, a) ==
  req' = [req EXCEPT ![r].pc = "done", ![r].answer = a, ![r].entry = NotServed]
GoesOn(r, where) == req' = [req EXCEPT ![r].pc = where]

\* Mutant: port 80 does not ask for the domain.
CheckNothing(r) ==
  /\ req[r].pc = "check"
  /\ GoesOn(r, "lookup")
  /\ UNCHANGED <<enabled, rules, engine, seen>>

\* The fallback of port 80: HasDomain, or an upgrade to HTTPS.
Check(r) ==
  /\ req[r].pc = "check"
  /\ IF Loaded(engine[req[r].node]) THEN GoesOn(r, "lookup") ELSE Answered(r, Upgrade)
  /\ UNCHANGED <<enabled, rules, engine, seen>>

Lookup(r) ==
  /\ req[r].pc = "lookup"
  /\ LET e == engine[req[r].node]
     IN  IF Loaded(e) THEN req' = [req EXCEPT ![r].pc = "match", ![r].entry = e]
         ELSE Answered(r, NotFound)
  /\ UNCHANGED <<enabled, rules, engine, seen>>

Match(r) ==
  /\ req[r].pc = "match"
  /\ Answered(r, Taken(RulesOf(req[r].entry), req[r].path, Default))
  /\ UNCHANGED <<enabled, rules, engine, seen>>

Leave(r) ==
  /\ req[r].pc = "done"
  /\ req' = [req EXCEPT ![r] = Idle]
  /\ seen' = [seen EXCEPT ![r] = {}]
  /\ UNCHANGED <<enabled, rules, engine>>

Next ==
  \/ \E x \in Rules : Enable(x) \/ Disable(x)
  \/ ToggleDomain
  \/ \E n \in Nodes : Reload(n)
  \/ \E r \in Requests :
       \/ \E n \in Nodes, port \in Ports, path \in Urls : Arrive(r, n, port, path)
       \/ Check(r) \/ Lookup(r) \/ Match(r) \/ Leave(r)

Spec == Init /\ [][Next]_vars

-----------------------------------------------------------------------------

\* Rules in an order the engine may have them in, and the entries made of them.
IsRanked(s) ==
  s \in Seq(Rules) /\ \A i, j \in DOMAIN s : i < j => s[i].priority >= s[j].priority
IsEntry(e) == e = NotServed \/ (e = Entry(RulesOf(e)) /\ IsRanked(RulesOf(e)))

IsReq(q) ==
  /\ q \in [pc: {"idle", "check", "lookup", "match", "done"}, node: Nodes \cup {NoAnswer},
            port: Ports, path: Urls \cup {<<>>}, entry: {q.entry},
            answer: {NoAnswer, NotFound, Upgrade, Default} \cup {x.target : x \in Rules}]
  /\ IsEntry(q.entry)
  /\ q.pc # "idle" => q.node \in Nodes /\ q.path \in Urls
  /\ q.pc = "check" => q.port = 80

TypeOK ==
  /\ enabled \in BOOLEAN
  /\ rules \subseteq Rules /\ Cardinality(rules) <= MaxRules
  /\ engine = [n \in Nodes |-> engine[n]] /\ \A n \in Nodes : IsEntry(engine[n])
  /\ req = [r \in Requests |-> req[r]] /\ \A r \in Requests : IsReq(req[r])
  /\ seen = [r \in Requests |-> seen[r]]
  /\ \A r \in Requests : Cardinality(seen[r]) <= MaxVersions /\ \A e \in seen[r] : IsEntry(e)

\* The targets that the rules S allow: those of the matching rules that no other
\* matching rule exceeds in priority.
Best(S, path) ==
  LET matching == {x \in S : matchPath(x.path, path)}
  IN  IF matching = {} THEN {Default}
      ELSE {x.target : x \in {y \in matching : \A z \in matching : z.priority <= y.priority}}

Redirected(r) == req[r].pc = "done" /\ req[r].answer \notin {NotFound, Upgrade}

\* A redirect comes from one version of the rules that was loaded while the
\* request was served, and from a best rule of it, however many reloads ran in
\* between ("Rules sorted by priority; first match wins", README.md:65).
AnswersOneVersion ==
  \A r \in Requests : Redirected(r) =>
    \E e \in seen[r] \ {NotServed} : req[r].answer \in Best(ToSet(RulesOf(e)), req[r].path)

\* A domain that is loaded all the time is redirected, on either port; on port
\* 80, not found is answered only to a request during which the domain came or
\* went (main.go:258).
KnownDomainAnswered ==
  \A r \in Requests : req[r].pc = "done" =>
    /\ NotServed \notin seen[r] => Redirected(r)
    /\ seen[r] = {NotServed} => req[r].answer = IF req[r].port = 80 THEN Upgrade ELSE NotFound

\* Two nodes that have loaded the same rules give every path the same answer,
\* unless matching rules are equal in priority (engine.go:77).
NodesAgree ==
  \A n, m \in Nodes :
    Loaded(engine[n]) /\ Loaded(engine[m])
    /\ ToSet(RulesOf(engine[n])) = ToSet(RulesOf(engine[m])) =>
      \A path \in Urls :
        \/ Taken(RulesOf(engine[n]), path, Default) = Taken(RulesOf(engine[m]), path, Default)
        \/ Cardinality(Best(ToSet(RulesOf(engine[n])), path)) > 1
=============================================================================
