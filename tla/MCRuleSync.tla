----------------------------- MODULE MCRuleSync -----------------------------
(***************************************************************************)
(* Constants of the RuleSync runs: deployments, rows and request sets.     *)
(***************************************************************************)
EXTENDS RegionSync, TLC

CONSTANTS control, control2, data, central, edge, edge2, h1, h2

\* One handler, or two at a time, on one control plane; a data node with its own database.
OneHandlerHost == h1 :> control
TwoHandlersHost == h1 :> control @@ h2 :> control
OneFollowerDbOf == control :> central @@ data :> edge

\* One region of the deployment: control plane and data node share a database.
RegionDbOf == control :> central @@ data :> central

\* The control plane that takes the requests, and another region: its control
\* plane and its data node poll into the database they share.
EdgeRegionDbOf == control :> central @@ control2 :> edge @@ data :> edge

\* Two control planes, or a control plane and a single binary, each with a database
\* of its own.
TwoRegionsHost == h1 :> control @@ h2 :> control2
TwoRegionsDbOf == control :> central @@ control2 :> edge2

Row(url, code) == [url |-> url, code |-> code, enabled |-> TRUE]
Off(url) == [url |-> url, code |-> 301, enabled |-> FALSE]
Rule(url, code, prio) == [url |-> url, code |-> code, prio |-> prio, enabled |-> TRUE]

Create(n) == [kind |-> "createDomain", name |-> n, row |-> Row("u", 0)]
Delete(n) == [kind |-> "deleteDomain", name |-> n]
Update(n, row) == [kind |-> "updateDomain", name |-> n, row |-> row]
AddRule(n, p) == [kind |-> "createRule", name |-> n, path |-> p, rule |-> Rule("v", 0, 1)]
MoveRule(n, p, q) ==
  [kind |-> "updateRule", name |-> n, path |-> p, newPath |-> q, rule |-> Rule("u", 301, 0)]
DropRule(n, p) == [kind |-> "deleteRule", name |-> n, path |-> p]
Load(entries) == [kind |-> "import", entries |-> entries]
Entry(n, rules) == [name |-> n, row |-> Row("v", 0), rules |-> rules]

\* Domains come and go, so that a ruleset can be published twice.
ToggleRequests == {Create(1), Delete(1), Create(2)}

\* One domain comes and goes, and may get a rule.
EdgeRequests == {Create(1), Delete(1), AddRule(1, "a")}

\* Domains only come.
GrowRequests == {Create(1), Create(2)}
NoSeed == <<>>

\* Every kind of request; the seed file repeats a domain.
RuleRequests == {AddRule(1, "b"), MoveRule(1, "a", "b"), DropRule(1, "a"), Delete(1)}
AllRequests == RuleRequests \cup
  {Create(2), Update(1, Off("v")), Update(1, Row("v", 0)),
   Load(<<Entry(2, "a" :> Rule("u", 0, 0)), Entry(1, "b" :> Rule("u", 301, 1))>>)}
OneRuleSeed == <<Entry(1, "a" :> Rule("v", 0, 0)), Entry(1, "a" :> Rule("u", 301, 1))>>
=============================================================================
