--------------------------- MODULE RuleSyncProofs ---------------------------
(***************************************************************************)
(* Proofs about RuleStore and RuleSync, for any deployment, ruleset,       *)
(* request set and bound: what the statements and transactions preserve    *)
(* and produce, type correctness, which step may change what, what a       *)
(* follower holds, serves and records, that the API's import keeps what is *)
(* there, and that followers implement RuleReplica.                        *)
(***************************************************************************)
EXTENDS RuleSync, WellFoundedInduction, FiniteSetTheorems, TLAPS

LEMMA MinIsLeast ==
  ASSUME NEW S, S \subseteq Nat, S # {}
  PROVE  Min(S) \in S /\ \A y \in S : Min(S) <= y
<1> DEFINE R == OpToRel(<, Nat)
<1>1. \A x, y \in Nat : <<y, x>> \in R <=> y < x
  BY DEF OpToRel
<1>2. IsWellFoundedOn(R, Nat)
  BY NatLessThanWellFounded
<1>3. \E x \in S : \A y \in S : ~ (<<y, x>> \in R)
  <2> HIDE DEF R
  <2> QED BY <1>2, WFMin
<1>4. \E x \in S : \A y \in S : x <= y
  <2>1. PICK x \in S : \A y \in S : ~ (<<y, x>> \in R)
    BY <1>3
  <2>2. ASSUME NEW y \in S PROVE x <= y
    <3>1. x \in Nat /\ y \in Nat
      OBVIOUS
    <3>2. ~ (y < x)
      <4> HIDE DEF R
      <4> QED BY <1>1, <2>1, <3>1
    <3> QED BY <3>1, <3>2
  <2> QED BY <2>1, <2>2
<1> QED BY <1>4 DEF Min

-----------------------------------------------------------------------------
(* Rows, rules and rulesets. *)

LEMMA DefaultCodeType ==
  /\ \A v \in DomainRow : DefaultCode(v) \in DomainRow
  /\ \A v \in RuleRow : DefaultCode(v) \in RuleRow
BY CodesAssumption DEF DomainRow, RuleRow, DefaultCode

\* A row that a request or an entry creates is enabled whatever it says.
LEMMA LiveType ==
  /\ \A v \in DomainRow : [DefaultCode(v) EXCEPT !.enabled = TRUE] \in DomainRow
  /\ \A v \in RuleRow : [DefaultCode(v) EXCEPT !.enabled = TRUE] \in RuleRow
<1>1. \A v \in DomainRow : [v EXCEPT !.enabled = TRUE] \in DomainRow BY DEF DomainRow
<1>2. \A v \in RuleRow : [v EXCEPT !.enabled = TRUE] \in RuleRow BY DEF RuleRow
<1> QED BY <1>1, <1>2, DefaultCodeType

LEMMA NothingType == IsRules(Nothing) /\ IsRuleset(Nothing) /\ IsTable(Nothing)
BY DEF IsRules, IsRuleset, IsTable, Nothing

LEMMA WithRules ==
  ASSUME NEW f, IsRules(f), NEW p \in Paths, NEW r \in RuleRow
  PROVE  IsRules(With(f, p, r))
BY DEF IsRules, With

LEMMA WithoutRules ==
  ASSUME NEW f, IsRules(f), NEW S
  PROVE  IsRules(Without(f, S))
BY DEF IsRules, Without, Restrict

LEMMA NormaliseType ==
  ASSUME NEW rs, IsRuleset(rs)
  PROVE  IsRuleset(Normalise(rs))
<1> SUFFICES ASSUME NEW n \in DOMAIN rs
             PROVE  /\ DefaultCode(rs[n].row) \in DomainRow
                    /\ IsRules([p \in DOMAIN rs[n].rules |-> DefaultCode(rs[n].rules[p])])
  BY DEF IsRuleset, Normalise
<1> QED BY DefaultCodeType DEF IsRuleset, IsRules

LEMMA EmptyDatabaseType == IsDatabase(EmptyDatabase)
BY NothingType DEF IsDatabase, EmptyDatabase

-----------------------------------------------------------------------------
(* Single statements. *)

LEMMA InsertDomainType ==
  ASSUME NEW d, IsDatabase(d), NEW n \in Names, NEW row \in DomainRow
  PROVE  IsDatabase(InsertDomain(d, n, row))
BY NothingType DEF IsDatabase, IsTable, InsertDomain, With

LEMMA UpdateDomainType ==
  ASSUME NEW d, IsDatabase(d), NEW n, NEW row \in DomainRow
  PROVE  IsDatabase(UpdateDomain(d, n, row))
BY DEF IsDatabase, IsTable, UpdateDomain

LEMMA DeleteDomainType ==
  ASSUME NEW d, IsDatabase(d), NEW n
  PROVE  IsDatabase(DeleteDomain(d, n))
BY DEF IsDatabase, IsTable, DeleteDomain, Without, Restrict

\* Every statement on one domain's rules replaces them by other rules.
LEMMA ReplaceRulesType ==
  ASSUME NEW d, IsDatabase(d), NEW n \in DOMAIN d.tab, NEW f, IsRules(f)
  PROVE  IsDatabase([d EXCEPT !.tab[n].rules = f])
BY DEF IsDatabase, IsTable

LEMMA InsertRuleType ==
  ASSUME NEW d, IsDatabase(d), NEW n \in DOMAIN d.tab,
         NEW p \in Paths, NEW r \in RuleRow
  PROVE  IsDatabase(InsertRule(d, n, p, r))
<1>1. IsRules(With(d.tab[n].rules, p, r))
  BY WithRules DEF IsDatabase, IsTable
<1> QED BY <1>1, ReplaceRulesType DEF InsertRule

LEMMA UpdateRuleType ==
  ASSUME NEW d, IsDatabase(d), NEW n, NEW p, NEW q \in Paths, NEW r \in RuleRow
  PROVE  IsDatabase(UpdateRule(d, n, p, q, r))
<1>1. CASE HasRule(d, n, p)
  <2>1. n \in DOMAIN d.tab
    BY <1>1 DEF HasRule
  <2>2. IsRules(With(Without(d.tab[n].rules, {p}), q, r))
    BY <2>1, WithRules, WithoutRules DEF IsDatabase, IsTable
  <2> QED BY <1>1, <2>1, <2>2, ReplaceRulesType DEF UpdateRule
<1>2. CASE ~HasRule(d, n, p)
  BY <1>2 DEF UpdateRule
<1> QED BY <1>1, <1>2

LEMMA DeleteRuleType ==
  ASSUME NEW d, IsDatabase(d), NEW n, NEW p
  PROVE  IsDatabase(DeleteRule(d, n, p))
<1>1. CASE HasRule(d, n, p)
  <2>1. n \in DOMAIN d.tab
    BY <1>1 DEF HasRule
  <2>2. IsRules(Without(d.tab[n].rules, {p}))
    BY <2>1, WithoutRules DEF IsDatabase, IsTable
  <2> QED BY <1>1, <2>1, <2>2, ReplaceRulesType DEF DeleteRule
<1>2. CASE ~HasRule(d, n, p)
  BY <1>2 DEF DeleteRule
<1> QED BY <1>1, <1>2

-----------------------------------------------------------------------------
(* The transactions. *)

\* Every new domain gets an id.
LEMMA FreshIdsType ==
  ASSUME NEW d, IsDatabase(d), NEW new \in SUBSET Names
  PROVE  /\ \A n \in new : FreshIds(d, new)[n] \in Nat
         /\ d.next + Cardinality(new) \in Nat
<1>1. \A S \in SUBSET Names : Cardinality(S) \in Nat
  BY NamesAssumption, FS_Subset, FS_CardinalityType
<1>2. \A n \in new : Cardinality({m \in new : m < n}) \in Nat
  <2> SUFFICES ASSUME NEW n \in new
               PROVE  Cardinality({m \in new : m < n}) \in Nat
    OBVIOUS
  <2> DEFINE S == {m \in new : m < n}
  <2>1. S \in SUBSET Names
    OBVIOUS
  <2> QED BY <1>1, <2>1
<1>3. d.next \in Nat /\ Cardinality(new) \in Nat
  BY <1>1 DEF IsDatabase
<1> HIDE DEF IsDatabase
<1> QED BY <1>2, <1>3 DEF FreshIds

LEMMA BulkImportType ==
  ASSUME NEW d, IsDatabase(d), NEW entries, IsEntries(entries)
  PROVE  IsDatabase(BulkImport(d, entries))
<1> DEFINE Of(n) == {i \in DOMAIN entries : entries[i].name = n}
           OfRule(n, p) == {i \in Of(n) : p \in DOMAIN entries[i].rules}
           listed == {entries[i].name : i \in DOMAIN entries}
           new == listed \ DOMAIN d.tab
           ids == FreshIds(d, new)
           Live(v) == [DefaultCode(v) EXCEPT !.enabled = TRUE]
           Before(n) == IF n \in new THEN Nothing ELSE d.tab[n].rules
           RulesOf(n) ==
             [p \in DOMAIN Before(n) \cup {q \in Paths : OfRule(n, q) # {}} |->
                IF p \in DOMAIN Before(n)
                  THEN Before(n)[p]
                  ELSE Live(entries[Min(OfRule(n, p))].rules[p])]
           Id(n) == IF n \in new THEN ids[n] ELSE d.tab[n].id
           Row(n) == IF n \in new THEN Live(entries[Min(Of(n))].row) ELSE d.tab[n].row
           tab == [n \in DOMAIN d.tab \cup listed |->
                     [id |-> Id(n), row |-> Row(n), rules |-> RulesOf(n)]]
<1>1. listed \subseteq Names
  BY DEF IsEntries
<1>2. /\ \A n \in new : ids[n] \in Nat
      /\ d.next + Cardinality(new) \in Nat
  BY <1>1, FreshIdsType
<1>3. ASSUME NEW n \in DOMAIN d.tab \cup listed
      PROVE  Id(n) \in Nat
  BY <1>2 DEF IsDatabase, IsTable
<1>4. ASSUME NEW n \in DOMAIN d.tab \cup listed
      PROVE  Row(n) \in DomainRow
  <2>1. CASE n \in new
    <3>1. Of(n) # {} /\ Of(n) \subseteq Nat
      BY <2>1 DEF IsEntries
    <3>2. Min(Of(n)) \in DOMAIN entries
      BY <3>1, MinIsLeast
    <3>3. entries[Min(Of(n))].row \in DomainRow
      BY <3>2 DEF IsEntries
    <3> QED BY <2>1, <3>3, LiveType
  <2>2. CASE n \notin new
    BY <2>2, <1>4 DEF IsDatabase, IsTable
  <2> QED BY <2>1, <2>2
<1>5. ASSUME NEW n \in DOMAIN d.tab \cup listed
      PROVE  IsRules(RulesOf(n))
  <2>1. IsRules(Before(n))
    BY <1>5, NothingType DEF IsDatabase, IsTable
  <2>2. ASSUME NEW p \in Paths, OfRule(n, p) # {}
        PROVE  Live(entries[Min(OfRule(n, p))].rules[p]) \in RuleRow
    <3> DEFINE i == Min(OfRule(n, p))
    <3>1. OfRule(n, p) \subseteq Nat
      BY DEF IsEntries
    <3>2. i \in DOMAIN entries /\ p \in DOMAIN entries[i].rules
      BY <2>2, <3>1, MinIsLeast
    <3>3. entries[i].rules[p] \in RuleRow
      BY <3>2 DEF IsEntries, IsRules
    <3> QED BY <3>3, LiveType
  <2> HIDE DEF Before, OfRule, Live
  <2> QED BY <2>1, <2>2 DEF IsRules
<1>6. IsTable(tab)
  <2> HIDE DEF Id, Row, RulesOf, listed
  <2> QED BY <1>1, <1>3, <1>4, <1>5 DEF IsDatabase, IsTable
<1>7. BulkImport(d, entries) = [tab |-> tab, next |-> d.next + Cardinality(new)]
  BY DEF BulkImport
<1> QED
  <2> HIDE DEF tab, new
  <2> QED BY <1>2, <1>6, <1>7 DEF IsDatabase

\* INSERT OR IGNORE leaves every row that exists, and every rule, as they are.
LEMMA BulkImportKeeps ==
  ASSUME NEW d, NEW entries, NEW n \in DOMAIN d.tab
  PROVE  LET new == BulkImport(d, entries).tab
         IN /\ n \in DOMAIN new /\ new[n].row = d.tab[n].row
            /\ \A p \in DOMAIN d.tab[n].rules :
                 p \in DOMAIN new[n].rules /\ new[n].rules[p] = d.tab[n].rules[p]
BY DEF BulkImport

LEMMA BulkImportReplaceType ==
  ASSUME NEW d, IsDatabase(d), NEW scanned, NEW rs, IsRuleset(rs)
  PROVE  IsDatabase(BulkImportReplace(d, scanned, rs))
<1> DEFINE new == DOMAIN rs \ DOMAIN d.tab
           ids == FreshIds(d, new)
           normal == Normalise(rs)
           Kept(n) == IF n \in new
                        THEN {}
                        ELSE DOMAIN d.tab[n].rules \
                               (DOMAIN rs[n].rules \cup OrphanRules(scanned, rs, n))
           RulesOf(n) == [p \in DOMAIN rs[n].rules \cup Kept(n) |->
                            IF p \in DOMAIN rs[n].rules THEN normal[n].rules[p]
                                                        ELSE d.tab[n].rules[p]]
           Id(n) == IF n \in new THEN ids[n] ELSE d.tab[n].id
           tab == [n \in DOMAIN rs \cup (DOMAIN d.tab \ OrphanDomains(scanned, rs)) |->
                     IF n \in DOMAIN rs
                       THEN [id |-> Id(n), row |-> normal[n].row, rules |-> RulesOf(n)]
                       ELSE d.tab[n]]
<1>1. /\ \A n \in new : ids[n] \in Nat
      /\ d.next + Cardinality(new) \in Nat
  BY FreshIdsType DEF IsRuleset
<1>2. IsRuleset(normal) /\ DOMAIN normal = DOMAIN rs
  BY NormaliseType DEF Normalise
<1>3. ASSUME NEW n \in DOMAIN rs
      PROVE  Id(n) \in Nat /\ normal[n].row \in DomainRow
  BY <1>1, <1>2 DEF IsDatabase, IsTable, IsRuleset
<1>4. ASSUME NEW n \in DOMAIN rs
      PROVE  IsRules(RulesOf(n))
  <2>1. IsRules(normal[n].rules) /\ DOMAIN normal[n].rules = DOMAIN rs[n].rules
    BY <1>2 DEF IsRuleset, Normalise
  <2>2. ASSUME NEW p \in Kept(n)
        PROVE  p \in Paths /\ d.tab[n].rules[p] \in RuleRow
    BY DEF IsDatabase, IsTable, IsRules
  <2> HIDE DEF Kept, normal
  <2> QED BY <2>1, <2>2 DEF IsRules
<1>5. IsTable(tab)
  <2> HIDE DEF Id, normal, RulesOf
  <2> QED BY <1>3, <1>4 DEF IsDatabase, IsTable, IsRuleset
<1>6. BulkImportReplace(d, scanned, rs) = [tab |-> tab, next |-> d.next + Cardinality(new)]
  BY DEF BulkImportReplace
<1> QED
  <2> HIDE DEF tab, new
  <2> QED BY <1>1, <1>5, <1>6 DEF IsDatabase

\* The table says all that the ruleset says.
Includes(tab, rs) ==
  \A n \in DOMAIN rs :
    /\ n \in DOMAIN tab /\ tab[n].row = DefaultCode(rs[n].row)
    /\ tab[n].rules = [p \in DOMAIN tab[n].rules |-> tab[n].rules[p]]
    /\ \A p \in DOMAIN rs[n].rules :
         p \in DOMAIN tab[n].rules /\ tab[n].rules[p] = DefaultCode(rs[n].rules[p])

\* What an import of rs leaves of the table before, whatever its orphan queries scanned.
Leaves(tab, before, scanned, rs) ==
  /\ DOMAIN tab = DOMAIN rs \cup (DOMAIN before \ (DOMAIN scanned \ DOMAIN rs))
  /\ Includes(tab, rs)
  /\ \A n \in DOMAIN rs :
       \A p \in DOMAIN tab[n].rules \ DOMAIN rs[n].rules :
         /\ n \in DOMAIN before /\ p \in DOMAIN before[n].rules
         /\ ~(n \in DOMAIN scanned /\ p \in DOMAIN scanned[n].rules)

LEMMA ImportEffect ==
  ASSUME NEW d, NEW scanned, NEW rs
  PROVE  Leaves(BulkImportReplace(d, scanned, rs).tab, d.tab, scanned, rs)
<1> DEFINE new == DOMAIN rs \ DOMAIN d.tab
           ids == FreshIds(d, new)
           normal == Normalise(rs)
           Kept(n) == IF n \in new
                        THEN {}
                        ELSE DOMAIN d.tab[n].rules \
                               (DOMAIN rs[n].rules \cup OrphanRules(scanned, rs, n))
           RulesOf(n) == [p \in DOMAIN rs[n].rules \cup Kept(n) |->
                            IF p \in DOMAIN rs[n].rules THEN normal[n].rules[p]
                                                        ELSE d.tab[n].rules[p]]
           Id(n) == IF n \in new THEN ids[n] ELSE d.tab[n].id
           names == DOMAIN rs \cup (DOMAIN d.tab \ OrphanDomains(scanned, rs))
           tab == [n \in names |->
                     IF n \in DOMAIN rs
                       THEN [id |-> Id(n), row |-> normal[n].row, rules |-> RulesOf(n)]
                       ELSE d.tab[n]]
<1>1. BulkImportReplace(d, scanned, rs).tab = tab
  BY DEF BulkImportReplace
<1>2. DOMAIN tab = names
  OBVIOUS
<1>3. ASSUME NEW n \in DOMAIN rs
      PROVE  tab[n].row = normal[n].row /\ tab[n].rules = RulesOf(n)
  <2> HIDE DEF normal, RulesOf, Id
  <2> QED OBVIOUS
<1>4. ASSUME NEW n \in DOMAIN rs
      PROVE  /\ normal[n].row = DefaultCode(rs[n].row)
             /\ \A p \in DOMAIN rs[n].rules : normal[n].rules[p] = DefaultCode(rs[n].rules[p])
  BY DEF Normalise
<1>5. ASSUME NEW n \in DOMAIN rs, NEW p \in DOMAIN RulesOf(n) \ DOMAIN rs[n].rules
      PROVE  /\ n \in DOMAIN d.tab /\ p \in DOMAIN d.tab[n].rules
             /\ ~(n \in DOMAIN scanned /\ p \in DOMAIN scanned[n].rules)
  BY <1>5 DEF OrphanRules
<1>6. ASSUME NEW n \in DOMAIN rs
      PROVE  /\ RulesOf(n) = [p \in DOMAIN RulesOf(n) |-> RulesOf(n)[p]]
             /\ \A p \in DOMAIN rs[n].rules :
                  p \in DOMAIN RulesOf(n) /\ RulesOf(n)[p] = normal[n].rules[p]
  <2> HIDE DEF normal, Kept
  <2> QED OBVIOUS
<1>7. Leaves(tab, d.tab, scanned, rs)
  <2> HIDE DEF tab, RulesOf, normal
  <2> QED BY <1>2, <1>3, <1>4, <1>5, <1>6 DEF OrphanDomains, Leaves, Includes
<1> QED BY <1>1, <1>7

\* A table that says nothing else is the ruleset.
LEMMA IncludesOnly ==
  ASSUME NEW tab, NEW rs, Includes(tab, rs), DOMAIN tab \subseteq DOMAIN rs,
         \A n \in DOMAIN tab : DOMAIN tab[n].rules \subseteq DOMAIN rs[n].rules
  PROVE  View(tab) = Normalise(rs)
<1>1. DOMAIN tab = DOMAIN rs
  BY DEF Includes
<1>2. ASSUME NEW n \in DOMAIN rs
      PROVE  /\ tab[n].row = DefaultCode(rs[n].row)
             /\ tab[n].rules = [p \in DOMAIN rs[n].rules |-> DefaultCode(rs[n].rules[p])]
  BY <1>1 DEF Includes
<1> QED BY <1>1, <1>2 DEF View, Normalise

\* An import whose orphan queries saw the table it commits to leaves exactly the
\* ruleset it was given, with its zero codes replaced, whatever was there before.
THEOREM ImportInstallsRuleset ==
  ASSUME NEW d, NEW rs
  PROVE  View(BulkImportReplace(d, d.tab, rs).tab) = Normalise(rs)
<1> DEFINE tab == BulkImportReplace(d, d.tab, rs).tab
<1>1. Leaves(tab, d.tab, d.tab, rs)
  BY ImportEffect
<1> HIDE DEF tab
<1>2. /\ Includes(tab, rs) /\ DOMAIN tab \subseteq DOMAIN rs
      /\ \A n \in DOMAIN tab : DOMAIN tab[n].rules \subseteq DOMAIN rs[n].rules
  BY <1>1 DEF Leaves
<1>3. View(tab) = Normalise(rs)
  BY <1>2, IncludesOnly
<1> QED BY <1>3 DEF tab

-----------------------------------------------------------------------------
(* Queries and what the engine makes of them. *)

LEMMA ListDomainsType ==
  ASSUME NEW tab, IsTable(tab), NEW limit
  PROVE  /\ IsTable(ListDomains(tab, limit))
         /\ DOMAIN ListDomains(tab, limit) \subseteq DOMAIN tab
         /\ \A n \in DOMAIN ListDomains(tab, limit) : ListDomains(tab, limit)[n] = tab[n]
BY DEF IsTable, ListDomains, Restrict

LEMMA ListRulesType ==
  ASSUME NEW tab, IsTable(tab), NEW n, NEW id
  PROVE  IsRules(ListRules(tab, n, id))
BY NothingType DEF IsTable, ListRules

LEMMA ServeType ==
  ASSUME NEW rs, IsRuleset(rs)
  PROVE  IsServed(Serve(rs))
<1> SUFFICES ASSUME NEW n \in DOMAIN Serve(rs)
             PROVE  /\ n \in Names
                    /\ Serve(rs)[n].url \in Urls /\ Serve(rs)[n].code \in Codes
                    /\ DOMAIN Serve(rs)[n].rules \subseteq Paths
                    /\ \A p \in DOMAIN Serve(rs)[n].rules :
                         Serve(rs)[n].rules[p] \in [url: Urls, code: Codes, prio: Priorities]
  BY DEF IsServed
<1>1. n \in DOMAIN rs
  BY DEF Serve
<1>2. rs[n].row \in DomainRow /\ IsRules(rs[n].rules) /\ n \in Names
  BY <1>1 DEF IsRuleset
<1> QED BY <1>1, <1>2 DEF Serve, IsRules, DomainRow, RuleRow

\* An engine that is empty, as after a start, serves nothing wrong.
LEMMA NothingServed == ASSUME NEW rs PROVE ServesOnly(Nothing, rs)
BY DEF ServesOnly, Nothing

\* Serving a part of a ruleset's domains serves only what the ruleset says.
LEMMA PartServed ==
  ASSUME NEW part, NEW rs, DOMAIN part \subseteq DOMAIN rs,
         \A n \in DOMAIN part : part[n] = rs[n]
  PROVE  ServesOnly(Serve(part), rs)
<1>1. DOMAIN Serve(part) \subseteq DOMAIN Serve(rs)
  BY DEF Serve
<1>2. ASSUME NEW n \in DOMAIN Serve(part)
      PROVE  Serve(part)[n] = Serve(rs)[n]
  <2>1. n \in DOMAIN part /\ n \in DOMAIN Serve(rs)
    BY <1>1 DEF Serve
  <2> QED BY <2>1, <1>1 DEF Serve
<1> QED BY <1>1, <1>2 DEF ServesOnly

-----------------------------------------------------------------------------
(* Where processes live. *)

LEMMA Places ==
  /\ \A n \in Nodes : n \in Procs /\ n \notin Handlers /\ NodeOf(n) = n /\ MyDb(n) = DbOf[n]
  /\ \A h \in Handlers : h \in Procs /\ h \notin Nodes /\ NodeOf(h) = Host[h]
  /\ \A p \in Procs : NodeOf(p) \in Nodes /\ MyDb(p) \in DBs
  /\ \A n \in Nodes : DbOf[n] \in DBs
BY TopologyAssumption DEF Procs, NodeOf, MyDb

-----------------------------------------------------------------------------
(* Growing the log of published bodies. *)

LEMMA AppendRange ==
  ASSUME NEW s, s \in Seq(Range(s)), NEW x
  PROVE  /\ Append(s, x) \in Seq(Range(Append(s, x)))
         /\ Len(s) \in Nat
         /\ Len(Append(s, x)) = Len(s) + 1
         /\ \A k \in 1..Len(s) : Append(s, x)[k] = s[k]
         /\ Append(s, x)[Len(s) + 1] = x
<1> DEFINE S == Range(s) \cup {x}
           t == Append(s, x)
<1>1. s \in Seq(S) /\ x \in S
  OBVIOUS
<1>2. t \in Seq(S) /\ Len(s) \in Nat /\ Len(t) = Len(s) + 1 /\ DOMAIN t = 1..Len(t)
      /\ DOMAIN s = 1..Len(s)
  <2> HIDE DEF S
  <2> QED BY <1>1
<1>3. (\A k \in 1..Len(s) : t[k] = s[k]) /\ t[Len(s) + 1] = x
  <2> HIDE DEF S
  <2> QED BY <1>1
<1>4. Range(t) = S
  <2> HIDE DEF t
  <2>1. ASSUME NEW k \in DOMAIN t PROVE t[k] \in S
    BY <1>2
  <2>2. ASSUME NEW y \in S PROVE \E k \in DOMAIN t : t[k] = y
    <3>1. CASE y \in Range(s)
      <4>1. PICK k \in 1..Len(s) : s[k] = y
        BY <1>2, <3>1 DEF Range
      <4> QED BY <1>2, <1>3, <4>1
    <3>2. CASE y = x
      BY <1>2, <1>3, <3>2
    <3> QED BY <3>1, <3>2
  <2> QED BY <2>1, <2>2 DEF Range
<1> QED BY <1>2, <1>3, <1>4

-----------------------------------------------------------------------------
(* Type correctness. *)

\* Labels a process can go to without having anything to show for it.
Plain == {"down", "boot", "seed", "seeded", "idle", "reload", "export", "note"}

LEMMA GotoType ==
  ASSUME TypeOK, NEW p \in Procs, NEW label \in Plain, Goto(p, label)
  PROVE  /\ pc' \in [Procs -> Labels]
         /\ \A h \in Handlers : pc'[h] = "insert" => pc[h] = "insert" /\ h # p
         /\ \A n \in Nodes : pc'[n] \in {"compare", "get"} =>
              pc[n] \in {"compare", "get"} /\ n # p
         /\ \A n \in Nodes : pc'[n] \in {"import", "commit"} =>
              pc[n] \in {"import", "commit"} /\ n # p
BY Places DEF TypeOK, Goto, Labels, Plain

LEMMA SpendType ==
  ASSUME TypeOK
  PROVE  /\ spent.requests < MaxRequests /\ Spend("requests") => spent' \in
              [requests: 0..MaxRequests, faults: 0..MaxFaults, crashes: 0..MaxCrashes]
         /\ \A kind : Fault(kind) => spent' \in
              [requests: 0..MaxRequests, faults: 0..MaxFaults, crashes: 0..MaxCrashes]
         /\ spent.crashes < MaxCrashes /\ Spend("crashes") => spent' \in
              [requests: 0..MaxRequests, faults: 0..MaxFaults, crashes: 0..MaxCrashes]
<1> DEFINE S == [requests: 0..MaxRequests, faults: 0..MaxFaults, crashes: 0..MaxCrashes]
<1>0. /\ spent \in S
      /\ MaxRequests \in Nat /\ MaxFaults \in Nat /\ MaxCrashes \in Nat
  BY BoundAssumption DEF TypeOK
<1>1. ASSUME spent.requests < MaxRequests, Spend("requests")
      PROVE  spent' \in S
  BY <1>0, <1>1 DEF Spend
<1>2. ASSUME NEW kind, Fault(kind)
      PROVE  spent' \in S
  BY <1>0, <1>2 DEF Fault, Spend
<1>3. ASSUME spent.crashes < MaxCrashes, Spend("crashes")
      PROVE  spent' \in S
  BY <1>0, <1>3 DEF Spend
<1> QED BY <1>1, <1>2, <1>3

LEMMA NotListedType == IsListing(NotListed)
BY NothingType DEF IsListing, NotListed, Nothing

LEMMA InitType == Init => TypeOK
<1> SUFFICES ASSUME Init PROVE TypeOK
  OBVIOUS
<1>1. published \in Seq(Range(published)) /\ Len(published) = 0
  BY DEF Init
<1>2. IsServed(Nothing)
  BY DEF IsServed, Nothing
<1>3. spent \in [requests: 0..MaxRequests, faults: 0..MaxFaults, crashes: 0..MaxCrashes]
  BY BoundAssumption DEF Init
<1>4. /\ pc \in [Procs -> Labels]
      /\ \A p \in Procs : pc[p] \in {"boot", "idle"}
  BY Places DEF Init, Labels
<1> QED BY <1>1, <1>2, <1>3, <1>4, Places, EmptyDatabaseType, NothingType, NotListedType
        DEF Init, TypeOK, IsETag

LEMMA ReadDomainsType ==
  ASSUME TypeOK, NEW p \in Procs, ReadDomains(p)
  PROVE  TypeOK'
<1>1. IsTable(db[MyDb(p)].tab)
  BY Places DEF TypeOK, IsDatabase
<1>2. IsTable(Listing(p))
  BY <1>1, ListDomainsType DEF Listing, IsTable, Restrict
<1>3. IsListing([listed |-> TRUE,
                 todo |-> [n \in DOMAIN Listing(p) |->
                             [id |-> Listing(p)[n].id, row |-> Listing(p)[n].row]],
                 acc |-> Nothing])
  BY <1>2, NothingType DEF IsListing, IsTable
<1>4. DOMAIN read' = Procs /\ \A q \in Procs : IsListing(read'[q])
  BY <1>3 DEF TypeOK, ReadDomains
<1> QED BY <1>4 DEF TypeOK, ReadDomains, pollVars, history

LEMMA ReadRulesType ==
  ASSUME TypeOK, NEW p \in Procs, ReadRules(p)
  PROVE  TypeOK'
<1> DEFINE n == Min(DOMAIN read[p].todo)
           d == read[p].todo[n]
           rules == ListRules(db[MyDb(p)].tab, n, d.id)
           new == [listed |-> TRUE,
                   todo |-> Without(read[p].todo, {n}),
                   acc |-> With(read[p].acc, n, [row |-> d.row, rules |-> rules])]
<1>1. IsListing(read[p]) /\ IsTable(db[MyDb(p)].tab)
  BY Places DEF TypeOK, IsDatabase
<1>2. n \in DOMAIN read[p].todo /\ n \in Names
  BY <1>1, MinIsLeast, NamesAssumption DEF ReadRules, IsListing
<1>3. d \in [id: Nat, row: DomainRow] /\ IsRules(rules)
  BY <1>1, <1>2, ListRulesType DEF IsListing
<1>4. IsListing(new)
  <2> HIDE DEF n, d, rules
  <2>1. IsRuleset(With(read[p].acc, n, [row |-> d.row, rules |-> rules]))
    BY <1>1, <1>2, <1>3 DEF IsListing, IsRuleset, With
  <2>2. /\ DOMAIN Without(read[p].todo, {n}) \subseteq Names
        /\ \A m \in DOMAIN Without(read[p].todo, {n}) :
             Without(read[p].todo, {n})[m] \in [id: Nat, row: DomainRow]
    BY <1>1 DEF IsListing, Without, Restrict
  <2> QED BY <2>1, <2>2 DEF IsListing
<1>5. read' = [read EXCEPT ![p] = new]
  BY DEF ReadRules
<1>6. DOMAIN read' = Procs /\ \A q \in Procs : IsListing(read'[q])
  <2> HIDE DEF new
  <2> QED BY <1>4, <1>5 DEF TypeOK
<1> QED BY <1>6 DEF TypeOK, ReadRules, pollVars, history

LEMMA SkipRulesType ==
  ASSUME TypeOK, NEW p \in Procs, SkipRules(p)
  PROVE  TypeOK'
<1>1. IsListing(read[p])
  BY DEF TypeOK
<1>2. IsListing([read[p] EXCEPT !.todo = Without(@, {Min(DOMAIN @)})])
  BY <1>1 DEF IsListing, Without, Restrict
<1>3. DOMAIN read' = Procs /\ \A q \in Procs : IsListing(read'[q])
  BY <1>2 DEF TypeOK, SkipRules
<1> QED BY <1>3, SpendType DEF TypeOK, SkipRules, pollVars, history

LEMMA AfterReloadType ==
  ASSUME NEW p \in Procs
  PROVE  AfterReload(p) \in {"export", "seed", "note", "idle"}
BY DEF AfterReload

LEMMA SwapEngineType ==
  ASSUME TypeOK, NEW p \in Procs, SwapEngine(p)
  PROVE  TypeOK'
<1>1. IsServed(Serve(read[p].acc))
  BY ServeType DEF TypeOK, IsListing
<1>2. DOMAIN engine' = Nodes /\ \A n \in Nodes : IsServed(engine'[n])
  BY <1>1 DEF TypeOK, SwapEngine
<1>3. DOMAIN read' = Procs /\ \A q \in Procs : IsListing(read'[q])
  BY NotListedType DEF TypeOK, SwapEngine
<1>4. loaded' \in [Nodes -> 0..Len(published)]
  BY Places DEF TypeOK, SwapEngine
<1>5. AfterReload(p) \in Plain /\ Goto(p, AfterReload(p))
  BY AfterReloadType DEF Plain, SwapEngine
<1> QED BY <1>2, <1>3, <1>4, <1>5, GotoType DEF TypeOK, SwapEngine, pollVars

LEMMA NoETagType == IsETag(NoETag)
BY DEF IsETag

LEMMA ReloadFailsType ==
  ASSUME TypeOK, NEW p \in Procs, ReloadFails(p)
  PROVE  TypeOK'
<1>1. AfterReload(p) \in Plain /\ "idle" \in Plain
  BY AfterReloadType DEF Plain
<1>2. Goto(p, AfterReload(p)) \/ Goto(p, "idle")
  BY DEF ReloadFails
<1>3. DOMAIN head' = Procs /\ \A q \in Procs : IsETag(head'[q])
  BY NoETagType DEF TypeOK, ReloadFails
<1>4. spent' \in [requests: 0..MaxRequests, faults: 0..MaxFaults, crashes: 0..MaxCrashes]
  BY SpendType DEF ReloadFails
<1> QED BY <1>1, <1>2, <1>3, <1>4, GotoType DEF TypeOK, ReloadFails, pollVars, history

\* What a handler knows of the request it accepted.
LEMMA RequestType ==
  ASSUME NEW req \in Requests
  PROVE  /\ req.kind = "import" => IsEntries(req.entries)
         /\ req.kind # "import" => req.name \in Names
         /\ req.kind \in {"createDomain", "updateDomain"} => req.row \in DomainRow
         /\ req.kind \in {"createRule", "updateRule"} => req.rule \in RuleRow
         /\ req.kind \in {"createRule", "updateRule", "deleteRule"} => req.path \in Paths
         /\ req.kind = "updateRule" => req.newPath \in Paths
BY RequestAssumption DEF IsRequest

LEMMA WritesType ==
  ASSUME TypeOK, NEW h \in Handlers, NEW d, IsDatabase(d), Writes(h, d),
         rule' \in [Handlers -> {NoRule} \cup LookedUp],
         \A g \in Handlers \ {h} : rule'[g] = rule[g],
         spent' \in [requests: 0..MaxRequests, faults: 0..MaxFaults, crashes: 0..MaxCrashes]
  PROVE  TypeOK'
<1>1. DOMAIN db' = DBs /\ \A x \in DBs : IsDatabase(db'[x])
  BY DEF TypeOK, Writes
<1>2. "reload" \in Plain /\ Goto(h, "reload")
  BY DEF Plain, Writes
<1>3. h \in Procs
  BY Places
<1> QED BY <1>1, <1>2, <1>3, GotoType DEF TypeOK, Writes, pollVars, history

LEMMA MyDatabase ==
  ASSUME TypeOK, NEW p \in Procs
  PROVE  IsDatabase(db[MyDb(p)])
BY Places DEF TypeOK

\* The handlers that write with their first statement.
LEMMA FirstWriteType ==
  ASSUME TypeOK, NEW h \in Handlers, NEW d, IsDatabase(d), Writes(h, d),
         spent.requests < MaxRequests, Spend("requests"), UNCHANGED rule
  PROVE  TypeOK'
<1>1. rule' \in [Handlers -> {NoRule} \cup LookedUp]
  BY DEF TypeOK
<1>2. \A g \in Handlers \ {h} : rule'[g] = rule[g]
  OBVIOUS
<1> QED BY <1>1, <1>2, SpendType, WritesType

LEMMA HandleType ==
  ASSUME TypeOK, NEW h \in Handlers, Handle(h)
  PROVE  TypeOK'
<1>0. h \in Procs /\ IsDatabase(db[MyDb(h)])
  BY Places, MyDatabase
<1>1. CASE CreateDomain(h)
  <2>1. PICK req \in Requests :
          /\ Accepts(h, "createDomain", req)
          /\ Writes(h, InsertDomain(db[MyDb(h)], req.name,
                                    [DefaultCode(req.row) EXCEPT !.enabled = TRUE]))
    BY <1>1 DEF CreateDomain
  <2>2. req.name \in Names /\ [DefaultCode(req.row) EXCEPT !.enabled = TRUE] \in DomainRow
    BY <2>1, RequestType, LiveType DEF Accepts
  <2>3. IsDatabase(InsertDomain(db[MyDb(h)], req.name,
                                [DefaultCode(req.row) EXCEPT !.enabled = TRUE]))
    BY <1>0, <2>2, InsertDomainType
  <2> QED BY <1>1, <2>1, <2>3, FirstWriteType DEF CreateDomain, Accepts
<1>2. CASE PutDomain(h)
  <2>1. PICK req \in Requests :
          /\ Accepts(h, "updateDomain", req)
          /\ Writes(h, UpdateDomain(db[MyDb(h)], req.name, req.row))
    BY <1>2 DEF PutDomain
  <2>2. req.name \in Names /\ req.row \in DomainRow
    BY <2>1, RequestType DEF Accepts
  <2>3. IsDatabase(UpdateDomain(db[MyDb(h)], req.name, req.row))
    BY <1>0, <2>2, UpdateDomainType
  <2> QED BY <1>2, <2>1, <2>3, FirstWriteType DEF PutDomain, Accepts
<1>3. CASE RemoveDomain(h)
  <2>1. PICK req \in Requests :
          /\ Accepts(h, "deleteDomain", req)
          /\ Writes(h, DeleteDomain(db[MyDb(h)], req.name))
    BY <1>3 DEF RemoveDomain
  <2>2. IsDatabase(DeleteDomain(db[MyDb(h)], req.name))
    BY <1>0, DeleteDomainType
  <2> QED BY <1>3, <2>1, <2>2, FirstWriteType DEF RemoveDomain, Accepts
<1>4. CASE LookUpDomain(h)
  <2>1. PICK req \in Requests :
          /\ Accepts(h, "createRule", req)
          /\ req.name \in DOMAIN db[MyDb(h)].tab
          /\ rule' = [rule EXCEPT ![h] = [kind |-> "found", req |-> req,
                                          id |-> db[MyDb(h)].tab[req.name].id]]
    BY <1>4 DEF LookUpDomain
  <2>2. [kind |-> "found", req |-> req, id |-> db[MyDb(h)].tab[req.name].id] \in LookedUp
    BY <1>0, <2>1 DEF LookedUp, Accepts, IsDatabase, IsTable
  <2>3. rule' \in [Handlers -> {NoRule} \cup LookedUp] /\ rule'[h] # NoRule
    BY <2>1, <2>2 DEF TypeOK, NoRule
  <2>4. pc' = [pc EXCEPT ![h] = "insert"] /\ "insert" \in Labels
    BY <1>4 DEF LookUpDomain, Goto, Labels
  <2>5. \A g \in Handlers : pc'[g] = "insert" => rule'[g] # NoRule
    BY <2>1, <2>3, <2>4, Places DEF TypeOK
  <2>6. spent' \in [requests: 0..MaxRequests, faults: 0..MaxFaults, crashes: 0..MaxCrashes]
    BY <1>4, SpendType DEF LookUpDomain, Accepts
  <2>7. \A n \in Nodes : pc'[n] = pc[n]
    BY <2>4, Places DEF TypeOK
  <2>8. pc' \in [Procs -> Labels]
    BY <2>4 DEF TypeOK
  <2> QED BY <1>4, <2>3, <2>5, <2>6, <2>7, <2>8 DEF TypeOK, LookUpDomain, pollVars, history
<1>5. CASE CreateRule(h)
  <2> DEFINE req == rule[h].req
  <2>1. req \in Requests /\ req.kind = "createRule"
    BY <1>5 DEF CreateRule, TypeOK, LookedUp
  <2>2. req.path \in Paths /\ [DefaultCode(req.rule) EXCEPT !.enabled = TRUE] \in RuleRow
    BY <2>1, RequestType, LiveType
  <2>3. req.name \in DOMAIN db[MyDb(h)].tab
    BY <1>5 DEF CreateRule, Referenced
  <2>4. IsDatabase(InsertRule(db[MyDb(h)], req.name, req.path,
                              [DefaultCode(req.rule) EXCEPT !.enabled = TRUE]))
    BY <1>0, <2>2, <2>3, InsertRuleType
  <2>5. /\ rule' \in [Handlers -> {NoRule} \cup LookedUp]
        /\ \A g \in Handlers \ {h} : rule'[g] = rule[g]
    BY <1>5 DEF CreateRule, TypeOK
  <2>6. spent' \in [requests: 0..MaxRequests, faults: 0..MaxFaults, crashes: 0..MaxCrashes]
    BY <1>5 DEF CreateRule, TypeOK
  <2> QED BY <1>5, <2>4, <2>5, <2>6, WritesType DEF CreateRule
<1>6. CASE RuleRefused(h)
  <2>1. /\ rule' \in [Handlers -> {NoRule} \cup LookedUp]
        /\ \A g \in Handlers \ {h} : rule'[g] = rule[g]
    BY <1>6 DEF RuleRefused, TypeOK
  <2>2. "idle" \in Plain /\ Goto(h, "idle")
    BY <1>6 DEF RuleRefused, Plain
  <2> QED BY <1>0, <1>6, <2>1, <2>2, GotoType DEF RuleRefused, TypeOK, pollVars, history
<1>7. CASE PutRule(h)
  <2>1. PICK req \in Requests :
          /\ Accepts(h, "updateRule", req)
          /\ Writes(h, UpdateRule(db[MyDb(h)], req.name, req.path, req.newPath, req.rule))
    BY <1>7 DEF PutRule
  <2>2. req.newPath \in Paths /\ req.rule \in RuleRow
    BY <2>1, RequestType DEF Accepts
  <2>3. IsDatabase(UpdateRule(db[MyDb(h)], req.name, req.path, req.newPath, req.rule))
    BY <1>0, <2>2, UpdateRuleType
  <2> QED BY <1>7, <2>1, <2>3, FirstWriteType DEF PutRule, Accepts
<1>8. CASE RemoveRule(h)
  <2>1. PICK req \in Requests :
          /\ Accepts(h, "deleteRule", req)
          /\ Writes(h, DeleteRule(db[MyDb(h)], req.name, req.path))
    BY <1>8 DEF RemoveRule
  <2>2. IsDatabase(DeleteRule(db[MyDb(h)], req.name, req.path))
    BY <1>0, DeleteRuleType
  <2> QED BY <1>8, <2>1, <2>2, FirstWriteType DEF RemoveRule, Accepts
<1>9. CASE Import(h)
  <2>1. PICK req \in Requests :
          /\ Accepts(h, "import", req)
          /\ Writes(h, BulkImport(db[MyDb(h)], req.entries))
    BY <1>9 DEF Import
  <2>2. IsEntries(req.entries)
    BY <2>1, RequestType DEF Accepts
  <2>3. IsDatabase(BulkImport(db[MyDb(h)], req.entries))
    BY <1>0, <2>2, BulkImportType
  <2> QED BY <1>9, <2>1, <2>3, FirstWriteType DEF Import, Accepts
<1>10. CASE WriteUnanswered(h)
  <2>1. "idle" \in Plain /\ Goto(h, "idle")
    BY <1>10 DEF WriteUnanswered, Plain
  <2>2. spent' \in [requests: 0..MaxRequests, faults: 0..MaxFaults, crashes: 0..MaxCrashes]
    BY <1>10, SpendType DEF WriteUnanswered
  <2> QED BY <1>0, <1>10, <2>1, <2>2, GotoType DEF WriteUnanswered, TypeOK, pollVars, history
<1> QED BY <1>1, <1>2, <1>3, <1>4, <1>5, <1>6, <1>7, <1>8, <1>9, <1>10 DEF Handle

\* Storing an object leaves the indexes into the log in range.
LEMMA StoreObjectType ==
  ASSUME TypeOK, NEW rs, IsRuleset(rs), published' = Append(published, rs),
         UNCHANGED <<pollVars, history>>
  PROVE  /\ published' \in Seq(Range(published'))
         /\ Len(published') > 0
         /\ \A k \in 1..Len(published') : IsRuleset(published'[k])
         /\ got' = got /\ got' \in [Nodes -> 0..Len(published')]
         /\ DOMAIN scan' = Nodes /\ \A n \in Nodes : IsTable(scan'[n])
         /\ imported' \in [Nodes -> 0..Len(published')]
         /\ loaded' \in [Nodes -> 0..Len(published')]
<1>1. /\ published' \in Seq(Range(published'))
      /\ Len(published) \in Nat
      /\ Len(published') = Len(published) + 1
      /\ \A k \in 1..Len(published) : published'[k] = published[k]
      /\ published'[Len(published) + 1] = rs
  BY AppendRange DEF TypeOK
<1>2. \A k \in 1..Len(published') : IsRuleset(published'[k])
  BY <1>1 DEF TypeOK
<1>3. 0..Len(published) \subseteq 0..Len(published')
  BY <1>1
<1> QED BY <1>1, <1>2, <1>3 DEF TypeOK, pollVars, history

LEMMA PublishType ==
  ASSUME TypeOK, NEW h \in Handlers, Publish(h)
  PROVE  TypeOK'
<1> DEFINE body == read[h].acc
<1>0. h \in Procs /\ IsRuleset(body) /\ IsETag(ETag(body)) /\ IsETag(NoETag)
  BY Places DEF TypeOK, IsListing, IsETag, ETag
<1>1. DOMAIN read' = Procs /\ \A q \in Procs : IsListing(read'[q])
  BY NotListedType DEF TypeOK, Publish, PutObject, PublishFails, PutAnswerLost
<1>2. {"note", "idle"} \subseteq Plain
  BY DEF Plain
<1>3. CASE PutObject(h)
  <2>1. DOMAIN head' = Procs /\ \A q \in Procs : IsETag(head'[q])
    BY <1>0, <1>3 DEF TypeOK, PutObject
  <2>2. published' = Append(published, body) /\ Goto(h, "note")
        /\ UNCHANGED <<pollVars, history>>
    BY <1>3 DEF PutObject
  <2> HIDE DEF body
  <2>3. /\ published' \in Seq(Range(published'))
        /\ Len(published') > 0
        /\ \A k \in 1..Len(published') : IsRuleset(published'[k])
        /\ got' = got /\ got' \in [Nodes -> 0..Len(published')]
        /\ DOMAIN scan' = Nodes /\ \A n \in Nodes : IsTable(scan'[n])
        /\ imported' \in [Nodes -> 0..Len(published')]
        /\ loaded' \in [Nodes -> 0..Len(published')]
    BY <1>0, <2>2, StoreObjectType
  <2> QED BY <1>0, <1>1, <1>2, <1>3, <2>1, <2>2, <2>3, GotoType DEF TypeOK, PutObject
<1>4. CASE PublishFails(h)
  BY <1>0, <1>1, <1>2, <1>4, GotoType, SpendType DEF TypeOK, PublishFails, pollVars, history
<1>5. CASE PutAnswerLost(h)
  <2>1. published' = Append(published, body) /\ Goto(h, "idle")
        /\ UNCHANGED <<pollVars, history>>
    BY <1>5 DEF PutAnswerLost
  <2>2. spent' \in [requests: 0..MaxRequests, faults: 0..MaxFaults, crashes: 0..MaxCrashes]
    BY <1>5, SpendType DEF PutAnswerLost
  <2> HIDE DEF body
  <2>3. /\ published' \in Seq(Range(published'))
        /\ Len(published') > 0
        /\ \A k \in 1..Len(published') : IsRuleset(published'[k])
        /\ got' = got /\ got' \in [Nodes -> 0..Len(published')]
        /\ DOMAIN scan' = Nodes /\ \A n \in Nodes : IsTable(scan'[n])
        /\ imported' \in [Nodes -> 0..Len(published')]
        /\ loaded' \in [Nodes -> 0..Len(published')]
    BY <1>0, <2>1, StoreObjectType
  <2> QED BY <1>0, <1>1, <1>2, <1>5, <2>1, <2>2, <2>3, GotoType DEF TypeOK, PutAnswerLost
<1> QED BY <1>3, <1>4, <1>5 DEF Publish

LEMMA NoteETagType ==
  ASSUME TypeOK, NEW p \in Procs, NoteETag(p)
  PROVE  TypeOK'
<1>1. DOMAIN lastETag' = Nodes /\ \A n \in Nodes : IsETag(lastETag'[n])
  BY DEF TypeOK, NoteETag
<1>2. DOMAIN head' = Procs /\ \A q \in Procs : IsETag(head'[q])
  BY NoETagType DEF TypeOK, NoteETag
<1>3. "idle" \in Plain /\ Goto(p, "idle")
  BY DEF NoteETag, Plain
<1> QED BY <1>1, <1>2, <1>3, GotoType DEF TypeOK, NoteETag, pollVars, history

\* A poll that ends forgets what it fetched.
LEMMA ForgetPollType ==
  ASSUME TypeOK, NEW n \in Nodes,
         got' = [got EXCEPT ![n] = 0],
         scan' = [scan EXCEPT ![n] = Nothing]
  PROVE  /\ got' \in [Nodes -> 0..Len(published)]
         /\ \A m \in Nodes : m # n => got'[m] = got[m]
         /\ DOMAIN scan' = Nodes /\ \A m \in Nodes : IsTable(scan'[m])
<1>1. 0 \in 0..Len(published)
  BY DEF TypeOK
<1> QED BY <1>1, NothingType DEF TypeOK

LEMMA PollType ==
  ASSUME TypeOK, NEW n \in Nodes, Poll(n)
  PROVE  TypeOK'
<1>0. /\ n \in Procs /\ n \notin Handlers /\ DbOf[n] \in DBs
      /\ Len(published) \in Nat
      /\ {"idle", "reload"} \subseteq Plain
  BY Places DEF TypeOK, Plain
<1>1. CASE HeadObject(n)
  <2>1. Len(published) > 0
    BY <1>0, <1>1 DEF HeadObject, TypeOK
  <2>2. IsETag(ETag(Object))
    BY <1>0, <2>1 DEF Object, TypeOK, IsETag, ETag
  <2>3. DOMAIN head' = Procs /\ \A q \in Procs : IsETag(head'[q])
    BY <1>1, <2>2 DEF TypeOK, HeadObject
  <2>4. pc' = [pc EXCEPT ![n] = "compare"] /\ "compare" \in Labels
    BY <1>1 DEF HeadObject, Goto, Labels
  <2> QED BY <1>0, <1>1, <2>1, <2>3, <2>4, Places DEF TypeOK, HeadObject, pollVars, history
<1>2. CASE CompareETag(n)
  <2>1. DOMAIN head' = Procs /\ \A q \in Procs : IsETag(head'[q])
    BY <1>2, NoETagType DEF TypeOK, CompareETag
  <2>2. Len(published) > 0
    BY <1>2 DEF TypeOK, CompareETag
  <2>3. \E label \in {"idle", "get"} : pc' = [pc EXCEPT ![n] = label]
    BY <1>2 DEF CompareETag, Goto
  <2>4. /\ pc' \in [Procs -> Labels]
        /\ pc'[n] \in {"idle", "get"}
        /\ \A p \in Procs : p # n => pc'[p] = pc[p]
    BY <1>0, <2>3 DEF TypeOK, Labels
  <2> QED BY <1>0, <1>2, <2>1, <2>2, <2>4, Places DEF TypeOK, CompareETag, pollVars, history
<1>3. CASE GetObject(n)
  <2>1. Len(published) > 0
    BY <1>3 DEF TypeOK, GetObject
  <2>2. got' \in [Nodes -> 0..Len(published)] /\ got' = [got EXCEPT ![n] = Len(published)]
    BY <1>0, <1>3 DEF TypeOK, GetObject
  <2>3. pc' = [pc EXCEPT ![n] = "import"] /\ "import" \in Labels
    BY <1>3 DEF GetObject, Goto, Labels
  <2> QED BY <1>0, <1>3, <2>1, <2>2, <2>3, Places DEF TypeOK, GetObject, history
<1>4. CASE ImportScan(n)
  <2>1. DOMAIN scan' = Nodes /\ \A m \in Nodes : IsTable(scan'[m])
    BY <1>0, <1>4 DEF TypeOK, ImportScan, IsDatabase
  <2>2. pc' = [pc EXCEPT ![n] = "commit"] /\ "commit" \in Labels /\ got[n] > 0
    BY <1>4 DEF ImportScan, Goto, Labels, TypeOK
  <2> QED BY <1>0, <1>4, <2>1, <2>2, Places DEF TypeOK, ImportScan, history
<1>5. CASE ImportCommit(n)
  <2> DEFINE new == BulkImportReplace(db[DbOf[n]], scan[n], Incoming(n))
  <2>1. IsRuleset(Incoming(n))
    BY <1>0, <1>5 DEF ImportCommit, Incoming, TypeOK
  <2>2. IsDatabase(new)
    BY <1>0, <2>1, BulkImportReplaceType DEF TypeOK
  <2>3. db' = [db EXCEPT ![DbOf[n]] = new]
    BY <1>5 DEF ImportCommit
  <2>4. DOMAIN db' = DBs /\ \A x \in DBs : IsDatabase(db'[x])
    <3> HIDE DEF new
    <3> QED BY <2>2, <2>3 DEF TypeOK
  <2>5. imported' \in [Nodes -> 0..Len(published)]
    BY <1>5 DEF TypeOK, ImportCommit
  <2> QED BY <1>0, <1>5, <2>4, <2>5, ForgetPollType, GotoType DEF TypeOK, ImportCommit
<1>6. CASE PollFails(n)
  <2>1. DOMAIN head' = Procs /\ \A q \in Procs : IsETag(head'[q])
    BY <1>6, NoETagType DEF TypeOK, PollFails
  <2> QED BY <1>0, <1>6, <2>1, ForgetPollType, GotoType, SpendType DEF TypeOK, PollFails, history
<1> QED BY <1>1, <1>2, <1>3, <1>4, <1>5, <1>6 DEF Poll

LEMMA LifecycleType ==
  ASSUME TypeOK, NEW n \in Nodes, Seed(n) \/ Crash(n) \/ Restart(n)
  PROVE  TypeOK'
<1>0. n \in Procs /\ {"seeded", "boot"} \subseteq Plain
  BY Places DEF Plain
<1>1. CASE Seed(n)
  <2>1. IsDatabase(BulkImport(db[DbOf[n]], SeedFile))
    BY Places, RequestAssumption, BulkImportType DEF TypeOK
  <2>2. DOMAIN db' = DBs /\ \A x \in DBs : IsDatabase(db'[x])
    BY <1>1, <2>1 DEF TypeOK, Seed
  <2> QED BY <1>0, <1>1, <2>2, GotoType DEF TypeOK, Seed, pollVars, history
<1>2. CASE Crash(n)
  <2>1. /\ pc' \in [Procs -> Labels]
        /\ \A p \in Procs : pc'[p] \notin {"down", "idle"} => pc'[p] = pc[p] /\ p \notin Owned(n)
    BY <1>2 DEF TypeOK, Crash, Labels, Owned, NodeOf
  <2>2. DOMAIN read' = Procs /\ \A p \in Procs : IsListing(read'[p])
    BY <1>2, NotListedType DEF TypeOK, Crash
  <2>3. DOMAIN head' = Procs /\ \A p \in Procs : IsETag(head'[p])
    BY <1>2, NoETagType DEF TypeOK, Crash
  <2>4. /\ rule' \in [Handlers -> {NoRule} \cup LookedUp]
        /\ \A h \in Handlers : h \notin Owned(n) => rule'[h] = rule[h]
    BY <1>2, Places DEF TypeOK, Crash, Owned
  <2>5. DOMAIN engine' = Nodes /\ \A m \in Nodes : IsServed(engine'[m])
    BY <1>2 DEF TypeOK, Crash, IsServed, Nothing
  <2>6. DOMAIN lastETag' = Nodes /\ \A m \in Nodes : IsETag(lastETag'[m])
    BY <1>2, NoETagType DEF TypeOK, Crash
  <2>7. spent' \in [requests: 0..MaxRequests, faults: 0..MaxFaults, crashes: 0..MaxCrashes]
    BY <1>2, SpendType DEF Crash
  <2>8. /\ got' \in [Nodes -> 0..Len(published)]
        /\ \A m \in Nodes : m \notin Owned(n) => got'[m] = got[m]
        /\ DOMAIN scan' = Nodes /\ \A m \in Nodes : IsTable(scan'[m])
    BY <1>2, ForgetPollType, Places DEF Crash, Owned
  <2>9. UNCHANGED <<db, published, imported, loaded>>
    BY <1>2 DEF Crash
  <2> QED BY <2>1, <2>2, <2>3, <2>4, <2>5, <2>6, <2>7, <2>8, <2>9, Places DEF TypeOK
<1>3. CASE Restart(n)
  BY <1>0, <1>3, GotoType DEF TypeOK, Restart, pollVars, history
<1> QED BY <1>1, <1>2, <1>3

LEMMA NextType == TypeOK /\ [Next]_vars => TypeOK'
<1> SUFFICES ASSUME TypeOK, [Next]_vars PROVE TypeOK'
  OBVIOUS
<1>1. ASSUME NEW p \in Procs, Reload(p) PROVE TypeOK'
  BY <1>1, ReadDomainsType, ReadRulesType, SkipRulesType, SwapEngineType, ReloadFailsType
     DEF Reload
<1>2. ASSUME NEW n \in Nodes, Poll(n) \/ Seed(n) \/ Crash(n) \/ Restart(n) PROVE TypeOK'
  BY <1>2, PollType, LifecycleType
<1>3. CASE UNCHANGED vars
  BY <1>3 DEF TypeOK, vars, pollVars, history
<1> QED BY <1>1, <1>2, <1>3, NoteETagType, HandleType, PublishType DEF Next

\* Every variable keeps its type: rows stay well-formed through every handler,
\* export, import and seeding, and indexes into the published bodies stay in range.
THEOREM TypeCorrect == Spec => []TypeOK
<1>1. Init => TypeOK
  BY InitType
<1>2. TypeOK /\ [Next]_vars => TypeOK'
  BY NextType
<1> QED BY <1>1, <1>2, PTL DEF Spec

-----------------------------------------------------------------------------
(* Which step may change what. *)

\* A step of node n: of its goroutines, or of its life.
Own(n) ==
  \/ \E p \in Owned(n) : Reload(p) \/ NoteETag(p)
  \/ \E h \in Handlers : Host[h] = n /\ (Handle(h) \/ Publish(h))
  \/ Poll(n) \/ Seed(n) \/ Crash(n) \/ Restart(n)

Untouched(n) ==
  /\ \A p \in Owned(n) : pc'[p] = pc[p] /\ read'[p] = read[p] /\ head'[p] = head[p]
  /\ engine'[n] = engine[n] /\ lastETag'[n] = lastETag[n]
  /\ got'[n] = got[n] /\ scan'[n] = scan[n]
  /\ imported'[n] = imported[n] /\ loaded'[n] = loaded[n]
  /\ \A h \in Handlers : Host[h] = n => rule'[h] = rule[h]

\* The published bodies stay what they are; one may be added.
Extends ==
  /\ Len(published) <= Len(published')
  /\ \A k \in 1..Len(published) : published'[k] = published[k]

LEMMA OneBodyAtATime ==
  ASSUME [Next]_vars
  PROVE  UNCHANGED published \/ \E body : published' = Append(published, body)
<1>1. ASSUME NEW p \in Procs, Reload(p) \/ NoteETag(p)
      PROVE  UNCHANGED published
  BY <1>1 DEF Reload, ReadDomains, ReadRules, SkipRules, SwapEngine, ReloadFails, NoteETag
<1>2. ASSUME NEW h \in Handlers, Handle(h)
      PROVE  UNCHANGED published
  BY <1>2 DEF Handle, CreateDomain, PutDomain, RemoveDomain, LookUpDomain, CreateRule,
              RuleRefused, PutRule, RemoveRule, Import, WriteUnanswered, Writes
<1>3. ASSUME NEW h \in Handlers, Publish(h)
      PROVE  UNCHANGED published \/ published' = Append(published, read[h].acc)
  BY <1>3 DEF Publish, PutObject, PublishFails, PutAnswerLost
<1>4. ASSUME NEW n \in Nodes, Poll(n) \/ Seed(n) \/ Crash(n) \/ Restart(n)
      PROVE  UNCHANGED published
  BY <1>4 DEF Poll, HeadObject, CompareETag, GetObject, ImportScan, ImportCommit, PollFails,
              Seed, Crash, Restart
<1>5. CASE UNCHANGED vars
  BY <1>5 DEF vars
<1> QED BY <1>1, <1>2, <1>3, <1>4, <1>5 DEF Next

LEMMA BodiesStay ==
  ASSUME TypeOK, [Next]_vars
  PROVE  Extends
<1>1. CASE UNCHANGED published
  BY <1>1 DEF TypeOK, Extends
<1>2. ASSUME NEW body, published' = Append(published, body)
      PROVE  Extends
  BY <1>2, AppendRange DEF TypeOK, Extends
<1> QED BY <1>1, <1>2, OneBodyAtATime

LEMMA OthersReload ==
  ASSUME TypeOK, NEW n \in Nodes, NEW p \in Procs, NodeOf(p) # n, Reload(p) \/ NoteETag(p)
  PROVE  Untouched(n)
<1>0. \A q \in Owned(n) : q \in Procs /\ q # p
  BY DEF Owned
<1>1. \A h \in Handlers : rule'[h] = rule[h]
  BY DEF Reload, ReadDomains, ReadRules, SkipRules, SwapEngine, ReloadFails, NoteETag
<1>2. CASE ReadDomains(p) \/ ReadRules(p) \/ SkipRules(p)
  BY <1>0, <1>1, <1>2
     DEF ReadDomains, ReadRules, SkipRules, Untouched, TypeOK, pollVars, history
<1>3. CASE SwapEngine(p)
  BY <1>0, <1>1, <1>3 DEF SwapEngine, Untouched, TypeOK, Goto, pollVars
<1>4. CASE ReloadFails(p)
  BY <1>0, <1>1, <1>4 DEF ReloadFails, Untouched, TypeOK, Goto, pollVars, history
<1>5. CASE NoteETag(p)
  BY <1>0, <1>1, <1>5 DEF NoteETag, Untouched, TypeOK, Goto, pollVars, history
<1> QED BY <1>2, <1>3, <1>4, <1>5 DEF Reload

LEMMA OthersHandle ==
  ASSUME TypeOK, NEW n \in Nodes, NEW h \in Handlers, Host[h] # n, Handle(h)
  PROVE  Untouched(n)
<1>0. h \in Procs /\ \A q \in Owned(n) : q \in Procs /\ q # h
  BY Places DEF Owned
<1>1. \A g \in Handlers : g # h => rule'[g] = rule[g]
  BY DEF Handle, CreateDomain, PutDomain, RemoveDomain, LookUpDomain, CreateRule, RuleRefused,
         PutRule, RemoveRule, Import, WriteUnanswered, TypeOK
<1>2. CASE \E d : Writes(h, d)
  BY <1>0, <1>1, <1>2 DEF Writes, Untouched, TypeOK, Goto, pollVars, history
<1>3. CASE LookUpDomain(h)
  BY <1>0, <1>1, <1>3 DEF LookUpDomain, Untouched, TypeOK, Goto, pollVars, history
<1>4. CASE RuleRefused(h)
  BY <1>0, <1>1, <1>4 DEF RuleRefused, Untouched, TypeOK, Goto, pollVars, history
<1>5. CASE WriteUnanswered(h)
  BY <1>0, <1>1, <1>5 DEF WriteUnanswered, Untouched, TypeOK, Goto, pollVars, history
<1>6. \/ (\E d : Writes(h, d)) \/ LookUpDomain(h)
      \/ RuleRefused(h) \/ WriteUnanswered(h)
  BY DEF Handle, CreateDomain, PutDomain, RemoveDomain, CreateRule, PutRule, RemoveRule, Import
<1> QED BY <1>2, <1>3, <1>4, <1>5, <1>6

LEMMA OthersPublish ==
  ASSUME TypeOK, NEW n \in Nodes, NEW h \in Handlers, Host[h] # n, Publish(h)
  PROVE  Untouched(n)
<1>0. h \in Procs /\ \A q \in Owned(n) : q \in Procs /\ q # h
  BY Places DEF Owned
<1>1. CASE PutObject(h)
  BY <1>0, <1>1 DEF PutObject, Untouched, TypeOK, Goto, pollVars, history
<1>2. CASE PublishFails(h)
  BY <1>0, <1>2 DEF PublishFails, Untouched, TypeOK, Goto, pollVars, history
<1>3. CASE PutAnswerLost(h)
  BY <1>0, <1>3 DEF PutAnswerLost, Untouched, TypeOK, Goto, pollVars, history
<1> QED BY <1>1, <1>2, <1>3 DEF Publish

LEMMA OthersPoll ==
  ASSUME TypeOK, NEW n \in Nodes, NEW m \in Nodes, m # n, Poll(m)
  PROVE  Untouched(n)
<1>0. m \in Procs /\ \A q \in Owned(n) : q \in Procs /\ q # m
  BY Places DEF Owned
<1>1. CASE HeadObject(m)
  BY <1>0, <1>1 DEF HeadObject, Untouched, TypeOK, Goto, pollVars, history
<1>2. CASE CompareETag(m)
  BY <1>0, <1>2 DEF CompareETag, Untouched, TypeOK, Goto, pollVars, history
<1>3. CASE GetObject(m)
  BY <1>0, <1>3 DEF GetObject, Untouched, TypeOK, Goto, history
<1>4. CASE ImportScan(m)
  BY <1>0, <1>4 DEF ImportScan, Untouched, TypeOK, Goto, history
<1>5. CASE ImportCommit(m)
  BY <1>0, <1>5 DEF ImportCommit, Untouched, TypeOK, Goto
<1>6. CASE PollFails(m)
  BY <1>0, <1>6 DEF PollFails, Untouched, TypeOK, Goto, history
<1> QED BY <1>1, <1>2, <1>3, <1>4, <1>5, <1>6 DEF Poll

LEMMA OthersLifecycle ==
  ASSUME TypeOK, NEW n \in Nodes, NEW m \in Nodes, m # n, Seed(m) \/ Crash(m) \/ Restart(m)
  PROVE  Untouched(n)
<1>0. m \in Procs /\ \A q \in Owned(n) : q \in Procs /\ q # m /\ q \notin Owned(m)
  BY Places DEF Owned
<1>1. CASE Seed(m)
  BY <1>0, <1>1 DEF Seed, Untouched, TypeOK, Goto, pollVars, history
<1>2. CASE Crash(m)
  BY <1>0, <1>2 DEF Crash, Untouched, TypeOK
<1>3. CASE Restart(m)
  BY <1>0, <1>3 DEF Restart, Untouched, TypeOK, Goto, pollVars, history
<1> QED BY <1>1, <1>2, <1>3

LEMMA OwnOrUntouched ==
  ASSUME TypeOK, [Next]_vars, NEW n \in Nodes
  PROVE  Own(n) \/ Untouched(n)
<1>1. CASE UNCHANGED vars
  BY <1>1 DEF vars, Untouched, pollVars, history
<1>2. ASSUME NEW p \in Procs, Reload(p) \/ NoteETag(p)
      PROVE  Own(n) \/ Untouched(n)
  BY <1>2, OthersReload DEF Own, Owned
<1>3. ASSUME NEW h \in Handlers, Handle(h) \/ Publish(h)
      PROVE  Own(n) \/ Untouched(n)
  BY <1>3, OthersHandle, OthersPublish DEF Own
<1>4. ASSUME NEW m \in Nodes, Poll(m) \/ Seed(m) \/ Crash(m) \/ Restart(m)
      PROVE  Own(n) \/ Untouched(n)
  BY <1>4, OthersPoll, OthersLifecycle DEF Own
<1> QED BY <1>1, <1>2, <1>3, <1>4 DEF Next

\* A database changes by an admin request, an import or a seed file of one of its nodes.
Written(x) ==
  \/ \E h \in Handlers : Handle(h) /\ MyDb(h) = x
  \/ \E m \in Nodes : (ImportCommit(m) \/ Seed(m)) /\ DbOf[m] = x

LEMMA WrittenOrSame ==
  ASSUME TypeOK, [Next]_vars, NEW x \in DBs
  PROVE  Written(x) \/ db'[x] = db[x]
<1>1. ASSUME NEW p \in Procs, Reload(p) \/ NoteETag(p)
      PROVE  db' = db
  BY <1>1 DEF Reload, ReadDomains, ReadRules, SkipRules, SwapEngine, ReloadFails, NoteETag
<1>2. ASSUME NEW h \in Handlers, Handle(h), MyDb(h) # x
      PROVE  db'[x] = db[x]
  BY <1>2 DEF Handle, CreateDomain, PutDomain, RemoveDomain, LookUpDomain, CreateRule,
              RuleRefused, PutRule, RemoveRule, Import, WriteUnanswered, Writes, TypeOK
<1>3. ASSUME NEW h \in Handlers, Publish(h)
      PROVE  db' = db
  BY <1>3 DEF Publish, PutObject, PublishFails, PutAnswerLost
<1>4. ASSUME NEW m \in Nodes, ImportCommit(m) \/ Seed(m), DbOf[m] # x
      PROVE  db'[x] = db[x]
  BY <1>4 DEF ImportCommit, Seed, TypeOK
<1>5. ASSUME NEW m \in Nodes, Poll(m) \/ Crash(m) \/ Restart(m), ~ImportCommit(m)
      PROVE  db' = db
  BY <1>5 DEF Poll, HeadObject, CompareETag, GetObject, ImportScan, PollFails, Crash, Restart
<1>6. CASE UNCHANGED vars
  BY <1>6 DEF vars
<1> QED BY <1>1, <1>2, <1>3, <1>4, <1>5, <1>6 DEF Next, Written, Poll

\* A node writes no database but its own.
LEMMA OwnDatabase ==
  ASSUME TypeOK, NEW n \in Nodes, Own(n), NEW x \in DBs, x # DbOf[n]
  PROVE  db'[x] = db[x]
<1>1. ASSUME NEW p \in Procs, Reload(p) \/ NoteETag(p)
      PROVE  db' = db
  BY <1>1 DEF Reload, ReadDomains, ReadRules, SkipRules, SwapEngine, ReloadFails, NoteETag
<1>2. ASSUME NEW h \in Handlers, Host[h] = n, Handle(h)
      PROVE  db'[x] = db[x]
  <2>1. MyDb(h) # x
    BY <1>2, Places DEF MyDb
  <2> QED BY <1>2, <2>1 DEF Handle, CreateDomain, PutDomain, RemoveDomain, LookUpDomain,
                CreateRule, RuleRefused, PutRule, RemoveRule, Import, WriteUnanswered, Writes,
                TypeOK
<1>3. ASSUME NEW h \in Handlers, Publish(h)
      PROVE  db' = db
  BY <1>3 DEF Publish, PutObject, PublishFails, PutAnswerLost
<1>4. CASE Poll(n) \/ Seed(n) \/ Crash(n) \/ Restart(n)
  BY <1>4 DEF Poll, HeadObject, CompareETag, GetObject, ImportScan, ImportCommit, PollFails,
              Seed, Crash, Restart, TypeOK
<1> QED BY <1>1, <1>2, <1>3, <1>4 DEF Own, Owned

-----------------------------------------------------------------------------
(* Followers: the invariant that relates where a poll is to the published  *)
(* bodies, and what follows from it.                                       *)

\* Its database is the version it imported last, and it loads what it imported.
Holds(n) ==
  /\ View(db[DbOf[n]].tab) = Version(imported[n])
  /\ loaded[n] <= imported[n]

Serves(n) == ServesOnly(engine[n], Version(loaded[n]))

\* The body a poll fetched is no older than the last one, and nothing writes
\* the database between its orphan queries and its commit.
Fetched(n) ==
  /\ pc[n] \in {"import", "commit"} => imported[n] <= got[n]
  /\ pc[n] = "commit" => scan[n] = db[DbOf[n]].tab

\* A reload in progress has only seen rows that are still there.
Lists(n) ==
  LET tab == db[DbOf[n]].tab
  IN /\ read[n].listed => pc[n] \in {"boot", "reload"}
     /\ read[n].listed =>
          /\ \A m \in DOMAIN read[n].todo :
               /\ m \in DOMAIN tab
               /\ read[n].todo[m].id = tab[m].id /\ read[n].todo[m].row = tab[m].row
          /\ \A m \in DOMAIN read[n].acc :
               m \in DOMAIN View(tab) /\ read[n].acc[m] = View(tab)[m]

\* e is the ETag of one of the first limit bodies.
ETagUpTo(e, limit) == \E k \in 1..limit : e = ETag(published[k])

\* The ETag of HEAD is carried along a poll, never newer than the body that is
\* fetched, imported and loaded after it.
Heads(n) ==
  /\ pc[n] \in {"compare", "get"} => ETagUpTo(head[n], Len(published))
  /\ pc[n] \in {"import", "commit"} => ETagUpTo(head[n], got[n])
  /\ pc[n] = "reload" => ETagUpTo(head[n], imported[n])
  /\ pc[n] = "note" => ETagUpTo(head[n], loaded[n])
  /\ lastETag[n] # NoETag => ETagUpTo(lastETag[n], loaded[n])

Labelled(n) ==
  pc[n] \in {"down", "boot", "idle", "compare", "get", "import", "commit", "reload", "note"}

FollowerOK(n) ==
  Labelled(n) /\ Holds(n) /\ Serves(n) /\ Fetched(n) /\ Lists(n) /\ Heads(n)

FollowerInv == \A n \in Followers : FollowerOK(n)

-----------------------------------------------------------------------------
(* Nobody but a follower itself touches what is its own, its database included. *)

LEMMA Alone ==
  ASSUME NEW n \in Followers
  PROVE  /\ n \in Nodes /\ n \in Procs /\ n \notin Handlers /\ n \notin Seeding
         /\ Owned(n) = {n}
         /\ \A m \in Nodes : m # n => DbOf[m] # DbOf[n]
         /\ \A h \in Handlers : Host[h] # n /\ MyDb(h) # DbOf[n]
         /\ DbOf[n] \in DBs
BY Places, TopologyAssumption DEF Followers, Owned, Procs, NodeOf, MyDb

Same(n) == Untouched(n) /\ db'[DbOf[n]] = db[DbOf[n]]

LEMMA OwnOrSame ==
  ASSUME TypeOK, [Next]_vars, NEW n \in Followers
  PROVE  Own(n) \/ Same(n)
<1>1. Own(n) \/ Untouched(n)
  BY Alone, OwnOrUntouched
<1>2. Written(DbOf[n]) => Own(n)
  BY Alone DEF Written, Own, Poll
<1> QED BY <1>1, <1>2, Alone, WrittenOrSame DEF Same

LEMMA SameParts ==
  ASSUME NEW n \in Followers, Same(n)
  PROVE  /\ db'[DbOf[n]] = db[DbOf[n]]
         /\ pc'[n] = pc[n] /\ read'[n] = read[n] /\ head'[n] = head[n]
         /\ engine'[n] = engine[n] /\ lastETag'[n] = lastETag[n]
         /\ got'[n] = got[n] /\ scan'[n] = scan[n]
         /\ imported'[n] = imported[n] /\ loaded'[n] = loaded[n]
BY Alone DEF Same, Untouched

\* A follower runs no handler: its own steps are those of its poller.
LEMMA OwnSteps ==
  ASSUME NEW n \in Followers, Own(n)
  PROVE  Reload(n) \/ NoteETag(n) \/ Poll(n) \/ Seed(n) \/ Crash(n) \/ Restart(n)
BY Alone DEF Own

-----------------------------------------------------------------------------
(* The invariant is inductive. *)

LEMMA Indexes ==
  ASSUME TypeOK, NEW n \in Followers
  PROVE  /\ n \in Nodes /\ n \in Procs /\ n \notin Handlers /\ NodeOf(n) = n
         /\ MyDb(n) = DbOf[n] /\ DbOf[n] \in DBs
         /\ Len(published) \in Nat
         /\ imported[n] \in 0..Len(published)
         /\ loaded[n] \in 0..Len(published)
         /\ got[n] \in 0..Len(published)
         /\ n \notin Seeding
BY Places, TopologyAssumption DEF Followers, TypeOK

\* What one of the first bodies says does not change when another is added.
LEMMA VersionStable ==
  ASSUME TypeOK, Extends, NEW k \in 0..Len(published)
  PROVE  Version(k)' = Version(k)
<1>1. Len(published) \in Nat
  BY DEF TypeOK
<1>2. k # 0 => published'[k] = published[k]
  BY <1>1 DEF Extends
<1> QED BY <1>1, <1>2 DEF Version

LEMMA SamePreserves ==
  ASSUME TypeOK, TypeOK', NEW n \in Followers, FollowerOK(n), Same(n), Extends
  PROVE  FollowerOK(n)'
<1>0. /\ Len(published) \in Nat /\ Len(published) <= Len(published')
      /\ imported[n] \in 0..Len(published)
      /\ loaded[n] \in 0..Len(published)
      /\ got[n] \in 0..Len(published)
      /\ Extends
  BY Indexes DEF Extends
<1>1. Labelled(n)'
  BY SameParts DEF FollowerOK, Labelled
<1>2. Holds(n)' /\ Serves(n)'
  <2>1. Version(imported[n])' = Version(imported[n]) /\ Version(loaded[n])' = Version(loaded[n])
    BY <1>0, SameParts, VersionStable
  <2> QED BY <2>1, SameParts DEF FollowerOK, Holds, Serves
<1>3. Fetched(n)' /\ Lists(n)'
  BY SameParts DEF FollowerOK, Fetched, Lists
<1>4. Heads(n)'
  <2>1. ASSUME NEW e, NEW k \in 0..Len(published), ETagUpTo(e, k)
        PROVE  \E j \in 1..k : e = ETag(published'[j])
    BY <1>0, <2>1 DEF ETagUpTo, Extends
  <2>2. pc'[n] \in {"compare", "get"} => \E j \in 1..Len(published') : head'[n] = ETag(published'[j])
    <3> SUFFICES ASSUME pc[n] \in {"compare", "get"}
                 PROVE  \E j \in 1..Len(published') : head[n] = ETag(published'[j])
      BY SameParts
    <3>1. ETagUpTo(head[n], Len(published))
      BY SameParts DEF FollowerOK, Heads
    <3>2. 1..Len(published) \subseteq 1..Len(published')
      BY <1>0 DEF TypeOK
    <3> QED BY <1>0, <2>1, <3>1, <3>2
  <2>3. pc'[n] \in {"import", "commit"} => \E j \in 1..got'[n] : head'[n] = ETag(published'[j])
    BY <1>0, <2>1, SameParts DEF FollowerOK, Heads
  <2>4. pc'[n] = "reload" => \E j \in 1..imported'[n] : head'[n] = ETag(published'[j])
    BY <1>0, <2>1, SameParts DEF FollowerOK, Heads
  <2>5. pc'[n] = "note" => \E j \in 1..loaded'[n] : head'[n] = ETag(published'[j])
    BY <1>0, <2>1, SameParts DEF FollowerOK, Heads
  <2>6. lastETag'[n] # NoETag => \E j \in 1..loaded'[n] : lastETag'[n] = ETag(published'[j])
    BY <1>0, <2>1, SameParts DEF FollowerOK, Heads
  <2> QED BY <2>2, <2>3, <2>4, <2>5, <2>6 DEF Heads, ETagUpTo
<1> QED BY <1>1, <1>2, <1>3, <1>4 DEF FollowerOK

\* What no step of the reload loop but the swap touches.
LEMMA ReadingPreserves ==
  ASSUME TypeOK, NEW n \in Followers, FollowerOK(n),
         UNCHANGED <<db, published, engine, lastETag, pc, head, pollVars, history>>,
         Lists(n)'
  PROVE  FollowerOK(n)'
BY DEF FollowerOK, Labelled, Holds, Serves, Fetched, Heads, ETagUpTo, Version, pollVars, history

LEMMA ReloadPreserves ==
  ASSUME TypeOK, NEW n \in Followers, FollowerOK(n), Reload(n)
  PROVE  FollowerOK(n)'
<1> DEFINE tab == db[DbOf[n]].tab
<1>0. n \in Nodes /\ n \in Procs /\ n \notin Handlers /\ NodeOf(n) = n /\ MyDb(n) = DbOf[n]
      /\ n \notin Seeding
      /\ IsListing(read[n]) /\ IsTable(tab)
  BY Indexes DEF TypeOK, IsDatabase
<1>1. pc[n] \in Reading => pc[n] \in {"boot", "reload"}
  BY DEF FollowerOK, Labelled, Reading, Reloading
<1>2. CASE ReadDomains(n)
  <2>1. pc[n] \in {"boot", "reload"}
    BY <1>1, <1>2 DEF ReadDomains
  <2>2. DOMAIN Listing(n) \subseteq DOMAIN tab /\ \A m \in DOMAIN Listing(n) : Listing(n)[m] = tab[m]
    <3> DEFINE all == ListDomains(tab, LoadLimit)
    <3>1. Listing(n) = Restrict(all, {m \in DOMAIN all : all[m].row.enabled})
      BY <1>0, <2>1 DEF Listing
    <3>2. DOMAIN all \subseteq DOMAIN tab /\ \A m \in DOMAIN all : all[m] = tab[m]
      BY <1>0, ListDomainsType
    <3> HIDE DEF all, tab
    <3> QED BY <3>1, <3>2 DEF Restrict
  <2>3. read'[n] = [listed |-> TRUE,
                    todo |-> [m \in DOMAIN Listing(n) |->
                                [id |-> Listing(n)[m].id, row |-> Listing(n)[m].row]],
                    acc |-> Nothing]
        /\ UNCHANGED <<db, pc>>
    BY <1>0, <1>2 DEF ReadDomains, TypeOK
  <2>4. Lists(n)'
    <3> HIDE DEF tab
    <3>1. tab' = tab
      BY <2>3 DEF tab
    <3> QED BY <2>1, <2>2, <2>3, <3>1 DEF Lists, Nothing, tab
  <2> QED BY <1>2, <2>4, ReadingPreserves DEF ReadDomains
<1>3. CASE ReadRules(n)
  <2> DEFINE m == Min(DOMAIN read[n].todo)
             d == read[n].todo[m]
             entry == [row |-> d.row, rules |-> ListRules(tab, m, d.id)]
  <2>1. pc[n] \in {"boot", "reload"} /\ read[n].listed
    BY <1>1, <1>3 DEF ReadRules
  <2>2. m \in DOMAIN read[n].todo
    BY <1>0, <1>3, MinIsLeast, NamesAssumption DEF ReadRules, IsListing
  <2>3. m \in DOMAIN tab /\ d.id = tab[m].id /\ d.row = tab[m].row
    BY <2>1, <2>2 DEF FollowerOK, Lists
  <2>4. m \in DOMAIN View(tab) /\ entry = View(tab)[m]
    BY <2>3 DEF ListRules, View
  <2>5. read'[n] = [listed |-> TRUE,
                    todo |-> Without(read[n].todo, {m}),
                    acc |-> With(read[n].acc, m, entry)]
        /\ UNCHANGED <<db, pc>>
    BY <1>0, <1>3 DEF ReadRules, TypeOK
  <2>6. Lists(n)'
    <3> HIDE DEF m, entry
    <3>1. \A x \in DOMAIN read'[n].todo :
            x \in DOMAIN read[n].todo /\ read'[n].todo[x] = read[n].todo[x]
      BY <2>5 DEF Without, Restrict
    <3>2. \A x \in DOMAIN read'[n].acc :
            x \in DOMAIN View(tab) /\ read'[n].acc[x] = View(tab)[x]
      BY <2>1, <2>4, <2>5 DEF With, FollowerOK, Lists
    <3> QED BY <2>1, <2>5, <3>1, <3>2 DEF FollowerOK, Lists
  <2> QED BY <1>3, <2>6, ReadingPreserves DEF ReadRules
<1>4. CASE SkipRules(n)
  <2> DEFINE m == Min(DOMAIN read[n].todo)
  <2>1. read[n].listed /\ UNCHANGED <<db, pc>>
    BY <1>4 DEF SkipRules
  <2>2. read' = [read EXCEPT ![n].todo = Without(@, {m})]
    BY <1>4 DEF SkipRules
  <2>3. /\ read'[n].listed /\ read'[n].acc = read[n].acc
        /\ \A x \in DOMAIN read'[n].todo :
             x \in DOMAIN read[n].todo /\ read'[n].todo[x] = read[n].todo[x]
    <3> HIDE DEF m
    <3> QED BY <1>0, <2>1, <2>2 DEF Without, Restrict, IsListing, TypeOK
  <2>4. Lists(n)'
    BY <2>1, <2>3 DEF FollowerOK, Lists
  <2> QED BY <1>4, <2>4, ReadingPreserves DEF SkipRules
<1>5. CASE SwapEngine(n)
  <2>1. pc[n] \in {"boot", "reload"} /\ read[n].listed
    BY <1>1, <1>5 DEF SwapEngine, Read, Reading
  <2>2. ServesOnly(Serve(read[n].acc), View(tab))
    BY <2>1, PartServed DEF FollowerOK, Lists
  <2>3. /\ engine'[n] = Serve(read[n].acc)
        /\ loaded'[n] = imported[n]
        /\ ~read'[n].listed
        /\ pc'[n] = IF pc[n] = "reload" THEN "note" ELSE "idle"
        /\ UNCHANGED <<db, published, lastETag, head, got, scan, imported>>
    BY <1>0, <1>5, <2>1
       DEF SwapEngine, TypeOK, Goto, AfterReload, NotListed, pollVars
  <2>4. Labelled(n)' /\ Fetched(n)' /\ Lists(n)'
    BY <2>3 DEF Labelled, Fetched, Lists
  <2>5. Holds(n)' /\ Serves(n)'
    BY <2>2, <2>3, Indexes DEF FollowerOK, Holds, Serves, Version
  <2>6. Heads(n)'
    <3>1. ETagUpTo(lastETag[n], loaded[n]) => ETagUpTo(lastETag[n], imported[n])
      BY Indexes DEF FollowerOK, Holds, ETagUpTo
    <3>2. \A e : ETagUpTo(e, imported[n]) => \E k \in 1..loaded'[n] : e = ETag(published'[k])
      BY <2>3 DEF ETagUpTo
    <3>3. pc'[n] = "note" => ETagUpTo(head[n], imported[n])
      BY <2>1, <2>3 DEF FollowerOK, Heads
    <3>4. lastETag[n] # NoETag => ETagUpTo(lastETag[n], imported[n])
      BY <3>1 DEF FollowerOK, Heads
    <3> QED BY <2>3, <3>2, <3>3, <3>4 DEF Heads, ETagUpTo
  <2> QED BY <2>4, <2>5, <2>6 DEF FollowerOK
<1>6. CASE ReloadFails(n)
  <2>1. pc[n] \in {"boot", "reload"} /\ ~read[n].listed
    BY <1>1, <1>6 DEF ReloadFails, Reading
  <2>2. /\ pc'[n] = "idle"
        /\ UNCHANGED <<db, published, engine, lastETag, read, got, scan, imported, loaded>>
    BY <1>0, <1>6, <2>1
       DEF ReloadFails, TypeOK, Goto, AfterReload, pollVars, history
  <2> QED BY <2>1, <2>2 DEF FollowerOK, Labelled, Holds, Serves, Fetched, Lists, Heads,
                            ETagUpTo, Version
<1> QED BY <1>2, <1>3, <1>4, <1>5, <1>6 DEF Reload

LEMMA PollPreserves ==
  ASSUME TypeOK, NEW n \in Followers, FollowerOK(n), Poll(n) \/ NoteETag(n)
  PROVE  FollowerOK(n)'
<1>0. n \in Nodes /\ n \in Procs /\ NodeOf(n) = n /\ DbOf[n] \in DBs
      /\ imported[n] \in 0..Len(published)
      /\ loaded[n] \in 0..Len(published)
      /\ got[n] \in 0..Len(published)
      /\ Len(published) \in Nat
  BY Indexes
<1>1. CASE HeadObject(n)
  <2>1. /\ pc[n] = "idle" /\ pc'[n] = "compare"
        /\ head'[n] = ETag(Object)
        /\ UNCHANGED <<db, published, engine, lastETag, read, got, scan, imported, loaded>>
    BY <1>0, <1>1 DEF HeadObject, TypeOK, Goto, pollVars, history
  <2>2. ETagUpTo(ETag(Object), Len(published))
    <3>1. Len(published) > 0
      BY <1>0, <1>1 DEF HeadObject, TypeOK
    <3> QED BY <1>0, <3>1 DEF ETagUpTo, Object
  <2> QED BY <2>1, <2>2 DEF FollowerOK, Labelled, Holds, Serves, Fetched, Lists, Heads,
                            ETagUpTo, Version
<1>2. CASE CompareETag(n)
  <2>1. /\ pc[n] = "compare" /\ pc'[n] \in {"idle", "get"}
        /\ pc'[n] = "get" => head'[n] = head[n]
        /\ UNCHANGED <<db, published, engine, lastETag, read, got, scan, imported, loaded>>
    BY <1>0, <1>2 DEF CompareETag, TypeOK, Goto, pollVars, history
  <2> QED BY <2>1 DEF FollowerOK, Labelled, Holds, Serves, Fetched, Lists, Heads,
                      ETagUpTo, Version
<1>3. CASE GetObject(n)
  <2>1. /\ pc[n] = "get" /\ pc'[n] = "import" /\ got'[n] = Len(published)
        /\ UNCHANGED <<db, published, engine, lastETag, read, head, scan, imported, loaded>>
    BY <1>0, <1>3 DEF GetObject, TypeOK, Goto, history
  <2> QED BY <1>0, <2>1 DEF FollowerOK, Labelled, Holds, Serves, Fetched, Lists, Heads,
                            ETagUpTo, Version
<1>4. CASE ImportScan(n)
  <2>1. /\ pc[n] = "import" /\ pc'[n] = "commit" /\ scan'[n] = db[DbOf[n]].tab
        /\ UNCHANGED <<db, published, engine, lastETag, read, head, got, imported, loaded>>
    BY <1>0, <1>4 DEF ImportScan, TypeOK, Goto, history
  <2> QED BY <2>1 DEF FollowerOK, Labelled, Holds, Serves, Fetched, Lists, Heads,
                      ETagUpTo, Version
<1>5. CASE ImportCommit(n)
  <2> DEFINE new == BulkImportReplace(db[DbOf[n]], scan[n], Incoming(n))
  <2>1. /\ pc[n] = "commit" /\ pc'[n] = "reload" /\ imported'[n] = got[n]
        /\ db'[DbOf[n]] = new
        /\ UNCHANGED <<published, engine, lastETag, read, head, loaded>>
    BY <1>0, <1>5 DEF ImportCommit, TypeOK, Goto
  <2>2. scan[n] = db[DbOf[n]].tab /\ imported[n] <= got[n] /\ got[n] > 0 /\ ~read[n].listed
    BY <1>0, <2>1 DEF FollowerOK, Fetched, Lists, TypeOK
  <2>3. View(new.tab) = Version(got[n])
    BY <2>2, ImportInstallsRuleset DEF Version, Incoming
  <2>4. Labelled(n)' /\ Serves(n)' /\ Fetched(n)' /\ Lists(n)'
    BY <2>1, <2>2 DEF FollowerOK, Labelled, Serves, Fetched, Lists, Version
  <2>5. Holds(n)'
    <3> HIDE DEF new
    <3> QED BY <1>0, <2>1, <2>2, <2>3 DEF FollowerOK, Holds, Version
  <2>6. Heads(n)'
    BY <2>1 DEF FollowerOK, Heads, ETagUpTo
  <2> QED BY <2>4, <2>5, <2>6 DEF FollowerOK
<1>6. CASE PollFails(n)
  <2>1. /\ pc'[n] = "idle" /\ pc[n] \in {"get", "import", "commit"}
        /\ UNCHANGED <<db, published, engine, lastETag, read, imported, loaded>>
    BY <1>0, <1>6 DEF PollFails, TypeOK, Goto, history
  <2> QED BY <2>1 DEF FollowerOK, Labelled, Holds, Serves, Fetched, Lists, Heads,
                      ETagUpTo, Version
<1>7. CASE NoteETag(n)
  <2>1. /\ pc[n] = "note" /\ pc'[n] = "idle" /\ lastETag'[n] = head[n]
        /\ UNCHANGED <<db, published, engine, read, got, scan, imported, loaded>>
    BY <1>0, <1>7 DEF NoteETag, TypeOK, Goto, pollVars, history
  <2> QED BY <2>1 DEF FollowerOK, Labelled, Holds, Serves, Fetched, Lists, Heads,
                      ETagUpTo, Version
<1> QED BY <1>1, <1>2, <1>3, <1>4, <1>5, <1>6, <1>7 DEF Poll

LEMMA LifecyclePreserves ==
  ASSUME TypeOK, NEW n \in Followers, FollowerOK(n), Seed(n) \/ Crash(n) \/ Restart(n)
  PROVE  FollowerOK(n)'
<1>0. n \in Nodes /\ n \in Procs /\ n \in Owned(n)
  BY Indexes, Alone
<1>1. ~ Seed(n)
  BY DEF FollowerOK, Labelled, Seed
<1>2. CASE Crash(n)
  <2>1. /\ pc'[n] = "down" /\ ~read'[n].listed
        /\ engine'[n] = Nothing /\ lastETag'[n] = NoETag
        /\ UNCHANGED <<db, published, imported, loaded>>
    BY <1>0, <1>2 DEF Crash, TypeOK, NotListed
  <2> QED BY <2>1, NothingServed DEF FollowerOK, Labelled, Holds, Serves, Fetched, Lists,
                                     Heads, ETagUpTo, Version
<1>3. CASE Restart(n)
  <2>1. /\ pc[n] = "down" /\ pc'[n] = "boot"
        /\ UNCHANGED <<db, published, engine, lastETag, read, imported, loaded>>
    BY <1>0, <1>3 DEF Restart, TypeOK, Goto, history
  <2> QED BY <2>1 DEF FollowerOK, Labelled, Holds, Serves, Fetched, Lists, Heads,
                      ETagUpTo, Version
<1> QED BY <1>1, <1>2, <1>3

LEMMA InitFollowers == Init => FollowerInv
<1> SUFFICES ASSUME Init, NEW n \in Followers
             PROVE  FollowerOK(n)
  BY DEF FollowerInv
<1>1. n \in Nodes /\ n \in Procs /\ DbOf[n] \in DBs
  BY Places, TopologyAssumption DEF Followers
<1>2. /\ pc[n] = "boot" /\ ~read[n].listed /\ lastETag[n] = NoETag
      /\ engine[n] = Nothing /\ imported[n] = 0 /\ loaded[n] = 0
      /\ db[DbOf[n]].tab = Nothing
  BY <1>1 DEF Init, NotListed, EmptyDatabase
<1>3. View(Nothing) = Nothing
  BY DEF View, Nothing
<1> QED BY <1>2, <1>3, NothingServed
        DEF FollowerOK, Labelled, Holds, Serves, Fetched, Lists, Heads, Version

LEMMA NextFollowers ==
  TypeOK /\ TypeOK' /\ FollowerInv /\ [Next]_vars => FollowerInv'
<1> SUFFICES ASSUME TypeOK, TypeOK', FollowerInv, [Next]_vars, NEW n \in Followers
             PROVE  FollowerOK(n)'
  BY DEF FollowerInv
<1>1. FollowerOK(n)
  BY DEF FollowerInv
<1>2. CASE Own(n)
  BY <1>1, <1>2, OwnSteps, ReloadPreserves, PollPreserves, LifecyclePreserves
<1>3. CASE Same(n)
  BY <1>1, <1>3, BodiesStay, SamePreserves
<1> QED BY <1>2, <1>3, OwnOrSame

\* FollowerInv is inductive together with TypeOK: no step of a poll (Syncer.poll),
\* of Reload, of a crash or of anyone else breaks the relation between what a
\* follower holds, has fetched, serves and has recorded.
THEOREM FollowersCorrect == Spec => [](TypeOK /\ FollowerInv)
<1>1. Init => TypeOK /\ FollowerInv
  BY InitType, InitFollowers
<1>2. TypeOK /\ FollowerInv /\ [Next]_vars => (TypeOK /\ FollowerInv)'
  BY NextType, NextFollowers
<1> QED BY <1>1, <1>2, PTL DEF Spec

-----------------------------------------------------------------------------
(* What follows. *)

\* A follower's database is always exactly one published ruleset, whatever polls
\* failed half way and whenever the node died (BulkImportReplace, poll).
THEOREM HoldsOneVersion == Spec => []FollowerHoldsOneVersion
<1>1. FollowerInv => FollowerHoldsOneVersion
  BY DEF FollowerInv, FollowerOK, Holds, FollowerHoldsOneVersion
<1> QED BY <1>1, FollowersCorrect, PTL

\* All that a follower serves is said by one published ruleset (Engine.Reload).
THEOREM ServesOneVersion == Spec => []FollowerServesOneVersion
<1>1. FollowerInv => FollowerServesOneVersion
  BY DEF FollowerInv, FollowerOK, Serves, FollowerServesOneVersion
<1> QED BY <1>1, FollowersCorrect, PTL

\* The ETag a follower records is that of a body it has loaded or of an older
\* one (poll records HEAD's ETag, and only after the reload).
THEOREM ETagStaysBehind == Spec => []ETagNeverAhead
<1>1. FollowerInv => ETagNeverAhead
  BY DEF FollowerInv, FollowerOK, Heads, ETagUpTo, ETagNeverAhead
<1> QED BY <1>1, FollowersCorrect, PTL

\* As long as no body is published twice, a follower whose polls skip the
\* download serves the object.
THEOREM SkippingIsSafe == Spec => []SkippedPollIsCurrentUnlessRepeated
<1>1. TypeOK /\ FollowerInv => SkippedPollIsCurrentUnlessRepeated
  <2> SUFFICES ASSUME TypeOK, FollowerInv, NoRepeat, NEW n \in Followers,
                      published # <<>>, lastETag[n] = ETag(Object)
               PROVE  ServesOnly(engine[n], Version(Len(published)))
    BY DEF SkippedPollIsCurrentUnlessRepeated, SkippedPollIsCurrent
  <2>1. FollowerOK(n) /\ loaded[n] \in 0..Len(published) /\ Len(published) \in Nat
    BY Indexes DEF FollowerInv
  <2>2. Len(published) > 0
    BY <2>1 DEF TypeOK
  <2>3. PICK k \in 1..loaded[n] : ETag(published[k]) = ETag(Object)
    BY <2>1 DEF FollowerOK, Heads, ETagUpTo, ETag, NoETag
  <2>4. published[k] = published[Len(published)]
    BY <2>3 DEF ETag, Object
  <2>5. k = Len(published) /\ loaded[n] = Len(published)
    BY <2>1, <2>2, <2>3, <2>4 DEF NoRepeat
  <2> QED BY <2>1, <2>5 DEF FollowerOK, Serves
<1> QED BY <1>1, FollowersCorrect, PTL

\* The import of the API overwrites and removes nothing (BulkImport).
THEOREM ImportKeeps == Spec => ImportOverwritesNothing
<1> DEFINE Keeps ==
      \A h \in Handlers : Import(h) =>
        LET old == db[MyDb(h)].tab
            new == db'[MyDb(h)].tab
        IN \A n \in DOMAIN old :
             /\ n \in DOMAIN new /\ new[n].row = old[n].row
             /\ \A p \in DOMAIN old[n].rules :
                  p \in DOMAIN new[n].rules /\ new[n].rules[p] = old[n].rules[p]
<1>1. TypeOK => Keeps
  <2> SUFFICES ASSUME TypeOK, NEW h \in Handlers, Import(h), NEW n \in DOMAIN db[MyDb(h)].tab
               PROVE  LET old == db[MyDb(h)].tab
                          new == db'[MyDb(h)].tab
                      IN /\ n \in DOMAIN new /\ new[n].row = old[n].row
                         /\ \A p \in DOMAIN old[n].rules :
                              p \in DOMAIN new[n].rules /\ new[n].rules[p] = old[n].rules[p]
    OBVIOUS
  <2>1. MyDb(h) \in DOMAIN db
    BY Places DEF TypeOK
  <2>2. PICK req \in Requests : Writes(h, BulkImport(db[MyDb(h)], req.entries))
    BY DEF Import
  <2>3. db'[MyDb(h)] = BulkImport(db[MyDb(h)], req.entries)
    BY <2>1, <2>2 DEF Writes
  <2> QED BY <2>3, BulkImportKeeps
<1>2. TypeOK => [Keeps]_vars
  BY <1>1
<1> QED BY <1>2, TypeCorrect, PTL DEF ImportOverwritesNothing

-----------------------------------------------------------------------------
(* Followers implement RuleReplica. *)

LEMMA OthersSame ==
  ASSUME TypeOK, NEW n \in Followers, NEW m \in Followers, m # n, Own(n)
  PROVE  Same(m)
<1>1. n \in Nodes /\ NodeOf(n) = n /\ DbOf[m] # DbOf[n]
  BY Alone, Places
<1>2. Untouched(m)
  BY <1>1, Alone, OwnSteps, OthersReload, OthersPoll, OthersLifecycle
<1> QED BY <1>1, <1>2, Alone, OwnDatabase DEF Same

\* Of a follower's own steps, an import adopts a body that is no older, and a
\* swap or a crash leaves an engine that serves what was adopted.
LEMMA OwnEffect ==
  ASSUME TypeOK, NEW n \in Followers, FollowerOK(n), Own(n)
  PROVE  /\ UNCHANGED published
         /\ \/ imported'[n] = imported[n] /\ engine'[n] = engine[n]
            \/ /\ imported'[n] \in 1..Len(published) /\ imported[n] <= imported'[n]
               /\ engine'[n] = engine[n]
            \/ imported'[n] = imported[n] /\ ServesOnly(engine'[n], Version(imported[n]))
<1>0. n \in Nodes /\ n \in Procs /\ NodeOf(n) = n /\ Len(published) \in Nat
      /\ got[n] \in 0..Len(published)
  BY Indexes
<1>1. UNCHANGED published
  BY OwnSteps DEF Reload, ReadDomains, ReadRules, SkipRules, SwapEngine, ReloadFails, NoteETag,
         Poll, HeadObject, CompareETag, GetObject, ImportScan, ImportCommit, PollFails,
         Seed, Crash, Restart
<1>2. CASE SwapEngine(n)
  <2>1. loaded'[n] = imported[n] /\ imported'[n] = imported[n]
    BY <1>0, <1>2 DEF SwapEngine, TypeOK
  <2>2. Serves(n)'
    BY <1>2, ReloadPreserves DEF Reload, FollowerOK
  <2> QED BY <1>1, <2>1, <2>2 DEF Serves, Version
<1>3. CASE ImportCommit(n)
  <2>1. imported'[n] = got[n] /\ engine'[n] = engine[n] /\ pc[n] = "commit"
    BY <1>0, <1>3 DEF ImportCommit, TypeOK
  <2>2. imported[n] <= got[n] /\ got[n] > 0
    BY <1>0, <2>1 DEF FollowerOK, Fetched, TypeOK
  <2> QED BY <1>0, <1>1, <2>1, <2>2
<1>4. CASE Crash(n)
  BY <1>0, <1>1, <1>4, NothingServed DEF Crash, TypeOK
<1>5. CASE ~SwapEngine(n) /\ ~ImportCommit(n) /\ ~Crash(n)
  BY <1>1, <1>5, OwnSteps DEF Reload, ReadDomains, ReadRules, SkipRules, ReloadFails, NoteETag,
         Poll, HeadObject, CompareETag, GetObject, ImportScan, PollFails,
         Seed, Restart, history
<1> QED BY <1>2, <1>3, <1>4, <1>5

\* The instance names the operators of RuleStore anew; they say the same.
LEMMA SameOperators ==
  /\ Replica!Nothing = Nothing
  /\ \A rs : Replica!Normalise(rs) = Normalise(rs)
  /\ \A m, rs : ServesOnly(m, rs) => Replica!ServesOnly(m, rs)
<1>1. Replica!Nothing = Nothing
  BY DEF Replica!Nothing, Nothing
<1>2. ASSUME NEW rs PROVE Replica!Normalise(rs) = Normalise(rs)
  BY DEF Replica!Normalise, Normalise, Replica!DefaultCode, DefaultCode
<1>3. ASSUME NEW rs PROVE Replica!Serve(rs) = Serve(rs)
  BY DEF Replica!Serve, Serve
<1>4. ASSUME NEW m, NEW rs, ServesOnly(m, rs) PROVE Replica!ServesOnly(m, rs)
  BY <1>3, <1>4 DEF Replica!ServesOnly, ServesOnly
<1> QED BY <1>1, <1>2, <1>4

LEMMA ReplicaInit == Init => Replica!RInit
<1> SUFFICES ASSUME Init PROVE Replica!RInit
  OBVIOUS
<1>1. Followers \subseteq Nodes
  BY TopologyAssumption DEF Followers
<1>2. published = <<>>
  BY DEF Init
<1>3. [n \in Followers |-> imported[n]] = [r \in Followers |-> 0]
  BY <1>1 DEF Init
<1>4. [n \in Followers |-> engine[n]] = [r \in Followers |-> Nothing]
  BY <1>1 DEF Init
<1>5. [n \in Followers |-> engine[n]] = [r \in Followers |-> Replica!Nothing]
  BY <1>4, SameOperators
<1> QED BY <1>2, <1>3, <1>5 DEF Replica!RInit

LEMMA ReplicaStep ==
  TypeOK /\ FollowerInv /\ [Next]_vars => [Replica!RNext]_(Replica!rvars)
<1> SUFFICES ASSUME TypeOK, FollowerInv, [Next]_vars
             PROVE  Replica!RNext \/ UNCHANGED Replica!rvars
  OBVIOUS
<1> DEFINE at == [n \in Followers |-> imported[n]]
           serving == [n \in Followers |-> engine[n]]
<1>1. CASE \E n \in Followers : Own(n)
  <2>1. PICK n \in Followers : Own(n)
    BY <1>1
  <2>2. \A m \in Followers \ {n} : imported'[m] = imported[m] /\ engine'[m] = engine[m]
    BY <2>1, OthersSame, SameParts
  <2>3. UNCHANGED published
    BY <2>1, OwnEffect DEF FollowerInv
  <2>4. CASE imported'[n] = imported[n] /\ engine'[n] = engine[n]
    BY <2>2, <2>3, <2>4 DEF Replica!rvars
  <2>5. CASE /\ imported'[n] \in 1..Len(published) /\ imported[n] <= imported'[n]
             /\ engine'[n] = engine[n]
    <3>1. at' = [at EXCEPT ![n] = imported'[n]] /\ serving' = serving
      BY <2>2, <2>5
    <3>2. imported'[n] \in 1..Len(published) /\ imported'[n] >= at[n]
      BY <2>5, Indexes DEF FollowerInv
    <3>3. \E k \in 1..Len(published) : k >= at[n] /\ at' = [at EXCEPT ![n] = k]
      BY <3>1, <3>2
    <3>4. Replica!Adoption(n)
      BY <2>3, <3>1, <3>3 DEF Replica!Adoption
    <3> QED BY <3>4 DEF Replica!RNext
  <2>6. CASE imported'[n] = imported[n] /\ ServesOnly(engine'[n], Version(imported[n]))
    <3>1. serving' = [serving EXCEPT ![n] = engine'[n]] /\ at' = at
      BY <2>2, <2>6
    <3>2. Replica!Entry(at[n]) = Version(imported[n])
      BY SameOperators DEF Replica!Entry, Version
    <3>3. Replica!ServesOnly(engine'[n], Version(imported[n]))
      BY <2>6, SameOperators
    <3>4. Replica!ServesOnly(engine'[n], Replica!Entry(at[n]))
      BY <3>2, <3>3
    <3>5. Replica!Refresh(n)
      BY <2>3, <3>1, <3>4 DEF Replica!Refresh
    <3> QED BY <3>5 DEF Replica!RNext
  <2> QED BY <2>1, <2>4, <2>5, <2>6, OwnEffect DEF FollowerInv
<1>2. CASE \A n \in Followers : ~Own(n)
  <2>1. \A n \in Followers : Same(n)
    BY <1>2, OwnOrSame
  <2>2. at' = at /\ serving' = serving
    BY <2>1, SameParts
  <2>3. CASE UNCHANGED published
    BY <2>2, <2>3 DEF Replica!rvars
  <2>4. CASE \E body : published' = Append(published, body)
    <3>1. /\ Len(published') = Len(published) + 1
          /\ \A k \in 1..Len(published) : published'[k] = published[k]
      BY <2>4, AppendRange DEF TypeOK
    <3> QED BY <2>2, <3>1 DEF Replica!RNext, Replica!Publication
  <2> QED BY <2>3, <2>4, OneBodyAtATime
<1> QED BY <1>1, <1>2

\* Whatever a poll goes through, what a follower does to its database and its
\* engine is: adopt a published ruleset no older than the one it has, and serve
\* nothing that one does not say.
THEOREM FollowersAreReplicas == Spec => ImplementsReplica
<1>1. Spec => [](TypeOK /\ FollowerInv)
  BY FollowersCorrect
<1> QED BY <1>1, ReplicaInit, ReplicaStep, PTL DEF Spec, ImplementsReplica, Replica!RSpec
=============================================================================
