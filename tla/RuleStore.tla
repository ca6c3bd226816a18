----------------------------- MODULE RuleStore -----------------------------
(***************************************************************************)
(* The two rule tables of internal/store (domains and redirect_rules) and  *)
(* the statements and transactions the program runs on them.               *)
(*                                                                         *)
(* A database is a record: tab holds the rows, keyed by domain name, and   *)
(* next is the AUTOINCREMENT / SERIAL counter of domain ids.  The rules of *)
(* a domain are kept inside its row, keyed by path.  The representation    *)
(* builds in what the schema makes the DBMS enforce: UNIQUE(name),         *)
(* UNIQUE(domain_id, path) and the cascading foreign key.  A domain id     *)
(* still matters, because readers list the domains first and then ask for  *)
(* the rules of each id; it is the identity of one incarnation of a name.  *)
(*                                                                         *)
(* Names are numbered in collation order (the queries say ORDER BY name).  *)
(***************************************************************************)
EXTENDS Integers, FiniteSets, FiniteSetsExt, Sequences, Functions

CONSTANTS
  Names,        \* domain names, numbered in the order ORDER BY name lists them
  Paths,        \* rule paths
  Urls,         \* default and target URLs
  Codes,        \* HTTP status codes a client may store, 0 included
  Priorities,   \* rule priorities
  ExportLimit,  \* LIMIT of the domain list read by ExportAll (10000)
  LoadLimit     \* LIMIT of the domain list read by Engine.Reload (100000)

ASSUME NamesAssumption == Names \subseteq Nat /\ IsFiniteSet(Names)
ASSUME CodesAssumption == 301 \in Codes
ASSUME LimitAssumption == ExportLimit \in Nat /\ LoadLimit \in Nat

-----------------------------------------------------------------------------
(* Finite maps, the shape of every table below. *)

Nothing == [x \in {} |-> x]
Without(f, S) == Restrict(f, DOMAIN f \ S)
With(f, x, v) == [y \in DOMAIN f \cup {x} |-> IF y = x THEN v ELSE f[y]]

-----------------------------------------------------------------------------
(* Rows, and the JSON documents that carry them between nodes. *)

DomainRow == [url: Urls, code: Codes, enabled: BOOLEAN]
RuleRow == [url: Urls, code: Codes, prio: Priorities, enabled: BOOLEAN]
IsRules(f) == DOMAIN f \subseteq Paths /\ \A p \in DOMAIN f : f[p] \in RuleRow

\* A full ruleset: what ExportAll returns and rules.json holds.
IsRuleset(rs) ==
  /\ DOMAIN rs \subseteq Names
  /\ \A n \in DOMAIN rs :
       /\ rs[n] \in [row: DomainRow, rules: {rs[n].rules}]
       /\ IsRules(rs[n].rules)

IsTable(tab) ==
  /\ DOMAIN tab \subseteq Names
  /\ \A n \in DOMAIN tab :
       /\ tab[n] \in [id: Nat, row: DomainRow, rules: {tab[n].rules}]
       /\ IsRules(tab[n].rules)

IsDatabase(d) == d \in [tab: {d.tab}, next: Nat] /\ IsTable(d.tab)

\* The list POST /import and the seed file carry; a name may come up twice.
IsEntries(entries) ==
  /\ Len(entries) \in Nat
  /\ DOMAIN entries = 1..Len(entries)
  /\ \A i \in DOMAIN entries :
       /\ entries[i].name \in Names
       /\ entries[i].row \in DomainRow
       /\ IsRules(entries[i].rules)

EmptyDatabase == [tab |-> Nothing, next |-> 1]

\* The part of a table that an export carries: everything but the ids.
View(tab) == [n \in DOMAIN tab |-> [row |-> tab[n].row, rules |-> tab[n].rules]]

\* Mutant: another default than the documented 301.
DefaultCode302(v) == [v EXCEPT !.code = IF @ = 0 THEN 302 ELSE @]

\* Both imports store 301 where the document says 0.
DefaultCode(v) == [v EXCEPT !.code = IF @ = 0 THEN 301 ELSE @]
Normalise(rs) ==
  [n \in DOMAIN rs |->
    [row |-> DefaultCode(rs[n].row),
     rules |-> [p \in DOMAIN rs[n].rules |-> DefaultCode(rs[n].rules[p])]]]

-----------------------------------------------------------------------------
(* Queries. *)

\* The first limit domains by name.
ListDomains(tab, limit) ==
  Restrict(tab, {n \in DOMAIN tab :
                   Cardinality({m \in DOMAIN tab : m < n}) < limit})

\* The rules of a domain id; none when that incarnation is gone.
ListRules(tab, n, id) ==
  IF n \in DOMAIN tab /\ tab[n].id = id THEN tab[n].rules ELSE Nothing

-----------------------------------------------------------------------------
(* Single statements.  Each maps a database to the database it leaves. *)

InsertDomain(d, n, row) ==
  [tab |-> With(d.tab, n, [id |-> d.next, row |-> row, rules |-> Nothing]),
   next |-> d.next + 1]

\* UPDATE ... WHERE name = ?: no row, no change.
UpdateDomain(d, n, row) ==
  IF n \in DOMAIN d.tab THEN [d EXCEPT !.tab[n].row = row] ELSE d

DeleteDomain(d, n) == [d EXCEPT !.tab = Without(@, {n})]

HasRule(d, n, p) == n \in DOMAIN d.tab /\ p \in DOMAIN d.tab[n].rules

InsertRule(d, n, p, rule) == [d EXCEPT !.tab[n].rules = With(@, p, rule)]

\* UPDATE ... WHERE id = ?: the rule may move to another path of its domain.
UpdateRule(d, n, p, q, rule) ==
  IF HasRule(d, n, p)
    THEN [d EXCEPT !.tab[n].rules = With(Without(@, {p}), q, rule)]
    ELSE d

DeleteRule(d, n, p) ==
  IF HasRule(d, n, p) THEN [d EXCEPT !.tab[n].rules = Without(@, {p})] ELSE d

-----------------------------------------------------------------------------
(* BulkImport: one transaction of INSERT OR IGNORE statements over a list  *)
(* of entries.  A row that exists is left as it is, and of two entries     *)
(* with one key the first is the one inserted.                             *)

FreshIds(d, new) == [n \in new |-> d.next + Cardinality({m \in new : m < n})]

\* Mutant: INSERT OR REPLACE, with the rules kept.
BulkImportOverwriting(d, entries) ==
  LET Of(n) == {i \in DOMAIN entries : entries[i].name = n}
      listed == {entries[i].name : i \in DOMAIN entries}
      new == listed \ DOMAIN d.tab
      ids == FreshIds(d, new)
  IN [tab |-> [n \in DOMAIN d.tab \cup listed |->
                 [id |-> IF n \in new THEN ids[n] ELSE d.tab[n].id,
                  row |-> IF n \in listed THEN DefaultCode(entries[Min(Of(n))].row)
                                          ELSE d.tab[n].row,
                  rules |-> IF n \in new THEN Nothing ELSE d.tab[n].rules]],
      next |-> d.next + Cardinality(new)]

BulkImport(d, entries) ==
  LET Of(n) == {i \in DOMAIN entries : entries[i].name = n}
      OfRule(n, p) == {i \in Of(n) : p \in DOMAIN entries[i].rules}
      listed == {entries[i].name : i \in DOMAIN entries}
      new == listed \ DOMAIN d.tab
      ids == FreshIds(d, new)
      Live(v) == [DefaultCode(v) EXCEPT !.enabled = TRUE]
      Before(n) == IF n \in new THEN Nothing ELSE d.tab[n].rules
      RulesOf(n) ==
        [p \in DOMAIN Before(n) \cup {q \in Paths : OfRule(n, q) # {}} |->
           IF p \in DOMAIN Before(n)
             THEN Before(n)[p]
             ELSE Live(entries[Min(OfRule(n, p))].rules[p])]
  IN [tab |-> [n \in DOMAIN d.tab \cup listed |->
                 [id |-> IF n \in new THEN ids[n] ELSE d.tab[n].id,
                  row |-> IF n \in new THEN Live(entries[Min(Of(n))].row)
                                       ELSE d.tab[n].row,
                  rules |-> RulesOf(n)]],
      next |-> d.next + Cardinality(new)]

-----------------------------------------------------------------------------
(* BulkImportReplace: one transaction that upserts a full ruleset, then    *)
(* deletes the rules and domains its orphan queries found outside it.      *)
(* PostgreSQL runs it at READ COMMITTED, so the orphan queries see the     *)
(* table of their own moment (scanned) and the commit lands on the table   *)
(* d.tab of a later one.                                                   *)

\* Mutants: a kind of orphan is not looked for.
NoOrphanDomains(scanned, rs) == {}
NoOrphanRules(scanned, rs, n) == {}

OrphanDomains(scanned, rs) == DOMAIN scanned \ DOMAIN rs

OrphanRules(scanned, rs, n) ==
  IF n \in DOMAIN scanned THEN DOMAIN scanned[n].rules \ DOMAIN rs[n].rules ELSE {}

BulkImportReplace(d, scanned, rs) ==
  LET new == DOMAIN rs \ DOMAIN d.tab
      ids == FreshIds(d, new)
      imported == Normalise(rs)
      Kept(n) == IF n \in new
                   THEN {}
                   ELSE DOMAIN d.tab[n].rules \
                          (DOMAIN rs[n].rules \cup OrphanRules(scanned, rs, n))
      RulesOf(n) == [p \in DOMAIN rs[n].rules \cup Kept(n) |->
                       IF p \in DOMAIN rs[n].rules THEN imported[n].rules[p]
                                                   ELSE d.tab[n].rules[p]]
  IN [tab |-> [n \in DOMAIN rs \cup (DOMAIN d.tab \ OrphanDomains(scanned, rs)) |->
                 IF n \in DOMAIN rs
                   THEN [id |-> IF n \in new THEN ids[n] ELSE d.tab[n].id,
                         row |-> imported[n].row,
                         rules |-> RulesOf(n)]
                   ELSE d.tab[n]],
      next |-> d.next + Cardinality(new)]

-----------------------------------------------------------------------------
(* What the redirect engine serves of a ruleset: enabled domains with      *)
(* their enabled rules.                                                    *)

IsServed(m) ==
  /\ DOMAIN m \subseteq Names
  /\ \A n \in DOMAIN m :
       /\ m[n].url \in Urls /\ m[n].code \in Codes
       /\ DOMAIN m[n].rules \subseteq Paths
       /\ \A p \in DOMAIN m[n].rules :
            m[n].rules[p] \in [url: Urls, code: Codes, prio: Priorities]

Serve(rs) ==
  [n \in {m \in DOMAIN rs : rs[m].row.enabled} |->
    [url |-> rs[n].row.url,
     code |-> rs[n].row.code,
     rules |-> [p \in {q \in DOMAIN rs[n].rules : rs[n].rules[q].enabled} |->
                  [url |-> rs[n].rules[p].url,
                   code |-> rs[n].rules[p].code,
                   prio |-> rs[n].rules[p].prio]]]]

\* m serves nothing that rs does not say; it may serve less.
ServesOnly(m, rs) ==
  /\ DOMAIN m \subseteq DOMAIN Serve(rs)
  /\ \A n \in DOMAIN m : m[n] = Serve(rs)[n]
=============================================================================
