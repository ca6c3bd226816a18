------------------------------ MODULE RuleSync ------------------------------
(***************************************************************************)
(* How redirect rules travel: admin requests on control nodes write the    *)
(* database, reload the node's redirect engine and publish the whole       *)
(* ruleset to one object (internal/api, internal/sync); every node with a  *)
(* syncer polls that object, imports it into its database when its ETag    *)
(* changed and reloads its engine from the database (internal/redirect).   *)
(*                                                                         *)
(* A process is a node (its start-up and then its polling goroutine) or a  *)
(* request handler of a node.  A process yields between any two queries,   *)
(* calls or critical sections.                                             *)
(***************************************************************************)
EXTENDS RuleStore

CONSTANTS
  Nodes,       \* running programs
  Handlers,    \* request goroutines that may run at the same time
  Host,        \* Host[h]: the node whose API handler h runs in
  DBs,         \* databases
  DbOf,        \* DbOf[n]: the database node n is configured with
  Syncing,     \* nodes started with a sync endpoint
  Seeding,     \* nodes started with a seed file
  SeedFile,    \* the entries of the seed file
  Requests,    \* mutations the admins may ask for
  FaultKinds,  \* which calls may fail
  MaxRequests, MaxFaults, MaxCrashes  \* bounds of the model

ASSUME TopologyAssumption ==
  /\ Host \in [Handlers -> Nodes]
  /\ DbOf \in [Nodes -> DBs]
  /\ Syncing \subseteq Nodes
  /\ Seeding \subseteq Nodes
  /\ Nodes \cap Handlers = {}

ASSUME BoundAssumption ==
  MaxRequests \in Nat /\ MaxFaults \in Nat /\ MaxCrashes \in Nat

\* What a request can say, once it is decoded and its required fields checked.
IsRequest(req) ==
  \/ req.kind = "import" /\ IsEntries(req.entries)
  \/ req.kind \in {"createDomain", "updateDomain"} /\ req.name \in Names /\ req.row \in DomainRow
  \/ req.kind = "deleteDomain" /\ req.name \in Names
  \/ req.kind = "createRule" /\ req.name \in Names /\ req.path \in Paths /\ req.rule \in RuleRow
  \/ req.kind = "updateRule" /\ req.name \in Names /\ {req.path, req.newPath} \subseteq Paths
       /\ req.rule \in RuleRow
  \/ req.kind = "deleteRule" /\ req.name \in Names /\ req.path \in Paths

ASSUME RequestAssumption == IsEntries(SeedFile) /\ \A req \in Requests : IsRequest(req)

VARIABLES
  db,         \* db[x]: committed state of database x
  published,  \* every body PutObject stored, in order; the last is the object
  engine,     \* engine[n]: the map requests are served from
  lastETag,   \* lastETag[n]: the syncer's lastETag
  pc,         \* pc[p]: where process p is
  read,       \* read[p]: the listing p works through and what it has built
  head,       \* head[p]: the ETag p got from HEAD or PUT
  got,        \* got[n]: which published body the last GET of n returned
  scan,       \* scan[n]: the table the orphan queries of an import saw
  rule,       \* rule[h]: the rule request of h and the domain id it looked up
  imported,   \* imported[n]: the body n's last committed import came from
  loaded,     \* loaded[n]: the value of imported[n] when n last swapped engines
  spent       \* how many requests, faults and crashes have been used

pollVars == <<got, scan>>
history == <<imported, loaded>>   \* what the program itself does not keep
vars == <<db, published, engine, lastETag, pc, read, head, pollVars, rule, history, spent>>

Procs == Nodes \cup Handlers
NodeOf(p) == IF p \in Handlers THEN Host[p] ELSE p
MyDb(p) == DbOf[NodeOf(p)]

Object == published[Len(published)]

\* An ETag is a function of the body, told apart from the empty string lastETag
\* starts from; the body itself stands for it.
NoETag == <<>>
ETag(body) == <<body>>

NotListed == [listed |-> FALSE, todo |-> Nothing, acc |-> Nothing]
NoRule == [kind |-> "none"]

Reloading == {"boot", "seeded", "reload"}   \* inside Engine.Reload
Reading == Reloading \cup {"export"}        \* inside Reload or ExportAll
Started(n) == pc[n] \notin {"down", "boot", "seed", "seeded"}

Spend(what) == spent' = [spent EXCEPT ![what] = @ + 1]
Fault(kind) == kind \in FaultKinds /\ spent.faults < MaxFaults /\ Spend("faults")

Goto(p, label) == pc' = [pc EXCEPT ![p] = label]

Init ==
  /\ db = [x \in DBs |-> EmptyDatabase]
  /\ published = <<>>
  /\ engine = [n \in Nodes |-> Nothing]
  /\ lastETag = [n \in Nodes |-> NoETag]
  /\ pc = [p \in Procs |-> IF p \in Nodes THEN "boot" ELSE "idle"]
  /\ read = [p \in Procs |-> NotListed]
  /\ head = [p \in Procs |-> NoETag]
  /\ got = [n \in Nodes |-> 0]
  /\ scan = [n \in Nodes |-> Nothing]
  /\ rule = [h \in Handlers |-> NoRule]
  /\ imported = [n \in Nodes |-> 0]
  /\ loaded = [n \in Nodes |-> 0]
  /\ spent = [requests |-> 0, faults |-> 0, crashes |-> 0]

-----------------------------------------------------------------------------
(* Locks.  Between its orphan queries and its commit an import holds the   *)
(* rows it upserted and the rows it deletes; a statement that needs one of *)
(* them waits for the commit.  A statement whose WHERE finds no committed  *)
(* row does not wait.                                                      *)

InTx(q, x) == q \in Nodes /\ pc[q] = "commit" /\ DbOf[q] = x
Incoming(q) == published[got[q]]

DomainFree(x, n) ==
  \A q \in Nodes : InTx(q, x) => n \notin DOMAIN Incoming(q) \cup DOMAIN scan[q]

RuleFree(x, n, p) ==
  \A q \in Nodes : InTx(q, x) =>
    IF n \in DOMAIN Incoming(q)
      THEN p \notin DOMAIN Incoming(q)[n].rules \cup OrphanRules(scan[q], Incoming(q), n)
      ELSE n \notin DOMAIN scan[q]

\* INSERT OR IGNORE waits only for a key that is being inserted.
ImportFree(x, entries) == \A i \in DOMAIN entries :
  LET n == entries[i].name
  IN IF n \in DOMAIN db[x].tab
       THEN \A p \in DOMAIN entries[i].rules \ DOMAIN db[x].tab[n].rules : RuleFree(x, n, p)
       ELSE DomainFree(x, n)

-----------------------------------------------------------------------------
(* The read loops: Engine.Reload and Store.ExportAll both list the domains *)
(* with one query and then the rules of each with a query of its own.      *)

\* Mutant: ExportAll leaves disabled domains out, as Reload does.
ListingEnabled(p) ==
  LET tab == db[MyDb(p)].tab
      all == ListDomains(tab, IF pc[p] = "export" THEN ExportLimit ELSE LoadLimit)
  IN Restrict(all, {n \in DOMAIN all : all[n].row.enabled})

\* Mutant: Reload's limit is off by one.
ListingShort(p) ==
  LET tab == db[MyDb(p)].tab
      all == ListDomains(tab, IF pc[p] = "export" THEN ExportLimit ELSE LoadLimit - 1)
  IN IF pc[p] = "export"
       THEN all
       ELSE Restrict(all, {n \in DOMAIN all : all[n].row.enabled})

\* Reload skips disabled domains before it asks for their rules.
Listing(p) ==
  LET tab == db[MyDb(p)].tab
      all == ListDomains(tab, IF pc[p] = "export" THEN ExportLimit ELSE LoadLimit)
  IN IF pc[p] = "export"
       THEN all
       ELSE Restrict(all, {n \in DOMAIN all : all[n].row.enabled})

ReadDomains(p) ==
  /\ pc[p] \in Reading
  /\ ~read[p].listed
  /\ read' = [read EXCEPT ![p] =
       [listed |-> TRUE,
        todo |-> [n \in DOMAIN Listing(p) |->
                    [id |-> Listing(p)[n].id, row |-> Listing(p)[n].row]],
        acc |-> Nothing]]
  /\ UNCHANGED <<db, published, engine, lastETag, pc, head, pollVars, rule, history, spent>>

ReadRules(p) ==
  /\ pc[p] \in Reading
  /\ read[p].listed
  /\ DOMAIN read[p].todo # {}
  /\ LET n == Min(DOMAIN read[p].todo)
         d == read[p].todo[n]
         rules == ListRules(db[MyDb(p)].tab, n, d.id)
     IN read' = [read EXCEPT ![p] =
          [listed |-> TRUE,
           todo |-> Without(@.todo, {n}),
           acc |-> With(@.acc, n, [row |-> d.row, rules |-> rules])]]
  /\ UNCHANGED <<db, published, engine, lastETag, pc, head, pollVars, rule, history, spent>>

\* Reload logs a failing ListRules, leaves that domain out and goes on.
SkipRules(p) ==
  /\ pc[p] \in Reloading
  /\ read[p].listed
  /\ DOMAIN read[p].todo # {}
  /\ Fault("rules")
  /\ read' = [read EXCEPT ![p].todo = Without(@, {Min(DOMAIN @)})]
  /\ UNCHANGED <<db, published, engine, lastETag, pc, head, pollVars, rule, history>>

Read(p) == /\ read[p].listed
           /\ DOMAIN read[p].todo = {}

\* Where a process goes when Reload has returned; only the poller looks at the error.
AfterReload(p) ==
  CASE p \in Handlers -> IF Host[p] \in Syncing THEN "export" ELSE "idle"
    [] pc[p] = "boot" -> IF p \in Seeding THEN "seed" ELSE "idle"
    [] OTHER -> IF pc[p] = "reload" THEN "note" ELSE "idle"

\* Mutant: Reload adds to the map in use instead of starting a new one.
SwapEngineMerging(p) ==
  /\ pc[p] \in Reloading
  /\ Read(p)
  /\ LET old == engine[NodeOf(p)]
         new == Serve(read[p].acc)
     IN engine' = [engine EXCEPT ![NodeOf(p)] =
          [n \in DOMAIN old \cup DOMAIN new |-> IF n \in DOMAIN new THEN new[n] ELSE old[n]]]
  /\ loaded' = [loaded EXCEPT ![NodeOf(p)] = imported[NodeOf(p)]]
  /\ read' = [read EXCEPT ![p] = NotListed]
  /\ Goto(p, AfterReload(p))
  /\ UNCHANGED <<db, published, lastETag, head, pollVars, rule, imported, spent>>

SwapEngine(p) ==
  /\ pc[p] \in Reloading
  /\ Read(p)
  /\ engine' = [engine EXCEPT ![NodeOf(p)] = Serve(read[p].acc)]
  /\ loaded' = [loaded EXCEPT ![NodeOf(p)] = imported[NodeOf(p)]]
  /\ read' = [read EXCEPT ![p] = NotListed]
  /\ Goto(p, AfterReload(p))
  /\ UNCHANGED <<db, published, lastETag, head, pollVars, rule, imported, spent>>

\* Mutant: the poller ignores Reload's error, as the handlers do.
ReloadFailsIgnored(p) ==
  /\ pc[p] \in Reloading
  /\ ~read[p].listed
  /\ Fault("reload")
  /\ Goto(p, AfterReload(p))
  /\ UNCHANGED <<db, published, engine, lastETag, read, head, pollVars, rule, history>>

\* Reload returns the error of its ListDomains: the engine keeps its map.
ReloadFails(p) ==
  /\ pc[p] \in Reloading
  /\ ~read[p].listed
  /\ Fault("reload")
  /\ IF p \in Nodes /\ pc[p] = "reload"
       THEN /\ Goto(p, "idle")
            /\ head' = [head EXCEPT ![p] = NoETag]
       ELSE /\ Goto(p, AfterReload(p))
            /\ UNCHANGED head
  /\ UNCHANGED <<db, published, engine, lastETag, read, pollVars, rule, history>>

-----------------------------------------------------------------------------
(* Admin requests (internal/api).  A handler that refuses its request      *)
(* (400, 404, 409) writes nothing, reloads nothing and publishes nothing,  *)
(* so only the accepted ones are steps, and the one that fails after its   *)
(* statement took effect (500).                                            *)

Accepts(h, kind, req) ==
  /\ pc[h] = "idle"
  /\ Started(Host[h])
  /\ spent.requests < MaxRequests
  /\ req \in Requests
  /\ req.kind = kind

\* The first statement of a handler takes effect and Reload is next.
Writes(h, d) ==
  /\ db' = [db EXCEPT ![MyDb(h)] = d]
  /\ Goto(h, "reload")
  /\ UNCHANGED <<published, engine, lastETag, read, head, pollVars, history>>

CreateDomain(h) == \E req \in Requests :
  /\ Accepts(h, "createDomain", req)
  /\ DomainFree(MyDb(h), req.name)
  /\ req.name \notin DOMAIN db[MyDb(h)].tab
  /\ Writes(h, InsertDomain(db[MyDb(h)], req.name,
                            [DefaultCode(req.row) EXCEPT !.enabled = TRUE]))
  /\ Spend("requests")
  /\ UNCHANGED rule

PutDomain(h) == \E req \in Requests :
  /\ Accepts(h, "updateDomain", req)
  /\ req.name \in DOMAIN db[MyDb(h)].tab => DomainFree(MyDb(h), req.name)
  /\ Writes(h, UpdateDomain(db[MyDb(h)], req.name, req.row))
  /\ Spend("requests")
  /\ UNCHANGED rule

RemoveDomain(h) == \E req \in Requests :
  /\ Accepts(h, "deleteDomain", req)
  /\ req.name \in DOMAIN db[MyDb(h)].tab => DomainFree(MyDb(h), req.name)
  /\ Writes(h, DeleteDomain(db[MyDb(h)], req.name))
  /\ Spend("requests")
  /\ UNCHANGED rule

\* createRule finds the domain's id with GetDomain first.
LookUpDomain(h) == \E req \in Requests :
  /\ Accepts(h, "createRule", req)
  /\ req.name \in DOMAIN db[MyDb(h)].tab
  /\ rule' = [rule EXCEPT ![h] = [kind |-> "found", req |-> req,
                                  id |-> db[MyDb(h)].tab[req.name].id]]
  /\ Goto(h, "insert")
  /\ Spend("requests")
  /\ UNCHANGED <<db, published, engine, lastETag, read, head, pollVars, history>>

\* The row the looked-up id still stands for.
Referenced(h) ==
  LET tab == db[MyDb(h)].tab
  IN {n \in DOMAIN tab : n = rule[h].req.name /\ tab[n].id = rule[h].id}

CreateRule(h) ==
  /\ pc[h] = "insert"
  /\ LET req == rule[h].req
     IN /\ RuleFree(MyDb(h), req.name, req.path)
        /\ Referenced(h) # {}
        /\ ~HasRule(db[MyDb(h)], req.name, req.path)
        /\ Writes(h, InsertRule(db[MyDb(h)], req.name, req.path,
                                [DefaultCode(req.rule) EXCEPT !.enabled = TRUE]))
  /\ rule' = [rule EXCEPT ![h] = NoRule]
  /\ UNCHANGED spent

\* The insert fails: the domain is gone (foreign key) or the path is taken.
RuleRefused(h) ==
  /\ pc[h] = "insert"
  /\ RuleFree(MyDb(h), rule[h].req.name, rule[h].req.path)
  /\ \/ Referenced(h) = {}
     \/ HasRule(db[MyDb(h)], rule[h].req.name, rule[h].req.path)
  /\ Goto(h, "idle")
  /\ rule' = [rule EXCEPT ![h] = NoRule]
  /\ UNCHANGED <<db, published, engine, lastETag, read, head, pollVars, history, spent>>

\* A rule is updated by id: no such row, no change; a taken path is a 500.
PutRule(h) == \E req \in Requests :
  /\ Accepts(h, "updateRule", req)
  /\ HasRule(db[MyDb(h)], req.name, req.path) =>
       RuleFree(MyDb(h), req.name, req.path) /\ RuleFree(MyDb(h), req.name, req.newPath)
  /\ \/ req.newPath = req.path
     \/ ~HasRule(db[MyDb(h)], req.name, req.path)
     \/ ~HasRule(db[MyDb(h)], req.name, req.newPath)
  /\ Writes(h, UpdateRule(db[MyDb(h)], req.name, req.path, req.newPath, req.rule))
  /\ Spend("requests")
  /\ UNCHANGED rule

RemoveRule(h) == \E req \in Requests :
  /\ Accepts(h, "deleteRule", req)
  /\ HasRule(db[MyDb(h)], req.name, req.path) => RuleFree(MyDb(h), req.name, req.path)
  /\ Writes(h, DeleteRule(db[MyDb(h)], req.name, req.path))
  /\ Spend("requests")
  /\ UNCHANGED rule

Import(h) == \E req \in Requests :
  /\ Accepts(h, "import", req)
  /\ ImportFree(MyDb(h), req.entries)
  /\ Writes(h, BulkImport(db[MyDb(h)], req.entries))
  /\ Spend("requests")
  /\ UNCHANGED rule

\* The statement took effect, but the handler sees an error: the connection broke,
\* or the SELECT after SQLite's INSERT of a domain failed.  It answers 500.
WriteUnanswered(h) ==
  /\ pc[h] = "reload"
  /\ ~read[h].listed
  /\ Fault("write")
  /\ Goto(h, "idle")
  /\ UNCHANGED <<db, published, engine, lastETag, read, head, pollVars, rule, history>>

-----------------------------------------------------------------------------
(* Syncer.Publish: ExportAll (the read loop above), PutObject, then        *)
(* lastETag under the mutex.  The handler answers 2xx whatever happens.    *)

PutObject(h) ==
  /\ h \in Handlers
  /\ pc[h] = "export"
  /\ Read(h)
  /\ published' = Append(published, read[h].acc)
  /\ head' = [head EXCEPT ![h] = ETag(read[h].acc)]
  /\ read' = [read EXCEPT ![h] = NotListed]
  /\ Goto(h, "note")
  /\ UNCHANGED <<db, engine, lastETag, pollVars, rule, history, spent>>

\* A query fails, the PUT fails, or the client went away and r.Context() ended.
PublishFails(h) ==
  /\ h \in Handlers
  /\ pc[h] = "export"
  /\ Fault("publish")
  /\ read' = [read EXCEPT ![h] = NotListed]
  /\ Goto(h, "idle")
  /\ UNCHANGED <<db, published, engine, lastETag, head, pollVars, rule, history>>

\* The object is stored but its answer is lost.
PutAnswerLost(h) ==
  /\ h \in Handlers
  /\ pc[h] = "export"
  /\ Read(h)
  /\ Fault("answer")
  /\ published' = Append(published, read[h].acc)
  /\ read' = [read EXCEPT ![h] = NotListed]
  /\ Goto(h, "idle")
  /\ UNCHANGED <<db, engine, lastETag, head, pollVars, rule, history>>

\* Mutant: only Publish records the ETag.
NoteETagOfPut(p) ==
  /\ pc[p] = "note"
  /\ lastETag' = [lastETag EXCEPT ![NodeOf(p)] = IF p \in Handlers THEN head[p] ELSE @]
  /\ head' = [head EXCEPT ![p] = NoETag]
  /\ Goto(p, "idle")
  /\ UNCHANGED <<db, published, engine, read, pollVars, rule, history, spent>>

\* Publish and poll end alike: lastETag is set under the mutex.
NoteETag(p) ==
  /\ pc[p] = "note"
  /\ lastETag' = [lastETag EXCEPT ![NodeOf(p)] = head[p]]
  /\ head' = [head EXCEPT ![p] = NoETag]
  /\ Goto(p, "idle")
  /\ UNCHANGED <<db, published, engine, read, pollVars, rule, history, spent>>

-----------------------------------------------------------------------------
(* Syncer.poll.  A poll that fails leaves lastETag alone, so the next tick *)
(* starts over; HEAD of an object that was never stored fails too.         *)

HeadObject(n) ==
  /\ n \in Syncing
  /\ pc[n] = "idle"
  /\ published # <<>>
  /\ head' = [head EXCEPT ![n] = ETag(Object)]
  /\ Goto(n, "compare")
  /\ UNCHANGED <<db, published, engine, lastETag, read, pollVars, rule, history, spent>>

\* Mutant: the new ETag is recorded before the body is fetched.
CompareETagEarly(n) ==
  /\ pc[n] = "compare"
  /\ lastETag' = [lastETag EXCEPT ![n] = head[n]]
  /\ IF head[n] = lastETag[n]
       THEN Goto(n, "idle") /\ head' = [head EXCEPT ![n] = NoETag]
       ELSE Goto(n, "get") /\ UNCHANGED head
  /\ UNCHANGED <<db, published, engine, read, pollVars, rule, history, spent>>

CompareETag(n) ==
  /\ pc[n] = "compare"
  /\ IF head[n] = lastETag[n]
       THEN Goto(n, "idle") /\ head' = [head EXCEPT ![n] = NoETag]
       ELSE Goto(n, "get") /\ UNCHANGED head
  /\ UNCHANGED <<db, published, engine, lastETag, read, pollVars, rule, history, spent>>

\* Mutant: the body comes from a cache of earlier answers.
GetObjectCached(n) ==
  /\ pc[n] = "get"
  /\ \E k \in 1..Len(published) : got' = [got EXCEPT ![n] = k]
  /\ Goto(n, "import")
  /\ UNCHANGED <<db, published, engine, lastETag, read, head, scan, rule, history, spent>>

GetObject(n) ==
  /\ pc[n] = "get"
  /\ got' = [got EXCEPT ![n] = Len(published)]
  /\ Goto(n, "import")
  /\ UNCHANGED <<db, published, engine, lastETag, read, head, scan, rule, history, spent>>

\* The upserts (which wait for another import's on the same rows) and the
\* orphan queries.
ImportScan(n) ==
  /\ pc[n] = "import"
  /\ \A m \in DOMAIN Incoming(n) : DomainFree(DbOf[n], m)
  /\ scan' = [scan EXCEPT ![n] = db[DbOf[n]].tab]
  /\ Goto(n, "commit")
  /\ UNCHANGED <<db, published, engine, lastETag, read, head, got, rule, history, spent>>

ImportCommit(n) ==
  /\ pc[n] = "commit"
  /\ db' = [db EXCEPT ![DbOf[n]] = BulkImportReplace(@, scan[n], Incoming(n))]
  /\ imported' = [imported EXCEPT ![n] = got[n]]
  /\ got' = [got EXCEPT ![n] = 0]
  /\ scan' = [scan EXCEPT ![n] = Nothing]
  /\ Goto(n, "reload")
  /\ UNCHANGED <<published, engine, lastETag, read, head, rule, loaded, spent>>

\* Mutant: a failed poll counts as done.
PollFailsRecorded(n) ==
  /\ pc[n] \in {"get", "import", "commit"}
  /\ Fault("poll")
  /\ lastETag' = [lastETag EXCEPT ![n] = head[n]]
  /\ head' = [head EXCEPT ![n] = NoETag]
  /\ got' = [got EXCEPT ![n] = 0]
  /\ scan' = [scan EXCEPT ![n] = Nothing]
  /\ Goto(n, "idle")
  /\ UNCHANGED <<db, published, engine, read, rule, history>>

\* GET, decoding or the transaction fails; the transaction is rolled back.
PollFails(n) ==
  /\ pc[n] \in {"get", "import", "commit"}
  /\ Fault("poll")
  /\ head' = [head EXCEPT ![n] = NoETag]
  /\ got' = [got EXCEPT ![n] = 0]
  /\ scan' = [scan EXCEPT ![n] = Nothing]
  /\ Goto(n, "idle")
  /\ UNCHANGED <<db, published, engine, lastETag, read, rule, history>>

-----------------------------------------------------------------------------
(* Start-up, crash and restart (cmd/tld-redirect, systemd Restart=always). *)

\* Mutant: the engine is not reloaded after seeding.
SeedUnloaded(n) ==
  /\ pc[n] = "seed"
  /\ ImportFree(DbOf[n], SeedFile)
  /\ db' = [db EXCEPT ![DbOf[n]] = BulkImport(@, SeedFile)]
  /\ Goto(n, "idle")
  /\ UNCHANGED <<published, engine, lastETag, read, head, pollVars, rule, history, spent>>

\* seed: import the file, then Reload; nothing is published.
Seed(n) ==
  /\ pc[n] = "seed"
  /\ ImportFree(DbOf[n], SeedFile)
  /\ db' = [db EXCEPT ![DbOf[n]] = BulkImport(@, SeedFile)]
  /\ Goto(n, "seeded")
  /\ UNCHANGED <<published, engine, lastETag, read, head, pollVars, rule, history, spent>>

Owned(n) == {p \in Procs : NodeOf(p) = n}

\* The process dies: what its goroutines held is gone, the databases stay.
Crash(n) ==
  /\ pc[n] # "down"
  /\ spent.crashes < MaxCrashes
  /\ Spend("crashes")
  /\ pc' = [p \in Procs |-> IF p = n THEN "down"
                            ELSE IF p \in Owned(n) THEN "idle" ELSE pc[p]]
  /\ read' = [p \in Procs |-> IF p \in Owned(n) THEN NotListed ELSE read[p]]
  /\ head' = [p \in Procs |-> IF p \in Owned(n) THEN NoETag ELSE head[p]]
  /\ rule' = [h \in Handlers |-> IF Host[h] = n THEN NoRule ELSE rule[h]]
  /\ got' = [got EXCEPT ![n] = 0]
  /\ scan' = [scan EXCEPT ![n] = Nothing]
  /\ engine' = [engine EXCEPT ![n] = Nothing]
  /\ lastETag' = [lastETag EXCEPT ![n] = NoETag]
  /\ UNCHANGED <<db, published, imported, loaded>>

Restart(n) ==
  /\ pc[n] = "down"
  /\ Goto(n, "boot")
  /\ UNCHANGED <<db, published, engine, lastETag, read, head, pollVars, rule, history, spent>>

-----------------------------------------------------------------------------

Handle(h) ==
  \/ CreateDomain(h) \/ PutDomain(h) \/ RemoveDomain(h)
  \/ LookUpDomain(h) \/ CreateRule(h) \/ RuleRefused(h)
  \/ PutRule(h) \/ RemoveRule(h) \/ Import(h) \/ WriteUnanswered(h)

Publish(h) == PutObject(h) \/ PublishFails(h) \/ PutAnswerLost(h)

Reload(p) ==
  ReadDomains(p) \/ ReadRules(p) \/ SkipRules(p) \/ SwapEngine(p) \/ ReloadFails(p)

Poll(n) ==
  \/ HeadObject(n) \/ CompareETag(n) \/ GetObject(n)
  \/ ImportScan(n) \/ ImportCommit(n) \/ PollFails(n)

Next ==
  \/ \E p \in Procs : Reload(p) \/ NoteETag(p)
  \/ \E h \in Handlers : Handle(h) \/ Publish(h)
  \/ \E n \in Nodes : Poll(n) \/ Seed(n) \/ Crash(n) \/ Restart(n)

Spec == Init /\ [][Next]_vars

\* What process p does next when nothing fails.
Progress(p) ==
  \/ ReadDomains(p) \/ ReadRules(p) \/ SwapEngine(p) \/ NoteETag(p)
  \/ p \in Handlers /\ (CreateRule(p) \/ RuleRefused(p) \/ PutObject(p))
  \/ p \in Nodes /\
       \/ HeadObject(p) \/ CompareETag(p) \/ GetObject(p)
       \/ ImportScan(p) \/ ImportCommit(p) \/ Seed(p) \/ Restart(p)

\* The Go scheduler runs every goroutine, the ticker fires, systemd restarts
\* a dead service.  Requests, faults and crashes are never owed.
Fairness == \A p \in Procs : WF_vars(Progress(p))

FairSpec == Spec /\ Fairness

-----------------------------------------------------------------------------
(* Type correctness. *)

Labels == {"down", "boot", "seed", "seeded", "idle", "insert", "reload", "export",
           "note", "compare", "get", "import", "commit"}

IsETag(e) == e = NoETag \/ (e = ETag(e[1]) /\ IsRuleset(e[1]))

IsListing(r) ==
  /\ r \in [listed: BOOLEAN, todo: {r.todo}, acc: {r.acc}]
  /\ DOMAIN r.todo \subseteq Names
  /\ \A n \in DOMAIN r.todo : r.todo[n] \in [id: Nat, row: DomainRow]
  /\ IsRuleset(r.acc)

LookedUp == [kind: {"found"}, req: {req \in Requests : req.kind = "createRule"}, id: Nat]

\* Type invariant.
TypeOK ==
  /\ DOMAIN db = DBs /\ \A x \in DBs : IsDatabase(db[x])
  /\ published \in Seq(Range(published))
  /\ \A k \in 1..Len(published) : IsRuleset(published[k])
  /\ DOMAIN engine = Nodes /\ \A n \in Nodes : IsServed(engine[n])
  /\ DOMAIN lastETag = Nodes /\ \A n \in Nodes : IsETag(lastETag[n])
  /\ pc \in [Procs -> Labels]
  /\ DOMAIN read = Procs /\ \A p \in Procs : IsListing(read[p])
  /\ DOMAIN head = Procs /\ \A p \in Procs : IsETag(head[p])
  /\ got \in [Nodes -> 0..Len(published)]
  /\ DOMAIN scan = Nodes /\ \A n \in Nodes : IsTable(scan[n])
  /\ rule \in [Handlers -> {NoRule} \cup LookedUp]
  /\ \A h \in Handlers : pc[h] = "insert" => rule[h] # NoRule
  /\ \A n \in Nodes : pc[n] \in {"compare", "get"} => Len(published) > 0
  /\ \A n \in Nodes : pc[n] \in {"import", "commit"} => got[n] > 0
  /\ imported \in [Nodes -> 0..Len(published)]
  /\ loaded \in [Nodes -> 0..Len(published)]
  /\ spent \in [requests: 0..MaxRequests, faults: 0..MaxFaults, crashes: 0..MaxCrashes]

-----------------------------------------------------------------------------
(* A follower is a data-plane node with a database of its own: nothing but *)
(* its poller writes it.                                                   *)

Followers ==
  {n \in Syncing \ Seeding :
     /\ \A h \in Handlers : Host[h] # n
     /\ \A m \in Nodes : DbOf[m] = DbOf[n] => m = n
     /\ \A h \in Handlers : DbOf[Host[h]] # DbOf[n]}

\* The ruleset a database holds after importing the k-th published body.
Version(k) == IF k = 0 THEN Nothing ELSE Normalise(published[k])

\* A follower's database is always exactly one published ruleset, whatever
\* polls failed half way and whenever the node died (BulkImportReplace).
FollowerHoldsOneVersion ==
  \A n \in Followers : View(db[DbOf[n]].tab) = Version(imported[n])

\* A follower never serves a mixture of two published rulesets, nor a rule no
\* ruleset had: all it serves is said by one version (Engine.Reload).
FollowerServesOneVersion ==
  \A n \in Followers : ServesOnly(engine[n], Version(loaded[n]))

\* Unless a rule query failed, a follower that has polled successfully serves
\* the whole of the version it loaded.
FollowerServesAll ==
  "rules" \notin FaultKinds /\ Cardinality(Names) <= LoadLimit =>
    \A n \in Followers :
      lastETag[n] # NoETag => engine[n] = Serve(Version(loaded[n]))

\* The recorded ETag never runs ahead of what is served: it is the ETag of the
\* loaded version or of an older one (poll records it last, and records HEAD's).
ETagNeverAhead ==
  \A n \in Followers :
    lastETag[n] # NoETag => \E k \in 1..loaded[n] : ETag(published[k]) = lastETag[n]

\* A follower whose recorded ETag is the object's, so that its polls skip the
\* download, serves the object.
SkippedPollIsCurrent ==
  \A n \in Followers :
    published # <<>> /\ lastETag[n] = ETag(Object) =>
      ServesOnly(engine[n], Version(Len(published)))

\* The same while no body has been published twice.
NoRepeat == \A i, j \in 1..Len(published) : published[i] = published[j] => i = j
SkippedPollIsCurrentUnlessRepeated == NoRepeat => SkippedPollIsCurrent

\* Followers implement the abstract replica: the published bodies are its log.
Replica == INSTANCE RuleReplica WITH
  Replicas <- Followers,
  log <- published,
  at <- [n \in Followers |-> imported[n]],
  serving <- [n \in Followers |-> engine[n]]

ImplementsReplica == Replica!RSpec

\* After the last publication every syncing node comes to record its ETag, so
\* polling settles instead of importing for ever.
ETagsSettle ==
  <>[](published # <<>> => \A n \in Syncing : lastETag[n] = ETag(Object))

\* Every follower ends up serving the last published ruleset, in spite of
\* failing polls and restarts.
FollowersConverge ==
  <>[](published # <<>> =>
         \A n \in Followers : engine[n] = Serve(Version(Len(published))))

-----------------------------------------------------------------------------
(* Nodes that take requests. *)

Idle(n) == Started(n) /\ \A h \in Handlers : Host[h] = n => pc[h] = "idle"
Controls == {Host[h] : h \in Handlers}

\* When a node without a syncer has answered all its requests, its engine
\* serves what its database says ("Changes take effect immediately").
LocalEngineIsCurrent ==
  \A n \in Controls \ Syncing : Idle(n) => engine[n] = Serve(View(db[DbOf[n]].tab))

\* When a control plane that has imported nothing so far has answered all its
\* requests, and did not die on the way, the object it publishes to holds its
\* whole database.
PublishedIsStored ==
  \A n \in Controls \cap Syncing :
    imported[n] = 0 /\ spent.crashes = 0 /\ Idle(n) /\ published # <<>> =>
      Object = View(db[DbOf[n]].tab)

\* Importing over the API overwrites and removes nothing (BulkImport).
ImportOverwritesNothing ==
  [][\A h \in Handlers : Import(h) =>
       LET old == db[MyDb(h)].tab
           new == db'[MyDb(h)].tab
       IN \A n \in DOMAIN old :
            /\ n \in DOMAIN new /\ new[n].row = old[n].row
            /\ \A p \in DOMAIN old[n].rules :
                 p \in DOMAIN new[n].rules /\ new[n].rules[p] = old[n].rules[p]]_vars

\* Everything is at rest: no request is running and every poll would skip.
Settled ==
  /\ published # <<>>
  /\ \A n \in Nodes : Idle(n) /\ (n \in Syncing => pc[n] = "idle" /\ lastETag[n] = ETag(Object))

\* At rest, when all requests were creations, every domain whose creation was
\* accepted is in the object: none was lost on the way.
NothingLost == Settled => Cardinality(DOMAIN Object) = spent.requests
=============================================================================
