# TLA+ models of the TLD redirect engine

This directory holds the formal models of the redirect engine in `src/`: what
its nodes do to redirect rules between an admin request and the redirect a
visitor gets, which properties that rests on, and which of them fail. The
modules are checked with TLC on small deployments, and every safety property,
action property and refinement that the passing runs check is also proved with
TLAPS, for every deployment.

Line numbers below are those of the files under `src/`.

## 1. The system

One Go binary runs as a control plane, a data plane or, without `-mode`, as
both (`cmd/tld-redirect/main.go`). A region has one PostgreSQL database, a
control plane and one or more data nodes, all of them connected to that
database; the regions share one S3 object, `rules.json`. A development
instance uses SQLite and no object.

| Component | State it keeps | Operations | Talks to |
|---|---|---|---|
| Rule store (`internal/store`) | tables `domains`, `redirect_rules` | CRUD statements, `BulkImport`, `BulkImportReplace`, `ExportAll`, the listing queries | SQLite or PostgreSQL, shared by the nodes of a region |
| Rule sync (`internal/sync`) | `lastETag` under a mutex | `Publish`, `poll` every 5 s, `Start`, `Stop` | the store, the object, the engine (`onReload`) |
| Redirect engine (`internal/redirect`) | the `domains` map under an RWMutex | `Reload`, `ServeHTTP`, `HasDomain` | the store; the analytics and beacon channels |
| Admin API (`internal/api`) | none of its own | create, update, delete of domains and rules, bulk import, reports | the store, `engine.Reload`, `syncer.Publish` |
| Lifecycle (`cmd/tld-redirect`) | which mode runs | start-up, seeding, shutdown | all of them; systemd restarts the process |
| Analytics pipeline (`internal/analytics`) | a buffered channel, the current batch | log, flush at 100 entries or 5 s, drain at stop | `BatchInsertLogs` |
| Rollup and retention (`internal/analytics`, store) | `domain_stats`, `request_log` | `RunRollup` of this and the previous hour every 5 min, on every data node | the region's database |
| DS2 beacon (`internal/beacon`) | a buffered channel, 4 workers | send, stop | an HTTP endpoint |
| Certificate storage (`internal/certs`) | `cert_store` rows, PostgreSQL advisory locks | certmagic's `Lock`, `Unlock`, `Store`, `Load`, `List` and others | PostgreSQL through a connection pool |
| Certificate decision, host routing (`internal/certs`, `internal/server`) | none | `DecisionFunc`, `HostMux`, three `stripPort` functions | `engine.HasDomain` |
| Middleware, admin UI, reports, deployment files | none | token check, static files, read-only SQL, terraform | - |

How they interact: a mutating handler writes the database, calls
`engine.Reload` (which nothing keeps from overlapping another reload) and then
`Publish`, which exports the whole database and PUTs it. Every node with a
syncer, control planes included, polls: HEAD, compare with `lastETag`, GET,
`BulkImportReplace` into its database, `Reload`, record the ETag that HEAD gave.
Nothing is serialised across these steps: each handler has its own goroutine,
the poller has another, and other nodes do the same to the same database.

What is hard to test here:

- *interleaving*: a poll that imports an older body between another request's
  write and its export; two requests that export or reload in opposite orders;
  two imports at READ COMMITTED;
- *atomicity*: `ExportAll` and `Reload` list the domains and then query the
  rules domain by domain, outside a transaction;
- *stale state*: the ETag of HEAD against the body of a later GET; `lastETag`
  of one process against a database that others import into;
- *failure*: a query, PUT, GET, import or reload that fails half way through a
  request or poll; a PUT whose answer is lost; a crash anywhere and the empty
  `lastETag` of the next start;
- *limits*: `ExportAll` reads 10000 domains, `Reload` 100000, the channels hold
  10000 entries and drop the rest;
- *shutdown*: `Stop` closes a channel and returns, the database is closed next;
  two servers share one deadline while their handlers still run;
- *the same work twice*: every data node of a region rolls up the same hours,
  while rows of those hours are still being committed;
- *locks of a session* taken and given back through a pool of sessions, which
  closes them when it likes.

What makes each component correct:

- store: an import leaves exactly the ruleset it was given; the API's import
  overwrites nothing; rows stay well-formed;
- sync: a node's database is always one published ruleset, nodes converge on
  the last one, polling comes to rest, no accepted change is lost;
- engine: what it serves is said by one ruleset, and is current once the
  request that changed it has been answered;
- requests: a redirect comes from one version of the rules and from the best
  rule of it, on either port, and does not wait for the database;
- analytics, rollup, beacon: an entry is written at most once and not dropped
  below the limits; statistics never exceed the log and catch up with it;
- certificates: at most one holder of a lock name; a listing of the keys is
  complete; a certificate is asked for exactly for served domains and the admin
  domain.

`PROJECT.json` lists the components with their status and the hazards with the
line where each one bites.

## 2. Modules

| Module | What it is |
|---|---|
| `RuleStore` | the two tables and every statement and transaction on them, as operators |
| `RuleSync` | the core: control planes, data nodes, request handlers, databases, the object; the properties |
| `RuleReplica` | what a data node promises, abstractly: it adopts entries of one growing log in order and serves nothing they do not say |
| `RegionSync` | two more properties of `RuleSync`: of the map a data node serves from, and of the database that the nodes of a region share |
| `Matching` | the pure parts of a request: path matching, rule order, ports, routing, certificate decision |
| `Serving` | requests on both ports of a node while its rules and its map change |
| `Redirects` | the set of redirects that the next three modules are about |
| `Analytics` | the log channel and the batch writer |
| `Beacon` | the beacon channel and its workers |
| `DataPlane` | a data node's handlers, servers and shutdown around both; the properties |
| `RequestLog` | what the pipeline promises, abstractly: entries leave in order, each written once or lost |
| `Rollup` | the rollup workers of several nodes on one database, while both log |
| `HourlyStats` | what the statistics promise, abstractly: only open hours change, and an hour closes with its full count |
| `Reports` | the analytics queries over any state of `Rollup` |
| `CertLock` | certificate locks: advisory locks taken through connection pools |
| `ProcessLock` | what the certificate locks promise, abstractly: a lock between processes, which may break |
| `CertStore` | the certificate table and `List` |
| `Totals` | the sum over a function, which `Rollup`, `Reports` and `CertLock` count with |
| `MC...` | constants for TLC, one module for each of the above that is run: deployments, request sets, locks; `MCInputs` enumerates the inputs of the operators of `Matching` and changes the table of `CertStore`, and has the properties of `Matching` |
| `RuleSyncProofs` | the statements of `RuleStore`, type correctness of `RuleSync`, what followers hold, serve and record, and that they implement `RuleReplica` |
| `RegionProofs` | whole rulesets: followers, control nodes, and nodes that share a database |
| `ServingProofs` | what a request is answered |
| `DataPlaneProofs` | what becomes of a log entry and of a beacon, shutdown, and that the pipeline implements `RequestLog` |
| `RollupProofs` | what the statistics and the reports say of the log, and that the rollups implement `HourlyStats` |
| `CertLockProofs` | type correctness and mutual exclusion of the certificate locks, and that they implement `ProcessLock` |
| `InputsProofs` | what matching, ports, the certificate decision and `List` come to, for all inputs |
| `TotalsProofs` | what `Totals` computes, and induction over finite sets |

`MCRuleSync` extends `RegionSync`, which extends `RuleSync` and `RuleStore`.
`Serving` and `MCInputs` extend `Matching`. `DataPlane` extends `Analytics`
and `Beacon` and composes their steps; `Reports` extends `Rollup`.

### RuleStore

A database is `[tab, next]`: `tab` maps a domain name to its id, its row and its
rules (a map from path to rule), `next` is the id counter. That shape builds in
the schema's UNIQUE constraints and the cascading foreign key. A rule's own id
is left out: the API addresses a rule by id, and here that is "this path of this
domain, if the row is still there". A domain's id is kept, because readers
fetch the rules of a domain by an id they listed earlier and a deleted and
recreated domain has another one.

`BulkImportReplace(d, scanned, rs)` takes two tables: the one its orphan queries
saw and the one it commits to. On SQLite they are the same; PostgreSQL runs the
transaction at READ COMMITTED, where another transaction may commit in between.
Everything it upserted or will delete is locked until the commit
(`DomainFree`, `RuleFree`, `ImportFree` in `RuleSync` say who waits).

### RuleSync

A *process* is a node (its start-up and then its polling goroutine) or a request
handler of a node. `pc[p]` says between which calls it is; a step is one query,
one transaction half, one S3 call or one critical section.

| Code | State | Actions |
|---|---|---|
| `Engine.Reload` | `read[p]` (listing in progress), `engine[n]` | `ReadDomains`, `ReadRules`, `SkipRules`, `SwapEngine`, `ReloadFails` |
| handlers | `db`, `rule[h]` (the domain id `createRule` looked up) | `CreateDomain`, `PutDomain`, `RemoveDomain`, `LookUpDomain`, `CreateRule`, `RuleRefused`, `PutRule`, `RemoveRule`, `Import`, `WriteUnanswered` |
| `Publish` | `published` (every stored body; the last is the object), `head[h]` | `ReadDomains`, `ReadRules`, `PutObject`, `PublishFails`, `PutAnswerLost`, `NoteETag` |
| `poll` | `lastETag[n]`, `head[n]`, `got[n]`, `scan[n]` | `HeadObject`, `CompareETag`, `GetObject`, `ImportScan`, `ImportCommit`, `PollFails`, the reload, `NoteETag` |
| start-up, exit | `pc[n]` | the reload in `"boot"`, `Seed`, `Crash`, `Restart` |

`imported[n]` and `loaded[n]` are history variables: the body the last import of
`n` came from, and the value of that when `n` last swapped its engine map.

Choices worth knowing:

- an ETag is a function of the body, so the body stands for it; S3 gives equal
  bodies equal ETags, which is what makes one of the findings possible;
- a request that is refused (400, 404, 409, or 500 for a statement that failed)
  changes nothing, reloads nothing and publishes nothing, so it is not a step;
  `createRule` is refused after its first query in `RuleRefused`. A 500 whose
  statement took effect is `WriteUnanswered`: the answer of the database was lost,
  or on SQLite the SELECT after the INSERT of a domain failed (store.go:277); the
  handler neither reloads nor publishes;
- a request whose client goes away has its context cancelled, which fails the
  export's PUT: `PublishFails`;
- an orderly shutdown waits up to 10 s for requests and then ends the process at
  any point; it allows nothing `Crash` does not;
- deadlocks between two imports that upsert the same rows in different orders
  are left out: PostgreSQL aborts one and its node polls again, which is
  `PollFails`;
- the table keeps rules by path; the order in which the engine tries them is
  the subject of `Serving`.

### RuleReplica

`RuleReplica` has a log, an index per replica and a map per replica, and three
actions: the log grows by one entry, a replica adopts an entry no older than its
current one, a replica starts serving something its entry says. `RuleSync`
implements it for `Followers` (below) with the published bodies as the log;
`ImplementsReplica` is that refinement.

### RegionSync

`KeepsServing` is about the reloads of a follower. `SettledRegionHoldsObject` is
about the case that has no single owner: nodes of a region, which share a database
and import old and new bodies into it with overlapping transactions, each of
which looked for its orphans at another moment.

### Matching and Serving

`Matching` translates `matchPath`, the sort of `Reload`, the loop of `ServeHTTP`,
the three functions that strip a port, `HostMux`, the fallback of port 80 and
`DecisionFunc` as operators on sequences of characters. A query ordered by
priority and `sort.Slice`, which is not stable, leave rules of equal priority in
any order, so `Orders` is the set of orders a reload may come to.

`Serving` has one domain, its enabled rules in the database, `engine[n]` (the
entry of the domain, or none) and requests. A request of port 80 is three steps
(`Check`, `Lookup`, `Match`), one of port 443 two: the entry is taken out of the
map under the lock once and read after that. `Reload` is one step here, because
`RuleSync` has its parts; what it can load is any version of the rules.
`seen[r]` is a history variable, the entries a request could have found.

### DataPlane: Analytics, Beacon, shutdown

| Code | State | Actions |
|---|---|---|
| `ServeHTTP`, after the match | `pc[r]` | `Arrive`, `OfferLog`, `OfferBeacon`, `Answer` |
| `batchWriter`, `BatchInsertLogs` | `logCh`, `batch`, `writer`, `draining`, `rows` | `Receive`, `FlushTick`, `StartDrain`, `EndDrain`, `BeginInsert`, `Commit`, `InsertFails`, `InsertRefused` |
| `Sender.worker`, `send` | `beaconCh`, `sending`, `alive`, `attempts`, `received` | `Take`, `Deliver`, `SendFails`, `WorkerReturns` |
| `waitForShutdown`, the deferred calls | `main`, `closed`, `done`, `beaconDone`, `dbOpen` | `Signal`, `ServerIsDown`, `ServerIsLeft`, `Defers`, `Exit`, `Crash`, `Restart` |

A redirect and its entry have one name, so that "twice" can be said. A
transaction that is cut off may or may not have committed (`Outcomes`); a beacon
that fails may or may not have arrived. `spent` counts the faults of each kind;
several properties say which of them they tolerate. Go's `select` takes any ready case, so
the writer may still receive after `Stop`. `Defers` runs in the order of Go's
deferred calls: the beacon, the pipeline, the database.

`RequestLog` has two variables, what was accepted and is not settled, and the
table; entries leave in order, a first part of them written. `DataPlane`
implements it with `batch \o logCh` as the pending entries
(`ImplementsRequestLog`).

### Rollup and Reports

The batch writers are reduced to transactions of one row each, stamped with the
hour the transaction began in and seen when it commits. A cycle of `runRollup`
is `StartCycle`, then for each of two hours `Query` (one snapshot), `ReadPaths`
per domain (a snapshot of its own), `Upsert` per domain (which waits for a row
that another node's transaction holds, first come, first served: `Block`,
`MayLock`) and `Commit`. Faults are a failing statement (`RollupFails`), a
`getTopPaths` that fails or comes to a part of its list (`PathsFail`: its error is
ignored, `rows.Err` is not asked and a row that does not scan is skipped,
store.go:936), a result that breaks off (`RowsBreak`: `rows.Err` is not asked
here either, store.go:884), a crash, and the database ending a deadlock;
`FaultKinds` says which of them a run has, `MaxFaults` how many. Whatever part of
the paths was read is stored beside the hits. The code keeps no note of that; the
history variable `read` in a row does, and `PathsCoverHits` is about the lists
that were read to their end.
`unique_ips` and `top_referers` are computed beside hits and paths in the same
statements and left out.

`Tick` lets an hour pass only when every running node has completed a cycle that
could see all rows of earlier hours (`Timely`). This is an assumption on the
environment: the code runs a cycle every five minutes, so an hour has twelve.
It is what `ClosedHoursExact` rests on; after a longer outage nothing in the code
would make up for the hours that were missed.

`Reports` has one operator per query of `store.go:652-859`. A limit keeps any of
several equal rows, so a report is a set of possible answers (`FirstBy`). The trend
is held against the traffic of the two halves of its time.

The counts a node displays may go down for a while: of two nodes the one that
read first may commit last. `StatsCatchUp` and `ClosedHoursExact` say that this
ends.

`HourlyStats` is the same system seen from outside: a log, a reported count per
domain and hour, and no nodes. The counts of the current and of the previous
hour are open: `Log` adds a row to one of them, `Report` sets them to anything
the log has reached. `Close` lets an hour pass once the previous one is complete,
whose count is then final. `Rollup` implements it (`ImplementsHourlyStats`) with
`logged` the rows of `request_log` and `reported` the hits of `domain_stats`: the
commit of a log row maps to `Log`, that of a rollup to `Report`, `Tick` to
`Close`, and everything else to a stutter. It adds to `ClosedHoursExact` that the
log of a closed hour does not grow any more either: what was reported is final.

### CertLock and CertStore

Each control plane has a pool of connections; `Lock` and `Unlock` are one
statement on any idle connection, or on a new one. Which client locks which name
is an initial choice (`nameOf`), out of the ones a run lists (`Namings`). A lock
belongs to the session: the same session gets it again at once (`holds[c][k]`
counts), another session's unlock changes nothing and succeeds, and a closed
connection loses all of its locks. Connections are closed when they reach their
lifetime (5 min, `Expires`), when more than `MaxIdle` (10) are idle (`Returned`),
when the context of a `Lock` ends (`LockCanceled`), and when an `Unlock` breaks
(`UnlockFails`). A context may also end while its statement waits for a connection
(`GivesUp`): a `Lock` has then failed, and an `Unlock` leaves the lock held.
`lost` is a history variable: such a close has cost a session its locks. The lock
key is the code's hash in a width of `Bits`, wrap-around and the smallest integer
included.

`ProcessLock` leaves connections and sessions out. Its state is who is inside and
which processes hold which key (`keyOf`, `inside`, `holders`), and whether the
lock has broken. `Enter` needs that no other process holds the key; `Leave` may
give the key back or not; a process may give back keys that nobody inside needs,
at any time. It is the strongest promise the code keeps: clients of one process
are not kept apart, and an `Unlock` that runs on another connection leaves the
key held. `CertLock` implements it (`ImplementsProcessLock`) with the processes
of the sessions that hold a key for `holders` and `lost` for `broken`. A `Lock`
that returns maps to `Enter`, an `Unlock`, whether it succeeds or not, to `Leave`, a
connection that is closed otherwise to `Free`.

`CertStore` has the table as a function from keys to values and `List` as a fold
over the selected rows in the order of `Collation`, since `ORDER BY key` follows
the database's.

## 3. Runs

A *follower* is a data node with a database nobody else writes. It is the case
in which sync keeps its promises; section 4 lists what fails elsewhere.

| Run | Deployment | What it shows |
|---|---|---|
| `follower` | control plane and follower, 1 handler, every kind of fault, 1 crash | the follower's database is one published ruleset, it serves one ruleset, its ETag never runs ahead, a skipped poll is current, and it implements `RuleReplica` |
| `converge` | the same, fair, requests that only create, no failing rule query | every poller ends up recording the last ETag, so nodes do not import for ever; a follower ends up serving the whole of the last published ruleset and on the way drops no domain that its database still has |
| `settle` | a region, control plane and data node on one database, and the control plane of another region, which publishes | both nodes of the region import, with overlapping transactions, old bodies over new ones too; whenever they rest on the last ETag, their database is the object |
| `admin` | control plane with 2 handlers, seed file, rule requests, follower | concurrent rule requests and torn exports never leave a follower with anything but one published body |
| `standalone` | seeded control plane with the object, seeded single binary without, each with its own database and 1 handler, every kind of request, 1 crash | once their requests are answered, the single binary serves its database and the object is the control plane's whole database; the API's import overwrites nothing |
| `dataplane` | two redirects, one per server, two workers, channels of one, two faults, shutdown, restart; only the handlers are fair | each entry is in one place once and in order, none is lost without a stated reason, no redirect is reported twice, an orderly shutdown answers what it took, the pipeline implements `RequestLog`, and what a channel accepted comes out |
| `rollup` | two nodes, two domains, three hours, one fault of any kind, fair | no count exceeds the log, a path list that was read to its end accounts for the hits beside it, an hour that is over for an hour is exact, the rollups implement `HourlyStats`, reports agree, statistics catch up |
| `locks` | two processes, three clients in one and two in the other, pools of two, colliding and wrapping keys, lifetimes, one statement given up or broken, fair | unless a connection is closed that holds a lock, two processes never work under one name, and the pools implement `ProcessLock`; every `Lock` and every `Unlock` returns, although both may have to wait for a connection |
| `inputs` | all short paths and hosts; every subset of eight keys | rules match whole segments; the port makes no difference; certificates are obtained for exactly the names that are served; a listing has every child once and nothing else |
| `serving` | two nodes, one request, rules that overlap | a redirect comes from a best rule of one version that was loaded meanwhile; a domain loaded throughout is always redirected; nodes with the same rules agree, but for equal priorities |
| `lost_update` | one region: control plane and data node share a database | **fails**: an accepted creation is deleted by another node's import before it is exported |
| `lock_expired` | as `locks` | **fails**: the holder's connection is closed and another process gets the lock |

The two failing runs are findings, with the sentences of the documentation that
each contradicts, in `PROJECT.json`.

Bounds of the `RuleSync` runs. Two domain names and one or two paths: an import
has something to keep, to add and to delete at both levels, and an export can be
torn between two domains. Codes 0 and 301: the default the imports fill in
shows. Two requests: the object changes while a poll of the first body is under way.
A body that comes back needs a third; `follower` with three and without faults
was run by itself, and the proofs cover any number. One
fault and one crash, anywhere: more of them only repeat the recovery from a state
the first one already leads to (`follower` with two crashes was run once: 2.9
million states, no error). `settle` and `admin` have neither, since their subject
is the interleaving; `settle` has one domain and one rule, which is enough for a
body that has them, one that has not, and an orphan that an import of the other
deletes or brings back. `MaxRequests`, `MaxFaults` and `MaxCrashes` are the only
bounds on behaviours; `ExportLimit` and `LoadLimit` stand for the code's 10000
and 100000 and are not reached.

Bounds of the others. `DataPlane`: two redirects against channels of one, so that
both get full, and a batch of two, which stays short if only one gets in;
`MaxFaults` = 2 lets any two faults meet. `Rollup`: `LastHour` = 2 is the first
hour with an hour that is over for an hour; two rows are enough for a count that
is too old and for two nodes to see different ones; with one path, the part of a
list that `PathsFail` keeps is empty (parts of longer lists are covered by the
proofs alone); `Limit` = 1 is exceeded by two domains, and a day is two hours.
`Serving`: `MaxRules` = 2 at a time out of three rules that overlap, and
`MaxVersions` = 3 maps during one request, which makes two steps on port 443 and
three on port 80; requests share nothing but the map, so one is enough.
`MCInputs`: paths and hosts of up to five characters, every arrangement of slashes
around a segment boundary and of two colons; keys that share prefixes, differ
after them, or are a directory's own name. `CertLock`: pools of two connections,
one of them for three clients, two of which want a key that a client of the other
process may hold: their `Lock`s take the whole pool while the third has its
`Unlock` to send, and that client may hold what the others' holder waits for.
`Bits` = 12 makes the hash of "BB" wrap around and collide with that of "Aa", the
names of a client in each process. `MaxIdle` is the pool's size in the runs: where
it is less, a returned connection may be closed at once, with the same effect as
`Expires`.

Deadlock checking is off where the system does stop: in the `RuleSync` runs when
the requests are used up, and in `inputs`, which ends with the longest ones.
Elsewhere it is on: nothing in `DataPlane`, `Rollup` and `Serving` waits for ever,
and in `CertLock` some connection can always expire, or all clients have
finished. No run uses symmetry.

The type invariant of `RuleSync` is checked in `follower`. Those of `DataPlane`,
`CertLock`, `Rollup` and `Serving` are proved (section 5) and listed by no run.

Fairness. `FairSpec` of `RuleSync` asks weak fairness of `Progress(p)`, one
conjunct per process: the Go scheduler runs every goroutine, the poll ticker
fires every 5 s, every query and S3 call returns, and systemd restarts a dead
service (`Restart=always`). A process that could progress for ever is therefore
served. Nothing is asked of requests, faults or crashes, and there are finitely
many of each. `HandlersSpec` of `DataPlane` asks it of the handlers alone, so that
`RequestsAnswered` shows that they wait for nothing, whatever the database and
the endpoint do. What the writer and the workers achieve needs them to run: the
fairness of their steps (`WriterRuns`, `WorkersRun`) is the hypothesis of
`EntriesAreWritten` and `BeaconsAreSent`; the database answers or fails, and the
endpoint has the client's timeout of 2 s. In `Rollup` it is asked of each node's
worker (its ticker fires again and again), of its open log transaction and of its
restart; row locks are granted in the order they were asked for, as PostgreSQL
does. In `CertLock`, of each client's statement, and strong fairness of
`Expires`: a connection that is used and idle in turn is still closed at the end
of its lifetime, because the pool looks at it each time it comes back.

## 4. Disagreements between the code and what is said of it

The two with a run:

- `lost_update`: runbook.md:143 lets every accepted change reach all instances. In
  a region whose nodes share the database, a poll that fetched the object before
  a request imports it after the request's INSERT and before its export, and
  deletes the new domain as an orphan.
- `lock_expired`: DECISIONS.md:49 lets advisory locks keep instances apart. They
  belong to a pooled connection that is closed after five minutes, while
  certmagic still works under the lock.

The others were found with the same modules, on instances of their own, and say
where the properties above stop. Each can be seen again by the change named.

| What happens | Where | To see it |
|---|---|---|
| with every ETag equal to the object's, a node of a region serves what the object does not hold: another node's import ran between its import and its reload | sync.go:160-172 | in `lost_update` with `ToggleRequests`: `Settled` and an `engine[n]` that the object does not say |
| the object changes between HEAD and GET and back again; the node keeps the body in between under the ETag of the other | sync.go:117-150 | `SkippedPollIsCurrent` as an invariant of `follower`, with `MaxRequests` = 3 and no faults |
| of two concurrent requests the export that was read first is stored last, and the object lacks a change | sync.go:61-91 | `PublishedIsStored` as an invariant of `admin` |
| of two concurrent requests the map that was read first is swapped in last | engine.go:60-85 | `LocalEngineIsCurrent` as an invariant of `admin` with nobody in `Syncing` |
| a failing rule query drops a domain from the new map, and the poll counts as done, so the domain stays out until the next publication | engine.go:64 | `KeepsServing` with "rules" among the `FaultKinds` of `converge` |
| a statement takes effect and its answer is lost, or SQLite inserts a domain and cannot read it back: the client gets 500, the node does not serve the change and does not publish it | store.go:277, handlers.go:107-113 | "write" among the `FaultKinds` of `standalone`, with `MaxFaults` = 1: `LocalEngineIsCurrent`, `PublishedIsStored` |
| a publication that fails is only logged; the object lacks an acknowledged change, and the next start of the control plane imports the object over it | handlers.go:42, main.go:153 | "publish" as a fault in `standalone`: `PublishedIsStored` |
| an export beyond 10000 domains leaves the rest out, and the importing nodes delete it | store.go:573 | `ExportLimit` = 1 in `standalone`: `PublishedIsStored` |
| two control planes with databases of their own take each other's domains out of the object | sync.go:77 | both nodes of `standalone` in `Syncing`: `PublishedIsStored` |
| the drained batch is not written: main does not wait for the writer | pipeline.go:72, main.go:208 | in `dataplane`: `main` = "exited" without any fault and `accepted` # `rows` |
| hits are stored beside a part of their paths, with nothing to tell it from the whole list | store.go:936, store.go:891 | `PathsCoverHits` without `stats[k].read`, in `rollup` |
| two clients of one process hold one lock name, on one session | pg_storage.go:28 | `Exclusive` without its first condition, with one name for clients `a` and `b` |
| a lock stays held after its `Unlock`, which ran on another connection, until that connection is closed | pg_storage.go:33 | `LocksReturn` with `MayExpire` = FALSE and no deadlock check |
| a directory is listed twice when the database orders keys as a locale does | pg_storage.go:85 | `Collation` = "locale" in `inputs`: `ListIsExact` |
| a prefix with an underscore lists a directory that does not exist | pg_storage.go:67 | <<97, 95>> among `MCPrefixes`: `ListIsExact` |

## 5. Proofs

TLC checks small deployments; the theorems below hold for all values of the
constants: all sets of nodes, handlers, databases, clients, requests and names,
every topology, all capacities, limits, fault kinds and bounds.

What is assumed of the constants is named where they are declared, and TLC
evaluates it in every run. Rules: names are natural numbers (their order is the
collation order) and finitely many (`NamesAssumption`); 301 is a code
(`CodesAssumption`); limits and bounds are naturals (`LimitAssumption`,
`BoundAssumption`); every handler runs in a node, every node has a database, and
no node is a handler (`TopologyAssumption`); requests and the seed file are
well-formed documents (`RequestAssumption`). Requests: there are finitely many
rules, their priorities are naturals, and no target is an error
(`ServingAssumption`). Pipeline: channels and batches hold at least one entry
(`PipelineAssumption`, `BeaconAssumption`), each request comes to one of two
servers (`DataPlaneAssumption`). Statistics: nodes, domains and paths are finite
sets, at least one path is kept, a limit and a day are not empty
(`RollupAssumption`, `ReportsAssumption`). Certificates: clients and connections
are finite sets, names are sequences of code points (`CertLockAssumption`); keys
are too (`CertStoreAssumption`).

| Theorem | What is proved | Hypothesis, beyond the assumptions |
|---|---|---|
| **`RuleSyncProofs`** | | |
| `TypeCorrect` | `TypeOK` | |
| `ImportInstallsRuleset` | an import that commits to the table its orphan queries saw leaves exactly its document, zero codes replaced | |
| `HoldsOneVersion` | `FollowerHoldsOneVersion` | |
| `ServesOneVersion` | `FollowerServesOneVersion` | |
| `ETagStaysBehind` | `ETagNeverAhead` | |
| `SkippingIsSafe` | `SkippedPollIsCurrentUnlessRepeated` | |
| `ImportKeeps` | `ImportOverwritesNothing` (an action property) | |
| `FollowersAreReplicas` | `ImplementsReplica` (a refinement) | |
| **`RegionProofs`** | | |
| `ServesAllAlways` | `FollowerServesAll` | |
| `KeepsServingAlways` | `KeepsServing` (an action property) | no rule query fails, names fit the reload's limit (`WholeReloads`) |
| `SettledRegionHoldsObjectAlways` | `SettledRegionHoldsObject` | |
| `LocalEngineIsCurrentAlways` | `LocalEngineIsCurrent` | `OneAtATime`: such a node has one handler and a database of its own, no reload fails, and no statement takes effect unanswered |
| `PublishedIsStoredAlways` | `PublishedIsStored` | `OnePublisher`: one control node, with one handler and a database of its own; no publication fails, no statement takes effect unanswered; names fit the export's limit |
| **`ServingProofs`** | | |
| `TypeCorrect` | `TypeOK` | |
| `AnswersOneVersionAlways` | `AnswersOneVersion` | |
| `KnownDomainAnsweredAlways` | `KnownDomainAnswered` | |
| `NodesAgreeAlways` | `NodesAgree` | |
| **`DataPlaneProofs`** | | |
| `TypeCorrect` | `TypeOK` | |
| `NothingMislaidAlways` | `NothingMislaid` | |
| `RequestLogImplemented` | `ImplementsRequestLog` (a refinement) | |
| `BeaconAtMostOnceAlways` | `BeaconAtMostOnce` | |
| `ShutdownAnswersAlways` | `ShutdownAnswers` | |
| **`RollupProofs`** | | |
| `TypeCorrect` | `TypeOK` | |
| `NeverOvercountsAlways` | `NeverOvercounts` | |
| `PathsCoverHitsAlways` | `PathsCoverHits` | |
| `ClosedHoursExactAlways` | `ClosedHoursExact` | |
| `HourlyStatsImplemented` | `ImplementsHourlyStats` (a refinement) | |
| `ReportsAgreeAlways` | `ReportsAgree` | |
| **`CertLockProofs`** | | |
| `TypeCorrect` | `TypeOK` | |
| `HeldWhileWorkingAlways` | `HeldWhileWorking` | |
| `ProcessesExcludeAlways` | `ProcessesExclude` | |
| `ProcessLockImplemented` | `ImplementsProcessLock` (a refinement) | |
| **`InputsProofs`** | | |
| `MatchesSegmentsAlways` | `MatchesSegments` | |
| `PortsIgnoredAlways` | `PortsIgnored` | |
| `CertificateIffServedAlways` | `CertificateIffServed` | |
| `ListIsExactAlways` | `ListIsExact` | the database orders keys by their bytes; no prefix has an underscore that stands for another character |

The statements are about every behaviour of the specification (`Spec`, for inputs
`InputSpec`). The run of each property satisfies the hypothesis of its theorem,
and section 4 shows what happens without it (the limit of a reload acts as that
of an export).

*Rule sync, types.* `TypeOK` is inductive as it stands, because it says more
than types: where an index into `published` may be 0, and that a process which
is about to compare an ETag or to insert a rule has one. The first part of
`RuleSyncProofs` shows that each statement keeps a database well-formed, the
second that each action keeps `TypeOK`.

*Followers.* None of the follower properties is inductive alone. That the
database is one published ruleset (`Holds`) needs, at the commit, that the orphan
queries of the import saw the table it commits to (`Fetched`): true because
nobody else writes that database, false in a region that shares one, and
`ImportInstallsRuleset` does the rest. That the engine serves one ruleset
(`Serves`) needs that a half-done listing agrees with the table (`Lists`). The
ETag property needs the ETag to be carried through the poll (`Heads`): HEAD's
ETag is of a body that is no newer than the one a later GET returns, hence no
newer than the one imported, loaded and recorded. `FollowerInv` is the
conjunction; `FollowersCorrect` proves it with one lemma per part of a poll
(`Own`) and one frame lemma: a step of any other process leaves a follower's
state alone and at most appends to `published` (`Same`). For the refinement, an
import maps to `Adoption` (the body fetched is no older than the one held), a
swap or a crash to `Refresh`, a PUT to `Publication`, and every other step to a
stutter.

*Whole rulesets.* That a reload or an export misses nothing needs an invariant of
the loop: what it has built so far, together with what is still to be listed, is
all that the table has (`InStep`, by `Sound` and `Listable`). On a follower the
table stands still while it reloads, so the new map is all of the loaded version
(`ServesAll`, `WholeInv`); without `WholeReloads` `FollowerServesAll` says nothing.
On a control node it stands still because the handler is the only one and the
poller is not there (`LocalOK`, `LocalInv`) or has had nothing to import
(`PublisherOK`, `PublisherInv`). Seed and start-up are part of it: a node that has
not answered anything yet may still be seeding.

*A shared database.* In a region no import installs its document by itself, as
others commit between its orphan queries and its commit. `EdgeOK` says who is to
blame: what a table has and the object has not, some node that writes this table
and has not yet imported the object will find or has found among its orphans
(`Owes`, `OwesRule`); and what the object has is there, unless such a node is
behind. `SharerOK` carries the ETag through a poll as `Heads` does. At rest
nobody is behind (`NothingOwed`), so nothing is owed: the table is the object. A
body that was published twice breaks the step from equal ETags to "not behind",
which is why the property excludes it (`NoRepeat`).

*Requests.* `Underway` follows a request step by step: what it looked up is one of
the entries it could have seen, and what it answered is a best rule of one of
them or an error that one of them justifies. `TakenIsBest` is the part about
data: the first match in any order that respects priorities is a best rule.

*Pipeline.* `NothingMislaid` needs the invariant that an entry that is not offered
yet is nowhere (`Fresh`) and the one that the batch has room while the writer
waits (`Filling`); a step of the pipeline is then an acceptance, a move from one
part to the next, a flush, or an end of the process, and these four are the steps
of `RequestLog` (`LogStep`). `BeaconAtMostOnce` needs that an entry is in the
channel at most once, not attempted while it is there, and not offered again
(`OnceInv`). `ShutdownAnswers` needs that a server that is down has no handler
(`WaitInv`).

*Rollup.* What bounds the statistics has to be said of every place a count goes
through: what the query found, the rows that are staged and the one that waits
for its lock (`Within`). With "at most the log" for it this gives
`NeverOvercounts` (`CountInv`), with "the paths have all the hits"
`PathsCoverHits` (`CoverInv`), and with "exactly the log, for hours that are over"
`ClosedHoursExact` (`CloseInv`). The last needs more: a cycle whose snapshots
can see all rows of earlier hours stays so until the hour ends (`FreshNow`), rows
in flight are of this hour or the one before (`Logged`), a cycle holds a row for
each key it has to write (`Complete`), and when all running nodes have completed
such a cycle, the hour before is exact (`LastDone`).

For `HourlyStats`, a step of the log, of the clock or of neither (`StepKinds`) is
taken by one action each. That a rollup which commits late leaves older hours
alone is `ClosedHoursExact` before and after its commit, and that nothing is
reported of hours to come is `NeverOvercounts` with an empty log (`LogNow`).

*Reports.* From `CloseInv` and "nothing is logged before its time" (`LogNow`), each
report is shown to be the sum of the statistics over the keys it groups
(`TotalGroups`), and two reports that group the same keys otherwise to have the
same sum. The trend is the traffic of two halves (`TrendTraffic`).

*Locks.* The database gives a key to one session at a time (`OneHolder`), and as
long as no holder is closed, the sessions of a pool hold a key at least as often
as clients of the process work under it. A lock that is released by another
session than the one that took it costs nobody the lock: an `Unlock` takes at
most one from the pool's count, and its client no longer works; one that is given
up takes none. Two processes at
work would need two sessions with one key. For `ProcessLock`, a step that changes
one session takes a key from its holder or leaves it (`HoldersDrop`), a key that a
client at work needs has a holder unless the lock is broken (`ProcessHolds`,
`NeededIsHeld`), and the client a connection was lent to is not at work but waits
for that connection alone (`OneStatement`). So only a `Lock` that returns brings a
new holder (`EnterStep`); every other step gives keys back or changes nothing that
`ProcessLock` sees (`FreeStep`).

*Inputs.* The proofs are about sequences of any length: a prefix is compared place
by place (`PrefixPlaces`), a suffix of digits after the last colon comes off in
both ways (`PortComesOff`). `ListIsExact` has three parts. The rows of the query
are the keys found, once each and in order (`SelectedRows`, by counting the keys
before each). The order of bytes puts between two keys with a common prefix only
keys that have it (`BytesBetween`), so the keys of a directory are adjacent
(`TogetherInOrder`) and it is enough to compare with the last entry
(`ListedStep`). And the entry a key adds is the only child of the prefix that
contains it (`EntryIs`, `EntryOnly`), so the entries are the children.

*Sums and folds.* `Total` and `FoldLeft` are defined by functions on the subsets of
a finite set. The prover cannot instantiate induction rules that take an operator,
but a least element of a set of counterexamples serves as well (`LeastNumber`,
`SubsetInduction`, `FiniteSetInduction` in `TotalsProofs`, `UpTo` in
`InputsProofs`). With them `Total` is shown not to depend on the order of
summation (`TotalIsMeasure`) and to be additive (`TotalAdd`, `TotalGroups`,
`TotalSwap`), and `List` to take its rows one after the other (`ListSteps`).

Only model-checked:

- what rests on fairness and is out of the prover's reach: `FollowersConverge`,
  `ETagsSettle`, `RequestsAnswered`, `EntriesAreWritten`, `BeaconsAreSent`,
  `StatsCatchUp`, `LocksReturn`, `UnlocksReturn`;
- the failing properties, which are false.

## 6. Not modelled, and the plan

Not modelled, and why:

- the HTTP middleware and the web UI: stateless wrappers and a client of the API;
- certmagic, TLS and ACME: external; only what they ask of `internal/certs` is
  modelled;
- `Load`, `Exists` and `Stat` of the certificate table: each reads one row;
- `PruneOldLogs`: no program code calls it;
- `AnalyticsReferers`, `unique_ips` and `top_referers`: the same statements as
  for paths and hits, over another column;
- how the handlers parse times and limits, how a beacon's URL is encoded and how
  the client's address is found: no property here tells these apart;
- the SQLite side of rollups and locks: a development instance is one process
  (the SQLite side of imports is covered: `scanned` is the table committed to);
- terraform, scripts and load tests.

What the plan set out to prove is proved: every invariant, action property and
refinement of the passing runs, the four refinements included (`RuleReplica`,
`RequestLog`, `HourlyStats`, `ProcessLock`). What a change of the code is likely to
ask for next:

1. if the handlers and the poller of a region are made to exclude each other,
   `NothingLost` as a theorem beside `SettledRegionHoldsObjectAlways`, whose
   invariant `EdgeOK` already says which node owes what;
2. if a certificate lock is tied to a connection of its own, `ProcessLock` without
   `broken` and with one holder of each name inside;
3. if rollups make up for missed hours, `HourlyStats` with hours that stay open,
   and `Timely` dropped from `Tick`.
