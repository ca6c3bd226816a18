-------------------------------- MODULE Rollup --------------------------------
(***************************************************************************)
(* The hourly aggregation of request_log into domain_stats: runRollup of   *)
(* internal/analytics and RunRollup of internal/store, on data nodes that  *)
(* share one PostgreSQL database and log into it at the same time.         *)
(*                                                                         *)
(* Time is counted in hours.  A row is stamped when its transaction begins *)
(* and seen when it commits.  Statistics are reduced to the hits of a      *)
(* domain in an hour and the counts of its top paths; unique_ips and       *)
(* top_referers are computed in the same way at the same moments.  The     *)
(* read of a row is a history variable: its paths were read to the end.    *)
(***************************************************************************)
EXTENDS Totals, FiniteSets, Sequences, SequencesExt

CONSTANTS
  Nodes,      \* data nodes
  Domains,
  Paths,
  TopPaths,   \* paths that getTopPaths keeps (10)
  LastHour,   \* bound: the last hour
  MaxRows,    \* bound: rows inserted in all
  FaultKinds, \* which faults may happen: "rollup", "paths", "rows", "crash"
  MaxFaults   \* bound: faults in all

ASSUME RollupAssumption ==
  /\ IsFiniteSet(Paths) /\ IsFiniteSet(Domains) /\ IsFiniteSet(Nodes)
  /\ TopPaths \in Nat \ {0} /\ LastHour \in Nat /\ MaxRows \in Nat
  /\ MaxFaults \in Nat

Hours == 0..LastHour
Keys == Domains \X Hours
NoStats == [hits |-> 0, paths |-> <<>>, read |-> FALSE]
NoRow == [key |-> <<>>, hits |-> 0, paths |-> <<>>, read |-> FALSE]

VARIABLES
  hour,     \* the current hour
  log,      \* log[d, h][p]: rows of request_log
  open,     \* open[n]: the rows of node n's open log transaction, one or none
  stats,    \* domain_stats; a row that is not there is NoStats
  up,       \* the nodes that are running
  pc,       \* pc[n]: where node n's rollup worker is
  now,      \* now[n]: the hour its cycle began in
  bucket,   \* bucket[n]: the hour it is rolling up
  found,    \* found[n]: what is left of the result of the first query
  row,      \* row[n]: the row it is about to upsert
  queue,    \* the nodes that wait for a row another one has upserted
  staged,   \* staged[n]: the upserts of its open transaction
  fresh,    \* fresh[n]: its cycle can see all rows of earlier hours, so far without fault
  served,   \* the nodes that completed such a cycle within this hour
  spent     \* how many faults have happened

workerVars == <<pc, now, bucket, found, row, queue, staged, fresh, served>>
vars == <<hour, log, open, stats, up, workerVars, spent>>

Init ==
  /\ hour = 0
  /\ log = [k \in Keys |-> [p \in Paths |-> 0]]
  /\ open = [n \in Nodes |-> {}]
  /\ stats = [k \in Keys |-> NoStats]
  /\ up = Nodes
  /\ pc = [n \in Nodes |-> "wait"]
  /\ now = [n \in Nodes |-> 0]
  /\ bucket = [n \in Nodes |-> 0]
  /\ found = [n \in Nodes |-> <<>>]
  /\ row = [n \in Nodes |-> NoRow]
  /\ queue = <<>>
  /\ staged = [n \in Nodes |-> <<>>]
  /\ fresh = [n \in Nodes |-> FALSE]
  /\ served = {}
  /\ spent = 0

Spend(k) ==
  /\ k \in FaultKinds
  /\ spent < MaxFaults
  /\ spent' = spent + 1

Hits(k) == Total(log[k])

-----------------------------------------------------------------------------
(* The batch writers (Analytics), reduced to one row per transaction, and time *)

\* The bound on rows, counted once for all that may insert one.
RowsLeft ==
  MapThenSumSet(Hits, Keys) + MapThenSumSet(LAMBDA m : Cardinality(open[m]), Nodes) < MaxRows

BeginLog(n, d, p) ==
  /\ n \in up
  /\ open[n] = {}
  /\ open' = [open EXCEPT ![n] = {<<d, hour, p>>}]
  /\ UNCHANGED <<hour, log, stats, up, workerVars, spent>>

CommitLog(n) ==
  /\ open[n] # {}
  /\ \E r \in open[n] : log' = [log EXCEPT ![<<r[1], r[2]>>][r[3]] = @ + 1]
  /\ open' = [open EXCEPT ![n] = {}]
  /\ UNCHANGED <<hour, stats, up, workerVars, spent>>

AllLogged == \A n \in Nodes : \A r \in open[n] : r[2] = hour

\* The rollup runs every 5 minutes: within an hour, every node that is running
\* completes a cycle which had all the rows of earlier hours to see; if a node
\* crashed, the others complete one that began after that.
Timely == up # {} /\ up \subseteq served

Tick ==
  /\ hour < LastHour
  /\ Timely
  /\ hour' = hour + 1
  /\ fresh' = [n \in Nodes |-> FALSE]
  /\ served' = {}
  /\ UNCHANGED <<log, open, stats, up, pc, now, bucket, found, row, queue, staged, spent>>

-----------------------------------------------------------------------------
(* runRollup: the previous hour, then the current one *)

\* Mutant: only the current hour.
StartCycleNow(n) ==
  /\ n \in up
  /\ pc[n] = "wait"
  /\ pc' = [pc EXCEPT ![n] = "query"]
  /\ now' = [now EXCEPT ![n] = hour]
  /\ bucket' = [bucket EXCEPT ![n] = hour]
  /\ fresh' = [fresh EXCEPT ![n] = AllLogged]
  /\ UNCHANGED <<hour, log, open, stats, up, found, row, queue, staged, served, spent>>

StartCycle(n) ==
  /\ n \in up
  /\ pc[n] = "wait"
  /\ pc' = [pc EXCEPT ![n] = "query"]
  /\ now' = [now EXCEPT ![n] = hour]
  /\ bucket' = [bucket EXCEPT ![n] = hour - 1]
  /\ fresh' = [fresh EXCEPT ![n] = AllLogged]
  /\ UNCHANGED <<hour, log, open, stats, up, found, row, queue, staged, served, spent>>

\* RunRollup returns; ok says that it did what it should.
Leave(n, ok) ==
  /\ IF bucket[n] = now[n]
     THEN /\ pc' = [pc EXCEPT ![n] = "wait"]
          /\ served' = IF ok /\ fresh[n] THEN served \cup {n} ELSE served
          /\ fresh' = [fresh EXCEPT ![n] = FALSE]
          /\ now' = [now EXCEPT ![n] = 0]
          /\ bucket' = [bucket EXCEPT ![n] = 0]
     ELSE /\ pc' = [pc EXCEPT ![n] = "query"]
          /\ fresh' = [fresh EXCEPT ![n] = @ /\ ok]
          /\ bucket' = [bucket EXCEPT ![n] = @ + 1]
          /\ UNCHANGED <<now, served>>
  /\ found' = [found EXCEPT ![n] = <<>>]
  /\ row' = [row EXCEPT ![n] = NoRow]
  /\ queue' = Remove(queue, n)
  /\ staged' = [staged EXCEPT ![n] = <<>>]
  /\ UNCHANGED <<hour, log, open, up>>

-----------------------------------------------------------------------------
(* RunRollup *)

\* The hits of every domain that has any, from one snapshot.
Query(n) ==
  /\ pc[n] = "query"
  /\ LET seen == {k \in Keys : k[2] = bucket[n] /\ Hits(k) > 0}
     IN  found' = [found EXCEPT ![n] = [k \in seen |-> Hits(k)]]
  /\ pc' = [pc EXCEPT ![n] = "scan"]
  /\ UNCHANGED <<hour, log, open, stats, up, now, bucket, row, queue, staged, fresh, served, spent>>

\* The most frequent paths; which of several equally frequent ones, is open.
TopOf(counts) ==
  LET used == {p \in DOMAIN counts : counts[p] > 0}
      size == IF Cardinality(used) < TopPaths THEN Cardinality(used) ELSE TopPaths
  IN  {Restrict(counts, S) : S \in {T \in kSubset(size, used) :
         \A p \in T, x \in used \ T : counts[p] >= counts[x]}}

ScanRow(n, k, paths, read) ==
  /\ pc[n] = "scan"
  /\ row' = [row EXCEPT ![n] = [key |-> k, hits |-> found[n][k], paths |-> paths, read |-> read]]
  /\ found' = [found EXCEPT ![n] = Restrict(@, DOMAIN @ \ {k})]
  /\ pc' = [pc EXCEPT ![n] = "upsert"]
  /\ UNCHANGED <<hour, log, open, stats, up, now, bucket, queue, staged, fresh, served>>

\* Mutant: the paths are those of the next hour.
ReadPathsOfNextHour(n) ==
  \E k \in DOMAIN found[n] :
    LET later == <<k[1], IF k[2] < LastHour THEN k[2] + 1 ELSE k[2]>>
    IN  \E paths \in TopOf(log[later]) : ScanRow(n, k, paths, TRUE) /\ UNCHANGED spent

\* The next row, in any order, and getTopPaths with a snapshot of its own.
ReadPaths(n) ==
  \E k \in DOMAIN found[n] :
    \E paths \in TopOf(log[k]) : ScanRow(n, k, paths, TRUE) /\ UNCHANGED spent

\* getTopPaths fails, and its error is ignored; or its rows end early or do not
\* scan, which it does not report: the row goes on with the paths read so far.
PathsFail(n) ==
  \E k \in DOMAIN found[n] :
    \E paths \in TopOf(log[k]) : \E part \in SUBSET DOMAIN paths \ {DOMAIN paths} :
      ScanRow(n, k, Restrict(paths, part), FALSE) /\ Spend("paths")

\* The row is locked until the transaction that upserted it ends; those who find
\* it locked get it in the order they came.
Locks(m, k) == k \in DOMAIN staged[m]
Waits(n, m) == m # n /\ n \in ToSet(queue) /\ Locks(m, row[n].key)
Before(n) == {queue[i] : i \in {j \in DOMAIN queue : \A x \in 1..j : queue[x] # n}}
MayLock(n) ==
  /\ pc[n] = "upsert"
  /\ \A m \in Nodes \ {n} : ~Locks(m, row[n].key)
  /\ \A m \in Before(n) : row[m].key # row[n].key

Block(n) ==
  /\ pc[n] = "upsert"
  /\ n \notin ToSet(queue)
  /\ ~MayLock(n)
  /\ queue' = Append(queue, n)
  /\ UNCHANGED <<hour, log, open, stats, up, pc, now, bucket, found, row, staged, fresh, served, spent>>

Upserted(n, hits) ==
  [hits |-> hits, paths |-> row[n].paths, read |-> row[n].read]
With(rows, k, r) == [x \in DOMAIN rows \cup {k} |-> IF x = k THEN r ELSE rows[x]]

\* Mutant: hit_count = hit_count + EXCLUDED.hit_count.
UpsertAdds(n) ==
  /\ MayLock(n)
  /\ staged' = [staged EXCEPT ![n] =
       With(@, row[n].key, Upserted(n, stats[row[n].key].hits + row[n].hits))]
  /\ pc' = [pc EXCEPT ![n] = "scan"]
  /\ queue' = Remove(queue, n)
  /\ row' = [row EXCEPT ![n] = NoRow]
  /\ UNCHANGED <<hour, log, open, stats, up, now, bucket, found, fresh, served, spent>>

\* Mutant: ON CONFLICT DO NOTHING.
UpsertKeeps(n) ==
  /\ MayLock(n)
  /\ staged' = [staged EXCEPT ![n] =
       IF stats[row[n].key] = NoStats THEN With(@, row[n].key, Upserted(n, row[n].hits)) ELSE @]
  /\ pc' = [pc EXCEPT ![n] = "scan"]
  /\ queue' = Remove(queue, n)
  /\ row' = [row EXCEPT ![n] = NoRow]
  /\ UNCHANGED <<hour, log, open, stats, up, now, bucket, found, fresh, served, spent>>

Upsert(n) ==
  /\ MayLock(n)
  /\ staged' = [staged EXCEPT ![n] = With(@, row[n].key, Upserted(n, row[n].hits))]
  /\ pc' = [pc EXCEPT ![n] = "scan"]
  /\ queue' = Remove(queue, n)
  /\ row' = [row EXCEPT ![n] = NoRow]
  /\ UNCHANGED <<hour, log, open, stats, up, now, bucket, found, fresh, served, spent>>

\* The loop is over once the rows are; whether they ended in an error is not asked.
Commit(n) ==
  /\ pc[n] = "scan"
  /\ found[n] = <<>>
  /\ stats' = [k \in Keys |-> IF k \in DOMAIN staged[n] THEN staged[n][k] ELSE stats[k]]
  /\ Leave(n, TRUE)
  /\ UNCHANGED spent

RowsBreak(n) ==
  /\ pc[n] = "scan"
  /\ found[n] # <<>>
  /\ Spend("rows")
  /\ found' = [found EXCEPT ![n] = <<>>]
  /\ fresh' = [fresh EXCEPT ![n] = FALSE]
  /\ UNCHANGED <<hour, log, open, stats, up, pc, now, bucket, row, queue, staged, served>>

\* PostgreSQL ends one transaction of a cycle.
Deadlocked(n) ==
  \E cycle \in SUBSET Nodes :
    /\ n \in cycle
    /\ \A m \in cycle : (\E x \in cycle : Waits(m, x)) /\ (\E x \in cycle : Waits(x, m))
DeadlockAborts(n) == Deadlocked(n) /\ Leave(n, FALSE) /\ UNCHANGED <<stats, spent>>

\* Any statement fails; the transaction is rolled back and the error logged.
RollupFails(n) ==
  /\ pc[n] \in {"query", "scan", "upsert"}
  /\ Spend("rollup")
  /\ Leave(n, FALSE)
  /\ UNCHANGED stats

-----------------------------------------------------------------------------

Crash(n) ==
  /\ n \in up
  /\ Spend("crash")
  /\ up' = up \ {n}
  /\ open' = [open EXCEPT ![n] = {}]
  /\ pc' = [pc EXCEPT ![n] = "wait"]
  /\ found' = [found EXCEPT ![n] = <<>>]
  /\ row' = [row EXCEPT ![n] = NoRow]
  /\ queue' = Remove(queue, n)
  /\ staged' = [staged EXCEPT ![n] = <<>>]
  /\ now' = [now EXCEPT ![n] = 0]
  /\ bucket' = [bucket EXCEPT ![n] = 0]
  /\ fresh' = [m \in Nodes |-> FALSE]
  /\ served' = {}
  /\ UNCHANGED <<hour, log, stats>>

Restart(n) ==
  /\ n \notin up
  /\ up' = up \cup {n}
  /\ UNCHANGED <<hour, log, open, stats, workerVars, spent>>

Work(n) ==
  \/ StartCycle(n) \/ Query(n) \/ ReadPaths(n) \/ Block(n) \/ Upsert(n) \/ Commit(n)
  \/ DeadlockAborts(n)

Next ==
  \/ RowsLeft /\ \E n \in Nodes, d \in Domains, p \in Paths : BeginLog(n, d, p)
  \/ \E n \in Nodes :
       \/ CommitLog(n) \/ Work(n)
       \/ PathsFail(n) \/ RowsBreak(n) \/ RollupFails(n)
       \/ Crash(n) \/ Restart(n)
  \/ Tick

Spec == Init /\ [][Next]_vars

\* The ticker of each running node fires again and again, statements return,
\* and systemd restarts a node (tld-redirect-data.service, Restart=always).
FairSpec ==
  /\ Spec
  /\ \A n \in Nodes : WF_vars(CommitLog(n)) /\ WF_vars(Work(n)) /\ WF_vars(Restart(n))

-----------------------------------------------------------------------------

IsCounts(f, S) == DOMAIN f \in SUBSET S /\ f \in [DOMAIN f -> Nat]
IsStat(r) == r.hits \in Nat /\ IsCounts(r.paths, Paths) /\ r.read \in BOOLEAN
IsTable(f) == f = [n \in Nodes |-> f[n]]

TypeOK ==
  /\ hour \in Hours
  /\ log \in [Keys -> [Paths -> Nat]]
  /\ open \in [Nodes -> SUBSET (Domains \X Hours \X Paths)]
  /\ DOMAIN stats = Keys /\ \A k \in Keys : IsStat(stats[k])
  /\ up \subseteq Nodes
  /\ pc \in [Nodes -> {"wait", "query", "scan", "upsert"}]
  /\ now \in [Nodes -> Hours] /\ bucket \in [Nodes -> -1..LastHour]
  /\ \A n \in Nodes : bucket[n] \in {now[n] - 1, now[n]} /\ (pc[n] = "wait" => bucket[n] = now[n])
  /\ IsTable(found) /\ \A n \in Nodes : IsCounts(found[n], Keys)
  /\ IsTable(row) /\ \A n \in Nodes : pc[n] = "upsert" => row[n].key \in Keys /\ IsStat(row[n])
  /\ IsTable(staged) /\ \A n \in Nodes : DOMAIN staged[n] \in SUBSET Keys
  /\ \A n \in Nodes : \A k \in DOMAIN staged[n] : IsStat(staged[n][k])
  /\ \A n \in Nodes : pc[n] \in {"wait", "query"} => found[n] = <<>> /\ staged[n] = <<>>
  /\ fresh \in [Nodes -> BOOLEAN] /\ served \subseteq up
  /\ spent \in Nat

\* However many nodes roll up an hour, however often, and whatever fails, no
\* domain is credited with more hits than were logged (store.go:896).
NeverOvercounts == \A k \in Keys : stats[k].hits <= Hits(k)

\* The top paths of a row, read after its hits, account for all of them, unless
\* more paths are used than are kept, or the list was not read to its end: then
\* the hits are stored beside a part of it, and nothing says so (store.go:891).
PathsCoverHits ==
  \A k \in Keys :
    stats[k].read /\ Cardinality(Paths) <= TopPaths => Total(stats[k].paths) >= stats[k].hits

\* An hour that is over for an hour or more has exact statistics: the rows that
\* were still to be committed at its end are found by the next hour's runs, and
\* no late run of another node puts an older count back (pipeline.go:106).
ClosedHoursExact == \A k \in Keys : k[2] <= hour - 2 => stats[k].hits = Hits(k)

\* Seen from outside, only the statistics of the current and the previous hour
\* change, to counts the log has reached, and before an hour is over for an hour
\* its count is complete (pipeline.go:106).
Published == INSTANCE HourlyStats WITH
  logged <- log, reported <- [k \in Keys |-> stats[k].hits], Count <- Total
ImplementsHourlyStats == Published!SSpec

\* Once redirects stop, the statistics of the current and the previous hour
\* come to agree with the log and stay so.
StatsCatchUp ==
  <>[](\A k \in Keys : k[2] \in {hour - 1, hour} => stats[k].hits = Hits(k))
=============================================================================
