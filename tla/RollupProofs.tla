----------------------------- MODULE RollupProofs -----------------------------
(***************************************************************************)
(* What the hourly statistics say of the log, for any number of nodes,     *)
(* domains, paths, rows, hours and faults.                                 *)
(***************************************************************************)
EXTENDS Reports, TotalsProofs

LEMMA Constants ==
  /\ IsFiniteSet(Paths) /\ IsFiniteSet(Domains) /\ IsFiniteSet(Nodes)
  /\ TopPaths \in Nat \ {0} /\ LastHour \in Nat
BY RollupAssumption

LEMMA KeyType == \A k \in Keys : k[1] \in Domains /\ k[2] \in Nat /\ k = <<k[1], k[2]>>
BY Constants DEF Keys, Hours

-----------------------------------------------------------------------------
(* Types *)

LEMMA EmptyCounts == ASSUME NEW S PROVE IsCounts(<<>>, S)
BY DEF IsCounts

LEMMA TypeInit == Init => TypeOK
<1> SUFFICES ASSUME Init PROVE TypeOK OBVIOUS
<1>1. IsStat(NoStats) BY EmptyCounts DEF IsStat, NoStats
<1>2. 0 \in Hours /\ 0 \in -1..LastHour BY Constants DEF Hours
<1>3. IsTable(found) /\ IsTable(row) /\ IsTable(staged) BY DEF Init, IsTable
<1>4. \A n \in Nodes : IsCounts(found[n], Keys) /\ DOMAIN staged[n] = {}
  BY EmptyCounts DEF Init
<1>5. DOMAIN stats = Keys /\ \A k \in Keys : IsStat(stats[k]) BY <1>1 DEF Init
<1> QED BY <1>2, <1>3, <1>4, <1>5 DEF Init, TypeOK

\* A worker's part of the state.
WorkerOK(n) ==
  /\ pc[n] \in {"wait", "query", "scan", "upsert"}
  /\ now[n] \in Hours /\ bucket[n] \in -1..LastHour
  /\ bucket[n] \in {now[n] - 1, now[n]} /\ (pc[n] = "wait" => bucket[n] = now[n])
  /\ IsCounts(found[n], Keys)
  /\ pc[n] = "upsert" => row[n].key \in Keys /\ IsStat(row[n])
  /\ DOMAIN staged[n] \in SUBSET Keys /\ \A k \in DOMAIN staged[n] : IsStat(staged[n][k])
  /\ pc[n] \in {"wait", "query"} => found[n] = <<>> /\ staged[n] = <<>>
  /\ fresh[n] \in BOOLEAN

Tables ==
  /\ DOMAIN pc = Nodes /\ IsTable(pc) /\ DOMAIN now = Nodes /\ IsTable(now)
  /\ DOMAIN bucket = Nodes /\ IsTable(bucket)
  /\ IsTable(found) /\ IsTable(row) /\ IsTable(staged)
  /\ DOMAIN fresh = Nodes /\ IsTable(fresh)

Shared ==
  /\ hour \in Hours
  /\ log \in [Keys -> [Paths -> Nat]]
  /\ open \in [Nodes -> SUBSET (Domains \X Hours \X Paths)]
  /\ DOMAIN stats = Keys /\ \A k \in Keys : IsStat(stats[k])
  /\ up \subseteq Nodes /\ served \subseteq up
  /\ spent \in Nat

LEMMA TypeParts == TypeOK <=> Shared /\ Tables /\ \A n \in Nodes : WorkerOK(n)
<1>1. TypeOK => Shared /\ Tables /\ \A n \in Nodes : WorkerOK(n)
  BY DEF TypeOK, Shared, Tables, WorkerOK, IsTable
<1>2. ASSUME Shared, Tables, \A n \in Nodes : WorkerOK(n) PROVE TypeOK
  <2>1. pc \in [Nodes -> {"wait", "query", "scan", "upsert"}]
    BY <1>2 DEF Tables, WorkerOK, IsTable
  <2>2. now \in [Nodes -> Hours] /\ bucket \in [Nodes -> -1..LastHour]
    BY <1>2 DEF Tables, WorkerOK, IsTable
  <2>3. fresh \in [Nodes -> BOOLEAN]
    BY <1>2 DEF Tables, WorkerOK, IsTable
  <2> QED BY <1>2, <2>1, <2>2, <2>3 DEF Shared, Tables, WorkerOK, TypeOK
<1> QED BY <1>1, <1>2

LEMMA TypePartsNext == Shared' /\ Tables' /\ (\A n \in Nodes : WorkerOK(n)') => TypeOK'
<1>1. (Shared /\ Tables /\ \A n \in Nodes : WorkerOK(n))' => TypeOK' BY TypeParts, PTL
<1> QED BY <1>1

-----------------------------------------------------------------------------
(* The steps of one worker change its own part of the state only. *)

Alone(n) ==
  /\ Tables'
  /\ \A m \in Nodes : m # n =>
       /\ pc'[m] = pc[m] /\ now'[m] = now[m] /\ bucket'[m] = bucket[m]
       /\ found'[m] = found[m] /\ row'[m] = row[m] /\ staged'[m] = staged[m]
       /\ fresh'[m] = fresh[m]
  /\ UNCHANGED <<hour, log, open, up>>

StartEffect(n) ==
  /\ Alone(n) /\ WorkerOK(n)' /\ UNCHANGED <<stats, served, spent>>
  /\ n \in up /\ pc[n] = "wait" /\ pc'[n] = "query"
  /\ now'[n] = hour /\ bucket'[n] = hour - 1 /\ fresh'[n] = AllLogged
  /\ found'[n] = <<>> /\ staged'[n] = <<>>

LEMMA StartStep == ASSUME TypeOK, NEW n \in Nodes, StartCycle(n) PROVE StartEffect(n)
<1>1. Shared /\ Tables /\ WorkerOK(n) BY TypeParts
<1>2. hour \in Hours /\ hour - 1 \in -1..LastHour BY <1>1, Constants DEF Shared, Hours
<1>3. AllLogged \in BOOLEAN BY DEF AllLogged
<1>4. /\ pc[n] = "wait" /\ n \in up /\ pc'[n] = "query"
      /\ now'[n] = hour /\ bucket'[n] = hour - 1 /\ fresh'[n] = AllLogged
      /\ UNCHANGED <<hour, log, open, stats, up, found, row, queue, staged, served, spent>>
  BY <1>1 DEF StartCycle, Tables
<1>5. Alone(n) BY <1>1, <1>4 DEF StartCycle, Alone, Tables, IsTable
<1>6. found[n] = <<>> /\ staged[n] = <<>> BY <1>1, <1>4 DEF WorkerOK
<1>7. WorkerOK(n)' BY <1>1, <1>2, <1>3, <1>4, <1>6, EmptyCounts DEF WorkerOK
<1> QED BY <1>4, <1>5, <1>6, <1>7 DEF StartEffect

\* The keys that the first query finds.
Seen(n) == {k \in Keys : k[2] = bucket[n] /\ Hits(k) > 0}

QueryEffect(n) ==
  /\ Alone(n) /\ WorkerOK(n)' /\ UNCHANGED <<stats, served, spent>>
  /\ pc[n] = "query" /\ pc'[n] = "scan"
  /\ now'[n] = now[n] /\ bucket'[n] = bucket[n] /\ fresh'[n] = fresh[n]
  /\ DOMAIN found'[n] = Seen(n) /\ \A k \in Seen(n) : found'[n][k] = Hits(k)
  /\ staged'[n] = <<>>

\* The rows of a domain in an hour are a natural number.
LEMMA HitsType == ASSUME TypeOK, NEW k \in Keys PROVE Hits(k) \in Nat
<1>1. log[k] \in [Paths -> Nat] BY DEF TypeOK
<1> QED BY <1>1, Constants, TotalType DEF Hits

LEMMA QueryStep == ASSUME TypeOK, NEW n \in Nodes, Query(n) PROVE QueryEffect(n)
<1>1. Shared /\ Tables /\ WorkerOK(n) BY TypeParts
<1>2. /\ pc[n] = "query" /\ pc'[n] = "scan" /\ found'[n] = [k \in Seen(n) |-> Hits(k)]
      /\ UNCHANGED <<hour, log, open, stats, up, now, bucket, row, queue, staged, fresh,
                     served, spent>>
  BY <1>1 DEF Query, Tables, IsTable, Seen
<1>3. Alone(n) BY <1>1, <1>2 DEF Query, Alone, Tables, IsTable
<1>4. IsCounts(found'[n], Keys)
  <2>1. \A k \in Seen(n) : Hits(k) \in Nat BY HitsType DEF Seen
  <2>2. Seen(n) \in SUBSET Keys BY DEF Seen
  <2> QED BY <1>2, <2>1, <2>2 DEF IsCounts
<1>5. staged[n] = <<>> BY <1>1, <1>2 DEF WorkerOK
<1>6. WorkerOK(n)' BY <1>1, <1>2, <1>4, <1>5 DEF WorkerOK
<1> QED BY <1>2, <1>3, <1>5, <1>6 DEF QueryEffect

ScanEffect(n) ==
  /\ Alone(n) /\ WorkerOK(n)' /\ UNCHANGED <<stats, served>>
  /\ pc[n] = "scan" /\ pc'[n] = "upsert"
  /\ now'[n] = now[n] /\ bucket'[n] = bucket[n] /\ fresh'[n] = fresh[n]
  /\ \E k \in DOMAIN found[n] :
       /\ row'[n].key = k /\ row'[n].hits = found[n][k]
       /\ row'[n].read => row'[n].paths \in TopOf(log[k])
       /\ DOMAIN found'[n] = DOMAIN found[n] \ {k}
       /\ \A j \in DOMAIN found'[n] : found'[n][j] = found[n][j]
  /\ staged'[n] = staged[n]

\* The top paths are some of the paths, with their counts.
LEMMA TopType ==
  ASSUME NEW f \in [Paths -> Nat], NEW top \in TopOf(f)
  PROVE  IsCounts(top, Paths)
<1>1. PICK U \in SUBSET Paths : top = Restrict(f, U)
  BY DEF TopOf, kSubset
<1> QED BY <1>1 DEF Restrict, IsCounts

LEMMA ScanRowStep ==
  ASSUME TypeOK, NEW n \in Nodes, NEW k \in DOMAIN found[n], NEW paths, NEW read \in BOOLEAN,
         IsCounts(paths, Paths), read => paths \in TopOf(log[k]), ScanRow(n, k, paths, read)
  PROVE  ScanEffect(n)
<1>1. Shared /\ Tables /\ WorkerOK(n) BY TypeParts
<1>2. /\ pc[n] = "scan" /\ pc'[n] = "upsert"
      /\ row'[n] = [key |-> k, hits |-> found[n][k], paths |-> paths, read |-> read]
      /\ found'[n] = [j \in DOMAIN found[n] \ {k} |-> found[n][j]]
      /\ UNCHANGED <<hour, log, open, stats, up, now, bucket, queue, staged, fresh, served>>
  BY <1>1 DEF ScanRow, Tables, IsTable, Restrict
<1>3. Alone(n) BY <1>1, <1>2 DEF ScanRow, Alone, Tables, IsTable
<1>4. k \in Keys /\ found[n][k] \in Nat BY <1>1 DEF WorkerOK, IsCounts
<1>5. IsCounts(found'[n], Keys) BY <1>1, <1>2 DEF WorkerOK, IsCounts
<1>6. row'[n].key \in Keys /\ IsStat(row'[n]) BY <1>2, <1>4 DEF IsStat
<1>7. WorkerOK(n)' BY <1>1, <1>2, <1>5, <1>6 DEF WorkerOK
<1> QED BY <1>2, <1>3, <1>7 DEF ScanEffect

LEMMA ScanStep ==
  ASSUME TypeOK, NEW n \in Nodes, ReadPaths(n) \/ PathsFail(n) PROVE ScanEffect(n)
<1>1. CASE ReadPaths(n)
  <2>1. PICK k \in DOMAIN found[n] : \E paths \in TopOf(log[k]) : ScanRow(n, k, paths, TRUE)
    BY <1>1 DEF ReadPaths
  <2>2. PICK paths \in TopOf(log[k]) : ScanRow(n, k, paths, TRUE) BY <2>1
  <2>3. k \in Keys BY TypeParts DEF WorkerOK, IsCounts
  <2>4. IsCounts(paths, Paths) BY <2>3, TopType DEF TypeOK
  <2> QED BY <2>2, <2>4, ScanRowStep
<1>2. CASE PathsFail(n)
  <2>1. PICK k \in DOMAIN found[n] :
          \E paths \in TopOf(log[k]) : \E part \in SUBSET DOMAIN paths \ {DOMAIN paths} :
            ScanRow(n, k, Restrict(paths, part), FALSE)
    BY <1>2 DEF PathsFail
  <2>2. PICK paths \in TopOf(log[k]) : \E part \in SUBSET DOMAIN paths \ {DOMAIN paths} :
          ScanRow(n, k, Restrict(paths, part), FALSE)
    BY <2>1
  <2>3. PICK part \in SUBSET DOMAIN paths : ScanRow(n, k, Restrict(paths, part), FALSE)
    BY <2>2
  <2>4. k \in Keys BY TypeParts DEF WorkerOK, IsCounts
  <2>5. IsCounts(paths, Paths) BY <2>4, TopType DEF TypeOK
  <2>6. IsCounts(Restrict(paths, part), Paths) BY <2>5 DEF IsCounts, Restrict
  <2> QED BY <2>3, <2>6, ScanRowStep
<1> QED BY <1>1, <1>2

UpsertEffect(n) ==
  /\ Alone(n) /\ WorkerOK(n)' /\ UNCHANGED <<stats, served, spent>>
  /\ pc[n] = "upsert" /\ pc'[n] = "scan"
  /\ now'[n] = now[n] /\ bucket'[n] = bucket[n] /\ fresh'[n] = fresh[n]
  /\ found'[n] = found[n]
  /\ DOMAIN staged'[n] = DOMAIN staged[n] \cup {row[n].key}
  /\ \A k \in DOMAIN staged[n] : k # row[n].key => staged'[n][k] = staged[n][k]
  /\ staged'[n][row[n].key] = Upserted(n, row[n].hits)

LEMMA UpsertStep == ASSUME TypeOK, NEW n \in Nodes, Upsert(n) PROVE UpsertEffect(n)
<1>1. Shared /\ Tables /\ WorkerOK(n) BY TypeParts
<1>2. /\ pc[n] = "upsert" /\ pc'[n] = "scan" /\ row'[n] = NoRow
      /\ staged'[n] = With(staged[n], row[n].key, Upserted(n, row[n].hits))
      /\ UNCHANGED <<hour, log, open, stats, up, now, bucket, found, fresh, served, spent>>
  BY <1>1 DEF Upsert, MayLock, Tables, IsTable
<1>3. Alone(n) BY <1>1, <1>2 DEF Upsert, Alone, Tables, IsTable
<1>4. /\ DOMAIN staged'[n] = DOMAIN staged[n] \cup {row[n].key}
      /\ \A k \in DOMAIN staged[n] : k # row[n].key => staged'[n][k] = staged[n][k]
      /\ staged'[n][row[n].key] = Upserted(n, row[n].hits)
  BY <1>2 DEF With
<1>5. row[n].key \in Keys /\ IsStat(Upserted(n, row[n].hits))
  BY <1>1, <1>2 DEF WorkerOK, IsStat, Upserted
<1>6. DOMAIN staged'[n] \in SUBSET Keys /\ \A k \in DOMAIN staged'[n] : IsStat(staged'[n][k])
  BY <1>1, <1>4, <1>5 DEF WorkerOK
<1>7. WorkerOK(n)' BY <1>1, <1>2, <1>6 DEF WorkerOK
<1> QED BY <1>2, <1>3, <1>4, <1>7 DEF UpsertEffect

BreakEffect(n) ==
  /\ Alone(n) /\ WorkerOK(n)' /\ UNCHANGED <<stats, served>>
  /\ pc[n] = "scan" /\ pc'[n] = "scan"
  /\ now'[n] = now[n] /\ bucket'[n] = bucket[n] /\ fresh'[n] = FALSE
  /\ found'[n] = <<>> /\ staged'[n] = staged[n]

LEMMA BreakStep == ASSUME TypeOK, NEW n \in Nodes, RowsBreak(n) PROVE BreakEffect(n)
<1>1. Shared /\ Tables /\ WorkerOK(n) BY TypeParts
<1>2. /\ pc[n] = "scan" /\ found'[n] = <<>> /\ fresh'[n] = FALSE
      /\ UNCHANGED <<hour, log, open, stats, up, pc, now, bucket, row, queue, staged, served>>
  BY <1>1 DEF RowsBreak, Tables, IsTable
<1>3. Alone(n) BY <1>1, <1>2 DEF RowsBreak, Alone, Tables, IsTable
<1>4. WorkerOK(n)' BY <1>1, <1>2, EmptyCounts DEF WorkerOK
<1> QED BY <1>2, <1>3, <1>4 DEF BreakEffect

LeaveEffect(n, ok) ==
  /\ Alone(n) /\ WorkerOK(n)'
  /\ found'[n] = <<>> /\ staged'[n] = <<>>
  /\ \/ /\ bucket[n] = now[n] /\ pc'[n] = "wait" /\ fresh'[n] = FALSE
        /\ served' = IF ok /\ fresh[n] THEN served \cup {n} ELSE served
     \/ /\ bucket[n] # now[n] /\ pc'[n] = "query" /\ fresh'[n] = (fresh[n] /\ ok)
        /\ now'[n] = now[n] /\ bucket'[n] = now[n]
        /\ served' = served

LEMMA LeaveStep ==
  ASSUME TypeOK, NEW n \in Nodes, NEW ok \in BOOLEAN, Leave(n, ok) PROVE LeaveEffect(n, ok)
<1>1. Shared /\ Tables /\ WorkerOK(n) BY TypeParts
<1>2. /\ found'[n] = <<>> /\ staged'[n] = <<>> /\ UNCHANGED <<hour, log, open, up>>
  BY <1>1 DEF Leave, Tables, IsTable
<1>3. 0 \in Hours /\ 0 \in -1..LastHour BY Constants DEF Hours
<1>4. now[n] \in Int /\ bucket[n] \in Int BY <1>1, Constants DEF WorkerOK, Hours
<1>5. CASE bucket[n] = now[n]
  <2>1. /\ pc'[n] = "wait" /\ fresh'[n] = FALSE /\ now'[n] = 0 /\ bucket'[n] = 0
        /\ served' = IF ok /\ fresh[n] THEN served \cup {n} ELSE served
    BY <1>1, <1>5 DEF Leave, Tables, IsTable
  <2>2. Alone(n) BY <1>1, <1>2, <1>5 DEF Leave, Alone, Tables, IsTable
  <2>3. IsCounts(found'[n], Keys) BY <1>2, EmptyCounts
  <2>4. /\ now'[n] \in Hours /\ bucket'[n] \in -1..LastHour
        /\ bucket'[n] \in {now'[n] - 1, now'[n]} /\ bucket'[n] = now'[n]
        /\ fresh'[n] \in BOOLEAN
    BY <1>3, <2>1
  <2>5. WorkerOK(n)' BY <1>2, <2>1, <2>3, <2>4 DEF WorkerOK
  <2> QED BY <1>2, <1>5, <2>1, <2>2, <2>5 DEF LeaveEffect
<1>6. CASE bucket[n] # now[n]
  <2>1. bucket[n] + 1 = now[n] BY <1>1, <1>4, <1>6 DEF WorkerOK
  <2>2. /\ pc'[n] = "query" /\ fresh'[n] = (fresh[n] /\ ok) /\ now'[n] = now[n]
        /\ bucket'[n] = now[n] /\ served' = served
    BY <1>1, <1>6, <2>1 DEF Leave, Tables, IsTable
  <2>3. Alone(n) BY <1>1, <1>2, <1>6 DEF Leave, Alone, Tables, IsTable
  <2>4. now[n] \in -1..LastHour /\ fresh'[n] \in BOOLEAN
    BY <1>1, <2>2, Constants DEF WorkerOK, Hours
  <2>5. WorkerOK(n)' BY <1>1, <1>2, <2>2, <2>4, EmptyCounts DEF WorkerOK
  <2> QED BY <1>2, <1>6, <2>2, <2>3, <2>5 DEF LeaveEffect
<1> QED BY <1>5, <1>6

CommitEffect(n) ==
  /\ LeaveEffect(n, TRUE) /\ UNCHANGED spent
  /\ pc[n] = "scan" /\ found[n] = <<>>
  /\ stats' = [k \in Keys |-> IF k \in DOMAIN staged[n] THEN staged[n][k] ELSE stats[k]]

LEMMA CommitStep == ASSUME TypeOK, NEW n \in Nodes, Commit(n) PROVE CommitEffect(n)
BY LeaveStep DEF Commit, CommitEffect

AbortEffect(n) == LeaveEffect(n, FALSE) /\ UNCHANGED stats /\ pc[n] # "wait"

\* Who is in a deadlock holds a row, so it is in a transaction.
LEMMA AbortStep ==
  ASSUME TypeOK, NEW n \in Nodes, DeadlockAborts(n) \/ RollupFails(n) PROVE AbortEffect(n)
<1>1. WorkerOK(n) BY TypeParts
<1>2. CASE DeadlockAborts(n)
  <2>1. PICK x \in Nodes : Waits(x, n) BY <1>2 DEF DeadlockAborts, Deadlocked
  <2>2. DOMAIN staged[n] # {} BY <2>1 DEF Waits, Locks
  <2>3. staged[n] # <<>> BY <2>2
  <2>4. pc[n] # "wait" BY <1>1, <2>3 DEF WorkerOK
  <2> QED BY <1>2, <2>4, LeaveStep DEF DeadlockAborts, AbortEffect
<1>3. CASE RollupFails(n)
  BY <1>3, LeaveStep DEF RollupFails, AbortEffect
<1> QED BY <1>2, <1>3

\* One worker's step.
WorkEffect(n) ==
  \/ StartEffect(n) \/ QueryEffect(n) \/ ScanEffect(n) \/ UpsertEffect(n) \/ BreakEffect(n)
  \/ CommitEffect(n) \/ AbortEffect(n)

\* Nothing but the queue and the counter of faults changes.
Still == UNCHANGED <<hour, log, open, stats, up, pc, now, bucket, found, row, staged, fresh, served>>

\* A transaction of the log begins.
BeginEffect(n) ==
  /\ UNCHANGED <<hour, log, stats, up, pc, now, bucket, found, row, staged, fresh, served, spent>>
  /\ n \in up
  /\ \E d \in Domains, p \in Paths : open' = [open EXCEPT ![n] = {<<d, hour, p>>}]

\* A transaction of the log commits: some count of its hour grows.
LogEffect(n) ==
  /\ UNCHANGED <<hour, stats, up, pc, now, bucket, found, row, staged, fresh, served, spent>>
  /\ open' = [open EXCEPT ![n] = {}]
  /\ log' \in [Keys -> [Paths -> Nat]]
  /\ \A k \in Keys : Total(log[k]) <= Total(log'[k])
  /\ \E r \in open[n] : \A k \in Keys : k[2] # r[2] => log'[k] = log[k]

TickEffect ==
  /\ UNCHANGED <<log, open, stats, up, pc, now, bucket, found, row, staged, spent>>
  /\ hour' = hour + 1 /\ hour' \in Hours /\ Timely
  /\ fresh' = [n \in Nodes |-> FALSE] /\ served' = {}

CrashEffect(n) ==
  /\ UNCHANGED <<hour, log, stats>>
  /\ n \in up /\ up' = up \ {n} /\ open' = [open EXCEPT ![n] = {}]
  /\ pc'[n] = "wait" /\ found'[n] = <<>> /\ staged'[n] = <<>>
  /\ Tables' /\ WorkerOK(n)'
  /\ \A m \in Nodes : m # n =>
       /\ pc'[m] = pc[m] /\ now'[m] = now[m] /\ bucket'[m] = bucket[m]
       /\ found'[m] = found[m] /\ row'[m] = row[m] /\ staged'[m] = staged[m]
  /\ fresh' = [m \in Nodes |-> FALSE] /\ served' = {}
  /\ spent' = spent + 1

RestartEffect(n) ==
  /\ UNCHANGED <<hour, log, open, stats, pc, now, bucket, found, row, staged, fresh, served, spent>>
  /\ n \notin up /\ up' = up \cup {n}

\* A row is one more hit of its domain in its hour.
LEMMA OneRow ==
  ASSUME TypeOK, NEW n \in Nodes, CommitLog(n)
  PROVE  /\ log' \in [Keys -> [Paths -> Nat]]
         /\ \E r \in open[n] : \E k \in Keys :
              /\ k[2] = r[2]
              /\ \A j \in Keys \ {k} : log'[j] = log[j]
              /\ Total(log'[k]) = Total(log[k]) + 1 /\ Total(log[k]) \in Nat
<1>1. PICK r \in open[n] : log' = [log EXCEPT ![<<r[1], r[2]>>][r[3]] = @ + 1]
  BY DEF CommitLog
<1> DEFINE k == <<r[1], r[2]>>
<1>2. r \in Domains \X Hours \X Paths BY <1>1 DEF TypeOK
<1>3. k \in Keys /\ k[2] = r[2] /\ r[3] \in Paths BY <1>2 DEF Keys
<1>4. log[k] \in [Paths -> Nat] BY <1>3 DEF TypeOK
<1> DEFINE f == log[k]
           x == r[3]
           v == f[x] + 1
<1>5. f[x] \in Nat /\ v \in Nat BY <1>3, <1>4
<1>6. log' = [log EXCEPT ![k] = [f EXCEPT ![x] = v]] BY <1>1
<1>7. log' \in [Keys -> [Paths -> Nat]] /\ log'[k] = [f EXCEPT ![x] = v]
      /\ \A j \in Keys \ {k} : log'[j] = log[j]
  BY <1>3, <1>4, <1>5, <1>6 DEF TypeOK
<1>8. Total(f) \in Nat /\ Total([f EXCEPT ![x] = v]) = Total(f) + 1
  <2>1. v = f[x] + 1 OBVIOUS
  <2> HIDE DEF f, x, v
  <2>2. Total(f) \in Nat BY <1>4, Constants, TotalType DEF f
  <2>3. Total([f EXCEPT ![x] = v]) = Total(f) - f[x] + v
    BY <1>3, <1>4, <1>5, Constants, TotalUpdate DEF f, x
  <2> QED BY <1>5, <2>1, <2>2, <2>3
<1> HIDE DEF k, v, x
<1> QED BY <1>1, <1>3, <1>7, <1>8

LEMMA LogStep == ASSUME TypeOK, NEW n \in Nodes, CommitLog(n) PROVE LogEffect(n)
<1>1. PICK r \in open[n], k \in Keys :
        /\ k[2] = r[2]
        /\ \A j \in Keys \ {k} : log'[j] = log[j]
        /\ Total(log'[k]) = Total(log[k]) + 1 /\ Total(log[k]) \in Nat
  BY OneRow
<1>2. \A j \in Keys : Total(log[j]) \in Nat BY HitsType DEF Hits
<1>3. \A j \in Keys : Total(log[j]) <= Total(log'[j]) BY <1>1, <1>2
<1>4. \A j \in Keys : j[2] # r[2] => log'[j] = log[j] BY <1>1
<1> QED BY <1>3, <1>4, OneRow DEF CommitLog, LogEffect, workerVars

LEMMA CrashStep == ASSUME TypeOK, NEW n \in Nodes, Crash(n) PROVE CrashEffect(n)
<1>1. Shared /\ Tables /\ WorkerOK(n) BY TypeParts
<1>2. 0 \in Hours /\ 0 \in -1..LastHour BY Constants DEF Hours
<1>3. Tables' BY <1>1 DEF Crash, Tables, IsTable
<1>4. /\ pc'[n] = "wait" /\ found'[n] = <<>> /\ staged'[n] = <<>>
      /\ now'[n] = 0 /\ bucket'[n] = 0 /\ fresh'[n] = FALSE
  BY <1>1 DEF Crash, Tables, IsTable
<1>5. /\ now'[n] \in Hours /\ bucket'[n] \in -1..LastHour
      /\ bucket'[n] \in {now'[n] - 1, now'[n]} /\ bucket'[n] = now'[n]
      /\ fresh'[n] \in BOOLEAN
  BY <1>2, <1>4
<1>6. IsCounts(found'[n], Keys) BY <1>4, EmptyCounts
<1>7. WorkerOK(n)' BY <1>4, <1>5, <1>6 DEF WorkerOK
<1>8. \A m \in Nodes : m # n =>
       /\ pc'[m] = pc[m] /\ now'[m] = now[m] /\ bucket'[m] = bucket[m]
       /\ found'[m] = found[m] /\ row'[m] = row[m] /\ staged'[m] = staged[m]
  BY <1>1 DEF Crash, Tables, IsTable
<1> QED BY <1>3, <1>4, <1>7, <1>8 DEF Crash, CrashEffect, Spend

\* What a step may do.
Effects ==
  \/ Still \/ TickEffect
  \/ \E n \in Nodes : WorkEffect(n) \/ BeginEffect(n) \/ LogEffect(n) \/ CrashEffect(n)
                      \/ RestartEffect(n)

LEMMA StepEffects == ASSUME TypeOK, [Next]_vars PROVE Effects
<1>1. CASE UNCHANGED vars BY <1>1 DEF vars, workerVars, Effects, Still
<1>2. ASSUME NEW n \in Nodes, NEW d \in Domains, NEW p \in Paths, BeginLog(n, d, p) PROVE Effects
  BY <1>2 DEF BeginLog, BeginEffect, workerVars, Effects
<1>3. ASSUME NEW n \in Nodes, CommitLog(n) PROVE Effects
  BY <1>3, LogStep DEF Effects
<1>4. ASSUME NEW n \in Nodes, StartCycle(n) \/ Query(n) \/ ReadPaths(n) \/ PathsFail(n) PROVE Effects
  BY <1>4, StartStep, QueryStep, ScanStep DEF Effects, WorkEffect
<1>5. ASSUME NEW n \in Nodes, Block(n) PROVE Effects
  BY <1>5 DEF Block, Effects, Still
<1>6. ASSUME NEW n \in Nodes, Upsert(n) \/ Commit(n) \/ DeadlockAborts(n) PROVE Effects
  BY <1>6, UpsertStep, CommitStep, AbortStep DEF Effects, WorkEffect
<1>7. ASSUME NEW n \in Nodes, RowsBreak(n) \/ RollupFails(n) PROVE Effects
  BY <1>7, BreakStep, AbortStep DEF Effects, WorkEffect
<1>8. ASSUME NEW n \in Nodes, Crash(n) PROVE Effects
  BY <1>8, CrashStep DEF Effects
<1>9. ASSUME NEW n \in Nodes, Restart(n) PROVE Effects
  BY <1>9 DEF Restart, RestartEffect, workerVars, Effects
<1>10. CASE Tick
  <2>1. hour + 1 \in Hours BY <1>10, Constants DEF Tick, TypeOK, Hours
  <2> QED BY <1>10, <2>1 DEF Tick, TickEffect, Effects
<1> QED BY <1>1, <1>2, <1>3, <1>4, <1>5, <1>6, <1>7, <1>8, <1>9, <1>10 DEF Next, Work

LEMMA SpentStep == ASSUME spent \in Nat, [Next]_vars PROVE spent' \in Nat
<1>1. \A k : Spend(k) => spent' \in Nat BY DEF Spend
<1>2. CASE UNCHANGED vars BY <1>2 DEF vars
<1>3. ASSUME NEW n \in Nodes, NEW d \in Domains, NEW p \in Paths, BeginLog(n, d, p)
      PROVE  spent' \in Nat
  BY <1>3 DEF BeginLog
<1>4. ASSUME NEW n \in Nodes, CommitLog(n) \/ Work(n) \/ Restart(n) PROVE spent' \in Nat
  BY <1>4 DEF CommitLog, Work, StartCycle, Query, ReadPaths, Block, Upsert, Commit,
              DeadlockAborts, Restart
<1>5. ASSUME NEW n \in Nodes, PathsFail(n) \/ RowsBreak(n) \/ RollupFails(n) \/ Crash(n)
      PROVE  spent' \in Nat
  BY <1>1, <1>5 DEF PathsFail, RowsBreak, RollupFails, Crash
<1>6. CASE Tick BY <1>6 DEF Tick
<1> QED BY <1>2, <1>3, <1>4, <1>5, <1>6 DEF Next

\* Only a running node works.
Alive == \A n \in Nodes : pc[n] # "wait" => n \in up

TypeInv == TypeOK /\ Alive

\* The table that a commit leaves is well formed.
LEMMA StatsType ==
  ASSUME TypeOK, NEW n \in Nodes, CommitEffect(n)
  PROVE  DOMAIN stats' = Keys /\ \A k \in Keys : IsStat(stats'[k])
<1>1. Shared /\ WorkerOK(n) BY TypeParts
<1>2. \A k \in DOMAIN staged[n] : IsStat(staged[n][k]) BY <1>1 DEF WorkerOK
<1>3. \A k \in Keys : IsStat(stats[k]) BY <1>1 DEF Shared
<1> QED BY <1>2, <1>3 DEF CommitEffect

LEMMA WorkType == ASSUME TypeInv, NEW n \in Nodes, WorkEffect(n), spent' \in Nat PROVE TypeInv'
<1>1. Shared /\ Tables /\ \A m \in Nodes : WorkerOK(m) BY TypeParts DEF TypeInv
<1>2. Alone(n) /\ WorkerOK(n)'
  BY DEF WorkEffect, StartEffect, QueryEffect, ScanEffect, UpsertEffect, BreakEffect,
         CommitEffect, AbortEffect, LeaveEffect
<1>3. \A m \in Nodes : WorkerOK(m)' BY <1>1, <1>2 DEF Alone, WorkerOK
<1>4. pc[n] # "wait" \/ StartEffect(n)
  BY DEF WorkEffect, QueryEffect, ScanEffect, UpsertEffect, BreakEffect, CommitEffect, AbortEffect
<1>5. n \in up BY <1>4 DEF TypeInv, Alive, StartEffect
<1>6. up' = up BY <1>2 DEF Alone
<1>7. Alive' BY <1>2, <1>5, <1>6 DEF TypeInv, Alive, Alone
<1>8. served' \subseteq up'
  BY <1>1, <1>5, <1>6 DEF Shared, WorkEffect, StartEffect, QueryEffect, ScanEffect, UpsertEffect,
         BreakEffect, CommitEffect, AbortEffect, LeaveEffect
<1>9. DOMAIN stats' = Keys /\ \A k \in Keys : IsStat(stats'[k])
  <2>1. CASE CommitEffect(n) BY <2>1, StatsType DEF TypeInv
  <2>2. CASE ~CommitEffect(n)
    <3>1. stats' = stats
      BY <2>2 DEF WorkEffect, StartEffect, QueryEffect, ScanEffect, UpsertEffect,
             BreakEffect, AbortEffect
    <3> QED BY <1>1, <3>1 DEF Shared
  <2> QED BY <2>1, <2>2
<1>10. Shared' BY <1>1, <1>2, <1>8, <1>9 DEF Shared, Alone
<1>11. TypeOK' BY <1>2, <1>3, <1>10, TypePartsNext DEF Alone
<1> QED BY <1>7, <1>11 DEF TypeInv

LEMMA TypeNext == ASSUME TypeInv, [Next]_vars PROVE TypeInv'
<1>1. Effects /\ spent' \in Nat BY StepEffects, SpentStep DEF TypeInv, TypeOK
<1>2. Shared /\ Tables /\ (\A m \in Nodes : WorkerOK(m)) /\ Alive BY TypeParts DEF TypeInv
<1>3. CASE Still
  <2>1. Shared' /\ Tables' /\ (\A m \in Nodes : WorkerOK(m)') /\ Alive'
    BY <1>1, <1>2, <1>3 DEF Still, Shared, Tables, WorkerOK, Alive
  <2> QED BY <2>1, TypePartsNext DEF TypeInv
<1>4. CASE TickEffect
  <2>1. Shared' BY <1>2, <1>4 DEF TickEffect, Shared
  <2>2. Tables' /\ Alive' BY <1>2, <1>4 DEF TickEffect, Tables, IsTable, Alive
  <2>3. \A m \in Nodes : WorkerOK(m)' BY <1>2, <1>4 DEF TickEffect, WorkerOK
  <2> QED BY <2>1, <2>2, <2>3, TypePartsNext DEF TypeInv
<1>5. ASSUME NEW n \in Nodes, WorkEffect(n) PROVE TypeInv' BY <1>1, <1>5, WorkType
<1>6. ASSUME NEW n \in Nodes, BeginEffect(n) PROVE TypeInv'
  <2>1. PICK d \in Domains, p \in Paths : open' = [open EXCEPT ![n] = {<<d, hour, p>>}]
    BY <1>6 DEF BeginEffect
  <2>2. <<d, hour, p>> \in Domains \X Hours \X Paths BY <1>2 DEF Shared
  <2>3. Shared' BY <1>2, <1>6, <2>1, <2>2 DEF BeginEffect, Shared
  <2>4. Tables' /\ (\A m \in Nodes : WorkerOK(m)') /\ Alive'
    BY <1>2, <1>6 DEF BeginEffect, Tables, WorkerOK, Alive
  <2> QED BY <2>3, <2>4, TypePartsNext DEF TypeInv
<1>7. ASSUME NEW n \in Nodes, LogEffect(n) PROVE TypeInv'
  <2>1. Shared' BY <1>2, <1>7 DEF LogEffect, Shared
  <2>2. Tables' /\ (\A m \in Nodes : WorkerOK(m)') /\ Alive'
    BY <1>2, <1>7 DEF LogEffect, Tables, WorkerOK, Alive
  <2> QED BY <2>1, <2>2, TypePartsNext DEF TypeInv
<1>8. ASSUME NEW n \in Nodes, CrashEffect(n) PROVE TypeInv'
  <2>1. Shared' BY <1>1, <1>2, <1>8 DEF CrashEffect, Shared
  <2>2. \A m \in Nodes : WorkerOK(m)' BY <1>2, <1>8 DEF CrashEffect, WorkerOK
  <2>3. Tables' /\ Alive' BY <1>2, <1>8 DEF CrashEffect, Alive
  <2> QED BY <2>1, <2>2, <2>3, TypePartsNext DEF TypeInv
<1>9. ASSUME NEW n \in Nodes, RestartEffect(n) PROVE TypeInv'
  <2>1. Shared' BY <1>2, <1>9 DEF RestartEffect, Shared
  <2>2. Tables' /\ (\A m \in Nodes : WorkerOK(m)') /\ Alive'
    BY <1>2, <1>9 DEF RestartEffect, Tables, WorkerOK, Alive
  <2> QED BY <2>1, <2>2, TypePartsNext DEF TypeInv
<1> QED BY <1>1, <1>3, <1>4, <1>5, <1>6, <1>7, <1>8, <1>9 DEF Effects

LEMMA TypeInvariant == Spec => []TypeInv
<1>1. Init => TypeInv BY TypeInit DEF TypeInv, Init, Alive
<1> QED BY <1>1, TypeNext, PTL DEF Spec

\* Every variable keeps its type, and with it the shape of the rollup's cycle: an
\* hour before the one the cycle began in or that one, results only in a transaction.
THEOREM TypeCorrect == Spec => []TypeOK
BY TypeInvariant, PTL DEF TypeInv

-----------------------------------------------------------------------------
(* The counts a worker carries: what it found, what it is about to upsert and *)
(* what it has upserted.                                                      *)

Within(counts, rows, r, holds, S) ==
  /\ \A k \in DOMAIN counts : <<k, counts[k]>> \in S
  /\ \A k \in DOMAIN rows : <<k, rows[k].hits>> \in S
  /\ holds => <<r.key, r.hits>> \in S

\* A worker gets counts from the log only.
LEMMA WithinStep ==
  ASSUME TypeOK, NEW n \in Nodes, WorkEffect(n), NEW S,
         Within(found[n], staged[n], row[n], pc[n] = "upsert", S),
         pc[n] = "query" => \A k \in Seen(n) : <<k, Hits(k)>> \in S
  PROVE  Within(found'[n], staged'[n], row'[n], pc'[n] = "upsert", S)
<1> DEFINE Goal == Within(found'[n], staged'[n], row'[n], pc'[n] = "upsert", S)
<1>1. CASE StartEffect(n) BY <1>1 DEF StartEffect, Within
<1>2. CASE QueryEffect(n) BY <1>2 DEF QueryEffect, Within
<1>3. CASE ScanEffect(n)
  <2>1. PICK k \in DOMAIN found[n] :
       /\ row'[n].key = k /\ row'[n].hits = found[n][k]
       /\ DOMAIN found'[n] = DOMAIN found[n] \ {k}
       /\ \A j \in DOMAIN found'[n] : found'[n][j] = found[n][j]
    BY <1>3 DEF ScanEffect
  <2> QED BY <1>3, <2>1 DEF ScanEffect, Within
<1>4. CASE UpsertEffect(n)
  <2>1. Upserted(n, row[n].hits).hits = row[n].hits BY DEF Upserted
  <2> QED BY <1>4, <2>1 DEF UpsertEffect, Within
<1>5. CASE BreakEffect(n) BY <1>5 DEF BreakEffect, Within
<1>6. CASE CommitEffect(n) \/ AbortEffect(n)
  <2>1. found'[n] = <<>> /\ staged'[n] = <<>> /\ pc'[n] # "upsert"
    BY <1>6 DEF CommitEffect, AbortEffect, LeaveEffect
  <2> QED BY <2>1 DEF Within
<1> QED BY <1>1, <1>2, <1>3, <1>4, <1>5, <1>6 DEF WorkEffect

\* A commit brings the statistics what the worker upserted.
LEMMA StatsStep ==
  ASSUME TypeOK, NEW n \in Nodes, WorkEffect(n), NEW k \in Keys, stats'[k] # stats[k]
  PROVE  /\ CommitEffect(n) /\ k \in DOMAIN staged[n] /\ stats'[k] = staged[n][k]
         /\ found[n] = <<>> /\ pc[n] = "scan"
BY DEF WorkEffect, StartEffect, QueryEffect, ScanEffect, UpsertEffect, BreakEffect, AbortEffect,
       CommitEffect

-----------------------------------------------------------------------------
(* Nobody counts more than was logged. *)

AtMost(counts) == {c \in Keys \X Nat : c[2] <= Total(counts[c[1]])}

Under == \A n \in Nodes : Within(found[n], staged[n], row[n], pc[n] = "upsert", AtMost(log))

CountInv == TypeInv /\ Under /\ NeverOvercounts

LEMMA CountInit == Init => Under /\ NeverOvercounts
<1> SUFFICES ASSUME Init PROVE Under /\ NeverOvercounts OBVIOUS
<1>1. TypeOK BY TypeInit
<1>2. \A n \in Nodes : DOMAIN found[n] = {} /\ DOMAIN staged[n] = {} /\ pc[n] = "wait"
  BY DEF Init
<1>3. Under BY <1>2 DEF Under, Within
<1>4. \A k \in Keys : Hits(k) \in Nat /\ stats[k].hits = 0 BY <1>1, HitsType DEF Init, NoStats
<1> QED BY <1>3, <1>4 DEF NeverOvercounts

LEMMA WithinMonotone ==
  ASSUME NEW f, NEW s, NEW r, NEW h, NEW S, NEW T, S \subseteq T, Within(f, s, r, h, S)
  PROVE  Within(f, s, r, h, T)
BY DEF Within

LEMMA CountNext == ASSUME CountInv, [Next]_vars PROVE CountInv'
<1>1. Effects /\ TypeOK BY StepEffects DEF CountInv, TypeInv
<1>2. TypeInv' BY TypeNext DEF CountInv
<1> USE <1>1 DEF CountInv
<1>3. CASE Still \/ TickEffect \/ \E n \in Nodes : BeginEffect(n) \/ RestartEffect(n)
  <2>1. UNCHANGED <<log, stats, found, staged, row, pc>>
    BY <1>3 DEF Still, TickEffect, BeginEffect, RestartEffect
  <2> QED BY <1>2, <2>1 DEF Under, NeverOvercounts, Hits
<1>4. ASSUME NEW n \in Nodes, WorkEffect(n) PROVE CountInv'
  <2>1. Alone(n)
    BY <1>4 DEF WorkEffect, StartEffect, QueryEffect, ScanEffect, UpsertEffect, BreakEffect,
           CommitEffect, AbortEffect, LeaveEffect
  <2>2. \A k \in Seen(n) : <<k, Hits(k)>> \in AtMost(log)
    BY HitsType DEF AtMost, Seen, Hits
  <2>3. Within(found'[n], staged'[n], row'[n], pc'[n] = "upsert", AtMost(log))
    BY <1>4, <2>2, WithinStep DEF Under
  <2>4. Under' BY <2>1, <2>3 DEF Under, Alone
  <2>5. \A k \in Keys : stats'[k].hits <= Hits(k)
    <3> SUFFICES ASSUME NEW k \in Keys PROVE stats'[k].hits <= Hits(k) OBVIOUS
    <3>1. CASE stats'[k] = stats[k] BY <3>1 DEF NeverOvercounts
    <3>2. CASE stats'[k] # stats[k]
      <4>1. k \in DOMAIN staged[n] /\ stats'[k] = staged[n][k] BY <1>4, <3>2, StatsStep
      <4>2. <<k, staged[n][k].hits>> \in AtMost(log) BY <4>1 DEF Under, Within
      <4> QED BY <4>1, <4>2 DEF AtMost, Hits
    <3> QED BY <3>1, <3>2
  <2>6. NeverOvercounts' BY <2>1, <2>5 DEF NeverOvercounts, Alone, Hits
  <2> QED BY <1>2, <2>4, <2>6
<1>5. ASSUME NEW n \in Nodes, LogEffect(n) PROVE CountInv'
  <2>1. UNCHANGED <<stats, found, staged, row, pc>> BY <1>5 DEF LogEffect
  <2>2. \A k \in Keys : Total(log[k]) <= Total(log'[k]) BY <1>5 DEF LogEffect
  <2>3. \A k \in Keys : Total(log[k]) \in Nat /\ Total(log'[k]) \in Nat
    <3>1. \A k \in Keys : Hits(k) \in Nat BY HitsType
    <3>2. \A k \in Keys : log'[k] \in [Paths -> Nat] BY <1>5 DEF LogEffect
    <3> QED BY <3>1, <3>2, Constants, TotalType DEF Hits
  <2>4. AtMost(log) \subseteq AtMost(log') BY <2>2, <2>3 DEF AtMost
  <2>5. Under' BY <2>1, <2>4, WithinMonotone DEF Under
  <2>6. \A k \in Keys : stats[k].hits \in Nat BY TypeParts DEF Shared, IsStat
  <2>7. NeverOvercounts' BY <2>1, <2>2, <2>3, <2>6 DEF NeverOvercounts, Hits
  <2> QED BY <1>2, <2>5, <2>7
<1>6. ASSUME NEW n \in Nodes, CrashEffect(n) PROVE CountInv'
  <2>1. UNCHANGED <<log, stats>> /\ DOMAIN found'[n] = {} /\ DOMAIN staged'[n] = {} /\ pc'[n] = "wait"
    BY <1>6 DEF CrashEffect
  <2>2. Within(found'[n], staged'[n], row'[n], pc'[n] = "upsert", AtMost(log))
    BY <2>1 DEF Within
  <2>3. Under' BY <1>6, <2>1, <2>2 DEF Under, CrashEffect
  <2>4. NeverOvercounts' BY <2>1 DEF NeverOvercounts, Hits
  <2> QED BY <1>2, <2>3, <2>4
<1> QED BY <1>1, <1>3, <1>4, <1>5, <1>6 DEF Effects

LEMMA CountInvariant == Spec => []CountInv
<1>1. Init => CountInv BY CountInit, TypeInit DEF CountInv, TypeInv, Init, Alive
<1> QED BY <1>1, CountNext, PTL DEF Spec

\* Whatever the number of nodes that roll up the same hour, and whatever fails,
\* no statistics exceed the log.
THEOREM NeverOvercountsAlways == Spec => []NeverOvercounts
BY CountInvariant, PTL DEF CountInv

-----------------------------------------------------------------------------
(* The paths of a row were counted after its hits. *)

Covers(r) == r.read /\ Cardinality(Paths) <= TopPaths => Total(r.paths) >= r.hits

RowsCovered ==
  \A n \in Nodes : /\ \A k \in DOMAIN staged[n] : Covers(staged[n][k])
                   /\ pc[n] = "upsert" => Covers(row[n])

CoverInv == CountInv /\ RowsCovered /\ PathsCoverHits

\* Where no path is left out, the top paths have all the hits.
LEMMA TopTotal ==
  ASSUME NEW f \in [Paths -> Nat], NEW top \in TopOf(f), Cardinality(Paths) <= TopPaths
  PROVE  Total(top) = Total(f)
<1> DEFINE used == {p \in Paths : f[p] > 0}
<1>1. /\ IsFiniteSet(used) /\ Cardinality(used) \in Nat
      /\ Cardinality(used) <= Cardinality(Paths) /\ Cardinality(Paths) \in Nat
  BY Constants, FS_Subset, FS_CardinalityType
<1> DEFINE size == IF Cardinality(used) < TopPaths THEN Cardinality(used) ELSE TopPaths
<1>2. size = Cardinality(used) BY <1>1, Constants
<1>3. PICK U \in kSubset(size, used) : top = Restrict(f, U)
  BY DOMAIN f = Paths DEF TopOf
<1>4. U \in SUBSET used /\ Cardinality(U) = Cardinality(used) BY <1>2, <1>3 DEF kSubset
<1>5. U = used
  <2> HIDE DEF used
  <2> QED BY <1>1, <1>4, FS_Subset
<1>6. \A p \in Paths \ used : f[p] = 0 OBVIOUS
<1>7. used \in SUBSET Paths OBVIOUS
<1>8. top = [p \in used |-> f[p]] BY <1>3, <1>5 DEF Restrict
<1> HIDE DEF used
<1>9. Total([p \in used |-> f[p]]) = Total(f) BY <1>6, <1>7, Constants, TotalRestrict
<1> QED BY <1>8, <1>9

LEMMA CoverNext == ASSUME CoverInv, [Next]_vars PROVE CoverInv'
<1>1. Effects /\ TypeOK BY StepEffects DEF CoverInv, CountInv, TypeInv
<1>2. CountInv' BY CountNext DEF CoverInv
<1> USE <1>1 DEF CoverInv
<1>3. CASE \/ Still \/ TickEffect
           \/ \E n \in Nodes : BeginEffect(n) \/ RestartEffect(n) \/ LogEffect(n)
  <2>1. UNCHANGED <<stats, staged, row, pc>>
    BY <1>3 DEF Still, TickEffect, BeginEffect, RestartEffect, LogEffect
  <2> QED BY <1>2, <2>1 DEF RowsCovered, PathsCoverHits
<1>4. ASSUME NEW n \in Nodes, WorkEffect(n) PROVE CoverInv'
  <2>1. Alone(n)
    BY <1>4 DEF WorkEffect, StartEffect, QueryEffect, ScanEffect, UpsertEffect, BreakEffect,
           CommitEffect, AbortEffect, LeaveEffect
  <2>2. /\ \A k \in DOMAIN staged'[n] : Covers(staged'[n][k])
        /\ pc'[n] = "upsert" => Covers(row'[n])
    <3>1. CASE StartEffect(n) \/ QueryEffect(n) \/ CommitEffect(n) \/ AbortEffect(n)
      BY <3>1 DEF StartEffect, QueryEffect, CommitEffect, AbortEffect, LeaveEffect
    <3>2. CASE ScanEffect(n)
      <4>1. PICK k \in DOMAIN found[n] :
           /\ row'[n].hits = found[n][k] /\ (row'[n].read => row'[n].paths \in TopOf(log[k]))
        BY <3>2 DEF ScanEffect
      <4>2. k \in Keys /\ found[n][k] <= Hits(k)
        <5>1. <<k, found[n][k]>> \in AtMost(log) BY DEF CountInv, Under, Within
        <5> QED BY <5>1 DEF AtMost, Hits
      <4>3. ASSUME row'[n].read, Cardinality(Paths) <= TopPaths
            PROVE  Total(row'[n].paths) >= row'[n].hits
        <5>1. log[k] \in [Paths -> Nat] BY <4>2 DEF TypeOK
        <5>2. Total(row'[n].paths) = Total(log[k]) BY <4>1, <4>3, <5>1, TopTotal
        <5>3. Hits(k) \in Nat /\ found[n][k] \in Nat
          BY <4>2, HitsType, TypeParts DEF WorkerOK, IsCounts
        <5> QED BY <4>1, <4>2, <5>2, <5>3 DEF Hits
      <4>4. Covers(row'[n]) BY <4>3 DEF Covers
      <4>5. staged'[n] = staged[n] BY <3>2 DEF ScanEffect
      <4> QED BY <4>4, <4>5 DEF RowsCovered
    <3>3. CASE UpsertEffect(n)
      <4>1. Covers(row[n]) BY <3>3 DEF UpsertEffect, RowsCovered
      <4>2. Covers(Upserted(n, row[n].hits)) BY <4>1 DEF Upserted, Covers
      <4> QED BY <3>3, <4>2 DEF UpsertEffect, RowsCovered
    <3>4. CASE BreakEffect(n)
      BY <3>4 DEF BreakEffect, RowsCovered
    <3> QED BY <1>4, <3>1, <3>2, <3>3, <3>4 DEF WorkEffect
  <2>3. RowsCovered' BY <2>1, <2>2 DEF RowsCovered, Alone
  <2>4. \A k \in Keys : Covers(stats'[k])
    <3> SUFFICES ASSUME NEW k \in Keys PROVE Covers(stats'[k]) OBVIOUS
    <3>1. CASE stats'[k] = stats[k] BY <3>1 DEF PathsCoverHits, Covers
    <3>2. CASE stats'[k] # stats[k]
      <4>1. k \in DOMAIN staged[n] /\ stats'[k] = staged[n][k] BY <1>4, <3>2, StatsStep
      <4> QED BY <4>1 DEF RowsCovered
    <3> QED BY <3>1, <3>2
  <2>5. PathsCoverHits' BY <2>4 DEF PathsCoverHits, Covers
  <2> QED BY <1>2, <2>3, <2>5
<1>5. ASSUME NEW n \in Nodes, CrashEffect(n) PROVE CoverInv'
  <2>1. stats' = stats /\ staged'[n] = <<>> /\ pc'[n] = "wait" BY <1>5 DEF CrashEffect
  <2>2. RowsCovered' BY <1>5, <2>1 DEF RowsCovered, CrashEffect
  <2>3. PathsCoverHits' BY <2>1 DEF PathsCoverHits
  <2> QED BY <1>2, <2>2, <2>3
<1> QED BY <1>1, <1>3, <1>4, <1>5 DEF Effects

LEMMA CoverInvariant == Spec => []CoverInv
<1>1. Init => CoverInv
  <2> SUFFICES ASSUME Init PROVE CoverInv OBVIOUS
  <2>1. CountInv BY CountInit, TypeInit DEF CountInv, TypeInv, Init, Alive
  <2>2. RowsCovered BY DEF Init, RowsCovered
  <2>3. PathsCoverHits BY DEF Init, PathsCoverHits, NoStats
  <2> QED BY <2>1, <2>2, <2>3 DEF CoverInv
<1> QED BY <1>1, CoverNext, PTL DEF Spec

\* The hits of a row and its paths are read by two queries with a snapshot each;
\* the paths, read later, account for all the hits where none is left out.
THEOREM PathsCoverHitsAlways == Spec => []PathsCoverHits
BY CoverInvariant, PTL DEF CoverInv

-----------------------------------------------------------------------------
(* Closed hours.  A cycle is fresh while it can see all the rows of earlier   *)
(* hours; a node is tied if its counts for the previous hour must be exact,   *)
(* and done once it has written them.                                         *)

Tied(n) == fresh[n] \/ n \in served
Done(n) == n \in served \/ (fresh[n] /\ bucket[n] = now[n])

FreshNow ==
  \A n \in Nodes : /\ fresh[n] => pc[n] # "wait" /\ now[n] = hour
                   /\ Tied(n) => AllLogged

Logged == \A n \in Nodes : \A r \in open[n] : r[2] \in {hour - 1, hour}

\* Counts that are exact, of hours that are over at hour h.
Exact(h, tied, counts) ==
  {c \in Keys \X Nat :
     c[1][2] <= h - 2 \/ (c[1][2] = h - 1 /\ tied) => c[2] = Total(counts[c[1]])}

ExactCounts ==
  \A n \in Nodes : Within(found[n], staged[n], row[n], pc[n] = "upsert",
                          Exact(hour, Tied(n), log))

\* What a worker has not lost: the keys it found.
Held(n) ==
  DOMAIN found[n] \cup DOMAIN staged[n] \cup {k \in Keys : pc[n] = "upsert" /\ k = row[n].key}

Complete ==
  \A n \in Nodes : fresh[n] /\ bucket[n] = hour - 1 /\ pc[n] \in {"scan", "upsert"} =>
    \A k \in Keys : k[2] = hour - 1 /\ Hits(k) > 0 => k \in Held(n)

LastDone ==
  up # {} /\ (\A n \in up : Done(n)) =>
    \A k \in Keys : k[2] = hour - 1 => stats[k].hits = Hits(k)

CloseInv ==
  /\ CountInv /\ FreshNow /\ Logged /\ ExactCounts /\ Complete /\ LastDone /\ ClosedHoursExact

LEMMA HourType == TypeOK => hour \in Nat /\ \A k \in Keys : k[2] \in Nat
BY Constants DEF TypeOK, Hours, Keys

LEMMA CloseInit == Init => CloseInv
<1> SUFFICES ASSUME Init PROVE CloseInv OBVIOUS
<1>1. CountInv BY CountInit, TypeInit DEF CountInv, TypeInv, Init, Alive
<1>2. FreshNow /\ Logged BY DEF Init, FreshNow, Logged, Tied
<1>3. ExactCounts
  <2>1. \A n \in Nodes : DOMAIN found[n] = {} /\ DOMAIN staged[n] = {} /\ pc[n] = "wait"
    BY DEF Init
  <2> QED BY <2>1 DEF ExactCounts, Within
<1>4. Complete BY DEF Init, Complete
<1>5. hour = 0 /\ \A k \in Keys : k[2] \in Nat BY Constants DEF Init, Keys, Hours
<1>6. LastDone /\ ClosedHoursExact BY <1>5 DEF LastDone, ClosedHoursExact
<1> QED BY <1>1, <1>2, <1>3, <1>4, <1>6 DEF CloseInv

\* A step of a worker changes nobody else's place.
LEMMA WorkAlone ==
  ASSUME TypeInv, NEW n \in Nodes, WorkEffect(n)
  PROVE  /\ Alone(n) /\ n \in up
         /\ \A m \in Nodes : m # n => (m \in served' <=> m \in served)
<1>1. Alone(n)
  BY DEF WorkEffect, StartEffect, QueryEffect, ScanEffect, UpsertEffect, BreakEffect,
         CommitEffect, AbortEffect, LeaveEffect
<1>2. n \in up
  BY DEF TypeInv, Alive, WorkEffect, StartEffect, QueryEffect, ScanEffect, UpsertEffect,
         BreakEffect, CommitEffect, AbortEffect
<1>3. \A m \in Nodes : m # n => (m \in served' <=> m \in served)
  BY DEF WorkEffect, StartEffect, QueryEffect, ScanEffect, UpsertEffect, BreakEffect,
         CommitEffect, AbortEffect, LeaveEffect
<1> QED BY <1>1, <1>2, <1>3

\* Only the start of a cycle ties a node.
LEMMA TiedStep ==
  ASSUME NEW n \in Nodes, WorkEffect(n), ~StartEffect(n), fresh'[n] \/ n \in served'
  PROVE  Tied(n)
<1>1. CASE QueryEffect(n) \/ ScanEffect(n) \/ UpsertEffect(n) \/ BreakEffect(n)
  BY <1>1 DEF QueryEffect, ScanEffect, UpsertEffect, BreakEffect, Tied
<1>2. CASE CommitEffect(n) \/ AbortEffect(n)
  BY <1>2 DEF CommitEffect, AbortEffect, LeaveEffect, Tied
<1> QED BY <1>1, <1>2 DEF WorkEffect

LEMMA WorkFresh ==
  ASSUME CloseInv, NEW n \in Nodes, WorkEffect(n)
  PROVE  FreshNow' /\ Logged'
<1>1. TypeInv BY DEF CloseInv, CountInv
<1>2. Alone(n) /\ \A m \in Nodes : m # n => (m \in served' <=> m \in served)
  BY <1>1, WorkAlone
<1>3. AllLogged' <=> AllLogged BY <1>2 DEF AllLogged, Alone
<1>4. fresh'[n] => pc'[n] # "wait" /\ now'[n] = hour
  <2>1. CASE StartEffect(n) BY <2>1 DEF StartEffect
  <2>2. CASE QueryEffect(n) \/ ScanEffect(n) \/ UpsertEffect(n) \/ BreakEffect(n)
    BY <2>2 DEF QueryEffect, ScanEffect, UpsertEffect, BreakEffect, CloseInv, FreshNow
  <2>3. CASE CommitEffect(n) \/ AbortEffect(n)
    BY <2>3 DEF CommitEffect, AbortEffect, LeaveEffect, CloseInv, FreshNow
  <2> QED BY <2>1, <2>2, <2>3 DEF WorkEffect
<1>5. fresh'[n] \/ n \in served' => AllLogged
  <2>1. CASE StartEffect(n) BY <2>1 DEF StartEffect, CloseInv, FreshNow, Tied
  <2>2. CASE ~StartEffect(n) BY <2>2, TiedStep DEF CloseInv, FreshNow
  <2> QED BY <2>1, <2>2
<1>6. FreshNow' BY <1>2, <1>3, <1>4, <1>5 DEF FreshNow, Tied, CloseInv, Alone
<1>7. Logged' BY <1>2 DEF Logged, CloseInv, Alone
<1> QED BY <1>6, <1>7

LEMMA WorkExact ==
  ASSUME CloseInv, NEW n \in Nodes, WorkEffect(n)
  PROVE  ExactCounts'
<1>1. TypeInv /\ TypeOK BY DEF CloseInv, CountInv, TypeInv
<1>2. Alone(n) /\ \A m \in Nodes : m # n => (m \in served' <=> m \in served)
  BY <1>1, WorkAlone
<1> DEFINE tied == fresh'[n] \/ n \in served'
<1>3. Within(found'[n], staged'[n], row'[n], pc'[n] = "upsert", Exact(hour, tied, log))
  <2>1. CASE StartEffect(n) BY <2>1 DEF StartEffect, Within
  <2>2. CASE ~StartEffect(n)
    <3>1. tied => Tied(n) BY <2>2, TiedStep
    <3>2. Exact(hour, Tied(n), log) \subseteq Exact(hour, tied, log)
      <4> HIDE DEF tied
      <4> QED BY <3>1 DEF Exact
    <3>3. Within(found[n], staged[n], row[n], pc[n] = "upsert", Exact(hour, tied, log))
      <4>1. Within(found[n], staged[n], row[n], pc[n] = "upsert", Exact(hour, Tied(n), log))
        BY DEF CloseInv, ExactCounts
      <4> HIDE DEF tied
      <4> QED BY <3>2, <4>1 DEF Within
    <3>4. \A k \in Seen(n) : <<k, Hits(k)>> \in Exact(hour, tied, log)
      <4> HIDE DEF tied
      <4> QED BY <1>1, HitsType DEF Seen, Exact, Hits
    <3> HIDE DEF tied
    <3> QED BY <1>1, <3>3, <3>4, WithinStep
  <2> QED BY <2>1, <2>2
<1>4. ASSUME NEW m \in Nodes, m # n
      PROVE  Within(found'[m], staged'[m], row'[m], pc'[m] = "upsert",
                    Exact(hour, fresh'[m] \/ m \in served', log))
  <2>1. Within(found[m], staged[m], row[m], pc[m] = "upsert",
               Exact(hour, fresh[m] \/ m \in served, log))
    BY DEF CloseInv, ExactCounts, Tied
  <2>2. (fresh'[m] \/ m \in served') <=> (fresh[m] \/ m \in served) BY <1>2, <1>4 DEF Alone
  <2>3. found'[m] = found[m] /\ staged'[m] = staged[m] /\ row'[m] = row[m] /\ pc'[m] = pc[m]
    BY <1>2, <1>4 DEF Alone
  <2>4. Exact(hour, fresh[m] \/ m \in served, log)
          \subseteq Exact(hour, fresh'[m] \/ m \in served', log)
    BY <2>2 DEF Exact
  <2> QED BY <2>1, <2>3, <2>4 DEF Within
<1>5. UNCHANGED <<hour, log>> BY <1>2 DEF Alone
<1> QED BY <1>3, <1>4, <1>5 DEF ExactCounts, Tied

LEMMA WorkComplete ==
  ASSUME CloseInv, NEW n \in Nodes, WorkEffect(n)
  PROVE  Complete'
<1>1. TypeInv /\ TypeOK BY DEF CloseInv, CountInv, TypeInv
<1>2. Alone(n) BY <1>1, WorkAlone
<1> DEFINE held == DOMAIN found'[n] \cup DOMAIN staged'[n]
                     \cup {k \in Keys : pc'[n] = "upsert" /\ k = row'[n].key}
<1>3. ASSUME fresh'[n], bucket'[n] = hour - 1, pc'[n] \in {"scan", "upsert"},
             NEW k \in Keys, k[2] = hour - 1, Hits(k) > 0
      PROVE  k \in held
  <2>1. CASE QueryEffect(n)
    BY <1>3, <2>1 DEF QueryEffect, Seen
  <2>2. CASE ScanEffect(n)
    <3>1. k \in Held(n) BY <1>3, <2>2 DEF ScanEffect, CloseInv, Complete
    <3>2. PICK j \in DOMAIN found[n] : row'[n].key = j /\ DOMAIN found'[n] = DOMAIN found[n] \ {j}
      BY <2>2 DEF ScanEffect
    <3> QED BY <2>2, <3>1, <3>2 DEF ScanEffect, Held
  <2>3. CASE UpsertEffect(n)
    <3>1. k \in Held(n) BY <1>3, <2>3 DEF UpsertEffect, CloseInv, Complete
    <3> QED BY <2>3, <3>1 DEF UpsertEffect, Held
  <2>4. CASE StartEffect(n) \/ BreakEffect(n) \/ CommitEffect(n) \/ AbortEffect(n)
    BY <1>3, <2>4 DEF StartEffect, BreakEffect, CommitEffect, AbortEffect, LeaveEffect
  <2> QED BY <2>1, <2>2, <2>3, <2>4 DEF WorkEffect
<1>4. UNCHANGED <<hour, log>> BY <1>2 DEF Alone
<1>5. ASSUME NEW m \in Nodes, fresh'[m], bucket'[m] = hour - 1, pc'[m] \in {"scan", "upsert"},
             NEW k \in Keys, k[2] = hour - 1, Total(log[k]) > 0
      PROVE  k \in DOMAIN found'[m] \cup DOMAIN staged'[m]
                      \cup {j \in Keys : pc'[m] = "upsert" /\ j = row'[m].key}
  <2>1. CASE m = n BY <1>3, <1>5, <2>1 DEF Hits
  <2>2. CASE m # n
    <3>1. k \in Held(m) BY <1>2, <1>5, <2>2 DEF Alone, CloseInv, Complete, Hits
    <3> QED BY <1>2, <2>2, <3>1 DEF Alone, Held
  <2> QED BY <2>1, <2>2
<1> QED BY <1>4, <1>5 DEF Complete, Held, Hits

\* The commit by which a node becomes done brings the previous hour.
LEMMA LastCommit ==
  ASSUME CloseInv, NEW n \in Nodes, CommitEffect(n), fresh[n], bucket[n] = hour - 1,
         NEW k \in Keys, k[2] = hour - 1
  PROVE  stats'[k].hits = Hits(k)
<1>1. TypeOK BY DEF CloseInv, CountInv, TypeInv
<1>2. pc[n] = "scan" /\ DOMAIN found[n] = {} BY DEF CommitEffect
<1>3. CASE k \in DOMAIN staged[n]
  <2>1. <<k, staged[n][k].hits>> \in Exact(hour, Tied(n), log)
    BY <1>3 DEF CloseInv, ExactCounts, Within
  <2>2. staged[n][k].hits = Hits(k) BY <2>1 DEF Exact, Tied, Hits
  <2> QED BY <1>3, <2>2 DEF CommitEffect
<1>4. CASE k \notin DOMAIN staged[n]
  <2>1. k \notin Held(n) BY <1>2, <1>4 DEF Held
  <2>2. ~(Hits(k) > 0) BY <1>2, <2>1 DEF CloseInv, Complete
  <2>3. Hits(k) = 0 BY <1>1, <2>2, HitsType
  <2>4. stats'[k] = stats[k] BY <1>4 DEF CommitEffect
  <2>5. stats[k].hits <= Hits(k) BY DEF CloseInv, CountInv, NeverOvercounts
  <2>6. stats[k].hits \in Nat BY <1>1, TypeParts DEF Shared, IsStat
  <2> QED BY <2>3, <2>4, <2>5, <2>6
<1> QED BY <1>3, <1>4

LEMMA WorkClosed ==
  ASSUME CloseInv, NEW n \in Nodes, WorkEffect(n)
  PROVE  LastDone' /\ ClosedHoursExact'
<1>1. TypeInv /\ TypeOK BY DEF CloseInv, CountInv, TypeInv
<1>2. Alone(n) /\ n \in up /\ \A m \in Nodes : m # n => (m \in served' <=> m \in served)
  BY <1>1, WorkAlone
<1>3. WorkerOK(n) /\ up \subseteq Nodes BY <1>1, TypeParts DEF Shared
<1>4. hour \in Nat BY <1>1, HourType
\* What the step changes in the statistics of a closed hour, or of the previous one
\* when the node is tied, was exact already.
<1>5. ASSUME NEW k \in Keys, stats'[k] # stats[k],
             k[2] <= hour - 2 \/ (k[2] = hour - 1 /\ Tied(n))
      PROVE  stats'[k].hits = Hits(k)
  <2>1. k \in DOMAIN staged[n] /\ stats'[k] = staged[n][k] BY <1>1, <1>5, StatsStep
  <2>2. <<k, staged[n][k].hits>> \in Exact(hour, Tied(n), log)
    BY <2>1 DEF CloseInv, ExactCounts, Within
  <2> QED BY <1>5, <2>1, <2>2 DEF Exact, Hits
<1>6. ASSUME NEW k \in Keys, k[2] <= hour - 2 PROVE stats'[k].hits = Hits(k)
  BY <1>5, <1>6 DEF CloseInv, ClosedHoursExact
<1>7. ClosedHoursExact' BY <1>2, <1>6 DEF ClosedHoursExact, Alone, Hits
<1>8. ASSUME \A m \in up : m \in served' \/ (fresh'[m] /\ bucket'[m] = now'[m]),
             NEW k \in Keys, k[2] = hour - 1
      PROVE  stats'[k].hits = Hits(k)
  <2>1. CASE CommitEffect(n) /\ fresh[n] /\ bucket[n] = hour - 1 BY <1>8, <2>1, LastCommit
  <2>2. CASE ~(CommitEffect(n) /\ fresh[n] /\ bucket[n] = hour - 1)
    <3>1. Done(n)
      <4>1. CASE StartEffect(n) BY <1>2, <1>4, <1>8, <4>1 DEF StartEffect, Done
      <4>2. CASE QueryEffect(n) \/ ScanEffect(n) \/ UpsertEffect(n) \/ BreakEffect(n)
        BY <1>2, <1>8, <4>2 DEF QueryEffect, ScanEffect, UpsertEffect, BreakEffect, Done
      <4>3. CASE CommitEffect(n)
        <5>1. fresh[n] => now[n] = hour BY DEF CloseInv, FreshNow
        <5>2. bucket[n] \in {now[n] - 1, now[n]} BY <1>3 DEF WorkerOK
        <5> QED BY <1>2, <1>8, <2>2, <4>3, <5>1, <5>2 DEF CommitEffect, LeaveEffect, Done
      <4>4. CASE AbortEffect(n)
        BY <1>2, <1>8, <4>4 DEF AbortEffect, LeaveEffect, Done
      <4> QED BY <4>1, <4>2, <4>3, <4>4 DEF WorkEffect
    <3>2. \A m \in up : Done(m)
      BY <1>2, <1>3, <1>8, <3>1 DEF Done, Alone
    <3>3. stats[k].hits = Hits(k) BY <1>2, <1>8, <3>2 DEF CloseInv, LastDone
    <3>4. Tied(n) BY <3>1 DEF Done, Tied
    <3> QED BY <1>5, <1>8, <3>3, <3>4
  <2> QED BY <2>1, <2>2
<1>9. UNCHANGED <<hour, log, up>> BY <1>2 DEF Alone
<1>10. LastDone' BY <1>8, <1>9 DEF LastDone, Done, Hits
<1> QED BY <1>7, <1>10

LEMMA TickClosed == ASSUME CloseInv, CountInv', TickEffect PROVE CloseInv'
<1>1. TypeInv /\ TypeOK BY DEF CloseInv, CountInv, TypeInv
<1>2. /\ UNCHANGED <<log, open, stats, up, pc, now, bucket, found, row, staged>>
      /\ hour' = hour + 1 /\ fresh' = [n \in Nodes |-> FALSE] /\ served' = {}
      /\ up # {} /\ up \subseteq served
  BY DEF TickEffect, Timely
<1>3. up \subseteq Nodes /\ (\A n \in Nodes : WorkerOK(n)) BY <1>1, TypeParts DEF Shared
<1>4. hour \in Nat /\ \A k \in Keys : k[2] \in Nat BY <1>1, HourType
<1>5. \A n \in Nodes : fresh'[n] = FALSE /\ n \notin served' BY <1>2
<1>6. AllLogged BY <1>2, <1>3 DEF CloseInv, FreshNow, Tied
<1>7. FreshNow' BY <1>5 DEF FreshNow, Tied
<1>8. Logged' BY <1>2, <1>4, <1>6 DEF Logged, AllLogged
<1>9. ExactCounts'
  <2>1. ASSUME NEW n \in Nodes
        PROVE  Within(found[n], staged[n], row[n], pc[n] = "upsert", Exact(hour + 1, FALSE, log))
    <3>1. CASE pc[n] = "wait"
      <4>1. DOMAIN found[n] = {} /\ DOMAIN staged[n] = {} BY <1>3, <3>1 DEF WorkerOK
      <4> QED BY <3>1, <4>1 DEF Within
    <3>2. CASE pc[n] # "wait"
      <4>1. Tied(n) BY <1>1, <1>2, <3>2 DEF TypeInv, Alive, Tied
      <4>2. Within(found[n], staged[n], row[n], pc[n] = "upsert", Exact(hour, Tied(n), log))
        BY DEF CloseInv, ExactCounts
      <4>3. Exact(hour, Tied(n), log) \subseteq Exact(hour + 1, FALSE, log)
        BY <1>4, <4>1 DEF Exact
      <4> QED BY <4>2, <4>3 DEF Within
    <3> QED BY <3>1, <3>2
  <2>2. ASSUME NEW n \in Nodes
        PROVE  Within(found'[n], staged'[n], row'[n], pc'[n] = "upsert",
                      Exact(hour', fresh'[n] \/ n \in served', log'))
    <3>1. Exact(hour + 1, FALSE, log) \subseteq Exact(hour', fresh'[n] \/ n \in served', log')
      BY <1>2, <1>5 DEF Exact
    <3> QED BY <1>2, <2>1, <3>1 DEF Within
  <2> QED BY <2>2 DEF ExactCounts, Tied
<1>10. Complete' BY <1>5 DEF Complete
<1>11. LastDone'
  <2>1. PICK n \in up : TRUE BY <1>2
  <2> QED BY <1>2, <1>3, <1>5, <2>1 DEF LastDone, Done
<1>12. \A n \in up : Done(n) BY <1>2 DEF Done
<1>13. \A k \in Keys : k[2] = hour - 1 => stats[k].hits = Hits(k)
  BY <1>2, <1>12 DEF CloseInv, LastDone
<1>14. ASSUME NEW k \in Keys, k[2] <= hour + 1 - 2 PROVE stats[k].hits = Hits(k)
  <2>1. k[2] <= hour - 2 \/ k[2] = hour - 1 BY <1>4, <1>14
  <2> QED BY <1>13, <2>1 DEF CloseInv, ClosedHoursExact
<1>15. ClosedHoursExact' BY <1>2, <1>4, <1>14 DEF ClosedHoursExact, Hits
<1> QED BY <1>7, <1>8, <1>9, <1>10, <1>11, <1>15 DEF CloseInv

LEMMA BeginClosed ==
  ASSUME CloseInv, CountInv', NEW n \in Nodes, BeginEffect(n) PROVE CloseInv'
<1>1. UNCHANGED <<hour, log, stats, up, pc, now, bucket, found, row, staged, fresh, served>>
  BY DEF BeginEffect
<1>2. PICK d \in Domains, p \in Paths : open' = [open EXCEPT ![n] = {<<d, hour, p>>}]
  BY DEF BeginEffect
<1>3. \A m \in Nodes : \A r \in open'[m] : r \in open[m] \/ r[2] = hour
  BY <1>2 DEF CloseInv, CountInv, TypeInv, TypeOK
<1>4. Logged' BY <1>1, <1>3 DEF Logged, CloseInv
<1>5. AllLogged => AllLogged' BY <1>1, <1>3 DEF AllLogged
<1>6. FreshNow' BY <1>1, <1>5 DEF FreshNow, Tied, CloseInv
<1>7. ExactCounts' BY <1>1 DEF ExactCounts, Tied, CloseInv
<1>8. Complete' /\ LastDone' /\ ClosedHoursExact'
  BY <1>1 DEF Complete, Held, LastDone, Done, ClosedHoursExact, Hits, CloseInv
<1> QED BY <1>4, <1>6, <1>7, <1>8 DEF CloseInv

LEMMA LogClosed ==
  ASSUME CloseInv, CountInv', NEW n \in Nodes, LogEffect(n) PROVE CloseInv'
<1>1. TypeInv /\ TypeOK BY DEF CloseInv, CountInv, TypeInv
<1>2. /\ UNCHANGED <<hour, stats, up, pc, now, bucket, found, row, staged, fresh, served>>
      /\ open' = [open EXCEPT ![n] = {}]
  BY DEF LogEffect
<1>3. PICK r \in open[n] : \A k \in Keys : k[2] # r[2] => log'[k] = log[k]
  BY DEF LogEffect
<1>4. r[2] \in {hour - 1, hour} BY <1>3 DEF CloseInv, Logged
<1>5. hour \in Nat /\ \A k \in Keys : k[2] \in Nat BY <1>1, HourType
<1>6. up \subseteq Nodes BY <1>1, TypeParts DEF Shared
\* Closed hours do not grow, nor the previous one once a node is tied.
<1>7. \A k \in Keys : k[2] <= hour - 2 => log'[k] = log[k] BY <1>3, <1>4, <1>5
<1>8. ASSUME NEW m \in Nodes, Tied(m), NEW k \in Keys, k[2] = hour - 1 PROVE log'[k] = log[k]
  <2>1. AllLogged BY <1>8 DEF CloseInv, FreshNow
  <2>2. r[2] = hour BY <1>3, <2>1 DEF AllLogged
  <2> QED BY <1>3, <1>5, <1>8, <2>2
<1>9. \A m \in Nodes : \A x \in open'[m] : x \in open[m] BY <1>1, <1>2 DEF TypeOK
<1>10. FreshNow'
  <2>1. AllLogged => AllLogged' BY <1>2, <1>9 DEF AllLogged
  <2> QED BY <1>2, <2>1 DEF FreshNow, Tied, CloseInv
<1>11. Logged' BY <1>2, <1>9 DEF Logged, CloseInv
<1>12. ExactCounts'
  <2>1. ASSUME NEW m \in Nodes
        PROVE  Within(found'[m], staged'[m], row'[m], pc'[m] = "upsert",
                      Exact(hour', fresh'[m] \/ m \in served', log'))
    <3>1. Within(found[m], staged[m], row[m], pc[m] = "upsert", Exact(hour, Tied(m), log))
      BY DEF CloseInv, ExactCounts
    <3>2. Exact(hour, Tied(m), log) \subseteq Exact(hour, Tied(m), log')
      BY <1>7, <1>8 DEF Exact
    <3>3. Exact(hour, Tied(m), log') \subseteq Exact(hour', fresh'[m] \/ m \in served', log')
      BY <1>2 DEF Exact, Tied
    <3> QED BY <1>2, <3>1, <3>2, <3>3 DEF Within
  <2> QED BY <2>1 DEF ExactCounts, Tied
<1>13. Complete'
  <2>1. ASSUME NEW m \in Nodes, fresh[m], bucket[m] = hour - 1, pc[m] \in {"scan", "upsert"},
               NEW k \in Keys, k[2] = hour - 1, Total(log'[k]) > 0
        PROVE  k \in Held(m)
    <3>1. log'[k] = log[k] BY <1>8, <2>1 DEF Tied
    <3> QED BY <2>1, <3>1 DEF CloseInv, Complete, Hits
  <2> QED BY <1>2, <2>1 DEF Complete, Held, Hits
<1>14. LastDone'
  <2>1. ASSUME up # {}, \A m \in up : Done(m), NEW k \in Keys, k[2] = hour - 1
        PROVE  stats[k].hits = Total(log'[k])
    <3>1. PICK m \in up : TRUE BY <2>1
    <3>2. m \in Nodes /\ Tied(m) BY <1>6, <2>1 DEF Done, Tied
    <3>3. log'[k] = log[k] BY <1>8, <2>1, <3>2
    <3>4. stats[k].hits = Hits(k) BY <2>1 DEF CloseInv, LastDone
    <3> QED BY <3>3, <3>4 DEF Hits
  <2> QED BY <1>2, <2>1 DEF LastDone, Done, Hits
<1>15. ClosedHoursExact' BY <1>2, <1>7 DEF ClosedHoursExact, Hits, CloseInv
<1> QED BY <1>10, <1>11, <1>12, <1>13, <1>14, <1>15 DEF CloseInv

LEMMA CrashClosed ==
  ASSUME CloseInv, CountInv', NEW n \in Nodes, CrashEffect(n) PROVE CloseInv'
<1>1. TypeInv /\ TypeOK BY DEF CloseInv, CountInv, TypeInv
<1>2. /\ UNCHANGED <<hour, log, stats>> /\ up' \subseteq up
      /\ open' = [open EXCEPT ![n] = {}]
      /\ \A m \in Nodes : fresh'[m] = FALSE /\ m \notin served'
  BY DEF CrashEffect
<1>3. up \subseteq Nodes BY <1>1, TypeParts DEF Shared
<1>4. FreshNow' BY <1>2 DEF FreshNow, Tied
<1>5. Logged' BY <1>1, <1>2 DEF Logged, CloseInv, TypeOK
<1>6. ExactCounts'
  <2>1. ASSUME NEW m \in Nodes
        PROVE  Within(found'[m], staged'[m], row'[m], pc'[m] = "upsert",
                      Exact(hour', fresh'[m] \/ m \in served', log'))
    <3>1. CASE m = n BY <3>1 DEF CrashEffect, Within
    <3>2. CASE m # n
      <4>1. Within(found[m], staged[m], row[m], pc[m] = "upsert", Exact(hour, Tied(m), log))
        BY DEF CloseInv, ExactCounts
      <4>2. Exact(hour, Tied(m), log) \subseteq Exact(hour', fresh'[m] \/ m \in served', log')
        BY <1>2 DEF Exact
      <4> QED BY <3>2, <4>1, <4>2 DEF CrashEffect, Within
    <3> QED BY <3>1, <3>2
  <2> QED BY <2>1 DEF ExactCounts, Tied
<1>7. Complete' BY <1>2 DEF Complete
<1>8. LastDone' BY <1>2, <1>3 DEF LastDone, Done
<1>9. ClosedHoursExact' BY <1>2 DEF ClosedHoursExact, Hits, CloseInv
<1> QED BY <1>4, <1>5, <1>6, <1>7, <1>8, <1>9 DEF CloseInv

LEMMA RestartClosed ==
  ASSUME CloseInv, CountInv', NEW n \in Nodes, RestartEffect(n) PROVE CloseInv'
<1>1. TypeInv /\ TypeOK BY DEF CloseInv, CountInv, TypeInv
<1>2. /\ UNCHANGED <<hour, log, open, stats, pc, now, bucket, found, row, staged, fresh, served>>
      /\ n \notin up /\ up' = up \cup {n}
  BY DEF RestartEffect
<1>3. served \subseteq up BY <1>1, TypeParts DEF Shared
<1>4. ~Done(n) BY <1>1, <1>2, <1>3 DEF Done, TypeInv, Alive, CloseInv, FreshNow
<1>5. LastDone'
  <2>1. ~(n \in served' \/ (fresh'[n] /\ bucket'[n] = now'[n])) /\ n \in up' BY <1>2, <1>4 DEF Done
  <2> QED BY <2>1 DEF LastDone, Done
<1>6. FreshNow' /\ Logged' BY <1>2 DEF FreshNow, Logged, Tied, AllLogged, CloseInv
<1>7. ExactCounts' BY <1>2 DEF ExactCounts, Tied, CloseInv
<1>8. Complete' /\ ClosedHoursExact' BY <1>2 DEF Complete, Held, ClosedHoursExact, Hits, CloseInv
<1> QED BY <1>5, <1>6, <1>7, <1>8 DEF CloseInv

LEMMA CloseNext == ASSUME CloseInv, [Next]_vars PROVE CloseInv'
<1>1. TypeOK BY DEF CloseInv, CountInv, TypeInv
<1>2. Effects BY <1>1, StepEffects
<1>3. CountInv' BY CountNext DEF CloseInv
<1>4. CASE Still
  <2>1. UNCHANGED <<hour, log, open, stats, up, pc, now, bucket, found, row, staged, fresh, served>>
    BY <1>4 DEF Still
  <2>2. FreshNow' /\ Logged' BY <2>1 DEF FreshNow, Logged, Tied, AllLogged, CloseInv
  <2>3. ExactCounts' BY <2>1 DEF ExactCounts, Tied, CloseInv
  <2>4. Complete' /\ LastDone' /\ ClosedHoursExact'
    BY <2>1 DEF Complete, Held, LastDone, Done, ClosedHoursExact, Hits, CloseInv
  <2> QED BY <1>3, <2>2, <2>3, <2>4 DEF CloseInv
<1>5. CASE TickEffect BY <1>3, <1>5, TickClosed
<1>6. ASSUME NEW n \in Nodes, WorkEffect(n) PROVE CloseInv'
  BY <1>3, <1>6, WorkFresh, WorkExact, WorkComplete, WorkClosed DEF CloseInv
<1>7. ASSUME NEW n \in Nodes, BeginEffect(n) PROVE CloseInv' BY <1>3, <1>7, BeginClosed
<1>8. ASSUME NEW n \in Nodes, LogEffect(n) PROVE CloseInv' BY <1>3, <1>8, LogClosed
<1>9. ASSUME NEW n \in Nodes, CrashEffect(n) PROVE CloseInv' BY <1>3, <1>9, CrashClosed
<1>10. ASSUME NEW n \in Nodes, RestartEffect(n) PROVE CloseInv' BY <1>3, <1>10, RestartClosed
<1> QED BY <1>2, <1>4, <1>5, <1>6, <1>7, <1>8, <1>9, <1>10 DEF Effects

LEMMA CloseInvariant == Spec => []CloseInv
BY CloseInit, CloseNext, PTL DEF Spec

\* However many nodes roll up side by side, and whatever fails, the statistics of
\* an hour that is over for an hour are exact, provided that every running node
\* completed a cycle within the hour in between.
THEOREM ClosedHoursExactAlways == Spec => []ClosedHoursExact
BY CloseInvariant, PTL DEF CloseInv

-----------------------------------------------------------------------------
(* Reports.  What any of them shows is a sum over all hours, or over all   *)
(* hours and paths.                                                        *)

\* Nothing is logged before its time.
LogNow == \A k \in Keys : k[2] > hour => Hits(k) = 0

ReportInv == CloseInv /\ LogNow

LEMMA ReportInit == Init => ReportInv
<1> SUFFICES ASSUME Init PROVE LogNow BY CloseInit DEF ReportInv
<1> DEFINE none == [p \in Paths |-> 0]
<1>1. \A k \in Keys : log[k] = none BY DEF Init
<1>2. none \in [Paths -> Nat] /\ \A p \in Paths : none[p] = 0 OBVIOUS
<1> HIDE DEF none
<1>3. Total(none) = 0 BY <1>2, Constants, TotalZero
<1> QED BY <1>1, <1>3 DEF LogNow, Hits

LEMMA ReportNext == ASSUME ReportInv, [Next]_vars PROVE ReportInv'
<1>1. CloseInv /\ TypeInv /\ TypeOK BY DEF ReportInv, CloseInv, CountInv, TypeInv
<1>2. CloseInv' BY <1>1, CloseNext
<1>3. Effects BY <1>1, StepEffects
<1>4. hour \in Nat /\ \A k \in Keys : k[2] \in Nat BY <1>1, HourType
<1>5. ASSUME UNCHANGED <<hour, log>> PROVE LogNow'
  BY <1>5 DEF ReportInv, LogNow, Hits
<1>6. ASSUME TickEffect PROVE LogNow'
  <2>1. hour' = hour + 1 /\ log' = log BY <1>6 DEF TickEffect
  <2>2. \A k \in Keys : k[2] > hour + 1 => Total(log[k]) = 0
    BY <1>4 DEF ReportInv, LogNow, Hits
  <2> QED BY <2>1, <2>2 DEF LogNow, Hits
<1>7. ASSUME NEW n \in Nodes, LogEffect(n) PROVE LogNow'
  <2>1. PICK r \in open[n] : \A k \in Keys : k[2] # r[2] => log'[k] = log[k]
    BY <1>7 DEF LogEffect
  <2>2. r[2] \in {hour - 1, hour} /\ hour' = hour BY <1>1, <1>7, <2>1 DEF LogEffect, CloseInv, Logged
  <2>3. \A k \in Keys : k[2] > hour => log'[k] = log[k] BY <1>4, <2>1, <2>2
  <2> QED BY <2>2, <2>3 DEF ReportInv, LogNow, Hits
<1>8. ASSUME NEW n \in Nodes, WorkEffect(n) PROVE LogNow'
  BY <1>1, <1>5, <1>8, WorkAlone DEF Alone
<1>9. ASSUME Still PROVE LogNow' BY <1>5, <1>9 DEF Still
<1>10. ASSUME NEW n \in Nodes, BeginEffect(n) \/ CrashEffect(n) \/ RestartEffect(n) PROVE LogNow'
  BY <1>5, <1>10 DEF BeginEffect, CrashEffect, RestartEffect
<1> QED BY <1>2, <1>3, <1>6, <1>7, <1>8, <1>9, <1>10 DEF Effects, ReportInv

LEMMA ReportInvariant == Spec => []ReportInv
BY ReportInit, ReportNext, PTL DEF Spec

LEMMA HoursFinite == IsFiniteSet(Hours)
BY Constants, FS_Interval DEF Hours

\* The hits of a domain in an hour, if the hour is within bounds.
Span(d, since, until) ==
  [h \in Hours |-> IF since <= h /\ h <= until THEN stats[<<d, h>>].hits ELSE 0]

LEMMA StatRows ==
  ASSUME TypeOK, NEW d \in Domains, NEW since \in Int, NEW until \in Int
  PROVE  /\ Span(d, since, until) \in [Hours -> Nat]
         /\ StatHits(d, since, until) = Total(Span(d, since, until))
         /\ StatHits(d, since, until) \in Nat
<1> DEFINE all == Span(d, since, until)
           B == Buckets(d, since, until)
           hits == [h \in B |-> stats[<<d, h>>].hits]
<1>1. \A h \in Hours : stats[<<d, h>>].hits \in Nat BY DEF TypeOK, Keys, IsStat
<1>2. all \in [Hours -> Nat] BY <1>1 DEF Span
<1>3. B \in SUBSET Hours /\ \A h \in Hours \ B : all[h] = 0
  BY DEF Buckets, Span, NoStats
<1>4. [h \in B |-> all[h]] = hits BY DEF Buckets, Span
<1> HIDE DEF all, B
<1>5. Total([h \in B |-> all[h]]) = Total(all) BY <1>2, <1>3, HoursFinite, TotalRestrict
<1>6. Total(all) \in Nat BY <1>2, HoursFinite, TotalType
<1>7. StatHits(d, since, until) = Total(hits) BY DEF StatHits, B
<1> HIDE DEF hits
<1> QED BY <1>2, <1>4, <1>5, <1>6, <1>7 DEF all

\* Wider bounds show no less.
LEMMA StatMonotone ==
  ASSUME TypeOK, NEW d \in Domains, NEW s1 \in Int, NEW u1 \in Int,
         NEW s2 \in Int, NEW u2 \in Int,
         \A h \in Hours : s1 <= h /\ h <= u1 /\ stats[<<d, h>>].hits # 0 => s2 <= h /\ h <= u2
  PROVE  StatHits(d, s1, u1) <= StatHits(d, s2, u2)
<1> DEFINE f == Span(d, s1, u1)
           g == Span(d, s2, u2)
<1>1. /\ f \in [Hours -> Nat] /\ StatHits(d, s1, u1) = Total(f)
      /\ g \in [Hours -> Nat] /\ StatHits(d, s2, u2) = Total(g)
  <2> HIDE DEF f, g
  <2> QED BY StatRows DEF f, g
<1>2. \A h \in Hours : stats[<<d, h>>].hits \in Nat BY DEF TypeOK, Keys, IsStat
<1>3. \A h \in Hours : f[h] <= g[h] BY <1>2 DEF Span
<1> HIDE DEF f, g
<1>4. Total(f) <= Total(g) BY <1>1, <1>3, HoursFinite, TotalMonotone
<1> QED BY <1>1, <1>4

\* The rows of a path in an hour, if the hour is late enough.
Late(d, since) == [h \in Hours |-> [p \in Paths |-> IF h >= since THEN log[<<d, h>>][p] ELSE 0]]

LEMMA LogType == ASSUME TypeOK, NEW d \in Domains PROVE \A h \in Hours : log[<<d, h>>] \in [Paths -> Nat]
BY DEF TypeOK, Keys

LEMMA PathRows ==
  ASSUME TypeOK, NEW d \in Domains, NEW since \in Int, NEW p \in Paths
  PROVE  /\ LogCount(d, p, since) = Total([h \in Hours |-> Late(d, since)[h][p]])
         /\ LogCount(d, p, since) \in Nat
<1> DEFINE all == [h \in Hours |-> Late(d, since)[h][p]]
           V == {h \in Hours : h >= since}
           counts == [h \in V |-> log[<<d, h>>][p]]
<1>1. \A h \in Hours : log[<<d, h>>][p] \in Nat BY LogType
<1>2. all \in [Hours -> Nat] BY <1>1 DEF Late
<1>3. V \in SUBSET Hours /\ \A h \in Hours \ V : all[h] = 0 BY DEF Late
<1>4. [h \in V |-> all[h]] = counts BY DEF Late
<1>5. LogCount(d, p, since) = Total(counts) BY DEF LogCount
<1> HIDE DEF all, V, counts
<1>6. Total([h \in V |-> all[h]]) = Total(all) BY <1>2, <1>3, HoursFinite, TotalRestrict
<1>7. Total(all) \in Nat BY <1>2, HoursFinite, TotalType
<1> QED BY <1>4, <1>5, <1>6, <1>7 DEF all

\* What is exported, counted by hours instead of by paths.
LEMMA ExportRows ==
  ASSUME TypeOK, NEW d \in Domains, NEW since \in Int
  PROVE  /\ Exported(d, since) = Total([h \in Hours |-> Total(Late(d, since)[h])])
         /\ Exported(d, since) \in Nat
<1> DEFINE table == Late(d, since)
           column == [p \in Paths |-> Total([h \in Hours |-> table[h][p]])]
           value == [p \in Paths |-> LogCount(d, p, since)]
<1>1. table \in [Hours -> [Paths -> Nat]] BY LogType DEF Late
<1>2. column = value
  <2> HIDE DEF table
  <2> QED BY PathRows DEF table
<1>3. value \in [Paths -> Nat] BY PathRows
<1>4. Exported(d, since) = Total(value) BY DEF Exported
<1> HIDE DEF table
<1>5. Total([h \in Hours |-> Total(table[h])]) = Total(column)
  <2>1. IsFiniteSet(Hours) /\ IsFiniteSet(Paths) BY HoursFinite, Constants
  <2> QED BY <1>1, <2>1, TotalSwap
<1> HIDE DEF value, column
<1>6. Total(value) \in Nat BY <1>3, Constants, TotalType
<1> QED BY <1>2, <1>4, <1>5, <1>6 DEF table

\* The statistics since then count no more than is exported.
LEMMA StatsExported ==
  ASSUME ReportInv, NEW d \in Domains, NEW since \in Int
  PROVE  StatHits(d, since, LastHour) <= Exported(d, since)
<1>1. TypeOK /\ NeverOvercounts BY DEF ReportInv, CloseInv, CountInv, TypeInv
<1> DEFINE f == Span(d, since, LastHour)
           table == Late(d, since)
           g == [h \in Hours |-> Total(table[h])]
<1>2. LastHour \in Int BY Constants
<1>3. f \in [Hours -> Nat] /\ StatHits(d, since, LastHour) = Total(f)
  <2> HIDE DEF f
  <2> QED BY <1>1, <1>2, StatRows DEF f
<1>4. \A h \in Hours : table[h] \in [Paths -> Nat] BY <1>1, LogType DEF Late
<1>5. \A h \in Hours : Total(table[h]) \in Nat
  <2> HIDE DEF table
  <2> QED BY <1>4, Constants, TotalType
<1>6. ASSUME NEW h \in Hours PROVE f[h] <= g[h]
  <2>1. <<d, h>> \in Keys /\ stats[<<d, h>>].hits \in Nat BY <1>1 DEF Keys, TypeOK, IsStat
  <2>2. CASE since <= h
    <3>1. log[<<d, h>>] \in [Paths -> Nat] BY <1>1, LogType
    <3>2. table[h] = log[<<d, h>>] BY <2>2, <3>1 DEF Late
    <3>3. stats[<<d, h>>].hits <= Total(log[<<d, h>>])
      BY <1>1, <2>1 DEF NeverOvercounts, Hits
    <3>4. g[h] = Total(table[h]) OBVIOUS
    <3>5. f[h] = stats[<<d, h>>].hits \/ f[h] = 0 BY DEF Span
    <3> HIDE DEF f, g, table
    <3> QED BY <1>5, <3>2, <3>3, <3>4, <3>5
  <2>3. CASE ~(since <= h)
    <3>1. f[h] = 0 BY <2>3 DEF Span
    <3>2. g[h] = Total(table[h]) OBVIOUS
    <3> HIDE DEF f, g, table
    <3> QED BY <1>5, <3>1, <3>2
  <2> QED BY <2>2, <2>3
<1>7. g \in [Hours -> Nat]
  <2> HIDE DEF table
  <2> QED BY <1>5
<1>8. Exported(d, since) = Total(g) BY <1>1, ExportRows
<1> HIDE DEF f, g
<1>9. Total(f) <= Total(g) BY <1>3, <1>6, <1>7, HoursFinite, TotalMonotone
<1> QED BY <1>3, <1>8, <1>9

\* A report keeps some of its rows, as they are.
LEMMA FirstKeeps ==
  ASSUME NEW value, NEW rows \in FirstBy(value)
  PROVE  \E T \in SUBSET DOMAIN value :
           /\ rows = [x \in T |-> value[x]]
           /\ Cardinality(T) = IF Cardinality(DOMAIN value) < Limit
                               THEN Cardinality(DOMAIN value) ELSE Limit
BY DEF FirstBy, Restrict

\* The paths, if a report can show all of them, have all the rows exported.
LEMMA PathsExported ==
  ASSUME TypeOK, NEW d \in Domains, NEW since \in Int, Cardinality(Paths) <= Limit,
         NEW paths \in AnalyticsDomainPaths(d, since)
  PROVE  Total(paths) = Exported(d, since)
<1> DEFINE S == PathsSince(d, since)
           value == [p \in S |-> LogCount(d, p, since)]
           all == [p \in Paths |-> LogCount(d, p, since)]
<1>1. S \in SUBSET Paths /\ \A p \in Paths \ S : ~(LogCount(d, p, since) > 0)
  BY DEF PathsSince
<1>2. IsFiniteSet(S) /\ Cardinality(S) <= Cardinality(Paths)
  <2> HIDE DEF S
  <2> QED BY <1>1, Constants, FS_Subset
<1>3. Cardinality(S) \in Nat /\ Cardinality(Paths) \in Nat BY <1>2, Constants, FS_CardinalityType
<1>4. paths \in FirstBy(value) BY DEF AnalyticsDomainPaths
<1>5. PICK T \in SUBSET DOMAIN value :
        /\ paths = [p \in T |-> value[p]]
        /\ Cardinality(T) = IF Cardinality(DOMAIN value) < Limit
                            THEN Cardinality(DOMAIN value) ELSE Limit
  <2> HIDE DEF value
  <2> QED BY <1>4, FirstKeeps
<1>6. DOMAIN value = S OBVIOUS
<1>7. T = S
  <2>1. Cardinality(T) = Cardinality(S)
    <3> HIDE DEF value, S
    <3> QED BY <1>2, <1>3, <1>5, <1>6, ReportsAssumption
  <2>2. T \in SUBSET S BY <1>5, <1>6
  <2> HIDE DEF S
  <2> QED BY <1>2, <2>1, <2>2, FS_Subset
<1>8. all \in [Paths -> Nat] /\ \A p \in Paths \ S : all[p] = 0
  <2>1. \A p \in Paths : LogCount(d, p, since) \in Nat BY PathRows
  <2> QED BY <1>1, <2>1
<1>9. paths = [p \in S |-> all[p]] BY <1>1, <1>5, <1>7
<1>10. Exported(d, since) = Total(all) BY DEF Exported
<1> HIDE DEF S, all
<1>11. Total([p \in S |-> all[p]]) = Total(all) BY <1>1, <1>8, Constants, TotalRestrict
<1> QED BY <1>9, <1>10, <1>11

\* An inactive domain has nothing to export.
LEMMA InactiveExports ==
  ASSUME TypeOK, NEW since \in Int, NEW d \in AnalyticsInactive(hour - since)
  PROVE  Exported(d, since) = 0
<1> DEFINE all == [p \in Paths |-> LogCount(d, p, since)]
<1>1. hour - (hour - since) = since BY HourType
<1>2. d \in Domains /\ PathsSince(d, since) = {} BY <1>1 DEF AnalyticsInactive
<1>3. \A p \in Paths : LogCount(d, p, since) \in Nat BY <1>2, PathRows
<1>4. \A p \in Paths : LogCount(d, p, since) = 0 BY <1>2, <1>3 DEF PathsSince
<1>5. all \in [Paths -> Nat] /\ \A p \in Paths : all[p] = 0 BY <1>4
<1>6. Exported(d, since) = Total(all) BY DEF Exported
<1> HIDE DEF all
<1> QED BY <1>5, <1>6, Constants, TotalZero

\* The traffic of a domain by hours, days or weeks is that of its buckets.
LEMMA TrafficTotal ==
  ASSUME TypeOK, NEW d \in Domains, NEW since, NEW until, NEW g
  PROVE  Total(AnalyticsDomainTraffic(d, since, until, g)) = StatHits(d, since, until)
<1> DEFINE S == Buckets(d, since, until)
           K == {Trunc(h, g) : h \in S}
           key == [h \in S |-> Trunc(h, g)]
           f == [h \in S |-> stats[<<d, h>>].hits]
           Shown(b) == [h \in {x \in S : Trunc(x, g) = b} |-> stats[<<d, h>>].hits]
<1>1. S \in SUBSET Hours BY DEF Buckets
<1>2. IsFiniteSet(S) BY <1>1, HoursFinite, FS_Subset
<1>3. \A h \in S : stats[<<d, h>>].hits \in Nat BY <1>1 DEF TypeOK, Keys, IsStat
<1>4. f \in [S -> Nat] /\ key \in [S -> K] /\ key \in Surjection(S, K)
  <2> HIDE DEF S
  <2> QED BY <1>3 DEF Surjection
<1>5. IsFiniteSet(K)
  <2> HIDE DEF S, K, key
  <2> QED BY <1>2, <1>4, FS_Surjection
<1>6. Total([b \in K |-> Total(Group(f, key, b))]) = Total(f)
  <2> HIDE DEF S, f, key, K
  <2> QED BY <1>2, <1>4, <1>5, TotalGroups
<1>7. \A b : Group(f, key, b) = Shown(b)
  <2> HIDE DEF S
  <2> QED BY DEF Group
<1>8. [b \in K |-> Total(Group(f, key, b))] = [b \in K |-> Total(Shown(b))]
  <2> HIDE DEF f, key, Shown, K
  <2> QED BY <1>7
<1>9. AnalyticsDomainTraffic(d, since, until, g) = [b \in K |-> Total(Shown(b))]
  BY DEF AnalyticsDomainTraffic
<1>10. StatHits(d, since, until) = Total(f) BY DEF StatHits
<1> HIDE DEF f, Shown, K, key
<1> QED BY <1>6, <1>8, <1>9, <1>10

\* No hits are counted for hours that are still to come.
LEMMA StatsNow ==
  ASSUME ReportInv, NEW d \in Domains, NEW since \in Int
  PROVE  StatHits(d, since, hour) = StatHits(d, since, LastHour)
<1>1. TypeOK /\ NeverOvercounts BY DEF ReportInv, CloseInv, CountInv, TypeInv
<1>2. hour \in Int /\ LastHour \in Int /\ hour <= LastHour
  BY <1>1, Constants DEF TypeOK, Hours
<1>3. \A h \in Hours : h \in Int /\ h <= LastHour BY Constants DEF Hours
<1>4. ASSUME NEW h \in Hours, stats[<<d, h>>].hits # 0 PROVE h <= hour
  <2>1. <<d, h>> \in Keys /\ stats[<<d, h>>].hits \in Nat BY <1>1 DEF Keys, TypeOK, IsStat
  <2>2. stats[<<d, h>>].hits <= Hits(<<d, h>>) BY <1>1, <2>1 DEF NeverOvercounts
  <2>3. ~(h > hour)
    <3>1. h > hour => Hits(<<d, h>>) = 0 BY <2>1 DEF ReportInv, LogNow
    <3> QED BY <1>4, <2>1, <2>2, <3>1
  <2> QED BY <1>2, <1>3, <2>3
<1>5. StatHits(d, since, hour) <= StatHits(d, since, LastHour)
  BY <1>1, <1>2, <1>3, StatMonotone
<1>6. StatHits(d, since, LastHour) <= StatHits(d, since, hour)
  BY <1>1, <1>2, <1>4, StatMonotone
<1>7. StatHits(d, since, hour) \in Nat /\ StatHits(d, since, LastHour) \in Nat
  BY <1>1, <1>2, StatRows
<1> QED BY <1>5, <1>6, <1>7

\* Neither half of a time has more hits than the whole.
LEMMA TrendBound ==
  ASSUME TypeOK, NEW d \in Domains, NEW since \in Int, NEW midpoint \in Int
  PROVE  LET hits == StatHits(d, since, LastHour)
         IN  Trend(d, since, midpoint) \in -hits..hits
<1> DEFINE from == IF midpoint > since THEN midpoint ELSE since
<1>1. from \in Int /\ midpoint - 1 \in Int /\ LastHour \in Int /\ since <= from BY Constants
<1>2. \A h \in Hours : h \in Int /\ h <= LastHour BY Constants DEF Hours
<1>3. Trend(d, since, midpoint)
        = StatHits(d, from, LastHour) - StatHits(d, since, midpoint - 1)
  BY DEF Trend
<1> HIDE DEF from
<1>4. StatHits(d, from, LastHour) <= StatHits(d, since, LastHour)
  BY <1>1, <1>2, StatMonotone
<1>5. StatHits(d, since, midpoint - 1) <= StatHits(d, since, LastHour)
  BY <1>1, <1>2, StatMonotone
<1>6. /\ StatHits(d, from, LastHour) \in Nat /\ StatHits(d, since, midpoint - 1) \in Nat
      /\ StatHits(d, since, LastHour) \in Nat
  BY <1>1, StatRows
<1> QED BY <1>3, <1>4, <1>5, <1>6

LEMMA SummariesAgree ==
  ASSUME ReportInv, NEW since \in 0..hour,
         NEW summary \in AnalyticsSummary(since), NEW d \in DOMAIN summary
  PROVE  /\ summary[d] <= Exported(d, since)
         /\ \A paths \in AnalyticsDomainPaths(d, since) :
              Cardinality(Paths) <= Limit => summary[d] <= Total(paths)
         /\ d \in AnalyticsInactive(hour - since) => summary[d] = 0
         /\ \A g \in {"hourly", "daily", "weekly"} :
              Total(AnalyticsDomainTraffic(d, since, hour, g)) = summary[d]
<1>1. TypeOK BY DEF ReportInv, CloseInv, CountInv, TypeInv
<1>2. since \in Int /\ LastHour \in Int BY Constants
<1> DEFINE value == [x \in InStats(since) |-> StatHits(x, since, LastHour)]
<1>3. summary \in FirstBy(value) BY DEF AnalyticsSummary
<1>4. PICK T \in SUBSET DOMAIN value : summary = [x \in T |-> value[x]]
  <2> HIDE DEF value
  <2> QED BY <1>3, FirstKeeps
<1>5. d \in Domains /\ summary[d] = StatHits(d, since, LastHour) BY <1>4 DEF InStats
<1>6. summary[d] <= Exported(d, since) BY <1>2, <1>5, StatsExported
<1>7. \A paths \in AnalyticsDomainPaths(d, since) :
        Cardinality(Paths) <= Limit => Total(paths) = Exported(d, since)
  BY <1>1, <1>2, <1>5, PathsExported
<1>8. d \in AnalyticsInactive(hour - since) => summary[d] = 0
  <2>1. summary[d] \in Nat BY <1>1, <1>2, <1>5, StatRows
  <2>2. d \in AnalyticsInactive(hour - since) => Exported(d, since) = 0
    BY <1>1, <1>2, InactiveExports
  <2> QED BY <1>6, <2>1, <2>2
<1>9. \A g : Total(AnalyticsDomainTraffic(d, since, hour, g)) = summary[d]
  BY <1>1, <1>2, <1>5, TrafficTotal, StatsNow
<1> QED BY <1>6, <1>7, <1>8, <1>9

\* A trend is the difference of the traffic of two halves.
LEMMA TrendTraffic ==
  ASSUME ReportInv, NEW d \in Domains, NEW since \in Int, NEW half \in Int, half >= since
  PROVE  Trend(d, since, half)
           = Total(AnalyticsDomainTraffic(d, half, hour, "hourly"))
               - Total(AnalyticsDomainTraffic(d, since, half - 1, "hourly"))
<1>1. TypeOK BY DEF ReportInv, CloseInv, CountInv, TypeInv
<1>2. Total(AnalyticsDomainTraffic(d, half, hour, "hourly")) = StatHits(d, half, LastHour)
  BY <1>1, TrafficTotal, StatsNow
<1>3. Total(AnalyticsDomainTraffic(d, since, half - 1, "hourly")) = StatHits(d, since, half - 1)
  BY <1>1, TrafficTotal
<1>4. (IF half > since THEN half ELSE since) = half OBVIOUS
<1>5. Trend(d, since, half) = StatHits(d, half, LastHour) - StatHits(d, since, half - 1)
  BY <1>4 DEF Trend
<1> QED BY <1>2, <1>3, <1>5

LEMMA TrendsAgree ==
  ASSUME ReportInv, NEW since \in 0..hour,
         NEW trends \in AnalyticsTrending(since), NEW d \in DOMAIN trends
  PROVE  LET hits == StatHits(d, since, LastHour)
             half == hour - (hour - since) \div 2
             Traffic(from, to) == Total(AnalyticsDomainTraffic(d, from, to, "hourly"))
         IN  /\ trends[d] \in -hits..hits
             /\ trends[d] = Traffic(half, hour) - Traffic(since, half - 1)
<1>1. TypeOK BY DEF ReportInv, CloseInv, CountInv, TypeInv
<1> DEFINE midpoint == hour - (hour - since) \div 2
           value == [x \in InStats(since) |-> Trend(x, since, midpoint)]
<1>2. since \in Int /\ midpoint \in Int /\ midpoint >= since BY <1>1, HourType
<1>3. trends \in FirstBy(value) BY DEF AnalyticsTrending
<1>4. PICK T \in SUBSET DOMAIN value : trends = [x \in T |-> value[x]]
  <2> HIDE DEF value
  <2> QED BY <1>3, FirstKeeps
<1>5. d \in Domains /\ trends[d] = Trend(d, since, midpoint) BY <1>4 DEF InStats
<1> HIDE DEF midpoint
<1>6. trends[d] \in -StatHits(d, since, LastHour)..StatHits(d, since, LastHour)
  BY <1>1, <1>2, <1>5, TrendBound
<1>7. trends[d] = Total(AnalyticsDomainTraffic(d, midpoint, hour, "hourly"))
                    - Total(AnalyticsDomainTraffic(d, since, midpoint - 1, "hourly"))
  BY <1>2, <1>5, TrendTraffic
<1> QED BY <1>6, <1>7 DEF midpoint

\* Whatever the nodes are in the middle of, reports about the same time that are
\* read together agree (Reports).
THEOREM ReportsAgreeAlways == Spec => []ReportsAgree
<1>1. ReportInv => ReportsAgree
  BY SummariesAgree, TrendsAgree DEF ReportsAgree
<1> QED BY <1>1, ReportInvariant, PTL

-----------------------------------------------------------------------------
(* The statistics implement HourlyStats. *)

\* A step of the log, of the clock, or of neither.
LEMMA StepKinds ==
  ASSUME [Next]_vars
  PROVE  \/ UNCHANGED <<hour, log>>
         \/ Tick
         \/ \E n \in Nodes : CommitLog(n)
<1>1. ASSUME NEW n \in Nodes, Work(n) PROVE UNCHANGED <<hour, log>>
  BY <1>1 DEF Work, StartCycle, Query, ReadPaths, ScanRow, Block, Upsert, Commit, DeadlockAborts, Leave
<1>2. ASSUME NEW n \in Nodes,
             PathsFail(n) \/ RowsBreak(n) \/ RollupFails(n) \/ Crash(n) \/ Restart(n)
      PROVE  UNCHANGED <<hour, log>>
  BY <1>2 DEF PathsFail, ScanRow, RowsBreak, RollupFails, Leave, Crash, Restart
<1> QED BY <1>1, <1>2 DEF Next, BeginLog, vars

LEMMA SameKeys == Published!Keys = Keys /\ Published!Hours = Hours
BY DEF Published!Keys, Published!Hours, Keys, Hours

\* Statistics that are no longer open do not change.
LEMMA ReportStep ==
  ASSUME ReportInv, ReportInv', UNCHANGED <<hour, log>>
  PROVE  Published!Report
<1>1. TypeOK /\ TypeOK' BY DEF ReportInv, CloseInv, CountInv, TypeInv
<1>2. \A k \in Keys : stats[k].hits \in Nat /\ stats'[k].hits \in Nat
  BY <1>1 DEF TypeOK, IsStat
<1>3. \A k \in Keys : Hits(k)' = Hits(k) /\ Hits(k) \in Nat BY <1>1, HitsType DEF Hits
<1>4. \A k \in Keys : stats[k].hits <= Hits(k) /\ stats'[k].hits <= Hits(k)
  BY <1>3 DEF ReportInv, CloseInv, CountInv, NeverOvercounts
<1>5. ASSUME NEW k \in Keys, k[2] \notin {hour - 1, hour} PROVE stats'[k].hits = stats[k].hits
  <2>1. k[2] \in Nat /\ hour \in Nat BY <1>1, HourType
  <2>2. CASE k[2] <= hour - 2
    BY <1>3, <2>2 DEF ReportInv, CloseInv, ClosedHoursExact
  <2>3. CASE k[2] > hour
    <3>1. Hits(k) = 0 BY <2>3 DEF ReportInv, LogNow
    <3> QED BY <1>2, <1>4, <3>1
  <2> QED BY <1>5, <2>1, <2>2, <2>3
<1>6. [k \in Keys |-> stats[k].hits]' \in [Keys -> Nat] BY <1>2
<1> QED BY <1>4, <1>5, <1>6, SameKeys DEF Published!Report, Published!Open, Hits

LEMMA HourlyStep ==
  ASSUME ReportInv, ReportInv', [Next]_vars
  PROVE  [Published!SNext]_(Published!svars)
<1>1. TypeOK /\ TypeOK' /\ Logged BY DEF ReportInv, CloseInv, CountInv, TypeInv
<1>2. CASE UNCHANGED <<hour, log>> BY <1>2, ReportStep DEF Published!SNext
<1>3. CASE Tick
  <2>1. hour < LastHour /\ hour' = hour + 1 /\ UNCHANGED <<log, stats>> BY <1>3 DEF Tick
  <2>2. ASSUME NEW k \in Keys, k[2] = hour - 1 PROVE stats[k].hits = Hits(k)
    <3>1. k[2] <= hour' - 2 BY <1>1, <2>1, <2>2, HourType
    <3> QED BY <2>1, <3>1 DEF ReportInv, CloseInv, ClosedHoursExact, Hits
  <2>3. Published!Close BY <2>1, <2>2, SameKeys DEF Published!Close, Hits
  <2> QED BY <2>3 DEF Published!SNext
<1>4. ASSUME NEW n \in Nodes, CommitLog(n) PROVE Published!SNext
  <2>1. UNCHANGED <<hour, stats>> BY <1>4 DEF CommitLog
  <2>2. PICK r \in open[n] : log' = [log EXCEPT ![<<r[1], r[2]>>][r[3]] = @ + 1]
    BY <1>4 DEF CommitLog
  <2>3. r \in Domains \X Hours \X Paths BY <1>1 DEF TypeOK
  <2> DEFINE k == <<r[1], r[2]>>
  <2>4. k \in Keys /\ r[3] \in Paths /\ k[2] \in {hour - 1, hour}
    BY <1>1, <2>3 DEF Keys, Logged
  <2>5. Published!Log(k, r[3]) BY <2>1, <2>2, <2>4 DEF Published!Log, Published!Open
  <2> QED BY <2>4, <2>5, SameKeys DEF Published!SNext
<1> QED BY <1>2, <1>3, <1>4, StepKinds

LEMMA HourlyInit == Init => Published!SInit
<1> SUFFICES ASSUME Init PROVE Published!SInit OBVIOUS
<1>1. \A k \in Keys : stats[k].hits = 0 BY DEF Init, NoStats
<1> QED BY <1>1, SameKeys DEF Init, Published!SInit

\* However many nodes roll up, whatever fails, only the statistics of the current
\* and the previous hour change, to counts the log has reached, and those of an
\* hour are complete before it is over for an hour.
THEOREM HourlyStatsImplemented == Spec => ImplementsHourlyStats
BY ReportInvariant, HourlyInit, HourlyStep, PTL
   DEF Spec, ImplementsHourlyStats, Published!SSpec
=============================================================================
