------------------------------- MODULE CertLock -------------------------------
(***************************************************************************)
(* The locks of internal/certs (PGStorage.Lock and Unlock).  Each is one   *)
(* statement on whichever connection the process's pool hands out, and a   *)
(* PostgreSQL advisory lock belongs to the session of its connection: the  *)
(* same session gets it again at once, another session cannot give it      *)
(* back, and it is gone when the connection is closed.                     *)
(*                                                                         *)
(* The clients are goroutines of certmagic, each of which takes the lock   *)
(* of one name, works, and releases it.                                    *)
(***************************************************************************)
EXTENDS Totals, FiniteSets, Sequences, SequencesExt

CONSTANTS
  Procs,       \* control planes on one database
  Clients,     \* goroutines that need a lock
  ProcOf,      \* the process a client runs in
  Namings,     \* which names the clients may lock, as sequences of code points
  Slots,       \* the connections a pool may open (25 of them)
  MaxIdle,     \* connections a pool keeps idle (10)
  Bits,        \* width of the lock key (64)
  MayExpire,   \* connections reach their lifetime (5 min)
  MayCancel    \* how many statements are given up or break

ASSUME CertLockAssumption ==
  /\ ProcOf \in [Clients -> Procs] /\ Clients \cap {"idle", "closed"} = {}
  /\ IsFiniteSet(Clients) /\ IsFiniteSet(Procs) /\ IsFiniteSet(Slots)
  /\ Namings \subseteq [Clients -> Seq(Nat)]
  /\ MaxIdle \in Nat \ {0} /\ Bits \in Nat \ {0}
  /\ MayExpire \in BOOLEAN /\ MayCancel \in Nat

Conns == Procs \X Slots

\* lockKey: a hash in Bits-wide integers that wrap around; the smallest has no
\* positive counterpart and stays as it is.
Wrap(n) == ((n + 2^(Bits - 1)) % 2^Bits) - 2^(Bits - 1)
LockNames == {naming[cl] : naming \in Namings, cl \in Clients}
lockKey ==
  [name \in LockNames |->
    LET h == FoldLeft(LAMBDA acc, c : Wrap(acc * 31 + c), 0, name)
    IN  IF h < 0 THEN Wrap(-h) ELSE h]

Keys == {lockKey[name] : name \in LockNames}

VARIABLES
  nameOf,    \* nameOf[cl]: the name a client locks
  conn,      \* conn[c]: "closed", "idle" or the client whose statement runs on it
  holds,     \* holds[c][k]: how often the session of c holds key k
  pc,        \* pc[cl]: where a client is
  canceled,  \* how many statements were given up or broke
  lost       \* history: a connection was closed while its session held a lock

vars == <<nameOf, conn, holds, pc, canceled, lost>>

KeyOf(cl) == lockKey[nameOf[cl]]

Init ==
  /\ nameOf \in Namings
  /\ conn = [c \in Conns |-> "closed"]
  /\ holds = [c \in Conns |-> [k \in Keys |-> 0]]
  /\ pc = [cl \in Clients |-> "new"]
  /\ canceled = 0
  /\ lost = FALSE

-----------------------------------------------------------------------------
(* The pool of a process (database/sql) *)

PoolOf(p) == {p} \X Slots
IdleIn(p) == {c \in PoolOf(p) : conn[c] = "idle"}
ClosedIn(p) == {c \in PoolOf(p) : conn[c] = "closed"}

\* An idle connection if there is one, a new one if the pool is not full;
\* otherwise the statement waits.
Offered(p) == IF IdleIn(p) # {} THEN IdleIn(p) ELSE ClosedIn(p)

\* A connection that is one too many for the pool is closed.
Returned(p) == IF Cardinality(IdleIn(p)) < MaxIdle THEN "idle" ELSE "closed"

None == [k \in Keys |-> 0]

\* A connection is closed, and its session's locks are gone.
Close(c) ==
  /\ conn' = [conn EXCEPT ![c] = "closed"]
  /\ holds' = [holds EXCEPT ![c] = None]
  /\ lost' = (lost \/ holds[c] # None)

\* Mutant: a mutex in each process.
HeldInProcess(c, k) == \E d \in PoolOf(c[1]) \ {c} : holds[d][k] > 0

Held(c, k) == \E d \in Conns \ {c} : holds[d][k] > 0

\* The sessions that session c waits for.
Blockers(c) ==
  {d \in Conns \ {c} : conn[c] \in Clients /\ holds[d][KeyOf(conn[c])] > 0}

-----------------------------------------------------------------------------

\* Lock, first half: the statement gets a connection.
LockStarts(cl, c) ==
  /\ pc[cl] = "new"
  /\ c \in Offered(ProcOf[cl])
  /\ conn' = [conn EXCEPT ![c] = cl]
  /\ pc' = [pc EXCEPT ![cl] = "locking"]
  /\ UNCHANGED <<nameOf, holds, canceled, lost>>

\* Mutant: pg_try_advisory_lock, whose answer nobody reads.
LockTries(cl, c) ==
  /\ conn[c] = cl
  /\ LET back == IF Held(c, KeyOf(cl)) THEN 0 ELSE 1
     IN  holds' = [holds EXCEPT ![c][KeyOf(cl)] = @ + back]
  /\ conn' = [conn EXCEPT ![c] = "idle"]
  /\ pc' = [pc EXCEPT ![cl] = "working"]
  /\ UNCHANGED <<nameOf, canceled, lost>>

\* Lock, second half: the database grants the key and the connection goes back.
LockReturns(cl, c) ==
  /\ conn[c] = cl
  /\ ~Held(c, KeyOf(cl))
  /\ LET back == Returned(ProcOf[cl])
     IN  /\ conn' = [conn EXCEPT ![c] = back]
         /\ holds' = IF back = "closed" THEN [holds EXCEPT ![c] = None]
                     ELSE [holds EXCEPT ![c][KeyOf(cl)] = @ + 1]
         /\ lost' = (lost \/ back = "closed")
  /\ pc' = [pc EXCEPT ![cl] = "working"]
  /\ UNCHANGED <<nameOf, canceled>>

\* The context ends: the driver closes the connection the statement runs on,
\* with all that its session holds.
LockCanceled(cl, c) ==
  /\ conn[c] = cl
  /\ canceled < MayCancel
  /\ canceled' = canceled + 1
  /\ Close(c)
  /\ pc' = [pc EXCEPT ![cl] = "failed"]
  /\ UNCHANGED nameOf

\* The context ends while the statement waits for a connection: nothing was sent.
GivesUp(cl) ==
  /\ Offered(ProcOf[cl]) = {}
  /\ canceled < MayCancel
  /\ canceled' = canceled + 1
  /\ \/ pc[cl] = "new" /\ pc' = [pc EXCEPT ![cl] = "failed"]
     \/ pc[cl] = "working" /\ pc' = [pc EXCEPT ![cl] = "done"]
  /\ UNCHANGED <<nameOf, conn, holds, lost>>

\* A key has one holder at most, so a set in which every session waits for one
\* and is waited for by one consists of cycles.
InCycle(c) ==
  \E cycle \in SUBSET Conns :
    /\ c \in cycle
    /\ \A d \in cycle : Blockers(d) \cap cycle # {} /\ \E e \in cycle : d \in Blockers(e)

\* The database ends a wait that is part of a cycle of waiting sessions.
DeadlockFound(cl, c) ==
  /\ conn[c] = cl
  /\ InCycle(c)
  /\ IF Returned(ProcOf[cl]) = "closed" THEN Close(c)
     ELSE conn' = [conn EXCEPT ![c] = "idle"] /\ UNCHANGED <<holds, lost>>
  /\ pc' = [pc EXCEPT ![cl] = "failed"]
  /\ UNCHANGED <<nameOf, canceled>>

\* Mutant: pg_advisory_unlock_all.
UnlockAll(cl, c) ==
  /\ pc[cl] = "working"
  /\ c \in Offered(ProcOf[cl])
  /\ conn' = [conn EXCEPT ![c] = "idle"]
  /\ holds' = [holds EXCEPT ![c] = None]
  /\ pc' = [pc EXCEPT ![cl] = "done"]
  /\ UNCHANGED <<nameOf, canceled, lost>>

\* Unlock: a session that does not hold the key changes nothing, and the
\* statement succeeds all the same.
Unlock(cl, c) ==
  /\ pc[cl] = "working"
  /\ c \in Offered(ProcOf[cl])
  /\ conn' = [conn EXCEPT ![c] = "idle"]
  /\ holds' = [holds EXCEPT ![c][KeyOf(cl)] = IF @ > 0 THEN @ - 1 ELSE 0]
  /\ pc' = [pc EXCEPT ![cl] = "done"]
  /\ UNCHANGED <<nameOf, canceled, lost>>

\* Unlock's connection breaks, and certmagic goes on without it: the key is free
\* only if it was this session's.
UnlockFails(cl, c) ==
  /\ pc[cl] = "working"
  /\ c \in Offered(ProcOf[cl])
  /\ canceled < MayCancel
  /\ canceled' = canceled + 1
  /\ Close(c)
  /\ pc' = [pc EXCEPT ![cl] = "done"]
  /\ UNCHANGED nameOf

\* Mutant: no connection lifetime is set.
NeverExpires(c) == conn[c] = "idle" /\ UNCHANGED vars

\* SetConnMaxLifetime: the pool closes an idle connection that is too old.
Expires(c) ==
  /\ MayExpire
  /\ conn[c] = "idle"
  /\ Close(c)
  /\ UNCHANGED <<nameOf, pc, canceled>>

Finished == (\A cl \in Clients : pc[cl] \in {"done", "failed"}) /\ UNCHANGED vars

Statement(cl) ==
  \E c \in PoolOf(ProcOf[cl]) :
    LockStarts(cl, c) \/ LockReturns(cl, c) \/ DeadlockFound(cl, c) \/ Unlock(cl, c)

Next ==
  \/ \E cl \in Clients : Statement(cl)
  \/ \E cl \in Clients, c \in Conns : LockCanceled(cl, c)
  \/ \E cl \in Clients : GivesUp(cl) \/ \E c \in PoolOf(ProcOf[cl]) : UnlockFails(cl, c)
  \/ \E c \in Conns : Expires(c)
  \/ Finished

Spec == Init /\ [][Next]_vars

\* Statements that can proceed do, and a connection does not outlive its
\* lifetime however often it is used: it is looked at each time it is returned.
FairSpec ==
  /\ Spec
  /\ \A cl \in Clients : WF_vars(Statement(cl))
  /\ \A c \in Conns : SF_vars(Expires(c))

-----------------------------------------------------------------------------

TypeOK ==
  /\ nameOf \in Namings
  /\ conn \in [Conns -> Clients \cup {"idle", "closed"}]
  /\ holds \in [Conns -> [Keys -> Nat]]
  /\ pc \in [Clients -> {"new", "locking", "working", "done", "failed"}]
  /\ canceled \in Nat
  /\ lost \in BOOLEAN
  /\ \A c \in Conns : conn[c] = "closed" => holds[c] = None

Working(p, k) == {cl \in Clients : ProcOf[cl] = p /\ KeyOf(cl) = k /\ pc[cl] = "working"}
HoldsOf(p, k) == Total([c \in PoolOf(p) |-> holds[c][k]])

\* As long as no connection is closed that holds a lock, the sessions of a
\* process hold a key at least as often as its clients believe they do, although
\* Lock and Unlock may use different connections (pg_storage.go:27).
HeldWhileWorking ==
  ~lost => \A p \in Procs, k \in Keys : HoldsOf(p, k) >= Cardinality(Working(p, k))

\* Two processes never work under one name at the same time ("Lock via PG
\* advisory locks", DECISIONS.md:49).  It does not hold: the lock is gone with
\* the connection, and its holder is not told.
Exclusive ==
  \A a, b \in Clients :
    /\ ProcOf[a] # ProcOf[b]
    /\ nameOf[a] = nameOf[b]
    /\ pc[a] = "working"
    => pc[b] # "working"

\* It holds as long as no connection is closed that holds a lock, even with
\* names whose hashes collide or wrap around.
ProcessesExclude == ~lost => Exclusive

\* The sessions of the pools are a lock between processes: a client gets it only
\* if no other process holds its key, and its process keeps the key until the
\* client leaves or a connection that holds a lock is closed (pg_storage.go:27).
HoldersOf(k) == {p \in Procs : \E c \in PoolOf(p) : holds[c][k] > 0}
Mutex == INSTANCE ProcessLock WITH
  keyOf <- [cl \in Clients |-> KeyOf(cl)],
  inside <- {cl \in Clients : pc[cl] = "working"},
  holders <- [k \in Keys |-> HoldersOf(k)],
  broken <- lost
ImplementsProcessLock == Mutex!PSpec

\* Every client that asks for a lock gets it, or an error, although it may first
\* have to wait for a connection, and an Unlock on another one leaves the lock
\* held: the connection's lifetime ends that (store.go:93).  Each client asks once.
LocksReturn == <>(\A cl \in Clients : pc[cl] \notin {"new", "locking"})

\* No client's Unlock waits for ever for a connection, although waiting Locks may
\* have taken all of the pool (pg_storage.go:33): the keys they wait for come free
\* in another pool, or the sessions wait in a cycle, which the database ends.
UnlocksReturn == []<>(\A cl \in Clients : pc[cl] # "working")
=============================================================================
