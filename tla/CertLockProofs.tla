---------------------------- MODULE CertLockProofs ----------------------------
(***************************************************************************)
(* Type correctness and mutual exclusion of the certificate locks, for any *)
(* number of processes, clients, names and connections.                    *)
(***************************************************************************)
EXTENDS CertLock, TotalsProofs

LEMMA Constants ==
  /\ ProcOf \in [Clients -> Procs]
  /\ "idle" \notin Clients /\ "closed" \notin Clients
  /\ IsFiniteSet(Clients) /\ IsFiniteSet(Slots)
BY CertLockAssumption

\* A client's key is one of the keys.
LEMMA KeyType == ASSUME TypeOK, NEW cl \in Clients PROVE KeyOf(cl) \in Keys
BY DEF TypeOK, KeyOf, Keys, LockNames

LEMMA PoolType ==
  ASSUME NEW p \in Procs
  PROVE  PoolOf(p) \subseteq Conns /\ IsFiniteSet(PoolOf(p))
<1>1. IsFiniteSet({p}) BY FS_Singleton
<1> QED BY <1>1, Constants, FS_Product DEF PoolOf, Conns

\* A session's locks, once it is closed, are none.
LEMMA NoneType == None \in [Keys -> Nat]
BY DEF None

-----------------------------------------------------------------------------

\* A step of a client, spelled out: what happens to which connection.
LEMMA Steps ==
  ASSUME [Next]_vars
  PROVE  \/ \E cl \in Clients : \E c \in PoolOf(ProcOf[cl]) :
              LockStarts(cl, c) \/ LockReturns(cl, c) \/ DeadlockFound(cl, c) \/ Unlock(cl, c)
         \/ \E cl \in Clients, c \in Conns : LockCanceled(cl, c)
         \/ \E cl \in Clients : GivesUp(cl) \/ \E c \in PoolOf(ProcOf[cl]) : UnlockFails(cl, c)
         \/ \E c \in Conns : Expires(c)
         \/ UNCHANGED vars
BY DEF Next, Statement, Finished

LEMMA TypeInvariant == TypeOK /\ [Next]_vars => TypeOK'
<1> SUFFICES ASSUME TypeOK, [Next]_vars PROVE TypeOK'
  OBVIOUS
<1>1. \A p \in Procs : PoolOf(p) \subseteq Conns BY PoolType
<1>2. ASSUME NEW cl \in Clients, NEW c \in PoolOf(ProcOf[cl]), LockStarts(cl, c)
      PROVE  TypeOK'
  BY <1>1, <1>2, Constants DEF TypeOK, LockStarts
<1>3. ASSUME NEW cl \in Clients, NEW c \in PoolOf(ProcOf[cl]), LockReturns(cl, c)
      PROVE  TypeOK'
  <2>1. c \in Conns /\ KeyOf(cl) \in Keys BY <1>1, Constants, KeyType
  <2> DEFINE back == Returned(ProcOf[cl])
  <2>2. back \in {"idle", "closed"} BY DEF Returned
  <2> HIDE DEF back
  <2>3. /\ conn' = [conn EXCEPT ![c] = back]
        /\ holds' = IF back = "closed" THEN [holds EXCEPT ![c] = None]
                    ELSE [holds EXCEPT ![c][KeyOf(cl)] = @ + 1]
        /\ lost' = (lost \/ back = "closed")
        /\ pc' = [pc EXCEPT ![cl] = "working"]
        /\ UNCHANGED <<nameOf, canceled>>
    BY <1>3 DEF LockReturns, back
  <2>4. holds' \in [Conns -> [Keys -> Nat]]
    BY <2>1, <2>3, NoneType DEF TypeOK
  <2>5. \A d \in Conns : conn'[d] = "closed" => holds'[d] = None
    BY <2>1, <2>2, <2>3 DEF TypeOK
  <2>6. conn' \in [Conns -> Clients \cup {"idle", "closed"}]
    BY <2>1, <2>2, <2>3 DEF TypeOK
  <2> QED BY <2>3, <2>4, <2>5, <2>6 DEF TypeOK
<1>4. ASSUME NEW cl \in Clients, NEW c \in PoolOf(ProcOf[cl]), DeadlockFound(cl, c)
      PROVE  TypeOK'
  BY <1>1, <1>4, Constants, NoneType DEF TypeOK, DeadlockFound, Close
<1>5. ASSUME NEW cl \in Clients, NEW c \in PoolOf(ProcOf[cl]), Unlock(cl, c)
      PROVE  TypeOK'
  <2>1. c \in Conns /\ KeyOf(cl) \in Keys BY <1>1, Constants, KeyType
  <2>2. holds' \in [Conns -> [Keys -> Nat]]
    BY <1>5, <2>1 DEF TypeOK, Unlock
  <2>3. \A d \in Conns : conn'[d] = "closed" => holds'[d] = None
    BY <1>5, <2>1 DEF TypeOK, Unlock
  <2> QED BY <1>5, <2>1, <2>2, <2>3 DEF TypeOK, Unlock
<1>6. ASSUME NEW cl \in Clients, NEW c \in Conns, LockCanceled(cl, c)
      PROVE  TypeOK'
  BY <1>6, NoneType DEF TypeOK, LockCanceled, Close
<1>7. ASSUME NEW c \in Conns, Expires(c) PROVE TypeOK'
  BY <1>7, NoneType DEF TypeOK, Expires, Close
<1>8. ASSUME NEW cl \in Clients, GivesUp(cl) PROVE TypeOK'
  BY <1>8 DEF TypeOK, GivesUp
<1>9. ASSUME NEW cl \in Clients, NEW c \in PoolOf(ProcOf[cl]), UnlockFails(cl, c)
      PROVE  TypeOK'
  <2>1. c \in Conns BY <1>1, Constants
  <2>2. /\ Close(c) /\ canceled' = canceled + 1 /\ UNCHANGED nameOf
        /\ pc' = [pc EXCEPT ![cl] = "done"]
    BY <1>9 DEF UnlockFails
  <2> QED BY <2>1, <2>2, NoneType DEF TypeOK, Close
<1>10. CASE UNCHANGED vars
  BY <1>10 DEF TypeOK, vars
<1> QED BY <1>2, <1>3, <1>4, <1>5, <1>6, <1>7, <1>8, <1>9, <1>10, Steps

LEMMA TypeInit == Init => TypeOK
<1> SUFFICES ASSUME Init PROVE TypeOK OBVIOUS
<1>1. holds \in [Conns -> [Keys -> Nat]] /\ \A c \in Conns : holds[c] = None
  BY NoneType DEF Init, None
<1> QED BY <1>1 DEF Init, TypeOK

\* The state of the pools and sessions keeps its type.
THEOREM TypeCorrect == Spec => []TypeOK
BY TypeInit, TypeInvariant, PTL DEF Spec

-----------------------------------------------------------------------------
(* Mutual exclusion.  The database grants a key to one session at a time,  *)
(* and the clients of a process never believe more than its sessions hold. *)

\* No two sessions hold one key.
OneHolder ==
  \A c, d \in Conns, k \in Keys : c # d => holds[c][k] = 0 \/ holds[d][k] = 0

LockInv == TypeOK /\ OneHolder /\ HeldWhileWorking

\* A key's holds in a pool, as a function with a total.
LEMMA HoldsType ==
  ASSUME TypeOK, NEW p \in Procs, NEW k \in Keys
  PROVE  /\ [c \in PoolOf(p) |-> holds[c][k]] \in [PoolOf(p) -> Nat]
         /\ HoldsOf(p, k) \in Nat
         /\ IsFiniteSet(Working(p, k)) /\ Cardinality(Working(p, k)) \in Nat
<1> DEFINE f == [c \in PoolOf(p) |-> holds[c][k]]
<1>1. f \in [PoolOf(p) -> Nat] BY PoolType DEF TypeOK
<1>2. HoldsOf(p, k) \in Nat
  <2> HIDE DEF f
  <2>1. Total(f) \in Nat BY <1>1, PoolType, TotalType
  <2> QED BY <2>1 DEF HoldsOf, f
<1>3. Working(p, k) \subseteq Clients BY DEF Working
<1>4. IsFiniteSet(Working(p, k)) BY <1>3, Constants, FS_Subset
<1> QED BY <1>1, <1>2, <1>4, FS_CardinalityType

\* How often the sessions of a pool hold a key, for any table of holds, and a
\* table in which one session's holds of one key are changed.
InPool(h, p, k) == Total([d \in PoolOf(p) |-> h[d][k]])
With(h, c, l, v) == [h EXCEPT ![c][l] = v]

\* One session's holds of one key change: so does the total of its pool for
\* that key, by the same amount, and no other.
LEMMA HoldsUpdate ==
  ASSUME NEW h \in [Conns -> [Keys -> Nat]],
         NEW c \in Conns, NEW l \in Keys, NEW v \in Nat,
         NEW p \in Procs, NEW k \in Keys
  PROVE  InPool(With(h, c, l, v), p, k)
           = IF c \in PoolOf(p) /\ k = l THEN InPool(h, p, k) - h[c][l] + v
             ELSE InPool(h, p, k)
<1> DEFINE f == [d \in PoolOf(p) |-> h[d][k]]
           g == [d \in PoolOf(p) |-> With(h, c, l, v)[d][k]]
<1>1. InPool(h, p, k) = Total(f) /\ InPool(With(h, c, l, v), p, k) = Total(g)
  BY DEF InPool
<1>2. CASE c \in PoolOf(p) /\ k = l
  <2>1. f \in [PoolOf(p) -> Nat] BY PoolType
  <2>2. g = [f EXCEPT ![c] = v] BY <1>2, PoolType DEF With
  <2>3. f[c] = h[c][l] BY <1>2
  <2>4. Total(g) = Total(f) - f[c] + v
    <3> HIDE DEF f, g
    <3> QED BY <1>2, <2>1, <2>2, PoolType, TotalUpdate
  <2> QED BY <1>1, <1>2, <2>3, <2>4
<1>3. CASE c \notin PoolOf(p)
  <2>1. \A d \in PoolOf(p) : d # c BY <1>3
  <2>2. g = f BY <2>1, PoolType DEF With
  <2> QED BY <1>1, <1>3, <2>2
<1>4. CASE k # l
  <2>1. g = f BY <1>4, PoolType DEF With
  <2> QED BY <1>1, <1>4, <2>1
<1> QED BY <1>2, <1>3, <1>4

\* Nothing is given to a session while another one holds the key.
LEMMA OneHolderKept == TypeOK /\ OneHolder /\ [Next]_vars => OneHolder'
<1> SUFFICES ASSUME TypeOK, OneHolder, [Next]_vars PROVE OneHolder'
  OBVIOUS
<1>1. \A p \in Procs : PoolOf(p) \subseteq Conns BY PoolType
<1>2. ASSUME \A d \in Conns, k \in Keys : holds'[d][k] \in {holds[d][k], holds[d][k] - 1, 0},
             TypeOK'
      PROVE  OneHolder'
  <2>1. \A d \in Conns, k \in Keys : holds[d][k] = 0 => holds'[d][k] = 0
    BY <1>2 DEF TypeOK
  <2> QED BY <2>1 DEF OneHolder
<1>3. TypeOK' BY TypeInvariant
<1>4. ASSUME NEW cl \in Clients, NEW c \in PoolOf(ProcOf[cl]), LockReturns(cl, c)
      PROVE  OneHolder'
  <2>1. c \in Conns /\ KeyOf(cl) \in Keys BY <1>1, Constants, KeyType
  <2>2. \A d \in Conns \ {c} : holds[d][KeyOf(cl)] = 0
    BY <1>4, <2>1 DEF TypeOK, LockReturns, Held
  <2>3. \A d \in Conns \ {c} : holds'[d] = holds[d]
    BY <1>4, <2>1 DEF TypeOK, LockReturns
  <2>4. \A k \in Keys : k # KeyOf(cl) => holds'[c][k] \in {holds[c][k], 0}
    BY <1>4, <2>1 DEF TypeOK, LockReturns, None
  <2> QED BY <2>1, <2>2, <2>3, <2>4 DEF OneHolder
<1>5. ASSUME NEW cl \in Clients, NEW c \in PoolOf(ProcOf[cl]), Unlock(cl, c)
      PROVE  OneHolder'
  <2>1. c \in Conns /\ KeyOf(cl) \in Keys BY <1>1, Constants, KeyType
  <2> QED BY <1>2, <1>3, <1>5, <2>1 DEF TypeOK, Unlock
<1>6. ASSUME NEW c \in Conns, Close(c) PROVE OneHolder'
  BY <1>2, <1>3, <1>6 DEF TypeOK, Close, None
<1>7. ASSUME UNCHANGED holds PROVE OneHolder'
  BY <1>7 DEF OneHolder
<1>8. ASSUME NEW cl \in Clients, NEW c \in PoolOf(ProcOf[cl]), DeadlockFound(cl, c)
      PROVE  OneHolder'
  BY <1>1, <1>6, <1>7, <1>8, Constants DEF DeadlockFound
<1>9. ASSUME NEW cl \in Clients, NEW c \in PoolOf(ProcOf[cl]), UnlockFails(cl, c)
      PROVE  OneHolder'
  BY <1>1, <1>6, <1>9, Constants DEF UnlockFails
<1> QED BY <1>4, <1>5, <1>6, <1>7, <1>8, <1>9, Steps
      DEF LockStarts, LockCanceled, GivesUp, Expires, vars

\* A step that leaves the holds alone and puts no client to work.
LEMMA HeldByOthers ==
  ASSUME TypeOK, HeldWhileWorking, TypeOK', lost' = lost, UNCHANGED <<nameOf, holds>>,
         \A cl \in Clients : pc'[cl] = "working" => pc[cl] = "working"
  PROVE  HeldWhileWorking'
<1> SUFFICES ASSUME ~lost', NEW p \in Procs, NEW k \in Keys
             PROVE  HoldsOf(p, k)' >= Cardinality(Working(p, k))'
  BY DEF HeldWhileWorking
<1>1. HoldsOf(p, k)' = HoldsOf(p, k) BY DEF HoldsOf
<1>2. Working(p, k)' \subseteq Working(p, k) BY DEF Working, KeyOf
<1>3. Cardinality(Working(p, k)') <= Cardinality(Working(p, k))
  BY <1>2, HoldsType, FS_Subset
<1>4. HoldsOf(p, k) >= Cardinality(Working(p, k)) BY DEF HeldWhileWorking
<1>5. Cardinality(Working(p, k)') \in Nat
  BY <1>2, HoldsType, FS_Subset, FS_CardinalityType
<1> QED BY <1>1, <1>3, <1>4, <1>5, HoldsType

\* Lock puts one client to work and gives its pool one hold.
LEMMA HeldAfterLock ==
  ASSUME TypeOK, HeldWhileWorking,
         NEW cl \in Clients, NEW c \in PoolOf(ProcOf[cl]), LockReturns(cl, c)
  PROVE  HeldWhileWorking'
<1> SUFFICES ASSUME ~lost', NEW p \in Procs, NEW k \in Keys
             PROVE  HoldsOf(p, k)' >= Cardinality(Working(p, k))'
  BY DEF HeldWhileWorking
<1> DEFINE q == ProcOf[cl]
           l == KeyOf(cl)
           v == holds[c][l] + 1
<1>1. q \in Procs /\ l \in Keys /\ c \in Conns /\ c \in PoolOf(q)
  BY Constants, KeyType, PoolType
<1>2. ~lost /\ holds' = [holds EXCEPT ![c][l] = v]
  <2>1. Returned(q) # "closed" BY DEF LockReturns
  <2> QED BY <2>1, <1>1 DEF LockReturns, TypeOK
<1>3. holds[c][l] \in Nat /\ v \in Nat BY <1>1 DEF TypeOK
<1>4. HoldsOf(p, k)' = IF p = q /\ k = l THEN HoldsOf(p, k) + 1 ELSE HoldsOf(p, k)
  <2> HIDE DEF q, l, v
  <2>0. holds \in [Conns -> [Keys -> Nat]] BY DEF TypeOK
  <2>1. HoldsOf(p, k) = InPool(holds, p, k) /\ HoldsOf(p, k)' = InPool(holds', p, k)
    BY DEF HoldsOf, InPool
  <2>2. c \in PoolOf(p) <=> p = q BY <1>1 DEF PoolOf
  <2>3. InPool(With(holds, c, l, v), p, k)
          = IF p = q /\ k = l THEN InPool(holds, p, k) - holds[c][l] + v
            ELSE InPool(holds, p, k)
    BY <1>1, <1>3, <2>0, <2>2, HoldsUpdate
  <2>4. HoldsOf(p, k)' = IF p = q /\ k = l THEN HoldsOf(p, k) - holds[c][l] + v
                         ELSE HoldsOf(p, k)
    BY <1>2, <2>1, <2>3 DEF With
  <2> QED BY <2>4, <1>3, HoldsType DEF v
<1>5. HoldsOf(p, k) >= Cardinality(Working(p, k)) BY <1>2 DEF HeldWhileWorking
<1>6. Working(p, k)' \subseteq IF p = q /\ k = l THEN Working(p, k) \cup {cl} ELSE Working(p, k)
  BY DEF LockReturns, TypeOK, Working, KeyOf
<1>7. CASE p = q /\ k = l
  <2>1. Working(p, k)' \subseteq Working(p, k) \cup {cl} BY <1>6, <1>7
  <2>2. /\ IsFiniteSet(Working(p, k) \cup {cl})
        /\ Cardinality(Working(p, k) \cup {cl}) <= Cardinality(Working(p, k)) + 1
    <3> DEFINE W == Working(p, k)
    <3>1. IsFiniteSet(W) /\ Cardinality(W) \in Nat BY HoldsType
    <3> HIDE DEF W
    <3>2. /\ IsFiniteSet(W \cup {cl})
          /\ Cardinality(W \cup {cl}) = Cardinality(W)
             \/ Cardinality(W \cup {cl}) = Cardinality(W) + 1
      BY <3>1, FS_AddElement
    <3> QED BY <3>1, <3>2 DEF W
  <2>3. /\ Cardinality(Working(p, k)') <= Cardinality(Working(p, k) \cup {cl})
        /\ Cardinality(Working(p, k)') \in Nat
        /\ Cardinality(Working(p, k) \cup {cl}) \in Nat
    BY <2>1, <2>2, FS_Subset, FS_CardinalityType
  <2> QED BY <1>4, <1>5, <1>7, <2>2, <2>3, HoldsType
<1>8. CASE ~(p = q /\ k = l)
  <2>1. Working(p, k)' \subseteq Working(p, k) BY <1>6, <1>8
  <2>2. /\ Cardinality(Working(p, k)') <= Cardinality(Working(p, k))
        /\ Cardinality(Working(p, k)') \in Nat
    BY <2>1, HoldsType, FS_Subset, FS_CardinalityType
  <2> QED BY <1>4, <1>5, <1>8, <2>2, HoldsType
<1> QED BY <1>7, <1>8

\* Unlock takes one client from its work, and one hold at most from its pool.
LEMMA HeldAfterUnlock ==
  ASSUME TypeOK, HeldWhileWorking,
         NEW cl \in Clients, NEW c \in PoolOf(ProcOf[cl]), Unlock(cl, c)
  PROVE  HeldWhileWorking'
<1> SUFFICES ASSUME ~lost', NEW p \in Procs, NEW k \in Keys
             PROVE  HoldsOf(p, k)' >= Cardinality(Working(p, k))'
  BY DEF HeldWhileWorking
<1> DEFINE q == ProcOf[cl]
           l == KeyOf(cl)
           v == IF holds[c][l] > 0 THEN holds[c][l] - 1 ELSE 0
<1>1. q \in Procs /\ l \in Keys /\ c \in Conns /\ c \in PoolOf(q)
  BY Constants, KeyType, PoolType
<1>2. ~lost /\ holds' = [holds EXCEPT ![c][l] = v]
  BY <1>1 DEF Unlock, TypeOK
<1>3. holds[c][l] \in Nat /\ v \in Nat /\ v >= holds[c][l] - 1 BY <1>1 DEF TypeOK
<1>4. /\ HoldsOf(p, k)' \in Nat
      /\ p = q /\ k = l => HoldsOf(p, k)' >= HoldsOf(p, k) - 1
      /\ ~(p = q /\ k = l) => HoldsOf(p, k)' = HoldsOf(p, k)
  <2> HIDE DEF q, l, v
  <2>0. holds \in [Conns -> [Keys -> Nat]] BY DEF TypeOK
  <2>1. HoldsOf(p, k) = InPool(holds, p, k) /\ HoldsOf(p, k)' = InPool(holds', p, k)
    BY DEF HoldsOf, InPool
  <2>2. c \in PoolOf(p) <=> p = q BY <1>1 DEF PoolOf
  <2>3. InPool(With(holds, c, l, v), p, k)
          = IF p = q /\ k = l THEN InPool(holds, p, k) - holds[c][l] + v
            ELSE InPool(holds, p, k)
    BY <1>1, <1>3, <2>0, <2>2, HoldsUpdate
  <2>4. HoldsOf(p, k)' = IF p = q /\ k = l THEN HoldsOf(p, k) - holds[c][l] + v
                         ELSE HoldsOf(p, k)
    BY <1>2, <2>1, <2>3 DEF With
  <2>5. TypeOK' BY TypeInvariant DEF Next, Statement
  <2>6. HoldsOf(p, k)' \in Nat
    <3> DEFINE g == [d \in PoolOf(p) |-> holds'[d][k]]
    <3>1. g \in [PoolOf(p) -> Nat] BY <2>5, PoolType DEF TypeOK
    <3> HIDE DEF g
    <3>2. Total(g) \in Nat BY <3>1, PoolType, TotalType
    <3> QED BY <3>2 DEF HoldsOf, g
  <2> QED BY <2>4, <2>6, <1>3, HoldsType
<1>5. HoldsOf(p, k) >= Cardinality(Working(p, k)) BY <1>2 DEF HeldWhileWorking
<1>6. CASE p = q /\ k = l
  <2>1. cl \in Working(p, k) /\ Working(p, k)' = Working(p, k) \ {cl}
    BY <1>6 DEF Unlock, TypeOK, Working, KeyOf
  <2>2. Cardinality(Working(p, k)') = Cardinality(Working(p, k)) - 1
    BY <2>1, HoldsType, FS_RemoveElement
  <2> QED BY <1>4, <1>5, <1>6, <2>2, HoldsType
<1>7. CASE ~(p = q /\ k = l)
  <2>1. Working(p, k)' = Working(p, k)
    BY <1>7 DEF Unlock, TypeOK, Working, KeyOf
  <2> QED BY <1>4, <1>5, <1>7, <2>1
<1> QED BY <1>6, <1>7

LEMMA HeldKept == TypeOK /\ HeldWhileWorking /\ [Next]_vars => HeldWhileWorking'
<1> SUFFICES ASSUME TypeOK, HeldWhileWorking, [Next]_vars PROVE HeldWhileWorking'
  OBVIOUS
<1>1. TypeOK' BY TypeInvariant
<1>2. ASSUME NEW c \in Conns, Close(c), UNCHANGED nameOf,
             \A cl \in Clients : pc'[cl] = "working" => pc[cl] = "working"
      PROVE  HeldWhileWorking'
  <2>1. CASE lost' BY <2>1 DEF HeldWhileWorking
  <2>2. CASE ~lost'
    <3>1. holds[c] = None /\ lost' = lost BY <1>1, <1>2, <2>2 DEF Close, TypeOK
    <3>2. holds' = holds BY <1>2, <3>1 DEF Close, TypeOK
    <3> QED BY <1>1, <1>2, <3>1, <3>2, HeldByOthers
  <2> QED BY <2>1, <2>2
<1>3. ASSUME NEW cl \in Clients, NEW c \in PoolOf(ProcOf[cl]), LockStarts(cl, c)
      PROVE  HeldWhileWorking'
  BY <1>1, <1>3, HeldByOthers DEF LockStarts, TypeOK
<1>4. ASSUME NEW cl \in Clients, NEW c \in PoolOf(ProcOf[cl]), DeadlockFound(cl, c)
      PROVE  HeldWhileWorking'
  <2>1. c \in Conns BY Constants, PoolType
  <2>2. UNCHANGED nameOf /\ \A d \in Clients : pc'[d] = "working" => pc[d] = "working"
    BY <1>4 DEF DeadlockFound, TypeOK
  <2>3. CASE Close(c) BY <1>2, <2>1, <2>2, <2>3
  <2>4. CASE UNCHANGED <<holds, lost>> BY <1>1, <2>2, <2>4, HeldByOthers
  <2> QED BY <1>4, <2>3, <2>4 DEF DeadlockFound
<1>5. ASSUME NEW cl \in Clients, NEW c \in Conns, LockCanceled(cl, c)
      PROVE  HeldWhileWorking'
  BY <1>2, <1>5 DEF LockCanceled, TypeOK
<1>6. ASSUME NEW c \in Conns, Expires(c) PROVE HeldWhileWorking'
  BY <1>2, <1>6 DEF Expires
<1>7. ASSUME NEW cl \in Clients, GivesUp(cl) PROVE HeldWhileWorking'
  BY <1>1, <1>7, HeldByOthers DEF GivesUp, TypeOK
<1>8. ASSUME NEW cl \in Clients, NEW c \in PoolOf(ProcOf[cl]), UnlockFails(cl, c)
      PROVE  HeldWhileWorking'
  <2>1. c \in Conns BY Constants, PoolType
  <2>2. UNCHANGED nameOf /\ \A d \in Clients : pc'[d] = "working" => pc[d] = "working"
    BY <1>8 DEF UnlockFails, TypeOK
  <2> QED BY <1>2, <1>8, <2>1, <2>2 DEF UnlockFails
<1>9. CASE UNCHANGED vars
  BY <1>1, <1>9, HeldByOthers DEF vars
<1> QED BY <1>3, <1>4, <1>5, <1>6, <1>7, <1>8, <1>9, HeldAfterLock, HeldAfterUnlock, Steps

LEMMA LockInvariant == Spec => []LockInv
<1>1. Init => LockInv
  <2> SUFFICES ASSUME Init PROVE OneHolder /\ HeldWhileWorking /\ TypeOK
    BY DEF LockInv
  <2>1. TypeOK BY TypeInit
  <2>2. OneHolder BY DEF Init, OneHolder
  <2>3. ASSUME NEW p \in Procs, NEW k \in Keys
        PROVE  HoldsOf(p, k) >= Cardinality(Working(p, k))
    <3>1. Working(p, k) = {} BY DEF Init, Working
    <3> QED BY <3>1, <2>1, HoldsType, FS_EmptySet
  <2> QED BY <2>1, <2>2, <2>3 DEF HeldWhileWorking
<1>2. LockInv /\ [Next]_vars => LockInv'
  BY TypeInvariant, OneHolderKept, HeldKept DEF LockInv
<1> QED BY <1>1, <1>2, PTL DEF Spec

\* While no connection is closed that holds a lock, a process's sessions hold a
\* key at least as often as its clients believe they do.
THEOREM HeldWhileWorkingAlways == Spec => []HeldWhileWorking
BY LockInvariant, PTL DEF LockInv

\* A pool with a client at work has a session that holds the client's key.
LEMMA WorkerHasHolder ==
  ASSUME LockInv, ~lost, NEW cl \in Clients, pc[cl] = "working"
  PROVE  \E c \in PoolOf(ProcOf[cl]) : holds[c][KeyOf(cl)] # 0
<1> DEFINE p == ProcOf[cl]
           k == KeyOf(cl)
           f == [c \in PoolOf(p) |-> holds[c][k]]
<1>1. p \in Procs /\ k \in Keys /\ TypeOK BY Constants, KeyType DEF LockInv
<1>2. cl \in Working(p, k) BY DEF Working
<1>3. Cardinality(Working(p, k)) # 0
  BY <1>1, <1>2, HoldsType, FS_EmptySet
<1>4. Total(f) # 0
  <2>1. Total(f) >= Cardinality(Working(p, k)) BY <1>1 DEF LockInv, HeldWhileWorking, HoldsOf
  <2>2. Total(f) \in Nat BY <1>1, HoldsType DEF HoldsOf
  <2> QED BY <1>1, <1>3, <2>1, <2>2, HoldsType
<1>5. f \in [PoolOf(p) -> Nat] BY <1>1, HoldsType
<1>6. \E c \in PoolOf(p) : f[c] # 0
  <2> HIDE DEF f, p
  <2> QED BY <1>1, <1>4, <1>5, PoolType, TotalZero
<1> QED BY <1>6

\* Two processes never work under one name at the same time, however many
\* connections they have and even when the keys of two names collide, as long
\* as no connection is closed that holds a lock.
THEOREM ProcessesExcludeAlways == Spec => []ProcessesExclude
<1>1. LockInv => ProcessesExclude
  <2> SUFFICES ASSUME LockInv, ~lost, NEW a \in Clients, NEW b \in Clients,
                      ProcOf[a] # ProcOf[b], nameOf[a] = nameOf[b],
                      pc[a] = "working", pc[b] = "working"
               PROVE  FALSE
    BY DEF ProcessesExclude, Exclusive
  <2>1. PICK c \in PoolOf(ProcOf[a]) : holds[c][KeyOf(a)] # 0 BY WorkerHasHolder
  <2>2. PICK d \in PoolOf(ProcOf[b]) : holds[d][KeyOf(b)] # 0 BY WorkerHasHolder
  <2>3. c # d BY DEF PoolOf
  <2>4. KeyOf(a) = KeyOf(b) BY DEF KeyOf
  <2>5. c \in Conns /\ d \in Conns /\ KeyOf(a) \in Keys
    BY Constants, PoolType, KeyType DEF LockInv
  <2> QED BY <2>1, <2>2, <2>3, <2>4, <2>5 DEF LockInv, OneHolder
<1> QED BY <1>1, LockInvariant, PTL

-----------------------------------------------------------------------------
(* The sessions implement ProcessLock.                                     *)

\* The process of a client at work holds the client's key.
ProcessHolds ==
  ~lost => \A cl \in Clients :
    pc[cl] = "working" => \E c \in PoolOf(ProcOf[cl]) : holds[c][KeyOf(cl)] > 0

LEMMA ProcessHoldsAlways == Spec => [](LockInv /\ ProcessHolds)
<1>1. LockInv => ProcessHolds
  <2> SUFFICES ASSUME LockInv, ~lost, NEW cl \in Clients, pc[cl] = "working"
               PROVE  \E c \in PoolOf(ProcOf[cl]) : holds[c][KeyOf(cl)] > 0
    BY DEF ProcessHolds
  <2>1. PICK c \in PoolOf(ProcOf[cl]) : holds[c][KeyOf(cl)] # 0 BY WorkerHasHolder
  <2>2. c \in Conns /\ KeyOf(cl) \in Keys BY Constants, PoolType, KeyType DEF LockInv
  <2> QED BY <2>1, <2>2 DEF LockInv, TypeOK
<1> QED BY <1>1, LockInvariant, PTL

\* A step after which the session of one connection does not hold a key unless it
\* held it before, and the others hold what they held, takes the key from its
\* holder or leaves it.
LEMMA HoldersDrop ==
  ASSUME LockInv, TypeOK', NEW c \in Conns, NEW k \in Keys,
         \A d \in Conns \ {c} : holds'[d] = holds[d],
         holds'[c][k] > 0 => holds[c][k] > 0
  PROVE  HoldersOf(k)' \in {HoldersOf(k), {}}
<1>0. TypeOK /\ OneHolder BY DEF LockInv
<1>1. \A p \in Procs : PoolOf(p) \subseteq Conns BY PoolType
<1>2. CASE holds'[c][k] > 0 <=> holds[c][k] > 0
  <2>1. \A d \in Conns : holds'[d][k] > 0 <=> holds[d][k] > 0 BY <1>2
  <2>2. HoldersOf(k)' = HoldersOf(k) BY <1>1, <2>1 DEF HoldersOf
  <2> QED BY <2>2
<1>3. CASE holds[c][k] > 0 /\ ~(holds'[c][k] > 0)
  <2>1. \A d \in Conns : ~(holds'[d][k] > 0) BY <1>0, <1>3 DEF OneHolder, TypeOK
  <2>2. HoldersOf(k)' = {} BY <1>1, <2>1 DEF HoldersOf
  <2> QED BY <2>2
<1> QED BY <1>2, <1>3

\* A key that a client at work needs has a holder, unless the lock is broken.
LEMMA NeededIsHeld ==
  ASSUME ProcessHolds', ~lost', NEW cl \in Clients, pc'[cl] = "working"
  PROVE  HoldersOf(KeyOf(cl))' # {}
<1>1. PICK c \in PoolOf(ProcOf[cl]) : holds'[c][KeyOf(cl)'] > 0 BY DEF ProcessHolds
<1>2. ProcOf[cl] \in Procs BY Constants
<1> QED BY <1>1, <1>2 DEF HoldersOf

\* The keys without a holder after a step.
IsFree(k) == HoldersOf(k) = {}

LEMMA SomeFree == \E gone \in SUBSET Keys : \A k \in Keys : k \in gone <=> IsFree(k)'
<1> DEFINE S == {k \in Keys : IsFree(k)'}
<1>1. S \in SUBSET Keys /\ \A k \in Keys : k \in S <=> IsFree(k)' OBVIOUS
<1> HIDE DEF S
<1> QED BY <1>1

\* Keys are given back as ProcessLock allows it, if each has after the step the
\* holders in held or none.
LEMMA BackAsAllowed ==
  ASSUME TypeOK, TypeOK', ProcessHolds', UNCHANGED nameOf, lost => lost',
         NEW held, \A k \in Keys : HoldersOf(k)' \in {held[k], {}},
         NEW gone \in SUBSET Keys, \A k \in Keys : k \in gone <=> IsFree(k)'
  PROVE  Mutex!GivesBack(held, gone)
<1>1. [k \in Keys |-> HoldersOf(k)]' = [k \in Keys |-> IF k \in gone THEN {} ELSE held[k]]
  BY DEF IsFree
<1>2. lost' \in {lost, TRUE} BY DEF TypeOK
<1>3. ASSUME ~lost', NEW cl \in Clients, pc'[cl] = "working" PROVE KeyOf(cl) \notin gone
  <2>1. KeyOf(cl)' = KeyOf(cl) /\ KeyOf(cl) \in Keys BY KeyType DEF KeyOf
  <2>2. HoldersOf(KeyOf(cl))' # {} BY <1>3, NeededIsHeld
  <2> QED BY <2>1, <2>2 DEF IsFree
<1> QED BY <1>1, <1>2, <1>3 DEF Mutex!GivesBack

\* What ProcessLock sees of a state.
Inside == {cl \in Clients : pc[cl] = "working"}
Holders == [k \in Keys |-> HoldersOf(k)]

\* Steps that put no client to work and leave it there, or give keys back.
LEMMA FreeStep ==
  ASSUME LockInv, LockInv', ProcessHolds', UNCHANGED nameOf, lost => lost',
         \A k \in Keys : HoldersOf(k)' \in {HoldersOf(k), {}},
         \/ Inside' = Inside
         \/ \E cl \in Clients : pc[cl] = "working" /\ Inside' = Inside \ {cl}
  PROVE  Mutex!PNext
<1>0. PICK gone \in SUBSET Keys : \A k \in Keys : k \in gone <=> IsFree(k)' BY SomeFree
<1>1. TypeOK /\ TypeOK' BY DEF LockInv
<1>2. \A k \in Keys : HoldersOf(k)' \in {Holders[k], {}} BY DEF Holders
<1>3. Mutex!GivesBack(Holders, gone)
  <2> HIDE DEF Holders
  <2> QED BY <1>0, <1>1, <1>2, BackAsAllowed
<1>5. UNCHANGED [cl \in Clients |-> KeyOf(cl)] BY DEF KeyOf
<1>6. CASE Inside' = Inside
  <2>1. Mutex!Free(gone) BY <1>3, <1>6 DEF Mutex!Free, Holders, Inside
  <2> QED BY <1>5, <2>1 DEF Mutex!PNext
<1>7. ASSUME NEW cl \in Clients, pc[cl] = "working", Inside' = Inside \ {cl} PROVE Mutex!PNext
  <2>1. Mutex!Leave(cl, gone) BY <1>3, <1>7 DEF Mutex!Leave, Holders, Inside
  <2> QED BY <1>5, <2>1 DEF Mutex!PNext
<1> QED BY <1>6, <1>7

\* Lock lets a client in when no other process holds its key.
LEMMA EnterStep ==
  ASSUME LockInv, LockInv', ProcessHolds',
         NEW cl \in Clients, NEW c \in PoolOf(ProcOf[cl]), LockReturns(cl, c),
         pc[cl] # "working"
  PROVE  Mutex!PNext
<1> DEFINE q == ProcOf[cl]
           l == KeyOf(cl)
           held == [Holders EXCEPT ![l] = {q}]
<1>0. PICK gone \in SUBSET Keys : \A k \in Keys : k \in gone <=> IsFree(k)' BY SomeFree
<1>1. TypeOK /\ TypeOK' /\ OneHolder /\ OneHolder' BY DEF LockInv
<1>2. q \in Procs /\ l \in Keys /\ c \in Conns /\ c[1] = q /\ PoolOf(q) \subseteq Conns
  BY <1>1, Constants, KeyType, PoolType DEF PoolOf
<1>3. \A d \in Conns : holds[d][l] > 0 => d = c BY <1>2 DEF LockReturns, Held
<1>4. HoldersOf(l) \subseteq {q}
  <2>1. ASSUME NEW p \in HoldersOf(l) PROVE p = q
    <3>1. PICK d \in PoolOf(p) : p \in Procs /\ holds[d][l] > 0 BY DEF HoldersOf
    <3>2. d \in Conns /\ d[1] = p BY <3>1, PoolType DEF PoolOf
    <3> QED BY <1>2, <1>3, <3>1, <3>2
  <2> QED BY <2>1
<1>5. \A d \in Conns \ {c} : holds'[d] = holds[d] BY <1>1, <1>2 DEF LockReturns, TypeOK
<1>6. \A k \in Keys : k # l /\ holds'[c][k] > 0 => holds[c][k] > 0
  BY <1>1, <1>2 DEF LockReturns, TypeOK, None
<1>7. ASSUME NEW k \in Keys PROVE HoldersOf(k)' \in {held[k], {}}
  <2>1. CASE k # l
    <3>1. HoldersOf(k)' \in {HoldersOf(k), {}}
      BY <1>1, <1>2, <1>5, <1>6, <2>1, HoldersDrop
    <3>2. held[k] = HoldersOf(k) BY <2>1 DEF Holders
    <3> QED BY <3>1, <3>2
  <2>2. CASE k = l
    <3>1. held[k] = {q} BY <2>2 DEF Holders
    <3>2. HoldersOf(k)' \subseteq {q}
      <4>1. ASSUME NEW p \in Procs, NEW d \in PoolOf(p), holds'[d][k] > 0 PROVE p = q
        <5>1. d \in Conns /\ d[1] = p BY PoolType DEF PoolOf
        <5>2. d # c => holds[d][l] > 0 BY <1>5, <2>2, <4>1, <5>1
        <5> QED BY <1>2, <1>3, <5>1, <5>2
      <4> QED BY <4>1 DEF HoldersOf
    <3> QED BY <2>2, <3>1, <3>2
  <2> QED BY <2>1, <2>2
<1>8. UNCHANGED nameOf /\ (lost => lost') BY DEF LockReturns
<1>9. Mutex!GivesBack(held, gone)
  <2> HIDE DEF held
  <2> QED BY <1>0, <1>1, <1>7, <1>8, BackAsAllowed
<1>10. Inside' = Inside \cup {cl} BY <1>1 DEF Inside, LockReturns, TypeOK
<1>11. cl \notin Inside BY DEF Inside
<1>12. UNCHANGED [x \in Clients |-> KeyOf(x)] BY <1>8 DEF KeyOf
<1>13. Mutex!Enter(cl, gone)
  BY <1>4, <1>9, <1>10, <1>11, <1>2 DEF Mutex!Enter, Holders, Inside
<1> QED BY <1>12, <1>13 DEF Mutex!PNext

\* A client whose statement has a connection has no other one, and waits for it.
OneStatement ==
  /\ \A c \in Conns : conn[c] \in Clients => pc[conn[c]] = "locking"
  /\ \A c, d \in Conns : conn[c] \in Clients /\ conn[c] = conn[d] => c = d

LEMMA OneStatementKept == TypeOK /\ OneStatement /\ [Next]_vars => OneStatement'
<1> SUFFICES ASSUME TypeOK, OneStatement, [Next]_vars PROVE OneStatement'
  OBVIOUS
<1>1. \A p \in Procs : PoolOf(p) \subseteq Conns BY PoolType
<1>2. ASSUME NEW cl \in Clients, NEW c \in PoolOf(ProcOf[cl]), LockStarts(cl, c)
      PROVE  OneStatement'
  <2>1. c \in Conns BY <1>1, Constants
  <2>2. conn' = [conn EXCEPT ![c] = cl] /\ pc' = [pc EXCEPT ![cl] = "locking"] /\ pc[cl] = "new"
    BY <1>2 DEF LockStarts
  <2>3. \A d \in Conns : conn[d] # cl BY <2>2 DEF OneStatement
  <2> QED BY <2>1, <2>2, <2>3 DEF TypeOK, OneStatement
<1>3. ASSUME NEW cl \in Clients, NEW c \in Conns, conn[c] = cl,
             NEW back \in {"idle", "closed"}, conn' = [conn EXCEPT ![c] = back],
             NEW s, pc' = [pc EXCEPT ![cl] = s]
      PROVE  OneStatement'
  <2>1. \A d \in Conns \ {c} : conn[d] # cl BY <1>3 DEF OneStatement
  <2> QED BY <1>3, <2>1, Constants DEF TypeOK, OneStatement
<1>4. ASSUME NEW c \in Conns, conn[c] \notin Clients, NEW back \in {"idle", "closed"},
             conn' = [conn EXCEPT ![c] = back],
             \A cl \in Clients : pc[cl] = "locking" => pc'[cl] = "locking"
      PROVE  OneStatement'
  BY <1>4, Constants DEF TypeOK, OneStatement
<1>5. ASSUME NEW cl \in Clients, NEW c \in PoolOf(ProcOf[cl]), LockReturns(cl, c)
      PROVE  OneStatement'
  <2>1. Returned(ProcOf[cl]) \in {"idle", "closed"} BY DEF Returned
  <2> QED BY <1>1, <1>3, <1>5, <2>1, Constants DEF LockReturns
<1>6. ASSUME NEW cl \in Clients, NEW c \in PoolOf(ProcOf[cl]), DeadlockFound(cl, c)
      PROVE  OneStatement'
  BY <1>1, <1>3, <1>6, Constants DEF DeadlockFound, Close
<1>7. ASSUME NEW cl \in Clients, NEW c \in PoolOf(ProcOf[cl]), Unlock(cl, c)
      PROVE  OneStatement'
  <2>1. c \in Conns /\ conn[c] \in {"idle", "closed"}
    BY <1>1, <1>7, Constants DEF Unlock, Offered, IdleIn, ClosedIn
  <2>2. \A d \in Clients : pc[d] = "locking" => pc'[d] = "locking" BY <1>7 DEF Unlock, TypeOK
  <2> QED BY <1>4, <1>7, <2>1, <2>2, Constants DEF Unlock
<1>8. ASSUME NEW cl \in Clients, NEW c \in Conns, LockCanceled(cl, c)
      PROVE  OneStatement'
  BY <1>3, <1>8 DEF LockCanceled, Close
<1>9. ASSUME NEW c \in Conns, Expires(c) PROVE OneStatement'
  BY <1>4, <1>9, Constants DEF Expires, Close
<1>10. ASSUME NEW cl \in Clients, GivesUp(cl) PROVE OneStatement'
  <2>1. conn' = conn /\ \A d \in Clients : pc[d] = "locking" => pc'[d] = "locking"
    BY <1>10 DEF GivesUp, TypeOK
  <2> QED BY <2>1 DEF OneStatement
<1>11. ASSUME NEW cl \in Clients, NEW c \in PoolOf(ProcOf[cl]), UnlockFails(cl, c)
      PROVE  OneStatement'
  <2>1. c \in Conns /\ conn[c] \in {"idle", "closed"}
    BY <1>1, <1>11, Constants DEF UnlockFails, Offered, IdleIn, ClosedIn
  <2>2. \A d \in Clients : pc[d] = "locking" => pc'[d] = "locking"
    BY <1>11 DEF UnlockFails, TypeOK
  <2> QED BY <1>4, <1>11, <2>1, <2>2, Constants DEF UnlockFails, Close
<1>12. CASE UNCHANGED vars
  BY <1>12 DEF OneStatement, vars
<1> QED BY <1>2, <1>5, <1>6, <1>7, <1>8, <1>9, <1>10, <1>11, <1>12, Steps

\* Closing a connection takes its session's keys, and lets no client in.
LEMMA CloseStep ==
  ASSUME LockInv, LockInv', ProcessHolds', NEW c \in Conns, Close(c), UNCHANGED nameOf,
         \/ Inside' = Inside
         \/ \E cl \in Clients : pc[cl] = "working" /\ Inside' = Inside \ {cl}
  PROVE  Mutex!PNext
<1>1. TypeOK /\ TypeOK' BY DEF LockInv
<1>2. \A d \in Conns \ {c} : holds'[d] = holds[d] BY <1>1 DEF Close, TypeOK
<1>3. \A k \in Keys : holds'[c][k] = 0 BY <1>1 DEF Close, TypeOK, None
<1>4. \A k \in Keys : HoldersOf(k)' \in {HoldersOf(k), {}} BY <1>1, <1>2, <1>3, HoldersDrop
<1>5. lost => lost' BY DEF Close
<1> QED BY <1>4, <1>5, FreeStep

LEMMA MutexStep ==
  ASSUME LockInv, LockInv', ProcessHolds', OneStatement, [Next]_vars
  PROVE  [Mutex!PNext]_(Mutex!pvars)
<1>1. TypeOK /\ TypeOK' /\ \A p \in Procs : PoolOf(p) \subseteq Conns BY PoolType DEF LockInv
<1>2. ASSUME UNCHANGED <<nameOf, holds, lost>>, Inside' = Inside
      PROVE  UNCHANGED Mutex!pvars
  BY <1>2 DEF Mutex!pvars, Inside, HoldersOf, KeyOf
<1>3. ASSUME NEW cl \in Clients, NEW c \in PoolOf(ProcOf[cl]), LockStarts(cl, c)
      PROVE  UNCHANGED Mutex!pvars
  <2>1. Inside' = Inside BY <1>1, <1>3 DEF LockStarts, Inside, TypeOK
  <2> QED BY <1>2, <1>3, <2>1 DEF LockStarts
<1>4. ASSUME NEW cl \in Clients, NEW c \in Conns, conn[c] = cl
      PROVE  pc[cl] = "locking"
  BY <1>4 DEF OneStatement
<1>5. ASSUME NEW cl \in Clients, NEW c \in PoolOf(ProcOf[cl]), LockReturns(cl, c)
      PROVE  Mutex!PNext
  <2>1. pc[cl] # "working" BY <1>1, <1>4, <1>5, Constants DEF LockReturns
  <2> QED BY <1>5, <2>1, EnterStep
<1>6. ASSUME NEW cl \in Clients, NEW c \in Conns, conn[c] = cl, pc' = [pc EXCEPT ![cl] = "failed"]
      PROVE  Inside' = Inside
  BY <1>1, <1>4, <1>6 DEF Inside, TypeOK
<1>7. ASSUME NEW cl \in Clients, NEW c \in PoolOf(ProcOf[cl]), DeadlockFound(cl, c)
      PROVE  Mutex!PNext \/ UNCHANGED Mutex!pvars
  <2>1. c \in Conns /\ UNCHANGED nameOf BY <1>1, <1>7, Constants DEF DeadlockFound
  <2>2. Inside' = Inside BY <1>6, <1>7, <2>1 DEF DeadlockFound
  <2>3. CASE Close(c) BY <2>1, <2>2, <2>3, CloseStep
  <2>4. CASE UNCHANGED <<holds, lost>> BY <1>2, <2>1, <2>2, <2>4
  <2> QED BY <1>7, <2>3, <2>4 DEF DeadlockFound
<1>8. ASSUME NEW cl \in Clients, NEW c \in PoolOf(ProcOf[cl]), Unlock(cl, c)
      PROVE  Mutex!PNext
  <2>1. c \in Conns BY <1>1, Constants
  <2>2. \A d \in Conns \ {c} : holds'[d] = holds[d] BY <1>1, <1>8, <2>1 DEF Unlock, TypeOK
  <2>3. \A k \in Keys : holds'[c][k] > 0 => holds[c][k] > 0
    BY <1>1, <1>8, <2>1 DEF Unlock, TypeOK
  <2>4. \A k \in Keys : HoldersOf(k)' \in {HoldersOf(k), {}}
    BY <1>1, <2>1, <2>2, <2>3, HoldersDrop
  <2>5. pc[cl] = "working" /\ Inside' = Inside \ {cl} BY <1>1, <1>8 DEF Unlock, Inside, TypeOK
  <2>6. UNCHANGED <<nameOf, lost>> BY <1>8 DEF Unlock
  <2> QED BY <2>4, <2>5, <2>6, FreeStep
<1>9. ASSUME NEW cl \in Clients, NEW c \in Conns, LockCanceled(cl, c)
      PROVE  Mutex!PNext
  <2>1. Inside' = Inside BY <1>6, <1>9 DEF LockCanceled
  <2> QED BY <1>9, <2>1, CloseStep DEF LockCanceled
<1>10. ASSUME NEW c \in Conns, Expires(c) PROVE Mutex!PNext
  <2>1. Inside' = Inside BY <1>10 DEF Expires, Inside
  <2> QED BY <1>10, <2>1, CloseStep DEF Expires
<1>11. ASSUME NEW cl \in Clients, pc' = [pc EXCEPT ![cl] = "done"]
       PROVE  Inside' = Inside \ {cl}
  BY <1>1, <1>11 DEF Inside, TypeOK
<1>12. ASSUME NEW cl \in Clients, GivesUp(cl) PROVE Mutex!PNext \/ UNCHANGED Mutex!pvars
  <2>1. UNCHANGED <<nameOf, holds, lost>> BY <1>12 DEF GivesUp
  <2>2. CASE pc[cl] = "new" /\ pc' = [pc EXCEPT ![cl] = "failed"]
    <3>1. Inside' = Inside BY <1>1, <2>2 DEF Inside, TypeOK
    <3> QED BY <1>2, <2>1, <3>1
  <2>3. CASE pc[cl] = "working" /\ pc' = [pc EXCEPT ![cl] = "done"]
    <3>1. Inside' = Inside \ {cl} BY <1>11, <2>3
    <3>2. \A k \in Keys : HoldersOf(k)' = HoldersOf(k) BY <2>1 DEF HoldersOf
    <3> QED BY <2>1, <2>3, <3>1, <3>2, FreeStep
  <2> QED BY <1>12, <2>2, <2>3 DEF GivesUp
<1>13. ASSUME NEW cl \in Clients, NEW c \in PoolOf(ProcOf[cl]), UnlockFails(cl, c)
      PROVE  Mutex!PNext
  <2>1. c \in Conns /\ UNCHANGED nameOf /\ Close(c) /\ pc[cl] = "working"
    BY <1>1, <1>13, Constants DEF UnlockFails
  <2>2. Inside' = Inside \ {cl} BY <1>11, <1>13 DEF UnlockFails
  <2> QED BY <2>1, <2>2, CloseStep
<1>14. CASE UNCHANGED vars
  <2>1. Inside' = Inside BY <1>14 DEF vars, Inside
  <2> QED BY <1>2, <1>14, <2>1 DEF vars
<1> QED BY <1>3, <1>5, <1>7, <1>8, <1>9, <1>10, <1>12, <1>13, <1>14, Steps

LEMMA MutexInit == Init => Mutex!PInit
<1> SUFFICES ASSUME Init PROVE Mutex!PInit OBVIOUS
<1>1. TypeOK BY TypeInit
<1>2. \A cl \in Clients : KeyOf(cl) \in Keys BY <1>1, KeyType
<1>3. \A k \in Keys : HoldersOf(k) = {} BY PoolType DEF Init, HoldersOf
<1> QED BY <1>2, <1>3 DEF Init, Mutex!PInit

\* The sessions of the pools are a lock between processes: another process gets
\* a key only when none of this one holds it, and it is not given back under a
\* client at work until a connection is closed that holds a lock.
THEOREM ProcessLockImplemented == Spec => ImplementsProcessLock
<1>1. Init => OneStatement BY Constants DEF Init, OneStatement
<1>2. Spec => []OneStatement BY <1>1, OneStatementKept, TypeCorrect, PTL DEF Spec
<1> QED BY <1>2, ProcessHoldsAlways, MutexInit, MutexStep, PTL
        DEF Spec, ImplementsProcessLock, Mutex!PSpec
=============================================================================
