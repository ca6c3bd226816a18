---------------------------- MODULE RegionProofs ----------------------------
(***************************************************************************)
(* Proofs about whole rulesets: that a reload without failing queries      *)
(* serves all of a database nobody else writes, on a follower and on a     *)
(* control node, that such a control node publishes all of it, and that a  *)
(* database that data nodes share comes to hold exactly the object.        *)
(***************************************************************************)
EXTENDS RegionSync, RuleSyncProofs

-----------------------------------------------------------------------------
(* The read loops over a table that stays as it is. *)

\* What r has listed and read is the table's, and of the domains named none is missing.
Sound(r, tab, names) ==
  /\ \A m \in DOMAIN r.todo :
       m \in DOMAIN tab /\ r.todo[m].id = tab[m].id /\ r.todo[m].row = tab[m].row
  /\ DOMAIN r.acc \subseteq DOMAIN tab
  /\ r.acc = Restrict(View(tab), DOMAIN r.acc)
  /\ DOMAIN r.todo \cup DOMAIN r.acc = names

\* The domains that ExportAll, or else Reload, asks rules for.
Wanted(tab, export) == IF export THEN DOMAIN tab ELSE {m \in DOMAIN tab : tab[m].row.enabled}

InStep(p) ==
  LET tab == db[MyDb(p)].tab
  IN read[p].listed =>
       pc[p] \in Reading /\ Sound(read[p], tab, Wanted(tab, pc[p] = "export"))

\* No limit cuts a listing short.
LEMMA NoLimit ==
  ASSUME NEW tab, IsTable(tab), NEW limit \in Nat, Cardinality(Names) <= limit
  PROVE  ListDomains(tab, limit) = Restrict(tab, DOMAIN tab)
<1>1. ASSUME NEW n \in DOMAIN tab
      PROVE  Cardinality({m \in DOMAIN tab : m < n}) < limit
  <2> DEFINE S == {m \in DOMAIN tab : m < n}
  <2>1. S \subseteq Names /\ n \in Names /\ n \notin S
    <3>1. DOMAIN tab \subseteq Nat /\ DOMAIN tab \subseteq Names
      BY NamesAssumption DEF IsTable
    <3> QED BY <3>1
  <2>2. IsFiniteSet(S) /\ Cardinality(S) <= Cardinality(Names)
        /\ (Cardinality(S) = Cardinality(Names) => S = Names)
    BY <2>1, NamesAssumption, FS_Subset
  <2>3. Cardinality(S) \in Nat /\ Cardinality(Names) \in Nat
    BY <2>2, NamesAssumption, FS_CardinalityType
  <2> HIDE DEF S
  <2>4. Cardinality(S) < limit
    BY <2>1, <2>2, <2>3
  <2> QED BY <2>4 DEF S
<1>2. {n \in DOMAIN tab : Cardinality({m \in DOMAIN tab : m < n}) < limit} = DOMAIN tab
  BY <1>1
<1> QED BY <1>2 DEF ListDomains

\* Which listings are whole: those of Reload, and those of ExportAll.
Listable(p) ==
  /\ pc[p] = "export" => Cardinality(Names) <= ExportLimit
  /\ pc[p] # "export" => Cardinality(Names) <= LoadLimit

LEMMA WholeListing ==
  ASSUME TypeOK, NEW p \in Procs, Listable(p)
  PROVE  LET tab == db[MyDb(p)].tab
         IN /\ DOMAIN Listing(p) = Wanted(tab, pc[p] = "export")
            /\ \A m \in DOMAIN Listing(p) : Listing(p)[m] = tab[m]
<1> DEFINE tab == db[MyDb(p)].tab
           limit == IF pc[p] = "export" THEN ExportLimit ELSE LoadLimit
<1>1. IsTable(tab)
  BY Places DEF TypeOK, IsDatabase
<1>2. limit \in Nat /\ Cardinality(Names) <= limit
  BY LimitAssumption DEF Listable
<1>3. ListDomains(tab, limit) = Restrict(tab, DOMAIN tab)
  <2> HIDE DEF tab, limit
  <2> QED BY <1>1, <1>2, NoLimit
<1>4. Listing(p) = IF pc[p] = "export" THEN ListDomains(tab, limit)
        ELSE Restrict(ListDomains(tab, limit),
                      {n \in DOMAIN ListDomains(tab, limit) :
                         ListDomains(tab, limit)[n].row.enabled})
  BY DEF Listing
<1> HIDE DEF tab, limit
<1> QED BY <1>3, <1>4 DEF Restrict, Wanted, tab

\* The listing of a table is sound, and so is taking a domain from it.
LEMMA ListedSound ==
  ASSUME NEW f, NEW tab, \A m \in DOMAIN f : m \in DOMAIN tab /\ f[m] = tab[m], NEW r,
         r = [listed |-> TRUE,
              todo |-> [m \in DOMAIN f |-> [id |-> f[m].id, row |-> f[m].row]],
              acc |-> Nothing]
  PROVE  Sound(r, tab, DOMAIN f)
<1>1. Nothing = Restrict(View(tab), {}) /\ DOMAIN Nothing = {}
  BY DEF Nothing, Restrict
<1> QED BY <1>1 DEF Sound

LEMMA TakenSound ==
  ASSUME NEW r, NEW tab, NEW names, Sound(r, tab, names), NEW m \in DOMAIN r.todo, NEW s,
         s.todo = Without(r.todo, {m}),
         s.acc = With(r.acc, m, [row |-> r.todo[m].row, rules |-> ListRules(tab, m, r.todo[m].id)])
  PROVE  Sound(s, tab, names)
<1> DEFINE entry == [row |-> r.todo[m].row, rules |-> ListRules(tab, m, r.todo[m].id)]
<1>1. m \in DOMAIN tab /\ entry = View(tab)[m]
  BY DEF Sound, ListRules, View
<1>2. DOMAIN r.acc \subseteq DOMAIN tab /\ r.acc = Restrict(View(tab), DOMAIN r.acc)
  BY DEF Sound
<1> HIDE DEF entry
<1>3. \A x \in DOMAIN r.acc : r.acc[x] = View(tab)[x]
  BY <1>2 DEF Restrict
<1>4. s.acc = With(r.acc, m, entry)
  BY DEF entry
<1>5. DOMAIN s.acc = DOMAIN r.acc \cup {m}
  BY <1>4 DEF With
<1>6. s.acc = Restrict(View(tab), DOMAIN s.acc)
  BY <1>1, <1>3, <1>4, <1>5 DEF With, Restrict
<1>7. DOMAIN s.todo = DOMAIN r.todo \ {m} /\ \A x \in DOMAIN s.todo : s.todo[x] = r.todo[x]
  BY DEF Without, Restrict
<1>8. DOMAIN s.todo \cup DOMAIN s.acc = names
  BY <1>5, <1>7 DEF Sound
<1>9. \A x \in DOMAIN s.todo :
        x \in DOMAIN tab /\ s.todo[x].id = tab[x].id /\ s.todo[x].row = tab[x].row
  BY <1>7 DEF Sound
<1> QED BY <1>1, <1>2, <1>5, <1>6, <1>8, <1>9 DEF Sound

LEMMA ReadingInStep ==
  ASSUME TypeOK, NEW p \in Procs, InStep(p), Listable(p), ReadDomains(p) \/ ReadRules(p)
  PROVE  InStep(p)'
<1> DEFINE tab == db[MyDb(p)].tab
           names == Wanted(tab, pc[p] = "export")
<1>0. IsListing(read[p]) /\ UNCHANGED <<db, pc>> /\ p \in DOMAIN read /\ pc[p] \in Reading
  BY DEF TypeOK, ReadDomains, ReadRules
<1>1. CASE ReadDomains(p)
  <2>1. read'[p] = [listed |-> TRUE,
                    todo |-> [m \in DOMAIN Listing(p) |->
                                [id |-> Listing(p)[m].id, row |-> Listing(p)[m].row]],
                    acc |-> Nothing]
    BY <1>0, <1>1 DEF ReadDomains
  <2>2. DOMAIN Listing(p) = names /\ \A m \in DOMAIN Listing(p) : Listing(p)[m] = tab[m]
    BY WholeListing
  <2>3. names \subseteq DOMAIN tab
    BY DEF Wanted
  <2> HIDE DEF tab, names
  <2>4. Sound(read'[p], tab, names)
    BY <2>1, <2>2, <2>3, ListedSound
  <2> QED BY <1>0, <2>4 DEF InStep, tab, names
<1>2. CASE ReadRules(p)
  <2> DEFINE m == Min(DOMAIN read[p].todo)
  <2>1. read[p].listed /\ m \in DOMAIN read[p].todo
    BY <1>0, <1>2, MinIsLeast, NamesAssumption DEF ReadRules, IsListing
  <2>2. Sound(read[p], tab, names)
    BY <2>1 DEF InStep
  <2>3. /\ read'[p].todo = Without(read[p].todo, {m})
        /\ read'[p].acc = With(read[p].acc, m,
              [row |-> read[p].todo[m].row, rules |-> ListRules(tab, m, read[p].todo[m].id)])
    BY <1>0, <1>2 DEF ReadRules
  <2> HIDE DEF m, tab, names
  <2>4. Sound(read'[p], tab, names)
    BY <2>1, <2>2, <2>3, TakenSound
  <2> QED BY <1>0, <2>4 DEF InStep, tab, names
<1> QED BY <1>1, <1>2

\* When everything is read: a reload serves the whole table, an export is the table.
LEMMA ReadWhole ==
  ASSUME NEW p \in Procs, InStep(p), Read(p)
  PROVE  LET tab == db[MyDb(p)].tab
         IN /\ pc[p] # "export" => Serve(read[p].acc) = Serve(View(tab))
            /\ pc[p] = "export" => read[p].acc = View(tab)
<1> DEFINE tab == db[MyDb(p)].tab
           acc == read[p].acc
<1>1. DOMAIN acc \subseteq DOMAIN tab /\ acc = Restrict(View(tab), DOMAIN acc)
      /\ DOMAIN acc = Wanted(tab, pc[p] = "export")
  BY DEF InStep, Read, Sound
<1>2. DOMAIN View(tab) = DOMAIN tab
      /\ \A m \in DOMAIN tab : View(tab)[m].row = tab[m].row
  BY DEF View
<1>3. \A m \in DOMAIN acc : acc[m] = View(tab)[m]
  BY <1>1 DEF Restrict
<1> HIDE DEF tab, acc
<1>4. ASSUME pc[p] # "export"
      PROVE  Serve(acc) = Serve(View(tab))
  <2>1. {m \in DOMAIN acc : acc[m].row.enabled}
          = {m \in DOMAIN View(tab) : View(tab)[m].row.enabled}
    BY <1>1, <1>2, <1>3, <1>4 DEF Wanted
  <2>2. \A m \in {x \in DOMAIN acc : acc[x].row.enabled} : acc[m] = View(tab)[m]
    BY <1>3
  <2> QED BY <2>1, <2>2 DEF Serve
<1>5. ASSUME pc[p] = "export"
      PROVE  acc = View(tab)
  <2>1. DOMAIN acc = DOMAIN View(tab)
    BY <1>1, <1>2, <1>5 DEF Wanted
  <2> QED BY <1>1, <2>1 DEF View, Restrict
<1> QED BY <1>4, <1>5 DEF tab, acc

-----------------------------------------------------------------------------
(* Followers serve whole versions. *)

\* Nothing keeps a reload from reading everything.
WholeReloads == "rules" \notin FaultKinds /\ Cardinality(Names) <= LoadLimit

ServesAll(n) ==
  /\ InStep(n)
  /\ lastETag[n] # NoETag \/ pc[n] = "note" => engine[n] = Serve(Version(loaded[n]))

\* A swap puts the whole database into the follower's engine.
LEMMA WholeSwap ==
  ASSUME TypeOK, WholeReloads, NEW n \in Followers, FollowerOK(n), InStep(n), SwapEngine(n)
  PROVE  engine'[n] = Serve(View(db[DbOf[n]].tab))
<1>1. n \in Procs /\ n \in Nodes /\ NodeOf(n) = n /\ MyDb(n) = DbOf[n]
  BY Indexes
<1>2. Read(n) /\ pc[n] # "export" /\ engine'[n] = Serve(read[n].acc)
  BY <1>1 DEF SwapEngine, Reloading, TypeOK
<1> QED BY <1>1, <1>2, ReadWhole

LEMMA ServesAllStep ==
  ASSUME TypeOK, WholeReloads, NEW n \in Followers, FollowerOK(n), ServesAll(n), [Next]_vars
  PROVE  ServesAll(n)'
<1>0. /\ n \in Procs /\ n \in Nodes /\ NodeOf(n) = n /\ MyDb(n) = DbOf[n]
      /\ loaded[n] \in 0..Len(published) /\ imported[n] \in 0..Len(published)
  BY Indexes
<1>1. CASE Same(n)
  <2>1. Version(loaded[n])' = Version(loaded[n])
    BY <1>0, <1>1, SameParts, BodiesStay, VersionStable
  <2> QED BY <1>0, <1>1, <2>1, SameParts DEF ServesAll, InStep
<1>2. CASE ReadDomains(n) \/ ReadRules(n)
  <2>1. Listable(n)
    BY <1>2 DEF Listable, WholeReloads, FollowerOK, Labelled, ReadDomains, ReadRules
  <2>2. InStep(n)'
    BY <1>0, <1>2, <2>1, ReadingInStep DEF ServesAll
  <2> QED BY <1>2, <2>2 DEF ServesAll, ReadDomains, ReadRules, Version, history
<1>3. CASE SwapEngine(n)
  <2>1. engine'[n] = Serve(View(db[DbOf[n]].tab))
    BY <1>3, WholeSwap DEF ServesAll
  <2>2. ~read'[n].listed /\ loaded'[n] = imported[n] /\ UNCHANGED published
    BY <1>0, <1>3 DEF SwapEngine, TypeOK, NotListed
  <2>3. engine'[n] = Serve(Version(loaded[n])')
    BY <2>1, <2>2 DEF FollowerOK, Holds, Version
  <2> QED BY <2>2, <2>3 DEF ServesAll, InStep
<1>4. CASE ReloadFails(n)
  <2>1. /\ pc'[n] # "note" /\ ~read[n].listed
        /\ UNCHANGED <<published, engine, lastETag, read, loaded>>
    BY <1>0, <1>4 DEF ReloadFails, AfterReload, Reloading, Goto, TypeOK, FollowerOK, Labelled,
                      history
  <2> QED BY <2>1 DEF ServesAll, InStep, Version
<1>5. CASE NoteETag(n) \/ Poll(n)
  <2>1. ~read[n].listed /\ UNCHANGED <<published, engine, read, loaded>>
    BY <1>5 DEF NoteETag, Poll, HeadObject, CompareETag, GetObject, ImportScan, ImportCommit,
                PollFails, history, FollowerOK, Lists
  <2>2. pc'[n] # "note" /\ (lastETag'[n] # NoETag => lastETag[n] # NoETag \/ pc[n] = "note")
    BY <1>0, <1>5 DEF NoteETag, Poll, HeadObject, CompareETag, GetObject, ImportScan,
                ImportCommit, PollFails, Goto, TypeOK
  <2> QED BY <2>1, <2>2 DEF ServesAll, InStep, Version
<1>6. CASE Crash(n)
  <2>1. pc'[n] = "down" /\ ~read'[n].listed /\ lastETag'[n] = NoETag
    BY <1>0, <1>6, Alone DEF Crash, TypeOK, NotListed
  <2> QED BY <2>1 DEF ServesAll, InStep
<1>7. CASE Restart(n)
  <2>1. /\ pc'[n] = "boot" /\ ~read[n].listed
        /\ UNCHANGED <<published, engine, lastETag, read, loaded>>
    BY <1>0, <1>7 DEF Restart, Goto, TypeOK, history, FollowerOK, Lists
  <2> QED BY <2>1 DEF ServesAll, InStep, Version
<1>8. ~SkipRules(n) /\ ~Seed(n)
  BY DEF SkipRules, Fault, WholeReloads, Seed, FollowerOK, Labelled
<1> QED BY <1>1, <1>2, <1>3, <1>4, <1>5, <1>6, <1>7, <1>8, OwnOrSame, OwnSteps DEF Reload

WholeInv == WholeReloads => \A n \in Followers : ServesAll(n)

LEMMA WholeInvariant == Spec => []WholeInv
<1>1. Init => WholeInv
  <2> SUFFICES ASSUME Init, NEW n \in Followers
               PROVE  ServesAll(n)
    BY DEF WholeInv
  <2>1. n \in Nodes /\ n \in Procs
    BY Alone
  <2> QED BY <2>1 DEF Init, ServesAll, InStep, NotListed
<1>2. TypeOK /\ FollowerInv /\ WholeInv /\ [Next]_vars => WholeInv'
  BY ServesAllStep DEF FollowerInv, WholeInv
<1> QED BY <1>1, <1>2, FollowersCorrect, PTL DEF Spec

\* Unless a query for rules failed or a limit cut a listing short, a follower
\* that has completed a poll serves the whole of a published ruleset.
THEOREM ServesAllAlways == Spec => []FollowerServesAll
<1>1. WholeInv => FollowerServesAll
  BY DEF WholeInv, WholeReloads, ServesAll, FollowerServesAll
<1> QED BY <1>1, WholeInvariant, PTL

\* Under the same condition no reload takes a domain that is still enabled out of
\* the map a follower serves from.
THEOREM KeepsServingAlways ==
  ASSUME WholeReloads
  PROVE  Spec => KeepsServing
<1> DEFINE Keeps ==
      \A n \in Followers :
        pc'[n] # "down" =>
          (DOMAIN engine[n] \ DOMAIN engine'[n])
            \cap DOMAIN Serve(View(db[DbOf[n]].tab)) = {}
<1>1. TypeOK /\ FollowerInv /\ WholeInv /\ [Next]_vars => Keeps
  <2> SUFFICES ASSUME TypeOK, FollowerInv, WholeInv, [Next]_vars, NEW n \in Followers,
                      pc'[n] # "down"
               PROVE  \/ engine'[n] = engine[n]
                      \/ engine'[n] = Serve(View(db[DbOf[n]].tab))
    OBVIOUS
  <2>0. n \in Procs /\ n \in Nodes
    BY Indexes
  <2>1. CASE SwapEngine(n)
    BY <2>1, WholeSwap DEF FollowerInv, WholeInv, ServesAll
  <2>2. CASE Same(n)
    BY <2>2, SameParts
  <2>3. ~Crash(n)
    BY <2>0 DEF Crash, TypeOK
  <2>4. CASE Own(n) /\ ~SwapEngine(n)
    BY <2>3, <2>4, OwnSteps
       DEF Reload, ReadDomains, ReadRules, SkipRules, ReloadFails, NoteETag, Poll, HeadObject,
           CompareETag, GetObject, ImportScan, ImportCommit, PollFails, Seed, Restart
  <2> QED BY <2>1, <2>2, <2>4, OwnOrSame
<1> QED BY <1>1, FollowersCorrect, WholeInvariant, PTL DEF Spec, KeepsServing

-----------------------------------------------------------------------------
(* Which node does what. *)

PollSteps == {"compare", "get", "import", "commit"}

\* Only a syncing node polls and publishes, and only a seeding node seeds.
Roles ==
  /\ \A n \in Nodes : /\ pc[n] \in PollSteps => n \in Syncing
                      /\ pc[n] = "seed" => n \in Seeding
  /\ \A h \in Handlers : pc[h] \in {"export", "note"} => Host[h] \in Syncing

LEMMA RolesStep == TypeOK /\ Roles /\ [Next]_vars => Roles'
<1> SUFFICES ASSUME TypeOK, Roles, [Next]_vars
             PROVE  Roles'
  OBVIOUS
<1> USE Places DEF PollSteps
<1>1. ASSUME NEW p \in Procs, Reload(p) \/ NoteETag(p)
      PROVE  Roles'
  <2>1. CASE ReadDomains(p) \/ ReadRules(p) \/ SkipRules(p)
    BY <2>1 DEF ReadDomains, ReadRules, SkipRules, Roles
  <2>2. CASE Goto(p, AfterReload(p)) /\ pc[p] \in Reloading
    BY <2>2 DEF Goto, AfterReload, Reloading, Roles, TypeOK
  <2>3. CASE Goto(p, "idle")
    BY <2>3 DEF Goto, Roles, TypeOK
  <2> QED BY <1>1, <2>1, <2>2, <2>3 DEF Reload, SwapEngine, ReloadFails, NoteETag
<1>2. ASSUME NEW h \in Handlers, \E label \in {"reload", "insert", "idle"} : Goto(h, label)
      PROVE  Roles'
  BY <1>2 DEF Goto, Roles, TypeOK
<1>3. ASSUME NEW h \in Handlers, Handle(h)
      PROVE  Roles'
  BY <1>2, <1>3 DEF Handle, CreateDomain, PutDomain, RemoveDomain, LookUpDomain, CreateRule,
                    RuleRefused, PutRule, RemoveRule, Import, WriteUnanswered, Writes
<1>4. ASSUME NEW h \in Handlers, Publish(h)
      PROVE  Roles'
  <2>1. pc[h] = "export" /\ (Goto(h, "note") \/ Goto(h, "idle"))
    BY <1>4 DEF Publish, PutObject, PublishFails, PutAnswerLost
  <2> QED BY <2>1 DEF Goto, Roles, TypeOK
<1>5. ASSUME NEW n \in Nodes, Poll(n)
      PROVE  Roles'
  <2>1. n \in Syncing
    BY <1>5 DEF Poll, HeadObject, CompareETag, GetObject, ImportScan, ImportCommit, PollFails,
                Roles
  <2>2. \E label \in PollSteps \cup {"idle", "reload"} : Goto(n, label)
    BY <1>5 DEF Poll, HeadObject, CompareETag, GetObject, ImportScan, ImportCommit, PollFails
  <2> QED BY <2>1, <2>2 DEF Goto, Roles, TypeOK
<1>6. ASSUME NEW n \in Nodes, Seed(n) \/ Restart(n)
      PROVE  Roles'
  BY <1>6 DEF Seed, Restart, Goto, Roles, TypeOK
<1>7. ASSUME NEW n \in Nodes, Crash(n)
      PROVE  Roles'
  BY <1>7 DEF Crash, Roles, TypeOK
<1>8. CASE UNCHANGED vars
  BY <1>8 DEF vars, Roles
<1> QED BY <1>1, <1>3, <1>4, <1>5, <1>6, <1>7, <1>8 DEF Next

LEMMA RolesInit == Init => Roles
BY Places DEF Init, Roles, PollSteps

-----------------------------------------------------------------------------
(* The nodes that share a database. *)

Writers(x) == {n \in Syncing : DbOf[n] = x}
Sharers == {n \in Syncing : DbOf[n] \in EdgeDBs}

LEMMA Sharing ==
  /\ \A n \in Sharers : /\ n \in Nodes /\ n \in Procs /\ n \notin Handlers /\ n \notin Seeding
                        /\ NodeOf(n) = n /\ MyDb(n) = DbOf[n] /\ Owned(n) = {n}
                        /\ \A h \in Handlers : Host[h] # n
  /\ \A x \in EdgeDBs : /\ x \in DBs /\ Writers(x) # {} /\ Writers(x) \subseteq Sharers
                        /\ \A h \in Handlers : MyDb(h) # x
                        /\ \A m \in Nodes : DbOf[m] = x => m \notin Seeding
BY Places, TopologyAssumption DEF Sharers, EdgeDBs, Writers, Owned, Procs, NodeOf, MyDb

\* The ETag of HEAD is never newer than the body that is fetched and imported
\* after it, and no poll goes back to an older body.
SharerOK(n) ==
  /\ Labelled(n)
  /\ pc[n] \in {"import", "commit"} => imported[n] <= got[n] /\ ETagUpTo(head[n], got[n])
  /\ pc[n] \in {"compare", "get"} => ETagUpTo(head[n], Len(published))
  /\ pc[n] \in {"reload", "note"} => ETagUpTo(head[n], imported[n])
  /\ lastETag[n] # NoETag => ETagUpTo(lastETag[n], imported[n])

LEMMA SharerStep ==
  ASSUME TypeOK, TypeOK', NEW n \in Sharers, SharerOK(n), [Next]_vars
  PROVE  SharerOK(n)'
<1>0. /\ n \in Nodes /\ n \in Procs /\ NodeOf(n) = n /\ n \notin Handlers
      /\ got[n] \in 0..Len(published) /\ imported[n] \in 0..Len(published)
      /\ Len(published) \in Nat
  BY Sharing DEF TypeOK
<1>1. CASE Untouched(n)
  <2>1. /\ pc'[n] = pc[n] /\ head'[n] = head[n] /\ got'[n] = got[n]
        /\ lastETag'[n] = lastETag[n] /\ imported'[n] = imported[n]
    BY <1>1, Sharing DEF Untouched
  <2>2. Len(published) <= Len(published') /\ Len(published') \in Nat
        /\ \A e, k : k \in 0..Len(published) /\ ETagUpTo(e, k) =>
             \E j \in 1..k : e = ETag(published'[j])
    <3>1. Extends
      BY BodiesStay
    <3>2. Len(published) <= Len(published') /\ Len(published') \in Nat
      BY <3>1 DEF Extends, TypeOK
    <3>3. ASSUME NEW e, NEW k \in 0..Len(published), ETagUpTo(e, k)
          PROVE  \E j \in 1..k : e = ETag(published'[j])
      BY <1>0, <3>1, <3>3 DEF Extends, ETagUpTo
    <3> QED BY <3>2, <3>3
  <2>3. ASSUME NEW e, ETagUpTo(e, Len(published))
        PROVE  \E j \in 1..Len(published') : e = ETag(published'[j])
    BY <1>0, <2>2, <2>3
  <2>4. pc'[n] \in {"import", "commit"} =>
          imported'[n] <= got'[n] /\ \E j \in 1..got'[n] : head'[n] = ETag(published'[j])
    BY <1>0, <2>1, <2>2 DEF SharerOK
  <2>5. pc'[n] \in {"compare", "get"} =>
          \E j \in 1..Len(published') : head'[n] = ETag(published'[j])
    BY <2>1, <2>3 DEF SharerOK
  <2>6. /\ pc'[n] \in {"reload", "note"} =>
             \E j \in 1..imported'[n] : head'[n] = ETag(published'[j])
        /\ lastETag'[n] # NoETag =>
             \E j \in 1..imported'[n] : lastETag'[n] = ETag(published'[j])
    BY <1>0, <2>1, <2>2 DEF SharerOK
  <2> QED BY <2>1, <2>4, <2>5, <2>6 DEF SharerOK, Labelled, ETagUpTo
<1>2. CASE UNCHANGED <<published, lastETag, imported>> /\ pc' = pc /\ head' = head /\ got' = got
  BY <1>2 DEF SharerOK, Labelled, ETagUpTo
<1>3. CASE Reload(n)
  <2>1. CASE ReadDomains(n) \/ ReadRules(n) \/ SkipRules(n)
    BY <1>2, <2>1 DEF ReadDomains, ReadRules, SkipRules, pollVars, history
  <2>2. CASE SwapEngine(n)
    <3>1. /\ pc'[n] \in {"note", "idle"} /\ (pc'[n] = "note" => pc[n] = "reload")
          /\ UNCHANGED <<published, lastETag, imported, head, got>>
      BY <1>0, <2>2, Sharing
         DEF SwapEngine, AfterReload, Goto, TypeOK, Reloading, pollVars, SharerOK, Labelled
    <3> QED BY <3>1 DEF SharerOK, Labelled, ETagUpTo
  <2>3. CASE ReloadFails(n)
    <3>1. pc'[n] = "idle" /\ UNCHANGED <<published, lastETag, imported>>
      BY <1>0, <2>3, Sharing
         DEF ReloadFails, AfterReload, Goto, TypeOK, Reloading, history, SharerOK, Labelled
    <3> QED BY <3>1 DEF SharerOK, Labelled, ETagUpTo
  <2> QED BY <1>3, <2>1, <2>2, <2>3 DEF Reload
<1>4. CASE NoteETag(n)
  <2>1. /\ pc[n] = "note" /\ pc'[n] = "idle" /\ lastETag'[n] = head[n]
        /\ UNCHANGED <<published, imported>>
    BY <1>0, <1>4 DEF NoteETag, Goto, TypeOK, history
  <2> QED BY <2>1 DEF SharerOK, Labelled, ETagUpTo
<1>5. CASE HeadObject(n)
  <2>1. /\ pc'[n] = "compare" /\ head'[n] = ETag(published[Len(published)])
        /\ UNCHANGED <<published, lastETag, imported>> /\ Len(published) > 0
    BY <1>0, <1>5 DEF HeadObject, Goto, TypeOK, history, Object
  <2>2. ETagUpTo(ETag(published[Len(published)]), Len(published))
    BY <1>0, <2>1 DEF ETagUpTo
  <2> QED BY <2>1, <2>2 DEF SharerOK, Labelled, ETagUpTo
<1>6. CASE CompareETag(n)
  <2>1. /\ pc[n] = "compare" /\ pc'[n] \in {"idle", "get"} /\ (pc'[n] = "get" => head' = head)
        /\ UNCHANGED <<published, lastETag, imported>>
    BY <1>0, <1>6 DEF CompareETag, Goto, TypeOK, history
  <2> QED BY <2>1 DEF SharerOK, Labelled, ETagUpTo
<1>7. CASE GetObject(n)
  <2>1. /\ pc[n] = "get" /\ pc'[n] = "import" /\ got'[n] = Len(published) /\ head' = head
        /\ UNCHANGED <<published, lastETag, imported>>
    BY <1>0, <1>7 DEF GetObject, Goto, TypeOK, history
  <2> QED BY <1>0, <2>1 DEF SharerOK, Labelled, ETagUpTo
<1>8. CASE ImportScan(n)
  <2>1. /\ pc[n] = "import" /\ pc'[n] = "commit"
        /\ UNCHANGED <<published, lastETag, imported, got, head>>
    BY <1>0, <1>8 DEF ImportScan, Goto, TypeOK, history
  <2> QED BY <2>1 DEF SharerOK, Labelled, ETagUpTo
<1>9. CASE ImportCommit(n)
  <2>1. /\ pc[n] = "commit" /\ pc'[n] = "reload" /\ imported'[n] = got[n]
        /\ UNCHANGED <<published, lastETag, head>>
    BY <1>0, <1>9 DEF ImportCommit, Goto, TypeOK
  <2>2. imported[n] <= got[n] /\ ETagUpTo(head[n], got[n])
    BY <2>1 DEF SharerOK
  <2>3. lastETag[n] # NoETag => ETagUpTo(lastETag[n], got[n])
    BY <1>0, <2>2 DEF SharerOK, ETagUpTo
  <2> QED BY <2>1, <2>2, <2>3 DEF SharerOK, Labelled, ETagUpTo
<1>10. CASE PollFails(n) \/ Crash(n) \/ Restart(n)
  <2>1. /\ pc'[n] \in {"idle", "down", "boot"} /\ UNCHANGED <<published, imported>>
        /\ lastETag'[n] \in {lastETag[n], NoETag}
    BY <1>0, <1>10 DEF PollFails, Crash, Restart, Goto, TypeOK, history
  <2> QED BY <2>1 DEF SharerOK, Labelled, ETagUpTo
<1>11. CASE Own(n)
  <2>1. ~Seed(n)
    BY DEF Seed, SharerOK, Labelled
  <2> QED BY <1>3, <1>4, <1>5, <1>6, <1>7, <1>8, <1>9, <1>10, <1>11, <2>1, Sharing
          DEF Own, Poll
<1> QED BY <1>0, <1>1, <1>11, OwnOrUntouched

-----------------------------------------------------------------------------
(* What a shared database holds beside the object, and who will delete it. *)

Behind(q) == imported[q] # Len(published)

\* q has yet to import the object, and the import will delete domain y, or rule p of it.
Owes(q, y) ==
  Behind(q) /\ (pc[q] = "commit" /\ got[q] = Len(published) => y \in DOMAIN scan[q])
OwesRule(q, y, p) ==
  /\ Behind(q)
  /\ pc[q] = "commit" /\ got[q] = Len(published) =>
       y \in DOMAIN scan[q] /\ p \in DOMAIN scan[q][y].rules

EdgeOK(x) ==
  LET tab == db[x].tab
  IN published # <<>> =>
       /\ \A y \in DOMAIN tab \ DOMAIN Object : \E q \in Writers(x) : Owes(q, y)
       /\ \A y \in DOMAIN tab \cap DOMAIN Object :
            \A p \in DOMAIN tab[y].rules \ DOMAIN Object[y].rules :
              \E q \in Writers(x) : OwesRule(q, y, p)
       /\ (\E q \in Writers(x) : Behind(q)) \/ Includes(tab, Object)

\* When nobody is behind, the database is the object.
LEMMA NothingOwed ==
  ASSUME NEW x, EdgeOK(x), published # <<>>, \A q \in Writers(x) : ~Behind(q)
  PROVE  View(db[x].tab) = Normalise(Object)
<1> DEFINE tab == db[x].tab
<1>1. DOMAIN tab \subseteq DOMAIN Object /\ Includes(tab, Object)
  BY DEF EdgeOK, Owes
<1>2. \A y \in DOMAIN tab : DOMAIN tab[y].rules \subseteq DOMAIN Object[y].rules
  BY <1>1 DEF EdgeOK, OwesRule
<1> HIDE DEF tab
<1>3. View(tab) = Normalise(Object)
  BY <1>1, <1>2, IncludesOnly
<1> QED BY <1>3 DEF tab

\* A new body puts every node behind.
LEMMA PublicationKeepsEdge ==
  ASSUME TypeOK, NEW x \in EdgeDBs,
         Len(published') = Len(published) + 1, UNCHANGED <<got, imported>>
  PROVE  EdgeOK(x)'
<1>1. ASSUME NEW q \in Writers(x)
      PROVE  imported'[q] # Len(published') /\ got'[q] # Len(published')
  <2>1. q \in Nodes /\ Len(published) \in Nat
    BY Sharing DEF TypeOK
  <2>2. imported[q] \in 0..Len(published) /\ got[q] \in 0..Len(published)
    BY <2>1 DEF TypeOK
  <2> QED BY <2>1, <2>2
<1>2. PICK q \in Writers(x) : TRUE
  BY Sharing
<1> QED BY <1>1, <1>2 DEF EdgeOK, Owes, OwesRule, Behind

\* Until a node commits, what it owes it goes on owing: a scan sees all there is.
LEMMA QuietKeepsEdge ==
  ASSUME NEW x \in EdgeDBs, EdgeOK(x), UNCHANGED published, db'[x] = db[x],
         \A q \in Writers(x) :
           /\ imported'[q] = imported[q]
           /\ pc'[q] = "commit" =>
                \/ scan'[q] = db[x].tab
                \/ pc[q] = "commit" /\ got'[q] = got[q] /\ scan'[q] = scan[q]
  PROVE  EdgeOK(x)'
<1> DEFINE tab == db[x].tab
<1>1. \A q \in Writers(x) : Behind(q)' <=> Behind(q)
  BY DEF Behind
<1>2. ASSUME NEW q \in Writers(x), NEW y \in DOMAIN tab, Owes(q, y)
      PROVE  Owes(q, y)'
  BY <1>1, <1>2 DEF Owes
<1>3. ASSUME NEW q \in Writers(x), NEW y \in DOMAIN tab, NEW p \in DOMAIN tab[y].rules,
             OwesRule(q, y, p)
      PROVE  OwesRule(q, y, p)'
  BY <1>1, <1>3 DEF OwesRule
<1>4. tab' = tab /\ Object' = Object
  BY DEF Object
<1> HIDE DEF tab
<1> QED BY <1>1, <1>2, <1>3, <1>4 DEF EdgeOK, tab

\* A commit of the object deletes what its node owed; one of an older body leaves
\* its node behind.
LEMMA CommitKeepsEdge ==
  ASSUME TypeOK, NEW x \in EdgeDBs, EdgeOK(x), NEW m \in Writers(x), ImportCommit(m)
  PROVE  EdgeOK(x)'
<1> DEFINE tab == db[x].tab
           new == BulkImportReplace(db[x], scan[m], Incoming(m)).tab
<1>0. m \in Nodes /\ m \in Procs /\ DbOf[m] = x /\ x \in DBs /\ Writers(x) \subseteq Nodes
  BY Sharing DEF Sharers, Writers
<1>1. /\ pc[m] = "commit" /\ db'[x].tab = new /\ imported'[m] = got[m] /\ pc'[m] = "reload"
      /\ UNCHANGED published
      /\ \A q \in Writers(x) \ {m} : /\ imported'[q] = imported[q] /\ pc'[q] = pc[q]
                                     /\ got'[q] = got[q] /\ scan'[q] = scan[q]
  BY <1>0, Places DEF ImportCommit, Goto, TypeOK
<1>2. CASE got[m] # Len(published)
  <2>1. imported'[m] # Len(published') /\ pc'[m] # "commit"
    BY <1>1, <1>2
  <2> QED BY <2>1 DEF EdgeOK, Owes, OwesRule, Behind
<1>3. CASE got[m] = Len(published)
  <2>1. Incoming(m) = Object /\ Object' = Object /\ published # <<>>
    BY <1>0, <1>1, <1>3 DEF Incoming, Object, TypeOK
  <2> HIDE DEF new, tab
  <2>2. /\ DOMAIN new = DOMAIN Object \cup (DOMAIN tab \ (DOMAIN scan[m] \ DOMAIN Object))
        /\ Includes(new, Object)
        /\ \A y \in DOMAIN Object :
             \A p \in DOMAIN new[y].rules \ DOMAIN Object[y].rules :
               /\ y \in DOMAIN tab /\ p \in DOMAIN tab[y].rules
               /\ ~(y \in DOMAIN scan[m] /\ p \in DOMAIN scan[m][y].rules)
    <3>1. new = BulkImportReplace(db[x], scan[m], Object).tab
      BY <2>1 DEF new
    <3>2. Leaves(new, tab, scan[m], Object)
      BY <3>1, ImportEffect DEF tab
    <3> QED BY <3>2 DEF Leaves
  <2>3. \A q \in Writers(x) \ {m} :
          /\ \A y : Owes(q, y) => Owes(q, y)'
          /\ \A y, p : OwesRule(q, y, p) => OwesRule(q, y, p)'
    BY <1>1 DEF Owes, OwesRule, Behind
  <2>4. ASSUME NEW y \in DOMAIN new \ DOMAIN Object
        PROVE  \E q \in Writers(x) : Owes(q, y)'
    <3>1. y \in DOMAIN tab \ DOMAIN Object /\ y \notin DOMAIN scan[m]
      BY <2>2
    <3>2. PICK q \in Writers(x) : Owes(q, y)
      BY <2>1, <3>1 DEF EdgeOK, tab
    <3>3. q # m
      BY <1>1, <1>3, <3>1, <3>2 DEF Owes
    <3> QED BY <2>3, <3>2, <3>3
  <2>5. ASSUME NEW y \in DOMAIN new \cap DOMAIN Object,
               NEW p \in DOMAIN new[y].rules \ DOMAIN Object[y].rules
        PROVE  \E q \in Writers(x) : OwesRule(q, y, p)'
    <3>1. /\ y \in DOMAIN tab /\ p \in DOMAIN tab[y].rules
          /\ ~(y \in DOMAIN scan[m] /\ p \in DOMAIN scan[m][y].rules)
      BY <2>2
    <3>2. PICK q \in Writers(x) : OwesRule(q, y, p)
      BY <2>1, <3>1 DEF EdgeOK, tab
    <3>3. q # m
      BY <1>1, <1>3, <3>1, <3>2 DEF OwesRule
    <3> QED BY <2>3, <3>2, <3>3
  <2>6. db'[x].tab = new
    BY <1>1
  <2> QED BY <2>1, <2>2, <2>4, <2>5, <2>6 DEF EdgeOK
<1> QED BY <1>2, <1>3

LEMMA OnlyPublishing ==
  ASSUME [Next]_vars
  PROVE  UNCHANGED published \/ \E h \in Handlers : Publish(h)
<1>1. ASSUME NEW p \in Procs, Reload(p) \/ NoteETag(p) PROVE UNCHANGED published
  BY <1>1 DEF Reload, ReadDomains, ReadRules, SkipRules, SwapEngine, ReloadFails, NoteETag, pollVars
<1>2. ASSUME NEW h \in Handlers, Handle(h) PROVE UNCHANGED published \/ Publish(h)
  BY <1>2 DEF Handle, CreateDomain, PutDomain, RemoveDomain, LookUpDomain, CreateRule, RuleRefused,
     PutRule, RemoveRule, Import, WriteUnanswered, Writes
<1>3. ASSUME NEW n \in Nodes, Poll(n) PROVE UNCHANGED published
  BY <1>3 DEF Poll, HeadObject, CompareETag, GetObject, ImportScan, ImportCommit, PollFails
<1> QED BY <1>1, <1>2, <1>3 DEF Next, vars, Seed, Crash, Restart

LEMMA EdgeStep ==
  ASSUME TypeOK, Roles, NEW x \in EdgeDBs, EdgeOK(x), [Next]_vars
  PROVE  EdgeOK(x)'
<1>0. x \in DBs
  BY Sharing
<1>1. CASE \E h \in Handlers : Publish(h) /\ published' # published
  <2>1. PICK h \in Handlers : published' = Append(published, read[h].acc)
                              /\ UNCHANGED <<got, imported>>
    BY <1>1 DEF Publish, PutObject, PublishFails, PutAnswerLost, pollVars, history
  <2>2. Len(published') = Len(published) + 1
    BY <2>1, AppendRange DEF TypeOK
  <2> QED BY <2>1, <2>2, PublicationKeepsEdge
<1>2. CASE Written(x)
  <2>1. ~(\E h \in Handlers : Handle(h) /\ MyDb(h) = x)
    BY Sharing
  <2>2. \A m \in Nodes : DbOf[m] = x => ~Seed(m)
    BY Sharing DEF Roles, Seed
  <2>3. PICK m \in Nodes : ImportCommit(m) /\ DbOf[m] = x
    BY <1>2, <2>1, <2>2 DEF Written
  <2>4. m \in Writers(x)
    BY <2>3 DEF ImportCommit, Roles, PollSteps, Writers
  <2> QED BY <2>3, <2>4, CommitKeepsEdge
<1>3. CASE ~Written(x) /\ UNCHANGED published
  <2>1. db'[x] = db[x]
    BY <1>0, <1>3, WrittenOrSame
  <2>2. ASSUME NEW q \in Writers(x)
        PROVE  /\ imported'[q] = imported[q]
               /\ pc'[q] = "commit" =>
                    \/ scan'[q] = db[x].tab
                    \/ pc[q] = "commit" /\ got'[q] = got[q] /\ scan'[q] = scan[q]
    <3>0. /\ q \in Nodes /\ q \in Procs /\ q \notin Handlers /\ DbOf[q] = x /\ Owned(q) = {q}
          /\ \A h \in Handlers : Host[h] # q
      BY Sharing DEF Writers
    <3>1. CASE Untouched(q)
      BY <3>0, <3>1 DEF Untouched
    <3>2. CASE Reload(q)
      BY <3>0, <3>2 DEF Reload, ReadDomains, ReadRules, SkipRules, SwapEngine, ReloadFails,
            AfterReload, Goto, TypeOK, pollVars, history, Reading, Reloading
    <3>3. CASE NoteETag(q) \/ Crash(q) \/ Restart(q)
      BY <3>0, <3>3 DEF NoteETag, Crash, Restart, Goto, TypeOK, history
    <3>4. CASE Poll(q)
      <4>1. ~ImportCommit(q)
        BY <1>3, <3>0 DEF Written
      <4>2. CASE ImportScan(q)
        BY <3>0, <4>2 DEF ImportScan, TypeOK, history
      <4>3. CASE HeadObject(q) \/ CompareETag(q) \/ GetObject(q) \/ PollFails(q)
        BY <3>0, <4>3 DEF HeadObject, CompareETag, GetObject, PollFails, Goto, TypeOK, history
      <4> QED BY <3>4, <4>1, <4>2, <4>3 DEF Poll
    <3>5. ~Seed(q)
      BY <1>3, <3>0 DEF Written
    <3> QED BY <3>0, <3>1, <3>2, <3>3, <3>4, <3>5, OwnOrUntouched DEF Own
  <2> QED BY <1>3, <2>1, <2>2, QuietKeepsEdge
<1>4. CASE ~Written(x) /\ published' # published
  <2>1. \E h \in Handlers : Publish(h)
    BY <1>4, OnlyPublishing
  <2> QED BY <1>1, <1>4, <2>1
<1> QED BY <1>2, <1>3, <1>4

RegionInv ==
  /\ TypeOK /\ Roles
  /\ \A n \in Sharers : SharerOK(n)
  /\ \A x \in EdgeDBs : EdgeOK(x)

LEMMA RegionInvariant == Spec => []RegionInv
<1>1. Init => RegionInv
  <2> SUFFICES ASSUME Init
               PROVE  (\A n \in Sharers : SharerOK(n)) /\ (\A x \in EdgeDBs : EdgeOK(x))
    BY InitType, RolesInit DEF RegionInv
  <2>1. ASSUME NEW n \in Sharers
        PROVE  SharerOK(n)
    BY Sharing DEF Init, SharerOK, Labelled
  <2> QED BY <2>1 DEF Init, EdgeOK
<1>2. RegionInv /\ [Next]_vars => RegionInv'
  <2> SUFFICES ASSUME RegionInv, [Next]_vars
               PROVE  RegionInv'
    OBVIOUS
  <2>1. TypeOK /\ TypeOK' /\ Roles /\ Roles'
    BY NextType, RolesStep DEF RegionInv
  <2>2. ASSUME NEW n \in Sharers
        PROVE  SharerOK(n)'
    BY <2>1, SharerStep DEF RegionInv
  <2>3. ASSUME NEW x \in EdgeDBs
        PROVE  EdgeOK(x)'
    BY <2>1, EdgeStep DEF RegionInv
  <2> QED BY <2>1, <2>2, <2>3 DEF RegionInv
<1> QED BY <1>1, <1>2, PTL DEF Spec

\* At rest the database that data nodes share holds exactly the object, in
\* whatever order and from whatever moments their imports ran, provided that no
\* body was published twice.
THEOREM SettledRegionHoldsObjectAlways == Spec => []SettledRegionHoldsObject
<1>1. RegionInv => SettledRegionHoldsObject
  <2> SUFFICES ASSUME RegionInv, Settled, NoRepeat, NEW x \in EdgeDBs
               PROVE  View(db[x].tab) = Normalise(Object)
    BY DEF SettledRegionHoldsObject
  <2>1. ASSUME NEW q \in Writers(x)
        PROVE  ~Behind(q)
    <3>1. q \in Sharers /\ q \in Nodes /\ q \in Syncing
      BY Sharing DEF Writers
    <3>2. lastETag[q] = ETag(Object)
      BY <3>1 DEF Settled
    <3>3. /\ imported[q] \in 0..Len(published) /\ Len(published) \in Nat
          /\ published # <<>> => Len(published) > 0
      BY <3>1 DEF RegionInv, TypeOK
    <3>4. PICK k \in 1..imported[q] : ETag(Object) = ETag(published[k])
      BY <3>1, <3>2 DEF RegionInv, SharerOK, ETagUpTo, ETag, NoETag
    <3>5. published[k] = published[Len(published)]
      BY <3>4 DEF ETag, Object
    <3>6. k = Len(published)
      BY <3>3, <3>4, <3>5 DEF NoRepeat, Settled
    <3> QED BY <3>3, <3>4, <3>6 DEF Behind
  <2> QED BY <2>1, NothingOwed DEF RegionInv, Settled
<1> QED BY <1>1, RegionInvariant, PTL

-----------------------------------------------------------------------------
(* Control nodes that serve one request at a time from a database of their own. *)

Singles ==
  {n \in Controls :
     /\ \A g, h \in Handlers : Host[g] = n /\ Host[h] = n => g = h
     /\ \A m \in Nodes : DbOf[m] = DbOf[n] => m = n}

LEMMA SingleNode ==
  ASSUME NEW n \in Singles, NEW h \in Handlers, Host[h] = n
  PROVE  /\ n \in Nodes /\ n \in Procs /\ h \in Procs /\ n # h /\ n \notin Handlers
         /\ NodeOf(n) = n /\ NodeOf(h) = n /\ MyDb(n) = DbOf[n] /\ MyDb(h) = DbOf[n]
         /\ Owned(n) = {n, h} /\ DbOf[n] \in DBs
         /\ \A g \in Handlers : Host[g] = n <=> g = h
         /\ \A g \in Handlers : MyDb(g) = DbOf[n] <=> g = h
         /\ \A m \in Nodes : DbOf[m] = DbOf[n] => m = n
<1>1. n \in Nodes /\ \A g \in Handlers : Host[g] = n => g = h
  BY TopologyAssumption DEF Singles, Controls
<1>2. \A p \in Procs : NodeOf(p) = n <=> p \in {n, h}
  BY <1>1, Places, TopologyAssumption DEF Procs, NodeOf
<1> QED BY <1>1, <1>2, Places, TopologyAssumption DEF Singles, Owned, Procs, MyDb

LEMMA SingleOwnOrSame ==
  ASSUME TypeOK, [Next]_vars, NEW n \in Singles, NEW h \in Handlers, Host[h] = n
  PROVE  Own(n) \/ (Untouched(n) /\ db'[DbOf[n]] = db[DbOf[n]])
<1>1. Written(DbOf[n]) => Own(n)
  BY SingleNode DEF Written, Own, Poll
<1> QED BY <1>1, SingleNode, OwnOrUntouched, WrittenOrSame

\* What a request of handler h does, seen from its node, if every statement that
\* takes effect is answered.
LEMMA HandleEffect ==
  ASSUME TypeOK, NEW h \in Handlers, Handle(h), "write" \notin FaultKinds
  PROVE  /\ (pc[h] = "idle" /\ Started(Host[h])) \/ pc[h] = "insert"
         /\ \A p \in Procs \ {h} : pc'[p] = pc[p]
         /\ UNCHANGED <<published, engine, lastETag, read, head, pollVars, history>>
         /\ spent'.crashes = spent.crashes
         /\ \/ pc'[h] = "reload"
            \/ pc'[h] = "insert" /\ pc[h] = "idle" /\ db' = db
            \/ pc'[h] = "idle" /\ pc[h] = "insert" /\ db' = db
<1>1. CASE LookUpDomain(h) \/ RuleRefused(h)
  BY <1>1, Places DEF LookUpDomain, RuleRefused, Accepts, Goto, TypeOK, Spend
<1>2. CASE CreateRule(h)
  BY <1>2, Places DEF CreateRule, Writes, Goto, TypeOK
<1>3. ASSUME NEW d, NEW kind, NEW req, Accepts(h, kind, req), Writes(h, d), Spend("requests")
      PROVE  /\ pc[h] = "idle" /\ Started(Host[h]) /\ pc'[h] = "reload"
             /\ \A p \in Procs \ {h} : pc'[p] = pc[p]
             /\ UNCHANGED <<published, engine, lastETag, read, head, pollVars, history>>
             /\ spent'.crashes = spent.crashes
  BY <1>3, Places DEF Accepts, Writes, Goto, TypeOK, Spend
<1>4. CASE ~LookUpDomain(h) /\ ~RuleRefused(h) /\ ~CreateRule(h)
  <2>1. \E d, kind, req : Accepts(h, kind, req) /\ Writes(h, d) /\ Spend("requests")
    BY <1>4 DEF Handle, CreateDomain, PutDomain, RemoveDomain, PutRule, RemoveRule, Import,
              WriteUnanswered, Fault
  <2> QED BY <1>3, <2>1
<1> QED BY <1>1, <1>2, <1>4

-----------------------------------------------------------------------------
(* A node without a syncer, such as the single binary. *)

LocalOK(n, h) ==
  LET at == pc[n]
      running == pc[h]
  IN /\ at \in {"down", "boot", "seed", "seeded", "idle"}
     /\ running \in {"idle", "insert", "reload"}
     /\ running # "idle" => at = "idle"
     /\ InStep(n) /\ InStep(h)
     /\ at = "idle" /\ running # "reload" => engine[n] = Serve(View(db[DbOf[n]].tab))

LEMMA LocalStep ==
  ASSUME TypeOK, WholeReloads, {"reload", "write"} \cap FaultKinds = {}, [Next]_vars,
         NEW n \in Singles \ Syncing, NEW h \in Handlers, Host[h] = n, LocalOK(n, h)
  PROVE  LocalOK(n, h)'
<1>0. /\ n \in Nodes /\ n \in Procs /\ h \in Procs /\ n # h /\ n \notin Handlers
      /\ NodeOf(n) = n /\ NodeOf(h) = n /\ MyDb(n) = DbOf[n] /\ MyDb(h) = DbOf[n]
      /\ Owned(n) = {n, h} /\ DbOf[n] \in DBs
      /\ \A g \in Handlers : Host[g] = n <=> g = h
  BY SingleNode
<1>1. CASE Untouched(n) /\ db'[DbOf[n]] = db[DbOf[n]]
  BY <1>0, <1>1 DEF Untouched, LocalOK, InStep
<1>2. ASSUME NEW p \in {n, h}, ReadDomains(p) \/ ReadRules(p)
      PROVE  LocalOK(n, h)'
  <2>1. Listable(p)
    BY <1>2 DEF Listable, WholeReloads, LocalOK, ReadDomains, ReadRules, Reading, Reloading
  <2>2. InStep(p)'
    BY <1>0, <1>2, <2>1, ReadingInStep DEF LocalOK
  <2>3. \A q \in Procs \ {p} : read'[q] = read[q]
    BY <1>2 DEF ReadDomains, ReadRules, TypeOK
  <2>4. UNCHANGED <<db, pc, engine>>
    BY <1>2 DEF ReadDomains, ReadRules
  <2>5. InStep(n)' /\ InStep(h)'
    BY <1>0, <2>2, <2>3, <2>4 DEF InStep, LocalOK
  <2> QED BY <2>4, <2>5 DEF LocalOK
<1>3. ASSUME NEW p \in {n, h}, SwapEngine(p)
      PROVE  LocalOK(n, h)'
  <2>1. InStep(p) /\ Read(p) /\ pc[p] # "export" /\ engine'[n] = Serve(read[p].acc)
    BY <1>0, <1>3 DEF SwapEngine, Reloading, TypeOK, LocalOK
  <2>2. engine'[n] = Serve(View(db[DbOf[n]].tab))
    BY <1>0, <2>1, ReadWhole
  <2>3. /\ ~read'[p].listed /\ \A q \in Procs \ {p} : read'[q] = read[q] /\ pc'[q] = pc[q]
        /\ db' = db
    BY <1>0, <1>3 DEF SwapEngine, TypeOK, NotListed, Goto
  <2>4. p = n => pc[h] = "idle" /\ pc'[n] \in {"seed", "idle"}
    BY <1>0, <1>3 DEF SwapEngine, Reloading, LocalOK, Goto, AfterReload, TypeOK
  <2>5. p = h => pc'[h] = "idle"
    BY <1>0, <1>3 DEF SwapEngine, LocalOK, Goto, AfterReload, TypeOK
  <2>6. InStep(n)' /\ InStep(h)'
    BY <1>0, <2>3 DEF InStep, LocalOK
  <2> QED BY <1>0, <2>2, <2>3, <2>4, <2>5, <2>6 DEF LocalOK
<1>4. CASE Handle(h)
  <2>1. /\ pc[h] \in {"idle", "insert"} /\ pc[n] = "idle"
        /\ pc'[n] = pc[n] /\ engine' = engine /\ read' = read
        /\ \/ pc'[h] = "reload"
           \/ pc'[h] \in {"insert", "idle"} /\ db' = db
    BY <1>0, <1>4, HandleEffect DEF LocalOK, Started
  <2>2. ~read[n].listed /\ ~read[h].listed
    BY <2>1 DEF LocalOK, InStep, Reading, Reloading
  <2> QED BY <2>1, <2>2 DEF LocalOK, InStep
<1>5. CASE Seed(n)
  <2>1. pc[h] = "idle" /\ ~read[n].listed /\ ~read[h].listed
    BY <1>5 DEF Seed, LocalOK, InStep, Reading, Reloading
  <2> QED BY <1>0, <1>5, <2>1 DEF Seed, LocalOK, InStep, Goto, TypeOK
<1>6. CASE Crash(n)
  BY <1>0, <1>6 DEF Crash, LocalOK, InStep, NotListed, TypeOK
<1>7. CASE Restart(n)
  <2>1. pc[h] = "idle" /\ ~read[n].listed /\ ~read[h].listed
    BY <1>7 DEF Restart, LocalOK, InStep, Reading, Reloading
  <2> QED BY <1>0, <1>7, <2>1 DEF Restart, LocalOK, InStep, Goto, TypeOK
<1>8. \A p \in {n, h} : ~SkipRules(p) /\ ~ReloadFails(p) /\ ~NoteETag(p)
  BY DEF SkipRules, ReloadFails, NoteETag, Fault, WholeReloads, LocalOK
<1>9. ~Publish(h) /\ ~Poll(n)
  BY DEF Publish, PutObject, PublishFails, PutAnswerLost, Poll, HeadObject, CompareETag,
         GetObject, ImportScan, ImportCommit, PollFails, LocalOK
<1> QED BY <1>0, <1>1, <1>2, <1>3, <1>4, <1>5, <1>6, <1>7, <1>8, <1>9, SingleOwnOrSame
        DEF Own, Reload

\* Requests are served one at a time by nodes that own their databases, no reload
\* of theirs fails, and no request fails after its statement took effect.
OneAtATime ==
  /\ Controls \ Syncing \subseteq Singles
  /\ WholeReloads
  /\ {"reload", "write"} \cap FaultKinds = {}

LocalInv ==
  \A n \in Controls \ Syncing : \A h \in Handlers : Host[h] = n => LocalOK(n, h)

\* When a node that serves one request at a time from a database of its own, and
\* has no syncer, has answered its requests, it serves what its database says,
\* unless a statement or a reload failed, whatever the requests, the seed file, the
\* crashes and the other nodes were.
THEOREM LocalEngineIsCurrentAlways ==
  ASSUME OneAtATime
  PROVE  Spec => []LocalEngineIsCurrent
<1>1. Init => LocalInv
  <2> SUFFICES ASSUME Init, NEW n \in Controls \ Syncing, NEW h \in Handlers, Host[h] = n
               PROVE  LocalOK(n, h)
    BY DEF LocalInv
  <2>1. n \in Nodes /\ h \in Procs /\ n \in Procs /\ h \notin Nodes
    BY Places, TopologyAssumption
  <2> QED BY <2>1 DEF Init, LocalOK, InStep, NotListed
<1>2. TypeOK /\ LocalInv /\ [Next]_vars => LocalInv'
  BY LocalStep DEF LocalInv, OneAtATime
<1>3. LocalInv => LocalEngineIsCurrent
  <2> SUFFICES ASSUME LocalInv, NEW n \in Controls \ Syncing, Idle(n)
               PROVE  engine[n] = Serve(View(db[DbOf[n]].tab))
    BY DEF LocalEngineIsCurrent
  <2>1. PICK h \in Handlers : Host[h] = n
    BY DEF Controls
  <2> QED BY <2>1 DEF LocalInv, LocalOK, Idle, Started
<1> QED BY <1>1, <1>2, <1>3, TypeCorrect, PTL DEF Spec

-----------------------------------------------------------------------------
(* The control plane that publishes. *)

\* One node publishes and serves one request at a time, no publication fails, and
\* no request fails after its statement took effect.
OnePublisher ==
  /\ \A m, n \in Controls \cap Syncing : m = n
  /\ Controls \cap Syncing \subseteq Singles
  /\ {"write", "publish"} \cap FaultKinds = {}
  /\ Cardinality(Names) <= ExportLimit

PublisherOK(n, h) ==
  /\ pc[h] \in {"idle", "insert", "reload", "export", "note"}
  /\ pc[h] # "idle" => Started(n)
  /\ read[h].listed => pc[h] \in Reading
  /\ imported[n] = 0 /\ pc[h] = "export" => InStep(h)
  /\ spent.crashes = 0 /\ ~Started(n) => published = <<>>
  /\ imported[n] = 0 /\ spent.crashes = 0 /\ published # <<>> /\ pc[h] \notin {"reload", "export"}
       => Object = View(db[DbOf[n]].tab)

LEMMA CrashesCount ==
  ASSUME TypeOK, [Next]_vars
  PROVE  spent'.crashes = 0 => spent.crashes = 0
<1>1. ASSUME NEW what, Spend(what)
      PROVE  spent'.crashes = 0 => spent.crashes = 0
  BY <1>1 DEF Spend, TypeOK
<1>2. ASSUME NEW h \in Handlers, Handle(h) PROVE UNCHANGED spent \/ \E what : Spend(what)
  BY <1>2 DEF Handle, CreateDomain, PutDomain, RemoveDomain, LookUpDomain, CreateRule,
              RuleRefused, PutRule, RemoveRule, Import, WriteUnanswered, Fault
<1>3. UNCHANGED spent \/ \E what : Spend(what)
  BY <1>2 DEF Next, vars, Reload, ReadDomains, ReadRules, SkipRules, SwapEngine, ReloadFails,
         Fault, NoteETag, Publish, PutObject, PublishFails, PutAnswerLost, Poll, HeadObject,
         CompareETag, GetObject, ImportScan, ImportCommit, PollFails, Seed, Crash, Restart,
         history
<1> QED BY <1>1, <1>3

\* What a poll, the boot or the life of a node does to what its handler reads and publishes.
LEMMA NodeStepEffect ==
  ASSUME TypeOK, NEW n \in Nodes, NEW h \in Handlers,
         Reload(n) \/ NoteETag(n) \/ Poll(n) \/ Restart(n)
  PROVE  /\ pc'[h] = pc[h] /\ read'[h] = read[h] /\ published' = published
         /\ Started(n) => Started(n)'
         /\ imported'[n] = 0 => imported[n] = 0 /\ db' = db
<1>0. n \in Procs /\ h \in Procs /\ n # h /\ n \notin Handlers /\ h \notin Nodes
  BY Places, TopologyAssumption DEF Procs
<1>1. CASE ReadDomains(n) \/ ReadRules(n) \/ SkipRules(n)
  BY <1>0, <1>1 DEF ReadDomains, ReadRules, SkipRules, TypeOK, Started, history
<1>2. CASE SwapEngine(n) \/ ReloadFails(n)
  BY <1>0, <1>2 DEF SwapEngine, ReloadFails, Reloading, AfterReload, Goto, TypeOK, Started,
                    history
<1>3. CASE NoteETag(n) \/ Restart(n)
  BY <1>0, <1>3 DEF NoteETag, Restart, Goto, TypeOK, Started, history
<1>4. CASE HeadObject(n) \/ CompareETag(n) \/ GetObject(n) \/ ImportScan(n) \/ PollFails(n)
  BY <1>0, <1>4 DEF HeadObject, CompareETag, GetObject, ImportScan, PollFails, Goto, TypeOK,
                    Started, history
<1>5. CASE ImportCommit(n)
  BY <1>0, <1>5 DEF ImportCommit, Goto, TypeOK, Started
<1> QED BY <1>1, <1>2, <1>3, <1>4, <1>5 DEF Reload, Poll

LEMMA PublisherStep ==
  ASSUME TypeOK, TypeOK', Roles, OnePublisher, [Next]_vars,
         NEW n \in Controls \cap Syncing, NEW h \in Handlers, Host[h] = n, PublisherOK(n, h)
  PROVE  PublisherOK(n, h)'
<1>0. /\ n \in Nodes /\ n \in Procs /\ h \in Procs /\ n # h /\ n \notin Handlers
      /\ NodeOf(n) = n /\ NodeOf(h) = n /\ MyDb(n) = DbOf[n] /\ MyDb(h) = DbOf[n]
      /\ Owned(n) = {n, h} /\ DbOf[n] \in DBs
      /\ \A g \in Handlers : Host[g] = n <=> g = h
      /\ spent'.crashes = 0 => spent.crashes = 0
  BY SingleNode, CrashesCount DEF OnePublisher
<1>1. CASE PutObject(h) \/ PutAnswerLost(h)
  <2>1. /\ pc[h] = "export" /\ Read(h)
        /\ published' = Append(published, read[h].acc)
        /\ pc'[h] \in {"idle", "note"} /\ pc'[n] = pc[n] /\ ~read'[h].listed
        /\ UNCHANGED <<db, imported>>
    BY <1>0, <1>1 DEF PutObject, PutAnswerLost, Goto, TypeOK, NotListed, history
  <2>2. Object' = read[h].acc
    BY <2>1, AppendRange DEF TypeOK, Object
  <2>3. imported[n] = 0 => read[h].acc = View(db[DbOf[n]].tab)
    BY <1>0, <2>1, ReadWhole DEF PublisherOK
  <2>4. Started(n)'
    BY <2>1 DEF PublisherOK, Started
  <2> QED BY <2>1, <2>2, <2>3, <2>4 DEF PublisherOK
<1>2. CASE UNCHANGED published
  <2>0. Object' = Object
    BY <1>2 DEF Object
  <2>1. CASE Untouched(n) /\ db'[DbOf[n]] = db[DbOf[n]]
    BY <1>0, <1>2, <2>0, <2>1 DEF Untouched, PublisherOK, InStep, Started
  <2>2. CASE Reload(n) \/ NoteETag(n) \/ Poll(n) \/ Restart(n)
    <3>1. /\ pc'[h] = pc[h] /\ read'[h] = read[h]
          /\ Started(n) => Started(n)'
          /\ imported'[n] = 0 => imported[n] = 0 /\ db' = db
      BY <2>2, <1>0, NodeStepEffect
    <3>2. InStep(h) /\ db' = db => InStep(h)'
      BY <3>1 DEF InStep
    <3> QED BY <1>0, <1>2, <2>0, <3>1, <3>2 DEF PublisherOK
  <2>3. CASE Handle(h)
    <3>1. /\ pc[h] \in {"idle", "insert"} /\ Started(n)
          /\ pc'[n] = pc[n] /\ read' = read /\ imported' = imported
          /\ spent'.crashes = spent.crashes
          /\ \/ pc'[h] = "reload"
             \/ pc'[h] \in {"insert", "idle"} /\ db' = db
      BY <1>0, <2>3, HandleEffect DEF PublisherOK, OnePublisher, history
    <3>2. ~read[h].listed /\ Started(n)'
      BY <3>1 DEF PublisherOK, Reading, Reloading, Started
    <3> QED BY <1>2, <2>0, <3>1, <3>2 DEF PublisherOK
  <2>4. CASE Seed(n)
    <3>1. pc[h] = "idle" /\ ~Started(n) /\ ~Started(n)' /\ pc'[h] = pc[h]
          /\ UNCHANGED <<read, spent>>
      BY <1>0, <2>4 DEF Seed, Goto, TypeOK, Started, PublisherOK
    <3> QED BY <1>2, <3>1 DEF PublisherOK
  <2>5. CASE Crash(n)
    <3>1. pc'[h] = "idle" /\ ~read'[h].listed /\ spent'.crashes # 0
      BY <1>0, <2>5 DEF Crash, Spend, TypeOK, NotListed
    <3> QED BY <3>1 DEF PublisherOK
  <2>6. CASE ReadDomains(h) \/ ReadRules(h)
    <3>1. /\ pc[h] \in Reading /\ UNCHANGED <<db, pc, imported, spent>>
      BY <2>6 DEF ReadDomains, ReadRules, history
    <3>2. pc[h] = "export" /\ imported[n] = 0 => InStep(h)'
      BY <1>0, <2>6, ReadingInStep DEF PublisherOK, Listable, OnePublisher
    <3> QED BY <1>2, <2>0, <3>1, <3>2 DEF PublisherOK, Started
  <2>7. CASE SkipRules(h)
    <3>1. pc[h] = "reload" /\ UNCHANGED <<db, pc, imported>>
      BY <2>7 DEF SkipRules, Reloading, PublisherOK, history
    <3> QED BY <1>2, <3>1 DEF PublisherOK, Started, Reading, Reloading
  <2>8. CASE SwapEngine(h) \/ ReloadFails(h)
    <3>0. h \notin Nodes
      BY TopologyAssumption
    <3>1. /\ pc[h] = "reload" /\ pc'[h] = "export" /\ pc'[n] = pc[n] /\ ~read'[h].listed
          /\ UNCHANGED <<db, imported>>
      BY <1>0, <2>8, <3>0 DEF SwapEngine, ReloadFails, Reloading, PublisherOK, Goto, AfterReload,
                        TypeOK, NotListed, history
    <3> QED BY <1>2, <3>1 DEF PublisherOK, Started, InStep
  <2>9. CASE NoteETag(h)
    BY <1>0, <1>2, <2>0, <2>9 DEF NoteETag, Goto, TypeOK, PublisherOK, Started, Reading,
                                  Reloading, history
  <2>10. CASE Publish(h)
    <3>1. PutObject(h) \/ PutAnswerLost(h)
      BY <2>10 DEF Publish, PublishFails, Fault, OnePublisher
    <3> QED BY <1>1, <3>1
  <2> QED BY <1>0, <2>1, <2>2, <2>3, <2>4, <2>5, <2>6, <2>7, <2>8, <2>9, <2>10, SingleOwnOrSame
          DEF OnePublisher, Own, Reload
<1>3. CASE \E g \in Handlers : Publish(g)
  <2>1. PICK g \in Handlers : Publish(g)
    BY <1>3
  <2>2. Host[g] \in Controls \cap Syncing
    BY <2>1 DEF Publish, PutObject, PublishFails, PutAnswerLost, Roles, Controls
  <2>3. g = h
    BY <1>0, <2>2 DEF OnePublisher
  <2>4. PutObject(h) \/ PutAnswerLost(h)
    BY <2>1, <2>3 DEF Publish, PublishFails, Fault, OnePublisher
  <2> QED BY <1>1, <2>4
<1> QED BY <1>2, <1>3, OnlyPublishing

PublisherInv ==
  /\ TypeOK /\ Roles
  /\ \A n \in Controls \cap Syncing : \A h \in Handlers : Host[h] = n => PublisherOK(n, h)

\* When a control plane that is alone in publishing and answers one request at a
\* time has answered them all, the object is its database, unless it imported one,
\* a statement or a publication failed or it died on the way.
THEOREM PublishedIsStoredAlways ==
  ASSUME OnePublisher
  PROVE  Spec => []PublishedIsStored
<1>1. Init => PublisherInv
  <2> SUFFICES ASSUME Init, NEW n \in Controls \cap Syncing, NEW h \in Handlers, Host[h] = n
               PROVE  PublisherOK(n, h)
    BY InitType, RolesInit DEF PublisherInv
  <2>1. n \in Nodes /\ h \in Procs /\ n \in Procs /\ h \notin Nodes
    BY Places, TopologyAssumption
  <2> QED BY <2>1 DEF Init, PublisherOK, NotListed
<1>2. PublisherInv /\ [Next]_vars => PublisherInv'
  <2> SUFFICES ASSUME PublisherInv, [Next]_vars
               PROVE  PublisherInv'
    OBVIOUS
  <2>1. TypeOK /\ TypeOK' /\ Roles /\ Roles'
    BY NextType, RolesStep DEF PublisherInv
  <2> QED BY <2>1, PublisherStep DEF PublisherInv
<1>3. PublisherInv => PublishedIsStored
  <2> SUFFICES ASSUME PublisherInv, NEW n \in Controls \cap Syncing, imported[n] = 0,
                      spent.crashes = 0, Idle(n), published # <<>>
               PROVE  Object = View(db[DbOf[n]].tab)
    BY DEF PublishedIsStored
  <2>1. PICK h \in Handlers : Host[h] = n
    BY DEF Controls
  <2> QED BY <2>1 DEF PublisherInv, PublisherOK, Idle
<1> QED BY <1>1, <1>2, <1>3, PTL DEF Spec
=============================================================================
