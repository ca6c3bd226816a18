----------------------------- MODULE InputsProofs -----------------------------
(***************************************************************************)
(* What matching, the two ways to take off a port and the decision about a *)
(* certificate come to, for paths and hosts of any characters and lengths, *)
(* and what List returns, for any keys and prefixes.                       *)
(***************************************************************************)
EXTENDS MCInputs, SequenceTheorems, TotalsProofs

\* Inputs are sequences of characters.
TypeInv ==
  /\ pattern \in Seq(PathChars) /\ path \in Seq(PathChars)
  /\ host \in Seq(HostChars)

\* Every step makes an input longer by a character.
LEMMA TypeInvariant == InputSpec => []TypeInv
<1>1. InputInit => TypeInv BY DEF InputInit, TypeInv
<1>2. ASSUME TypeInv, [InputNext]_<<inputs, table>> PROVE TypeInv'
  <2>1. CASE LongerPattern BY <1>2, <2>1 DEF TypeInv, LongerPattern
  <2>2. CASE LongerPath BY <1>2, <2>2 DEF TypeInv, LongerPath
  <2>3. CASE LongerHost BY <1>2, <2>3 DEF TypeInv, LongerHost
  <2>4. CASE Change \/ UNCHANGED <<inputs, table>> BY <1>2, <2>4 DEF TypeInv, Change, inputs
  <2> QED BY <1>2, <2>1, <2>2, <2>3, <2>4 DEF InputNext
<1> QED BY <1>1, <1>2, PTL DEF InputSpec

-----------------------------------------------------------------------------
(* Paths *)

\* A prefix agrees with the sequence at each of its places.
LEMMA PrefixPlaces ==
  ASSUME NEW S, NEW s \in Seq(S), NEW t \in Seq(S)
  PROVE  IsPrefix(s, t) <=> Len(s) <= Len(t) /\ \A i \in 1..Len(s) : s[i] = t[i]
<1>1. SubSeq(s, 1, Len(s)) = s OBVIOUS
<1>2. ASSUME Len(s) <= Len(t)
      PROVE  /\ SubSeq(t, 1, Len(s)) \in Seq(S) /\ Len(SubSeq(t, 1, Len(s))) = Len(s)
             /\ \A i \in 1..Len(s) : SubSeq(t, 1, Len(s))[i] = t[i]
  BY <1>2
<1> QED BY <1>1, <1>2 DEF IsPrefix

\* A strict prefix is shorter.
LEMMA StrictPrefixShorter ==
  ASSUME NEW S, NEW s \in Seq(S), NEW t \in Seq(S)
  PROVE  IsStrictPrefix(s, t) <=> Len(s) < Len(t) /\ \A i \in 1..Len(s) : s[i] = t[i]
BY PrefixPlaces DEF IsStrictPrefix

\* A pattern with a slash after it is a prefix of what goes on with a slash.
LEMMA SlashAfter ==
  ASSUME NEW S, Slash \in S, NEW s \in Seq(S), NEW t \in Seq(S)
  PROVE  IsPrefix(Append(s, Slash), t) <=> IsStrictPrefix(s, t) /\ t[Len(s) + 1] = Slash
<1> DEFINE a == Append(s, Slash)
<1>1. a \in Seq(S) /\ Len(a) = Len(s) + 1 /\ a[Len(s) + 1] = Slash
      /\ \A i \in 1..Len(s) : a[i] = s[i]
  OBVIOUS
<1>2. 1..Len(a) = 1..Len(s) \cup {Len(s) + 1} BY <1>1
<1> HIDE DEF a
<1>3. IsPrefix(a, t) <=> Len(a) <= Len(t) /\ \A i \in 1..Len(a) : a[i] = t[i]
  BY <1>1, PrefixPlaces
<1>4. IsPrefix(a, t)
        <=> Len(s) + 1 <= Len(t) /\ t[Len(s) + 1] = Slash /\ \A i \in 1..Len(s) : s[i] = t[i]
  BY <1>1, <1>2, <1>3
<1>5. IsPrefix(a, t) <=> IsStrictPrefix(s, t) /\ t[Len(s) + 1] = Slash
  BY <1>4, StrictPrefixShorter
<1> QED BY <1>5 DEF a

\* A rule takes whole segments, whatever the path and the pattern are.
THEOREM MatchesSegmentsAlways == InputSpec => []MatchesSegments
<1>1. ASSUME TypeInv PROVE MatchesSegments
  <2> DEFINE Ends == pattern # <<>> /\ Last(pattern) = Slash
           S == PathChars \cup {Slash}
  <2>1. pattern \in Seq(S) /\ path \in Seq(S) /\ Slash \in S BY <1>1 DEF TypeInv
  <2> HIDE DEF S
  <2>2. IsPrefix(pattern, path) <=> path = pattern \/ IsStrictPrefix(pattern, path)
    BY <2>1 DEF IsStrictPrefix, IsPrefix
  <2>3. IsPrefix(Append(pattern, Slash), path)
          <=> IsStrictPrefix(pattern, path) /\ path[Len(pattern) + 1] = Slash
    BY <2>1, SlashAfter
  <2>4. matchPath(pattern, path)
          <=> \/ pattern = path
              \/ Ends /\ IsPrefix(pattern, path)
              \/ ~Ends /\ IsPrefix(Append(pattern, Slash), path)
    BY DEF matchPath
  <2> HIDE DEF Ends
  <2>5. matchPath(pattern, path)
          <=> \/ path = pattern
              \/ IsStrictPrefix(pattern, path) /\ (path[Len(pattern) + 1] = Slash \/ Ends)
    BY <2>2, <2>3, <2>4
  <2> QED BY <2>5 DEF MatchesSegments, Ends
<1> QED BY <1>1, TypeInvariant, PTL

-----------------------------------------------------------------------------
(* Hosts *)

\* A name has no port to take off.
LEMMA NameIsItself ==
  ASSUME NEW name, IsName(name)
  PROVE  engineStripPort(name) = name /\ stripHostPort(name) = name
BY DEF IsName, engineStripPort, stripHostPort

\* From a well-formed host both ways take the same name.
LEMMA PortComesOff ==
  ASSUME NEW S, NEW h \in Seq(S), WellFormed(h)
  PROVE  IsName(stripHostPort(h)) /\ engineStripPort(h) = stripHostPort(h)
<1>1. CASE IsName(h) BY <1>1, NameIsItself
<1>2. CASE ~IsName(h)
  <2>1. PICK i \in DOMAIN h : /\ h[i] = Colon
                              /\ IsName(SubSeq(h, 1, i - 1))
                              /\ DigitsOnly(SubSeq(h, i + 1, Len(h)))
    BY <1>2 DEF WellFormed
  <2>2. i \in 1..Len(h) /\ Len(h) \in Nat /\ DOMAIN h = 1..Len(h) BY <2>1
  <2>3. ASSUME NEW j \in 1..(i - 1) PROVE h[j] # Colon
    <3> DEFINE s == SubSeq(h, 1, i - 1)
    <3>1. DOMAIN s = 1..(i - 1) /\ s[j] = h[j] BY <2>2
    <3>2. Colons(s) = {} BY <2>1 DEF IsName
    <3> HIDE DEF s
    <3> QED BY <3>1, <3>2 DEF Colons
  <2>4. ASSUME NEW j \in (i + 1)..Len(h) PROVE h[j] # Colon
    <3> DEFINE s == SubSeq(h, i + 1, Len(h))
           k == j - i
    <3>0. k \in 1..(Len(h) - i) /\ i + 1 + k - 1 = j BY <2>2
    <3>1. DOMAIN s = 1..(Len(h) - i) /\ s[k] = h[j]
      <4> HIDE DEF k
      <4>1. Len(s) = Len(h) - i /\ s \in Seq(S) BY <2>2
      <4>2. s[k] = h[i + 1 + k - 1] BY <2>2, <3>0
      <4> HIDE DEF s
      <4> QED BY <2>2, <3>0, <4>1, <4>2
    <3>2. ToSet(s) \subseteq Digits BY <2>1 DEF DigitsOnly
    <3> HIDE DEF s
    <3>3. h[j] \in Digits BY <3>0, <3>1, <3>2 DEF ToSet
    <3> QED BY <3>3 DEF Digits, Colon
  <2>5. Colons(h) = {i}
    <3>1. ASSUME NEW j \in 1..Len(h), j # i PROVE h[j] # Colon
      <4>1. j \in 1..(i - 1) \/ j \in (i + 1)..Len(h) BY <2>2, <3>1
      <4> QED BY <2>3, <2>4, <4>1
    <3> QED BY <2>1, <2>2, <3>1 DEF Colons
  <2>6. LastColon(h) = i BY <2>2, <2>5 DEF LastColon
  <2>7. engineStripPort(h) = SubSeq(h, 1, i - 1) BY <2>5, <2>6 DEF engineStripPort
  <2>8. stripHostPort(h) = SubSeq(h, 1, i - 1)
    BY <2>1, <2>5, <2>6 DEF stripHostPort, AfterColon
  <2> QED BY <2>1, <2>7, <2>8
<1> QED BY <1>1, <1>2

\* The port in a well-formed host makes no difference to what it is answered, and
\* the engine finds what port 80 found.
THEOREM PortsIgnoredAlways == InputSpec => []PortsIgnored
<1>1. ASSUME TypeInv PROVE PortsIgnored
  <2>1. SUFFICES ASSUME NEW domains \in SUBSET Names, NEW admin \in Names, WellFormed(host)
                 PROVE  LET name == stripHostPort(host)
                        IN  /\ RouteTLS(host, admin, domains) = RouteTLS(name, admin, domains)
                            /\ RoutePlain(host, domains) = RoutePlain(name, domains)
                            /\ RoutePlain(host, domains) # "404"
    BY DEF PortsIgnored
  <2> DEFINE name == stripHostPort(host)
  <2>2. IsName(name) /\ engineStripPort(host) = name
    BY <1>1, <2>1, PortComesOff DEF TypeInv
  <2>3. engineStripPort(name) = name /\ stripHostPort(name) = name
    <3> HIDE DEF name
    <3> QED BY <2>2, NameIsItself
  <2> QED BY <2>2, <2>3 DEF RouteTLS, RoutePlain, HasDomain
<1> QED BY <1>1, TypeInvariant, PTL

\* In the single-binary mode a certificate is obtained for exactly the names that
\* port 443 answers.
THEOREM CertificateIffServedAlways == InputSpec => []CertificateIffServed
<1>1. CertificateIffServed
  BY NameIsItself DEF CertificateIffServed, DecisionFunc, RouteTLS, HasDomain
<1> QED BY <1>1, PTL

-----------------------------------------------------------------------------
(* The order of bytes.  A key is compared as if it went on with -1 for     *)
(* ever.                                                                   *)

At(k, i) == IF i <= Len(k) THEN k[i] ELSE -1

\* a and b differ first at i, where a has less.
LessAt(a, b, i) == At(a, i) < At(b, i) /\ \A j \in 1..(i - 1) : At(a, j) = At(b, j)

\* What is compared at a place is a number.
LEMMA AtType == ASSUME NEW k \in Seq(Nat), NEW i \in Nat \ {0} PROVE At(k, i) \in Int
BY DEF At

\* The order is that of the first difference.
LEMMA BytesAt ==
  ASSUME NEW a \in Seq(Nat), NEW b \in Seq(Nat)
  PROVE  BytesBefore(a, b) <=> \E i \in Nat \ {0} : LessAt(a, b, i)
<1>1. ASSUME IsStrictPrefix(a, b) PROVE LessAt(a, b, Len(a) + 1)
  BY <1>1, StrictPrefixShorter DEF LessAt, At
<1>2. ASSUME NEW i \in (1..Len(a)) \cap (1..Len(b))
      PROVE  SubSeq(a, 1, i - 1) = SubSeq(b, 1, i - 1) <=> \A j \in 1..(i - 1) : a[j] = b[j]
  <2> DEFINE s == SubSeq(a, 1, i - 1)
             t == SubSeq(b, 1, i - 1)
  <2>1. s \in Seq(Nat) /\ Len(s) = i - 1 /\ \A j \in 1..(i - 1) : s[j] = a[j]
    <3>1. i - 1 \in 0..Len(a) /\ 1 \in 1..(Len(a) + 1) OBVIOUS
    <3> QED BY <3>1, SubSeqProperties
  <2>2. t \in Seq(Nat) /\ Len(t) = i - 1 /\ \A j \in 1..(i - 1) : t[j] = b[j]
    <3>1. i - 1 \in 0..Len(b) /\ 1 \in 1..(Len(b) + 1) OBVIOUS
    <3> QED BY <3>1, SubSeqProperties
  <2> HIDE DEF s, t
  <2>3. s = t <=> \A j \in 1..(i - 1) : s[j] = t[j] BY <2>1, <2>2, SeqEqual
  <2> QED BY <2>1, <2>2, <2>3 DEF s, t
<1>3. ASSUME NEW i \in Nat \ {0}, LessAt(a, b, i), i \in 1..Len(a) PROVE BytesBefore(a, b)
  <2>1. i \in 1..Len(b) BY <1>3 DEF LessAt, At
  <2>2. a[i] < b[i] /\ \A j \in 1..(i - 1) : a[j] = b[j] BY <1>3, <2>1 DEF LessAt, At
  <2> QED BY <1>2, <1>3, <2>1, <2>2 DEF BytesBefore
<1>4. ASSUME NEW i \in Nat \ {0}, LessAt(a, b, i), i \notin 1..Len(a) PROVE BytesBefore(a, b)
  <2>1. i \in 1..Len(b) /\ i > Len(a) BY <1>4 DEF LessAt, At
  <2>2. \A j \in 1..Len(a) : a[j] = b[j]
    <3> TAKE j \in 1..Len(a)
    <3>1. j \in 1..(i - 1) /\ j <= Len(a) /\ j <= Len(b) BY <2>1
    <3> QED BY <1>4, <3>1 DEF LessAt, At
  <2>3. Len(a) < Len(b) BY <2>1
  <2>4. IsStrictPrefix(a, b) BY <2>2, <2>3, StrictPrefixShorter
  <2> QED BY <2>4 DEF BytesBefore
<1>5. ASSUME NEW i \in (1..Len(a)) \cap (1..Len(b)), a[i] < b[i],
             SubSeq(a, 1, i - 1) = SubSeq(b, 1, i - 1)
      PROVE  LessAt(a, b, i)
  <2>1. \A j \in 1..(i - 1) : a[j] = b[j] BY <1>2, <1>5
  <2> QED BY <1>5, <2>1 DEF LessAt, At
<1>6. ASSUME BytesBefore(a, b) PROVE \E i \in Nat \ {0} : LessAt(a, b, i)
  <2>1. CASE IsStrictPrefix(a, b)
    <3>1. Len(a) + 1 \in Nat \ {0} OBVIOUS
    <3> QED BY <1>1, <2>1, <3>1
  <2>2. CASE \E i \in (1..Len(a)) \cap (1..Len(b)) :
               a[i] < b[i] /\ SubSeq(a, 1, i - 1) = SubSeq(b, 1, i - 1)
    <3>1. PICK i \in (1..Len(a)) \cap (1..Len(b)) : LessAt(a, b, i) BY <1>5, <2>2
    <3>2. i \in Nat \ {0} BY <3>1
    <3> QED BY <3>1, <3>2
  <2> QED BY <1>6, <2>1, <2>2 DEF BytesBefore
<1>7. ASSUME NEW i \in Nat \ {0}, LessAt(a, b, i) PROVE BytesBefore(a, b)
  BY <1>3, <1>4, <1>7
<1> QED BY <1>6, <1>7

\* The order of bytes is a strict order.
LEMMA BytesIrreflexive == ASSUME NEW a \in Seq(Nat) PROVE ~BytesBefore(a, a)
BY BytesAt, AtType DEF LessAt

\* It is transitive,
LEMMA BytesTransitive ==
  ASSUME NEW a \in Seq(Nat), NEW b \in Seq(Nat), NEW c \in Seq(Nat),
         BytesBefore(a, b), BytesBefore(b, c)
  PROVE  BytesBefore(a, c)
<1>1. PICK i \in Nat \ {0} : LessAt(a, b, i) BY BytesAt
<1>2. PICK k \in Nat \ {0} : LessAt(b, c, k) BY BytesAt
<1>3. \A j \in Nat \ {0} : At(a, j) \in Int /\ At(b, j) \in Int /\ At(c, j) \in Int BY AtType
<1>4. CASE i <= k
  <2>1. \A j \in 1..(i - 1) : At(a, j) = At(b, j) /\ At(b, j) = At(c, j)
    BY <1>1, <1>2, <1>4 DEF LessAt
  <2>2. At(a, i) < At(b, i) /\ (At(b, i) = At(c, i) \/ At(b, i) < At(c, i))
    BY <1>1, <1>2, <1>4 DEF LessAt
  <2>3. At(a, i) < At(c, i) BY <1>3, <2>2
  <2>4. LessAt(a, c, i) BY <2>1, <2>3 DEF LessAt
  <2> QED BY <2>4, BytesAt
<1>5. CASE k < i
  <2>1. LessAt(a, c, k) BY <1>1, <1>2, <1>3, <1>5 DEF LessAt
  <2> QED BY <2>1, BytesAt
<1> QED BY <1>4, <1>5

\* and total.
LEMMA BytesTotal ==
  ASSUME NEW a \in Seq(Nat), NEW b \in Seq(Nat), a # b
  PROVE  BytesBefore(a, b) \/ BytesBefore(b, a)
<1> DEFINE D == {i \in Nat \ {0} : At(a, i) # At(b, i)}
<1>1. D # {}
  <2>1. CASE Len(a) = Len(b)
    <3>1. PICK i \in 1..Len(a) : a[i] # b[i] BY <2>1, SeqEqual
    <3>2. i \in D BY <2>1, <3>1 DEF At
    <3> QED BY <3>2
  <2>2. CASE Len(a) < Len(b)
    <3>1. Len(a) + 1 \in D BY <2>2 DEF At
    <3> QED BY <3>1
  <2>3. CASE Len(b) < Len(a)
    <3>1. Len(b) + 1 \in D BY <2>3 DEF At
    <3> QED BY <3>1
  <2> QED BY <2>1, <2>2, <2>3
<1>2. D \in SUBSET Nat OBVIOUS
<1>3. PICK i \in D : \A j \in D : i <= j
  <2> HIDE DEF D
  <2> QED BY <1>1, <1>2, LeastNumber
<1>4. i \in Nat \ {0} /\ At(a, i) # At(b, i) /\ \A j \in 1..(i - 1) : At(a, j) = At(b, j)
  BY <1>3
<1>5. At(a, i) < At(b, i) \/ At(b, i) < At(a, i) BY <1>4, AtType
<1>6. LessAt(a, b, i) \/ LessAt(b, a, i) BY <1>4, <1>5 DEF LessAt
<1> QED BY <1>4, <1>6, BytesAt

\* What is between two keys with a common prefix has it too.
LEMMA BytesBetween ==
  ASSUME NEW a \in Seq(Nat), NEW b \in Seq(Nat), NEW c \in Seq(Nat), NEW d \in Seq(Nat),
         BytesBefore(a, b), BytesBefore(b, c), IsPrefix(d, a), IsPrefix(d, c)
  PROVE  IsPrefix(d, b)
<1>1. PICK i \in Nat \ {0} : LessAt(a, b, i) BY BytesAt
<1>2. PICK k \in Nat \ {0} : LessAt(b, c, k) BY BytesAt
<1>3. \A j \in Nat \ {0} : At(a, j) \in Int /\ At(b, j) \in Int /\ At(c, j) \in Int BY AtType
<1>4. \A j \in 1..Len(d) : At(a, j) = d[j] /\ At(c, j) = d[j] BY PrefixPlaces DEF At
<1>5. i > Len(d)
  <2> SUFFICES ASSUME i <= Len(d) PROVE FALSE OBVIOUS
  <2>1. At(a, i) = At(c, i) /\ At(a, i) < At(b, i)
    <3>1. i \in 1..Len(d) OBVIOUS
    <3> QED BY <1>1, <1>4, <3>1 DEF LessAt
  <2>2. CASE k > i
    <3>1. At(b, i) = At(c, i) BY <1>2, <2>2 DEF LessAt
    <3> QED BY <1>3, <2>1, <3>1
  <2>3. CASE k = i
    <3>1. At(b, i) < At(c, i) BY <1>2, <2>3 DEF LessAt
    <3> QED BY <1>3, <2>1, <3>1
  <2>4. CASE k < i
    <3>1. At(b, k) < At(c, k) /\ At(a, k) = At(b, k) /\ k \in 1..Len(d)
      BY <1>1, <1>2, <2>4 DEF LessAt
    <3>2. At(a, k) = At(c, k) BY <1>4, <3>1
    <3>3. At(a, k) \in Int /\ At(b, k) \in Int /\ At(c, k) \in Int BY <1>3
    <3> QED BY <3>1, <3>2, <3>3
  <2> QED BY <2>2, <2>3, <2>4
<1>6. \A j \in 1..Len(d) : At(b, j) = d[j] BY <1>1, <1>4, <1>5 DEF LessAt
<1>7. \A j \in 1..Len(d) : j <= Len(b) /\ b[j] = d[j] BY <1>6 DEF At
<1>8. Len(d) <= Len(b)
  <2>1. CASE Len(d) = 0 BY <2>1
  <2>2. CASE Len(d) # 0
    <3>1. Len(d) \in 1..Len(d) BY <2>2
    <3> QED BY <1>7, <3>1
  <2> QED BY <2>1, <2>2
<1> QED BY <1>7, <1>8, PrefixPlaces

-----------------------------------------------------------------------------
(* The rows of a listing's query, in the order of bytes *)

Keys == StoreKeys \cup ListPrefixes
TableInv == DOMAIN table \in SUBSET StoreKeys /\ IsFiniteSet(DOMAIN table)

\* Only keys of the store are in the table, and only finitely many.
LEMMA TableInvariant == InputSpec => []TableInv
<1>1. InputInit => TableInv
  <2>1. DOMAIN <<>> = {} OBVIOUS
  <2> QED BY <2>1, FS_EmptySet DEF InputInit, Init, TableInv
<1>2. ASSUME TableInv, [InputNext]_<<inputs, table>> PROVE TableInv'
  <2>1. CASE table' = table BY <1>2, <2>1 DEF TableInv
  <2>2. ASSUME NEW k \in StoreKeys, Delete(k) PROVE TableInv'
    <3>1. DOMAIN table' = DOMAIN table \ {k} BY <2>2 DEF Delete, Restrict
    <3> QED BY <1>2, <3>1, FS_RemoveElement DEF TableInv
  <2>3. ASSUME NEW k \in StoreKeys, NEW v \in Values, Store(k, v) PROVE TableInv'
    <3>1. DOMAIN table' = DOMAIN table \cup {k} BY <2>3 DEF Store
    <3> QED BY <1>2, <3>1, FS_AddElement DEF TableInv
  <2> QED BY <1>2, <2>1, <2>2, <2>3 DEF InputNext, LongerPattern, LongerPath, LongerHost,
                                       Change, Next
<1> QED BY <1>1, <1>2, PTL DEF InputSpec

\* Keys and prefixes are sequences of code points.
LEMMA KeyType == \A k \in Keys : k \in Seq(Nat)
BY CertStoreAssumption DEF Keys

ByBytes == Collation = "bytes"

\* With the order of bytes, the query orders any two keys.
LEMMA BytesOrder ==
  ASSUME ByBytes
  PROVE  /\ \A a \in Keys : ~Before(a, a)
         /\ \A a, b \in Keys : a # b => Before(a, b) \/ Before(b, a)
         /\ \A a, b, c \in Keys : Before(a, b) /\ Before(b, c) => Before(a, c)
BY KeyType, BytesIrreflexive, BytesTotal, BytesTransitive DEF ByBytes, Before

\* The keys that come before k.
Lower(found, k) == {x \in found : Before(x, k)}
Rank(found, k) == Cardinality(Lower(found, k))

\* The ranks of n keys are the numbers below n, in their order.
LEMMA Ranks ==
  ASSUME ByBytes, NEW found \in SUBSET Keys, IsFiniteSet(found)
  PROVE  /\ \A k \in found : Rank(found, k) \in 0..(Cardinality(found) - 1)
         /\ \A j, k \in found : Before(j, k) => Rank(found, j) < Rank(found, k)
         /\ \A i \in 0..(Cardinality(found) - 1) : \E k \in found : Rank(found, k) = i
<1> DEFINE n == Cardinality(found)
           rank == [k \in found |-> Rank(found, k)]
<1>1. n \in Nat BY FS_CardinalityType
<1>2. ASSUME NEW k \in found
      PROVE  /\ IsFiniteSet(Lower(found, k)) /\ Rank(found, k) \in Nat /\ Rank(found, k) < n
  <2>1. Lower(found, k) \in SUBSET found /\ k \notin Lower(found, k)
    BY BytesOrder DEF Lower
  <2>2. IsFiniteSet(Lower(found, k)) /\ Rank(found, k) <= n
        /\ (Rank(found, k) = n => Lower(found, k) = found)
    BY <2>1, FS_Subset DEF Rank
  <2>3. Rank(found, k) \in Nat BY <2>2, FS_CardinalityType DEF Rank
  <2> QED BY <1>1, <2>1, <2>2, <2>3
<1>3. ASSUME NEW j \in found, NEW k \in found, Before(j, k)
      PROVE  Rank(found, j) < Rank(found, k)
  <2>1. Lower(found, j) \in SUBSET Lower(found, k) BY <1>3, BytesOrder DEF Lower
  <2>2. j \in Lower(found, k) /\ j \notin Lower(found, j) BY <1>3, BytesOrder DEF Lower
  <2>3. Rank(found, j) <= Rank(found, k)
        /\ (Rank(found, k) = Rank(found, j) => Lower(found, k) = Lower(found, j))
    BY <1>2, <2>1, FS_Subset DEF Rank
  <2> QED BY <1>2, <2>2, <2>3
<1>4. rank \in Injection(found, 0..(n - 1))
  <2>1. rank \in [found -> 0..(n - 1)] BY <1>1, <1>2
  <2>2. ASSUME NEW j \in found, NEW k \in found, rank[j] = rank[k] PROVE j = k
    <3>1. Rank(found, j) = Rank(found, k) BY <2>2
    <3>2. ~Before(j, k) /\ ~Before(k, j) BY <1>2, <1>3, <3>1
    <3> QED BY <3>2, BytesOrder
  <2> QED BY <2>1, <2>2 DEF Injection, IsInjective
<1>5. IsFiniteSet(0..(n - 1)) /\ Cardinality(0..(n - 1)) = n
  <2> HIDE DEF n
  <2>1. 0 \in Int /\ n - 1 \in Int BY <1>1
  <2>2. IsFiniteSet(0..(n - 1))
        /\ Cardinality(0..(n - 1)) = IF 0 > n - 1 THEN 0 ELSE n - 1 - 0 + 1
    BY <2>1, FS_Interval
  <2>3. (IF 0 > n - 1 THEN 0 ELSE n - 1 - 0 + 1) = n BY <1>1
  <2> QED BY <2>2, <2>3
<1>6. rank \in Surjection(found, 0..(n - 1))
  <2> HIDE DEF rank, n
  <2> QED BY <1>4, <1>5, FS_Injection DEF n
<1>7. \A i \in 0..(n - 1) : \E k \in found : Rank(found, k) = i
  BY <1>6 DEF Surjection
<1>8. \A k \in found : Rank(found, k) \in 0..(n - 1) BY <1>1, <1>2
<1> QED BY <1>3, <1>7, <1>8

\* What the query finds.
Found(prefix) == {k \in DOMAIN table : Like(k, prefix)}

\* The rows are what is found, once each, and in order.
LEMMA SelectedRows ==
  ASSUME TableInv, ByBytes, NEW prefix
  PROVE  LET s == Selected(prefix)
         IN  /\ s \in Seq(Found(prefix)) /\ ToSet(s) = Found(prefix)
             /\ \A i, j \in DOMAIN s : i < j => Before(s[i], s[j])
<1> DEFINE found == Found(prefix)
           n == Cardinality(found)
           Pick(i) == CHOOSE k \in found : Rank(found, k) = i - 1
           s == [i \in 1..n |-> Pick(i)]
<1>1. found \in SUBSET Keys /\ IsFiniteSet(found)
  <2>1. found \in SUBSET DOMAIN table BY DEF Found
  <2> HIDE DEF found
  <2> QED BY <2>1, FS_Subset DEF TableInv, Keys
<1>2. n \in Nat BY <1>1, FS_CardinalityType
<1>3. Selected(prefix) = s BY DEF Selected, Found, Rank, Lower
<1> HIDE DEF found
<1>4. ASSUME NEW i \in 1..n PROVE s[i] \in found /\ Rank(found, s[i]) = i - 1
  <2>1. i - 1 \in 0..(n - 1) BY <1>2
  <2>2. \E k \in found : Rank(found, k) = i - 1 BY <1>1, <2>1, Ranks
  <2>3. Pick(i) \in found /\ Rank(found, Pick(i)) = i - 1 BY <2>2
  <2> QED BY <2>3
<1>5. DOMAIN s = 1..n OBVIOUS
<1> HIDE DEF s
<1>6. s \in Seq(found)
  <2>1. s \in [1..n -> found] BY <1>3, <1>4, <1>5 DEF s
  <2> QED BY <1>2, <2>1
<1>7. ASSUME NEW k \in found PROVE \E i \in 1..n : s[i] = k
  <2>1. Rank(found, k) \in 0..(n - 1) BY <1>1, Ranks
  <2> DEFINE i == Rank(found, k) + 1
  <2>2. i \in 1..n /\ Rank(found, k) = i - 1 BY <1>2, <2>1
  <2> HIDE DEF i
  <2>3. s[i] \in found /\ Rank(found, s[i]) = Rank(found, k) BY <1>4, <2>2
  <2>4. ~Before(s[i], k) /\ ~Before(k, s[i]) BY <1>1, <1>2, <2>1, <2>3, Ranks
  <2>5. s[i] = k BY <1>1, <2>3, <2>4, BytesOrder
  <2> QED BY <2>2, <2>5
<1>8. ToSet(s) = found BY <1>4, <1>5, <1>7 DEF ToSet
<1>9. ASSUME NEW i \in 1..n, NEW j \in 1..n, i < j PROVE Before(s[i], s[j])
  <2>1. s[i] \in found /\ s[j] \in found /\ Rank(found, s[i]) = i - 1 /\ Rank(found, s[j]) = j - 1
    BY <1>4
  <2>2. s[i] # s[j] BY <1>2, <1>9, <2>1
  <2>3. ~Before(s[j], s[i])
    <3>1. Before(s[j], s[i]) => Rank(found, s[j]) < Rank(found, s[i]) BY <1>1, <2>1, Ranks
    <3> QED BY <1>2, <1>9, <2>1, <3>1
  <2> QED BY <1>1, <2>1, <2>2, <2>3, BytesOrder
<1> QED BY <1>3, <1>5, <1>6, <1>8, <1>9 DEF found
-----------------------------------------------------------------------------
(* A listing, row by row *)

\* Induction up to a number.
LEMMA UpTo ==
  ASSUME NEW m \in Nat, NEW T \in SUBSET (0..m), 0 \in T,
         \A i \in 0..m : i \in T /\ i < m => i + 1 \in T
  PROVE  T = 0..m
<1> DEFINE Bad == (0..m) \ T
<1> SUFFICES ASSUME Bad # {} PROVE FALSE OBVIOUS
<1>1. Bad \in SUBSET Nat OBVIOUS
<1>2. PICK i \in Bad : \A j \in Bad : i <= j
  <2> HIDE DEF Bad
  <2> QED BY <1>1, LeastNumber
<1>3. i \in 1..m BY <1>2
<1>4. i - 1 \in 0..m /\ i - 1 < m /\ i - 1 \notin Bad BY <1>2, <1>3
<1>5. (i - 1) + 1 \in T BY <1>4
<1> QED BY <1>2, <1>3, <1>5

\* Max is the greatest of a set of places.
LEMMA MaxOf ==
  ASSUME NEW m \in Nat, NEW U \in SUBSET (1..m), U # {}
  PROVE  Max(U) \in U /\ \A u \in U : u <= Max(U)
<1> DEFINE D == {m - u : u \in U}
<1>1. D \in SUBSET Nat /\ D # {}
  <2>1. \A u \in U : m - u \in Nat OBVIOUS
  <2>2. PICK u : u \in U OBVIOUS
  <2>3. m - u \in D BY <2>2
  <2> QED BY <2>1, <2>3
<1>2. PICK d \in D : \A e \in D : d <= e
  <2> HIDE DEF D
  <2> QED BY <1>1, LeastNumber
<1>3. PICK u \in U : d = m - u BY <1>2
<1>4. \A v \in U : m - u <= m - v BY <1>2, <1>3
<1>5. \A v \in U : u >= v BY <1>4
<1>6. Max(U) \in U /\ \A v \in U : Max(U) >= v BY <1>3, <1>5 DEF Max
<1> QED BY <1>6

\* The values of a fold of the first rows: what the fold of each set of rows is.
Fold(i, n, s, prefix, recursive) ==
  i = [U \in SUBSET (1..n) |->
         IF U = {} THEN <<>> ELSE ListEntry(i[U \ {Max(U)}], s[Max(U)], prefix, recursive)]

\* The recursive definition of a fold has a solution.
LEMMA FoldExists ==
  ASSUME NEW m \in Nat, NEW s, NEW prefix, NEW recursive
  PROVE  \E f : Fold(f, m, s, prefix, recursive)
<1> DEFINE T == {n \in 0..m : \E f : Fold(f, n, s, prefix, recursive)}
           Add(keys, k) == ListEntry(keys, k, prefix, recursive)
<1>1. 0 \in T
  <2> DEFINE f == [U \in {{}} |-> <<>>]
  <2>1. SUBSET (1..0) = {{}} OBVIOUS
  <2>2. f = [U \in SUBSET (1..0) |->
               IF U = {} THEN <<>> ELSE ListEntry(f[U \ {Max(U)}], s[Max(U)], prefix, recursive)]
    BY <2>1
  <2>3. Fold(f, 0, s, prefix, recursive) BY <2>2 DEF Fold
  <2> HIDE DEF f
  <2> QED BY <2>3
<1>2. ASSUME NEW n \in 0..m, n \in T, n < m PROVE n + 1 \in T
  <2>1. PICK f : Fold(f, n, s, prefix, recursive) BY <1>2
  <2> DEFINE D == SUBSET (1..(n + 1))
             g == [U \in D |-> IF n + 1 \in U THEN Add(f[U \ {n + 1}], s[n + 1]) ELSE f[U]]
             h == [U \in D |-> IF U = {} THEN <<>> ELSE Add(g[U \ {Max(U)}], s[Max(U)])]
  <2>2. \A U \in D : U \ {n + 1} \in SUBSET (1..n) /\ (n + 1 \notin U => U \in SUBSET (1..n))
    OBVIOUS
  <2>3. \A U \in SUBSET (1..n) : f[U] = IF U = {} THEN <<>> ELSE Add(f[U \ {Max(U)}], s[Max(U)])
    BY <2>1 DEF Fold
  <2>4. ASSUME NEW U \in D PROVE g[U] = h[U]
    <3>1. CASE n + 1 \in U
      <4>1. Max(U) \in U /\ \A u \in U : u <= Max(U)
        <5>1. n + 1 \in Nat /\ U # {} BY <3>1
        <5> QED BY <5>1, MaxOf
      <4>2. Max(U) = n + 1
        <5>1. Max(U) \in 1..(n + 1) /\ n + 1 <= Max(U) BY <3>1, <4>1
        <5> QED BY <5>1
      <4>3. U \ {n + 1} \in D /\ n + 1 \notin U \ {n + 1} OBVIOUS
      <4>4. g[U \ {n + 1}] = f[U \ {n + 1}] BY <4>3
      <4>5. g[U] = Add(f[U \ {n + 1}], s[n + 1]) BY <3>1
      <4>6. h[U] = Add(g[U \ {Max(U)}], s[Max(U)]) BY <3>1
      <4> HIDE DEF g, h, Add
      <4> QED BY <4>2, <4>4, <4>5, <4>6
    <3>2. CASE U = {}
      <4>1. U \in SUBSET (1..n) /\ n + 1 \notin U BY <3>2
      <4>2. g[U] = f[U] /\ h[U] = <<>> /\ f[U] = <<>> BY <2>3, <3>2, <4>1
      <4> QED BY <4>2
    <3>3. CASE n + 1 \notin U /\ U # {}
      <4>1. Max(U) \in U
        <5>1. n + 1 \in Nat BY <3>3
        <5> QED BY <3>3, <5>1, MaxOf
      <4> DEFINE V == U \ {Max(U)}
      <4>2. U \in SUBSET (1..n) /\ V \in D /\ n + 1 \notin V BY <2>2, <3>3
      <4>3. g[V] = f[V] /\ g[U] = f[U] BY <3>3, <4>2
      <4>4. h[U] = Add(g[V], s[Max(U)]) BY <3>3
      <4>5. f[U] = Add(f[V], s[Max(U)]) BY <2>3, <3>3, <4>2
      <4> HIDE DEF g, h, Add, V
      <4> QED BY <4>3, <4>4, <4>5
    <3> QED BY <3>1, <3>2, <3>3
  <2>5. g = h BY <2>4
  <2>6. Fold(g, n + 1, s, prefix, recursive) BY <2>5 DEF Fold
  <2>7. n + 1 \in 0..m BY <1>2
  <2> HIDE DEF g
  <2> QED BY <2>6, <2>7
<1>3. m \in T
  <2>1. T \in SUBSET (0..m) OBVIOUS
  <2> HIDE DEF T
  <2>2. T = 0..m BY <1>1, <1>2, <2>1, UpTo
  <2> QED BY <2>2
<1> QED BY <1>3

\* r is the listing after each of the first m rows.
RowByRow(r, m, prefix, recursive) ==
  /\ r[0] = <<>>
  /\ \A i \in 1..m : r[i] = ListEntry(r[i - 1], Selected(prefix)[i], prefix, recursive)
  /\ List(prefix, recursive) = r[m]

\* A listing takes its rows one after the other.
LEMMA ListSteps ==
  ASSUME NEW m \in Nat, NEW prefix, NEW recursive, DOMAIN Selected(prefix) = 1..m
  PROVE  \E r : RowByRow(r, m, prefix, recursive)
<1> DEFINE s == Selected(prefix)
           iter == CHOOSE f : Fold(f, m, s, prefix, recursive)
           r == [i \in 0..m |-> iter[1..i]]
<1>1. List(prefix, recursive) = iter[1..m]
  BY DEF List, FoldLeft, MapThenFoldSet, Fold
<1>2. Fold(iter, m, s, prefix, recursive) BY FoldExists
<1> HIDE DEF iter, s
<1>3. \A U \in SUBSET (1..m) :
        iter[U] = IF U = {} THEN <<>>
                  ELSE ListEntry(iter[U \ {Max(U)}], s[Max(U)], prefix, recursive)
  BY <1>2 DEF Fold
<1>4. r[0] = <<>>
  <2>1. 1..0 = {} /\ {} \in SUBSET (1..m) OBVIOUS
  <2>2. r[0] = iter[1..0] OBVIOUS
  <2>3. iter[{}] = <<>> BY <1>3, <2>1
  <2> QED BY <2>1, <2>2, <2>3
<1>5. ASSUME NEW i \in 1..m PROVE r[i] = ListEntry(r[i - 1], s[i], prefix, recursive)
  <2> DEFINE U == 1..i
  <2>1. U \in SUBSET (1..m) /\ i \in U /\ \A u \in U : u <= i
    <3>1. \A u \in 1..i : u \in 1..m /\ u <= i OBVIOUS
    <3>2. i \in 1..i OBVIOUS
    <3> QED BY <3>1, <3>2
  <2>2. Max(U) \in U /\ \A u \in U : u <= Max(U)
    <3> HIDE DEF U
    <3> QED BY <2>1, MaxOf
  <2>3. Max(U) = i BY <2>1, <2>2
  <2>4. U \ {i} = 1..(i - 1) OBVIOUS
  <2>5. r[i] = iter[U] /\ r[i - 1] = iter[1..(i - 1)] OBVIOUS
  <2> HIDE DEF U, r
  <2> QED BY <1>3, <2>1, <2>3, <2>4, <2>5
<1>6. r[m] = iter[1..m] OBVIOUS
<1> HIDE DEF r
<1>7. RowByRow(r, m, prefix, recursive) BY <1>1, <1>4, <1>5, <1>6 DEF s, RowByRow
<1> QED BY <1>7
-----------------------------------------------------------------------------
(* What a row adds to a listing *)

\* Where a key goes on with a slash after the prefix.
Slashes(k, prefix) == {q \in (Len(prefix) + 1)..Len(k) : k[q] = SlashByte}

\* q is the first of these places.
CutAt(k, prefix, q) == q \in Slashes(k, prefix) /\ \A j \in Slashes(k, prefix) : q <= j

\* What a listing has of a key: itself, or the directory that it is in.
Entry(k, prefix, recursive) ==
  IF recursive \/ Slashes(k, prefix) = {} THEN k
  ELSE SubSeq(k, 1, CHOOSE q \in Slashes(k, prefix) : \A j \in Slashes(k, prefix) : q <= j)

\* If there is a slash after the prefix, there is a first one.
LEMMA CutExists ==
  ASSUME NEW k \in Seq(Nat), NEW prefix \in Seq(Nat), Slashes(k, prefix) # {}
  PROVE  \E q \in Slashes(k, prefix) : CutAt(k, prefix, q)
<1>1. Slashes(k, prefix) \in SUBSET Nat BY DEF Slashes
<1>2. PICK q \in Slashes(k, prefix) : \A j \in Slashes(k, prefix) : q <= j
  BY <1>1, LeastNumber
<1> QED BY <1>2 DEF CutAt

\* The directory ends at the first slash.
LEMMA EntryCut ==
  ASSUME NEW k \in Seq(Nat), NEW prefix \in Seq(Nat), NEW q, CutAt(k, prefix, q)
  PROVE  Entry(k, prefix, FALSE) = SubSeq(k, 1, q)
<1> DEFINE S == Slashes(k, prefix)
           c == CHOOSE p \in S : \A j \in S : p <= j
<1>1. q \in S /\ \A j \in S : q <= j BY DEF CutAt
<1>2. c \in S /\ \A j \in S : c <= j BY <1>1
<1>3. S \in SUBSET Nat BY DEF Slashes
<1>4. Entry(k, prefix, FALSE) = SubSeq(k, 1, c) BY <1>1 DEF Entry
<1> HIDE DEF c, S
<1>5. c <= q /\ q <= c /\ c \in Nat /\ q \in Nat BY <1>1, <1>2, <1>3
<1>6. c = q BY <1>5
<1> QED BY <1>4, <1>6

\* The part of a key up to one of its places.
LEMMA Part ==
  ASSUME NEW k \in Seq(Nat), NEW q \in 1..Len(k)
  PROVE  /\ SubSeq(k, 1, q) \in Seq(Nat) /\ Len(SubSeq(k, 1, q)) = q
         /\ \A j \in 1..q : SubSeq(k, 1, q)[j] = k[j]
         /\ IsPrefix(SubSeq(k, 1, q), k)
<1> DEFINE s == SubSeq(k, 1, q)
<1>1. s \in Seq(Nat) /\ Len(s) = q /\ \A j \in 1..q : s[j] = k[j]
  <2>1. q \in 0..Len(k) /\ 1 \in 1..(Len(k) + 1) OBVIOUS
  <2> QED BY <2>1, SubSeqProperties
<1> HIDE DEF s
<1>2. Len(s) <= Len(k) /\ \A j \in 1..Len(s) : s[j] = k[j]
  <2>1. Len(k) \in Nat OBVIOUS
  <2> QED BY <1>1, <2>1
<1>3. IsPrefix(s, k) BY <1>1, <1>2, PrefixPlaces
<1> QED BY <1>1, <1>3 DEF s

\* The first slash of the suffix is that of the key, and the prefix with the
\* suffix up to there is the key up to there.
LEMMA SuffixCut ==
  ASSUME NEW k \in Seq(Nat), NEW prefix \in Seq(Nat), IsPrefix(prefix, k)
  PROVE  LET suffix == TrimPrefix(k, prefix)
             slashes == {i \in DOMAIN suffix : suffix[i] = SlashByte}
         IN  /\ slashes = {} <=> Slashes(k, prefix) = {}
             /\ \A i : (i \in slashes /\ \A j \in slashes : i <= j)
                   => /\ CutAt(k, prefix, Len(prefix) + i)
                      /\ prefix \o SubSeq(suffix, 1, i) = SubSeq(k, 1, Len(prefix) + i)
<1> DEFINE n == Len(prefix)
           suffix == SubSeq(k, n + 1, Len(k))
           slashes == {i \in DOMAIN suffix : suffix[i] = SlashByte}
<1>1. TrimPrefix(k, prefix) = suffix BY DEF TrimPrefix
<1>2. n \in Nat /\ Len(k) \in Nat /\ n <= Len(k) /\ \A i \in 1..n : prefix[i] = k[i]
  BY PrefixPlaces
<1>3. suffix \in Seq(Nat) /\ Len(suffix) = Len(k) - n
      /\ \A i \in 1..(Len(k) - n) : suffix[i] = k[n + i]
  <2> HIDE DEF n
  <2>1. \A i \in (n + 1)..Len(k) : k[i] \in Nat BY <1>2
  <2>2. n + 1 \in Int /\ Len(k) \in Int BY <1>2
  <2>3. /\ suffix \in Seq(Nat)
        /\ Len(suffix) = IF n + 1 <= Len(k) THEN Len(k) - (n + 1) + 1 ELSE 0
        /\ \A i \in 1..(Len(k) - (n + 1) + 1) : suffix[i] = k[n + 1 + i - 1]
    BY <2>1, <2>2, SubSeqProperties
  <2>4. Len(k) - (n + 1) + 1 = Len(k) - n /\ \A i \in Int : n + 1 + i - 1 = n + i BY <1>2
  <2>5. Len(suffix) = Len(k) - n
    <3> DEFINE l == Len(k)
    <3>1. n + 1 <= l => l - (n + 1) + 1 = l - n BY <2>4
    <3>2. ~(n + 1 <= l) => l - n = 0 BY <1>2
    <3> HIDE DEF suffix, l
    <3>3. Len(suffix) = IF n + 1 <= l THEN l - (n + 1) + 1 ELSE 0 BY <2>3 DEF l
    <3> QED BY <3>1, <3>2, <3>3 DEF l
  <2>6. \A i \in 1..(Len(k) - n) : suffix[i] = k[n + i]
    <3> HIDE DEF suffix
    <3> TAKE i \in 1..(Len(k) - n)
    <3>1. i \in Int /\ n + 1 + i - 1 = n + i BY <1>2
    <3>2. suffix[i] = k[n + 1 + i - 1] BY <2>3, <2>4
    <3> QED BY <3>1, <3>2
  <2> QED BY <2>3, <2>5, <2>6
<1>4. DOMAIN suffix = 1..(Len(k) - n) BY <1>3
<1> HIDE DEF suffix
<1>5. \A i \in slashes : n + i \in Slashes(k, prefix) /\ i \in 1..(Len(k) - n)
  <2> SUFFICES ASSUME NEW i \in slashes
               PROVE  n + i \in Slashes(k, prefix) /\ i \in 1..(Len(k) - n)
    OBVIOUS
  <2>1. i \in 1..(Len(k) - n) /\ suffix[i] = SlashByte BY <1>4
  <2>2. n + i \in (n + 1)..Len(k) BY <1>2, <2>1
  <2>3. suffix[i] = k[n + i] BY <1>3, <2>1
  <2> QED BY <2>1, <2>2, <2>3 DEF Slashes
<1>6. \A q \in Slashes(k, prefix) : q - n \in slashes /\ q \in Nat
  <2> SUFFICES ASSUME NEW q \in Slashes(k, prefix) PROVE q - n \in slashes /\ q \in Nat OBVIOUS
  <2>1. q \in (n + 1)..Len(k) /\ k[q] = SlashByte BY DEF Slashes
  <2>2. q - n \in 1..(Len(k) - n) /\ n + (q - n) = q BY <1>2, <2>1
  <2>3. suffix[q - n] = k[q] BY <1>3, <2>2
  <2> QED BY <1>4, <2>1, <2>2, <2>3
<1>7. slashes = {} <=> Slashes(k, prefix) = {} BY <1>5, <1>6
<1>8. ASSUME NEW i \in slashes, \A j \in slashes : i <= j
      PROVE  /\ CutAt(k, prefix, n + i)
             /\ prefix \o SubSeq(suffix, 1, i) = SubSeq(k, 1, n + i)
  <2>1. i \in 1..(Len(k) - n) /\ n + i \in Slashes(k, prefix) BY <1>5
  <2>2. \A q \in Slashes(k, prefix) : n + i <= q
    <3> TAKE q \in Slashes(k, prefix)
    <3>1. i <= q - n /\ q \in Nat /\ i \in Nat BY <1>6, <1>8, <2>1
    <3> QED BY <1>2, <3>1
  <2>3. CutAt(k, prefix, n + i) BY <2>1, <2>2 DEF CutAt
  <2> DEFINE a == SubSeq(suffix, 1, i)
             b == SubSeq(k, 1, n + i)
  <2>4. a \in Seq(Nat) /\ Len(a) = i /\ \A j \in 1..i : a[j] = suffix[j]
    <3>1. i \in 1..Len(suffix) BY <1>3, <2>1
    <3> QED BY <1>3, <3>1, Part
  <2>5. b \in Seq(Nat) /\ Len(b) = n + i /\ \A j \in 1..(n + i) : b[j] = k[j]
    <3>1. n + i \in 1..Len(k) BY <1>2, <2>1
    <3> HIDE DEF n
    <3> QED BY <3>1, Part
  <2> HIDE DEF a, b
  <2>6. prefix \o a \in Seq(Nat) /\ Len(prefix \o a) = n + i
    <3>1. prefix \o a \in Seq(Nat) /\ Len(prefix \o a) = n + Len(a)
      <4>1. a \in Seq(Nat) BY <2>4
      <4> QED BY <4>1, ConcatProperties
    <3> QED BY <2>4, <3>1
  <2>7. \A j \in 1..(n + i) : (prefix \o a)[j] = b[j]
    <3> TAKE j \in 1..(n + i)
    <3>1. CASE j <= n
      <4>1. j \in 1..n BY <3>1
      <4>2. (prefix \o a)[j] = prefix[j] BY <2>4, <4>1
      <4> QED BY <1>2, <2>5, <4>1, <4>2
    <3>2. CASE j > n
      <4>1. j - n \in 1..i /\ j - n \in 1..(Len(k) - n) /\ n + (j - n) = j
        <5>1. i \in Nat /\ j \in Nat /\ n < j /\ j <= n + i /\ i <= Len(k) - n
          BY <1>2, <2>1, <3>2
        <5> HIDE DEF n
        <5> QED BY <1>2, <5>1
      <4>2. (prefix \o a)[j] = a[j - n] BY <1>2, <2>4, <3>2, <4>1
      <4>3. a[j - n] = k[j] BY <1>3, <2>4, <4>1
      <4> QED BY <2>5, <4>2, <4>3
    <3>3. j \in Int /\ n \in Int BY <1>2, <2>1
    <3>4. j <= n \/ j > n BY <3>3
    <3> QED BY <3>1, <3>2, <3>4
  <2>8. prefix \o a = b BY <1>2, <2>1, <2>5, <2>6, <2>7, SeqEqual
  <2> QED BY <2>3, <2>8 DEF a, b
<1> HIDE DEF slashes
<1> QED BY <1>1, <1>7, <1>8 DEF slashes

\* A row adds its entry, unless that is a directory and the last entry.
LEMMA EntryStep ==
  ASSUME NEW k \in Seq(Nat), NEW prefix \in Seq(Nat), IsPrefix(prefix, k),
         NEW keys, NEW recursive \in BOOLEAN
  PROVE  LET e == Entry(k, prefix, recursive)
         IN  ListEntry(keys, k, prefix, recursive) =
               IF /\ ~recursive /\ Slashes(k, prefix) # {}
                  /\ keys # <<>> /\ Last(keys) = e
               THEN keys ELSE Append(keys, e)
<1> DEFINE suffix == TrimPrefix(k, prefix)
           slashes == {i \in DOMAIN suffix : suffix[i] = SlashByte}
           c == CHOOSE i \in slashes : \A j \in slashes : i <= j
           dir == prefix \o SubSeq(suffix, 1, c)
           e == Entry(k, prefix, recursive)
<1>1. slashes = {} <=> Slashes(k, prefix) = {} BY SuffixCut
<1>2. CASE recursive \/ Slashes(k, prefix) = {} BY <1>1, <1>2 DEF ListEntry, Entry
<1>3. CASE ~recursive /\ Slashes(k, prefix) # {}
  <2>1. PICK q : CutAt(k, prefix, q) BY <1>3, CutExists
  <2>2. \E i \in slashes : \A j \in slashes : i <= j
    <3>1. slashes \in SUBSET Nat
      <4>1. suffix \in Seq(Nat)
        <5>1. Len(prefix) + 1 \in 1..(Len(k) + 1) /\ Len(k) \in Len(prefix)..Len(k)
          BY PrefixPlaces
        <5>2. suffix = SubSeq(k, Len(prefix) + 1, Len(k)) BY DEF TrimPrefix
        <5> QED BY <5>1, <5>2, SubSeqProperties
      <4> HIDE DEF suffix
      <4> QED BY <4>1
    <3>2. slashes # {} BY <1>1, <1>3
    <3> HIDE DEF slashes
    <3> QED BY <3>1, <3>2, LeastNumber
  <2>3. c \in slashes /\ \A j \in slashes : c <= j
    <3> HIDE DEF slashes
    <3> QED BY <2>2
  <2>4. CutAt(k, prefix, Len(prefix) + c) /\ dir = SubSeq(k, 1, Len(prefix) + c)
    <3> HIDE DEF c
    <3> QED BY <2>3, SuffixCut
  <2>5. dir = e
    <3> HIDE DEF c, dir
    <3> QED BY <1>3, <2>4, EntryCut
  <2>6. ListEntry(keys, k, prefix, recursive) =
          IF keys # <<>> /\ Last(keys) = dir THEN keys ELSE Append(keys, dir)
    BY <1>1, <1>3 DEF ListEntry
  <2> HIDE DEF dir, e
  <2>7. ListEntry(keys, k, prefix, recursive) =
          IF keys # <<>> /\ Last(keys) = e THEN keys ELSE Append(keys, e)
    BY <2>5, <2>6
  <2> QED BY <1>3, <2>7 DEF e
<1> QED BY <1>2, <1>3

\* What is an entry of a key: a child of the prefix that is the key, or a
\* directory that it is in.
EntryOf(d, k, prefix) ==
  /\ d \in Seq(Nat) /\ IsPrefix(prefix, d) /\ IsPrefix(d, k) /\ IsChild(d, prefix)
  /\ d = k \/ (Len(d) > Len(prefix) /\ d[Len(d)] = SlashByte)

\* What a key adds is an entry of it.
LEMMA EntryIs ==
  ASSUME NEW k \in Seq(Nat), NEW prefix \in Seq(Nat), IsPrefix(prefix, k)
  PROVE  EntryOf(Entry(k, prefix, FALSE), k, prefix)
<1>1. /\ IsPrefix(k, k) /\ Len(k) \in Nat /\ Len(prefix) \in Nat /\ Len(prefix) <= Len(k)
      /\ \A i \in 1..Len(prefix) : prefix[i] = k[i]
  <2>1. IsPrefix(k, k) BY PrefixPlaces
  <2>2. Len(k) \in Nat /\ Len(prefix) \in Nat OBVIOUS
  <2>3. IsPrefix(prefix, k)
          <=> Len(prefix) <= Len(k) /\ \A i \in 1..Len(prefix) : prefix[i] = k[i]
    BY PrefixPlaces
  <2> QED BY <2>1, <2>2, <2>3
<1>2. CASE Slashes(k, prefix) = {}
  <2>1. Entry(k, prefix, FALSE) = k BY <1>2 DEF Entry
  <2>2. ASSUME NEW i \in (Len(prefix) + 1)..(Len(k) - 1) PROVE k[i] # SlashByte
    <3>1. i \in (Len(prefix) + 1)..Len(k) BY <1>1
    <3> QED BY <1>2, <3>1 DEF Slashes
  <2> QED BY <1>1, <2>1, <2>2 DEF EntryOf, IsChild
<1>3. CASE Slashes(k, prefix) # {}
  <2>1. PICK q : CutAt(k, prefix, q) BY <1>3, CutExists
  <2> DEFINE d == SubSeq(k, 1, q)
  <2>2. Entry(k, prefix, FALSE) = d BY <2>1, EntryCut
  <2>3. q \in (Len(prefix) + 1)..Len(k) /\ k[q] = SlashByte BY <2>1 DEF CutAt, Slashes
  <2>4. q \in 1..Len(k) BY <2>3
  <2>5. d \in Seq(Nat) /\ Len(d) = q /\ (\A j \in 1..q : d[j] = k[j]) /\ IsPrefix(d, k)
    BY <2>4, Part
  <2> HIDE DEF d
  <2>6. IsPrefix(prefix, d)
    <3>1. ASSUME NEW i \in 1..Len(prefix) PROVE prefix[i] = d[i]
      <4>1. i \in 1..q BY <1>1, <2>3
      <4> QED BY <1>1, <2>5, <4>1
    <3>2. Len(prefix) <= Len(d) BY <1>1, <2>3, <2>5
    <3> QED BY <2>5, <3>1, <3>2, PrefixPlaces
  <2>7. ASSUME NEW i \in (Len(prefix) + 1)..(Len(d) - 1) PROVE d[i] # SlashByte
    <3>1. i \in (Len(prefix) + 1)..Len(k) /\ i < q /\ d[i] = k[i]
      <4>1. i \in 1..q /\ i \in (Len(prefix) + 1)..Len(k) /\ i < q BY <1>1, <2>3, <2>5
      <4> QED BY <2>5, <4>1
    <3>2. i \notin Slashes(k, prefix) BY <2>1, <2>3, <3>1 DEF CutAt
    <3> QED BY <3>1, <3>2 DEF Slashes
  <2>8. Len(d) > Len(prefix) /\ d[Len(d)] = SlashByte BY <2>3, <2>4, <2>5
  <2> QED BY <2>2, <2>5, <2>6, <2>7, <2>8 DEF EntryOf, IsChild
<1> QED BY <1>2, <1>3

\* A key has no other entry.
LEMMA EntryOnly ==
  ASSUME NEW k \in Seq(Nat), NEW prefix \in Seq(Nat), NEW d, EntryOf(d, k, prefix)
  PROVE  d = Entry(k, prefix, FALSE)
<1>1. d \in Seq(Nat) /\ Len(d) <= Len(k) /\ \A i \in 1..Len(d) : d[i] = k[i]
  BY PrefixPlaces DEF EntryOf
<1>2. \A i \in (Len(prefix) + 1)..(Len(d) - 1) : k[i] # SlashByte
  <2> TAKE i \in (Len(prefix) + 1)..(Len(d) - 1)
  <2>1. i \in 1..Len(d) OBVIOUS
  <2> QED BY <1>1, <2>1 DEF EntryOf, IsChild
<1>3. CASE Len(d) > Len(prefix) /\ d[Len(d)] = SlashByte
  <2>1. Len(d) \in (Len(prefix) + 1)..Len(k) /\ Len(d) \in 1..Len(d) BY <1>1, <1>3
  <2>2. Len(d) \in Slashes(k, prefix) BY <1>1, <1>3, <2>1 DEF Slashes
  <2>3. \A j \in Slashes(k, prefix) : Len(d) <= j BY <1>1, <1>2, <2>1 DEF Slashes
  <2>4. Entry(k, prefix, FALSE) = SubSeq(k, 1, Len(d)) BY <2>2, <2>3, EntryCut DEF CutAt
  <2> DEFINE s == SubSeq(k, 1, Len(d))
  <2>5. s \in Seq(Nat) /\ Len(s) = Len(d) /\ \A j \in 1..Len(d) : s[j] = k[j]
    <3>1. Len(d) \in 1..Len(k) BY <2>1
    <3> QED BY <3>1, Part
  <2> HIDE DEF s
  <2>6. s = d BY <1>1, <2>5, SeqEqual
  <2> QED BY <2>4, <2>6 DEF s
<1>4. CASE d = k /\ ~(Len(d) > Len(prefix) /\ d[Len(d)] = SlashByte)
  <2>1. Slashes(k, prefix) = {}
    <3> SUFFICES ASSUME NEW q \in Slashes(k, prefix) PROVE FALSE OBVIOUS
    <3>1. q \in (Len(prefix) + 1)..Len(k) /\ k[q] = SlashByte BY DEF Slashes
    <3>2. q # Len(k) BY <1>4, <3>1
    <3>3. q \in (Len(prefix) + 1)..(Len(d) - 1) BY <1>4, <3>1, <3>2
    <3> QED BY <1>2, <3>1, <3>3
  <2> QED BY <1>4, <2>1 DEF Entry
<1> QED BY <1>3, <1>4 DEF EntryOf
\* The keys of a directory stand together.
LEMMA TogetherInOrder ==
  ASSUME NEW a \in Seq(Nat), NEW b \in Seq(Nat), NEW c \in Seq(Nat), NEW prefix \in Seq(Nat),
         IsPrefix(prefix, a), IsPrefix(prefix, b), IsPrefix(prefix, c),
         BytesBefore(a, b), BytesBefore(b, c), NEW recursive \in BOOLEAN,
         Entry(a, prefix, recursive) = Entry(c, prefix, recursive)
  PROVE  Entry(b, prefix, recursive) = Entry(c, prefix, recursive)
<1>1. a # c BY BytesTransitive, BytesIrreflexive
<1>2. ~recursive BY <1>1 DEF Entry
<1> DEFINE d == Entry(c, prefix, FALSE)
<1>3. recursive = FALSE BY <1>2
<1>4. EntryOf(d, a, prefix) /\ EntryOf(d, c, prefix) BY <1>3, EntryIs
<1> HIDE DEF d
<1>5. EntryOf(d, b, prefix)
  <2>1. d \in Seq(Nat) /\ IsPrefix(d, a) /\ IsPrefix(d, c) BY <1>4 DEF EntryOf
  <2>2. IsPrefix(d, b) BY <2>1, BytesBetween
  <2>3. Len(d) > Len(prefix) /\ d[Len(d)] = SlashByte BY <1>1, <1>4 DEF EntryOf
  <2> QED BY <1>4, <2>2, <2>3 DEF EntryOf
<1>6. d = Entry(b, prefix, FALSE) BY <1>5, EntryOnly
<1> QED BY <1>3, <1>6 DEF d

\* A key that is listed itself is no entry of a key before it.
LEMMA KeyIsNew ==
  ASSUME NEW a \in Seq(Nat), NEW c \in Seq(Nat), NEW prefix \in Seq(Nat),
         IsPrefix(prefix, a), BytesBefore(a, c), NEW recursive \in BOOLEAN,
         recursive \/ Slashes(c, prefix) = {}
  PROVE  Entry(a, prefix, recursive) # Entry(c, prefix, recursive)
<1> SUFFICES ASSUME Entry(a, prefix, recursive) = Entry(c, prefix, recursive) PROVE FALSE
  OBVIOUS
<1>1. Entry(c, prefix, recursive) = c BY DEF Entry
<1>2. IsPrefix(c, a)
  <2>1. CASE recursive
    <3>1. a = c BY <1>1, <2>1 DEF Entry
    <3> QED BY <3>1, BytesIrreflexive
  <2>2. CASE ~recursive
    <3>1. recursive = FALSE BY <2>2
    <3> QED BY <1>1, <3>1, EntryIs DEF EntryOf
  <2> QED BY <2>1, <2>2
<1>3. a = c \/ BytesBefore(c, a) BY <1>2 DEF BytesBefore, IsStrictPrefix
<1> QED BY <1>3, BytesIrreflexive, BytesTransitive

\* A new entry at the end of a listing.
LEMMA AppendEntry ==
  ASSUME NEW keys \in Seq(Seq(Nat)), NEW e \in Seq(Nat), IsInjective(keys), e \notin ToSet(keys)
  PROVE  LET longer == Append(keys, e)
         IN  /\ longer \in Seq(Seq(Nat)) /\ IsInjective(longer)
             /\ ToSet(longer) = ToSet(keys) \cup {e}
             /\ longer # <<>> /\ Last(longer) = e
<1> DEFINE n == Len(keys)
           longer == Append(keys, e)
<1>1. n \in Nat /\ DOMAIN keys = 1..n OBVIOUS
<1>2. longer \in Seq(Seq(Nat)) /\ Len(longer) = n + 1 /\ longer[n + 1] = e
      /\ \A i \in 1..n : longer[i] = keys[i]
  OBVIOUS
<1>3. DOMAIN longer = 1..(n + 1) BY <1>2
<1> HIDE DEF longer, n
<1>4. \A i \in 1..(n + 1) : i \in 1..n \/ i = n + 1 BY <1>1
<1>5. \A i \in 1..n : keys[i] # e BY <1>1 DEF ToSet
<1>6. IsInjective(longer)
  <2> SUFFICES ASSUME NEW i \in 1..(n + 1), NEW j \in 1..(n + 1), longer[i] = longer[j]
               PROVE  i = j
    BY <1>3 DEF IsInjective
  <2>1. CASE i \in 1..n /\ j \in 1..n BY <1>1, <1>2, <2>1 DEF IsInjective
  <2> QED BY <1>2, <1>4, <1>5, <2>1
<1>7. ToSet(longer) = ToSet(keys) \cup {e}
  <2>1. ASSUME NEW x \in ToSet(longer) PROVE x \in ToSet(keys) \cup {e}
    <3>1. PICK i \in 1..(n + 1) : x = longer[i] BY <1>3 DEF ToSet
    <3> QED BY <1>1, <1>2, <1>4, <3>1 DEF ToSet
  <2>2. ASSUME NEW x \in ToSet(keys) PROVE x \in ToSet(longer)
    <3>1. PICK i \in 1..n : x = keys[i] BY <1>1 DEF ToSet
    <3>2. i \in 1..(n + 1) /\ longer[i] = x BY <1>1, <1>2, <3>1
    <3> QED BY <1>3, <3>2 DEF ToSet
  <2>3. e \in ToSet(longer)
    <3>1. n + 1 \in 1..(n + 1) BY <1>1
    <3> QED BY <1>2, <1>3, <3>1 DEF ToSet
  <2> QED BY <2>1, <2>2, <2>3
<1>8. longer # <<>> /\ Last(longer) = e BY <1>1, <1>2 DEF Last
<1> QED BY <1>2, <1>6, <1>7, <1>8 DEF longer

\* What the listing is after i rows: their entries, each once, the last one last.
Listed(keys, s, i, prefix, recursive) ==
  /\ keys \in Seq(Seq(Nat)) /\ IsInjective(keys)
  /\ ToSet(keys) = {Entry(s[j], prefix, recursive) : j \in 1..i}
  /\ i > 0 => keys # <<>> /\ Last(keys) = Entry(s[i], prefix, recursive)

\* Rows in the order of bytes make a listing of their entries, each once.
LEMMA ListedStep ==
  ASSUME NEW m \in Nat, NEW s \in [1..m -> Seq(Nat)], NEW prefix \in Seq(Nat),
         \A j \in 1..m : IsPrefix(prefix, s[j]),
         \A i, j \in 1..m : i < j => BytesBefore(s[i], s[j]),
         NEW recursive \in BOOLEAN, NEW i \in 1..m, NEW keys,
         Listed(keys, s, i - 1, prefix, recursive)
  PROVE  Listed(ListEntry(keys, s[i], prefix, recursive), s, i, prefix, recursive)
<1> DEFINE E(j) == Entry(s[j], prefix, recursive)
           e == E(i)
           next == ListEntry(keys, s[i], prefix, recursive)
<1>1. \A j \in 1..m : E(j) \in Seq(Nat)
  <2> TAKE j \in 1..m
  <2>1. s[j] \in Seq(Nat) /\ IsPrefix(prefix, s[j]) OBVIOUS
  <2>2. CASE recursive BY <2>1, <2>2 DEF Entry
  <2>3. CASE ~recursive
    <3>1. recursive = FALSE BY <2>3
    <3>2. EntryOf(Entry(s[j], prefix, FALSE), s[j], prefix) BY <2>1, EntryIs
    <3> QED BY <3>1, <3>2 DEF EntryOf
  <2> QED BY <2>2, <2>3
<1>2. keys \in Seq(Seq(Nat)) /\ IsInjective(keys) /\ ToSet(keys) = {E(j) : j \in 1..(i - 1)}
      /\ (i - 1 > 0 => keys # <<>> /\ Last(keys) = E(i - 1))
  BY DEF Listed
<1>3. next = IF ~recursive /\ Slashes(s[i], prefix) # {} /\ keys # <<>> /\ Last(keys) = e
             THEN keys ELSE Append(keys, e)
  <2>1. s[i] \in Seq(Nat) /\ IsPrefix(prefix, s[i]) OBVIOUS
  <2> QED BY <2>1, EntryStep
<1>4. {E(j) : j \in 1..i} = {E(j) : j \in 1..(i - 1)} \cup {e}
  <2>1. \A j \in 1..i : j \in 1..(i - 1) \/ j = i OBVIOUS
  <2>2. i \in 1..i /\ \A j \in 1..(i - 1) : j \in 1..i OBVIOUS
  <2> HIDE DEF E
  <2> QED BY <2>1, <2>2
<1> HIDE DEF next
<1>5. CASE ~recursive /\ Slashes(s[i], prefix) # {} /\ keys # <<>> /\ Last(keys) = e
  <2>1. next = keys BY <1>3, <1>5
  <2>2. e \in ToSet(keys)
    <3>1. Len(keys) \in DOMAIN keys /\ e = keys[Len(keys)] BY <1>2, <1>5 DEF Last
    <3> HIDE DEF e
    <3> QED BY <3>1 DEF ToSet
  <2>3. ToSet(keys) = {E(j) : j \in 1..i} BY <1>2, <1>4, <2>2
  <2> QED BY <1>2, <1>5, <2>1, <2>3 DEF Listed, next
<1>6. CASE ~(~recursive /\ Slashes(s[i], prefix) # {} /\ keys # <<>> /\ Last(keys) = e)
  <2>1. next = Append(keys, e) BY <1>3, <1>6
  <2>2. ASSUME e \in ToSet(keys) PROVE FALSE
    <3>1. PICK j \in 1..(i - 1) : e = E(j) BY <1>2, <2>2
    <3>2. j \in 1..m /\ j < i /\ i - 1 \in 1..m /\ i - 1 > 0 OBVIOUS
    <3>3. /\ s[j] \in Seq(Nat) /\ s[i] \in Seq(Nat) /\ s[i - 1] \in Seq(Nat)
          /\ IsPrefix(prefix, s[j]) /\ IsPrefix(prefix, s[i]) /\ IsPrefix(prefix, s[i - 1])
          /\ BytesBefore(s[j], s[i])
      BY <3>2
    <3>4. ~recursive /\ Slashes(s[i], prefix) # {}
      <4>1. (recursive \/ Slashes(s[i], prefix) = {})
              => Entry(s[j], prefix, recursive) # Entry(s[i], prefix, recursive)
        BY <3>3, KeyIsNew
      <4> QED BY <3>1, <4>1
    <3>5. keys # <<>> /\ Last(keys) = E(i - 1) BY <1>2, <3>2
    <3>6. E(i - 1) = e
      <4>1. CASE j = i - 1 BY <3>1, <4>1
      <4>2. CASE j # i - 1
        <5>1. j < i - 1 /\ i - 1 < i BY <4>2
        <5>2. BytesBefore(s[j], s[i - 1]) /\ BytesBefore(s[i - 1], s[i]) BY <3>2, <5>1
        <5> QED BY <3>1, <3>3, <5>2, TogetherInOrder
      <4> QED BY <4>1, <4>2
    <3> QED BY <1>6, <3>4, <3>5, <3>6
  <2>3. /\ next \in Seq(Seq(Nat)) /\ IsInjective(next) /\ ToSet(next) = ToSet(keys) \cup {e}
        /\ next # <<>> /\ Last(next) = e
    <3>1. e \in Seq(Nat) BY <1>1
    <3> HIDE DEF e
    <3> QED BY <1>2, <2>1, <2>2, <3>1, AppendEntry
  <2> QED BY <1>2, <1>4, <2>3 DEF Listed, next
<1> QED BY <1>5, <1>6
\* A listing is the entries of its rows, each once.
LEMMA ListIs ==
  ASSUME NEW m \in Nat, NEW prefix \in Seq(Nat), NEW recursive \in BOOLEAN,
         Selected(prefix) \in [1..m -> Seq(Nat)],
         \A j \in 1..m : IsPrefix(prefix, Selected(prefix)[j]),
         \A i, j \in 1..m : i < j => BytesBefore(Selected(prefix)[i], Selected(prefix)[j])
  PROVE  /\ IsInjective(List(prefix, recursive))
         /\ ToSet(List(prefix, recursive))
              = {Entry(k, prefix, recursive) : k \in ToSet(Selected(prefix))}
<1> DEFINE s == Selected(prefix)
<1>1. DOMAIN s = 1..m OBVIOUS
<1>2. PICK r : RowByRow(r, m, prefix, recursive) BY <1>1, ListSteps
<1>3. /\ s \in [1..m -> Seq(Nat)] /\ \A j \in 1..m : IsPrefix(prefix, s[j])
      /\ \A i, j \in 1..m : i < j => BytesBefore(s[i], s[j])
  OBVIOUS
<1> HIDE DEF s
<1> DEFINE T == {i \in 0..m : Listed(r[i], s, i, prefix, recursive)}
<1>4. 0 \in T
  <2>1. r[0] \in Seq(Seq(Nat)) /\ ToSet(r[0]) = {} /\ IsInjective(r[0])
    BY <1>2 DEF RowByRow, ToSet, IsInjective
  <2>2. {Entry(s[j], prefix, recursive) : j \in 1..0} = {} OBVIOUS
  <2> QED BY <2>1, <2>2 DEF Listed
<1>5. ASSUME NEW i \in 0..m, i \in T, i < m PROVE i + 1 \in T
  <2>1. i + 1 \in 1..m /\ (i + 1) - 1 = i BY <1>5
  <2>2. r[i + 1] = ListEntry(r[i], s[i + 1], prefix, recursive)
    BY <1>2, <2>1 DEF RowByRow, s
  <2>3. Listed(r[(i + 1) - 1], s, (i + 1) - 1, prefix, recursive) BY <1>5, <2>1
  <2>4. Listed(ListEntry(r[(i + 1) - 1], s[i + 1], prefix, recursive), s, i + 1, prefix, recursive)
    BY <1>3, <2>1, <2>3, ListedStep
  <2> QED BY <2>1, <2>2, <2>4
<1>6. m \in T
  <2>1. T \in SUBSET (0..m) OBVIOUS
  <2> HIDE DEF T
  <2>2. T = 0..m BY <1>4, <1>5, <2>1, UpTo
  <2> QED BY <2>2
<1>7. Listed(List(prefix, recursive), s, m, prefix, recursive) BY <1>2, <1>6 DEF RowByRow
<1>8. {Entry(s[j], prefix, recursive) : j \in 1..m} = {Entry(k, prefix, recursive) : k \in ToSet(s)}
  BY <1>1 DEF ToSet, s
<1> QED BY <1>7, <1>8 DEF Listed, s

\* The entries of the keys below a prefix are its children.
LEMMA EntriesAreChildren ==
  ASSUME TableInv, NEW prefix \in Seq(Nat)
  PROVE  {Entry(k, prefix, FALSE) : k \in Below(prefix)} = Children(prefix)
<1> DEFINE Parts == UNION {{SubSeq(k, 1, i) : i \in (Len(prefix) + 1)..Len(k)} : k \in Below(prefix)}
<1>1. \A k \in Below(prefix) : k \in Seq(Nat) /\ IsPrefix(prefix, k)
  BY KeyType DEF Below, TableInv, Keys
<1>2. ASSUME NEW k \in Below(prefix) PROVE Entry(k, prefix, FALSE) \in Children(prefix)
  <2> DEFINE d == Entry(k, prefix, FALSE)
  <2>1. EntryOf(d, k, prefix) BY <1>1, EntryIs
  <2> HIDE DEF d
  <2>2. ASSUME d = k PROVE d \in Children(prefix) BY <2>1, <2>2 DEF EntryOf, Children
  <2>3. ASSUME Len(d) > Len(prefix), d[Len(d)] = SlashByte PROVE d \in Children(prefix)
    <3>1. k \in Seq(Nat) /\ d \in Seq(Nat) /\ Len(d) <= Len(k) /\ \A j \in 1..Len(d) : d[j] = k[j]
      BY <1>1, <2>1, PrefixPlaces DEF EntryOf
    <3>2. Len(d) \in (Len(prefix) + 1)..Len(k) /\ Len(d) \in 1..Len(k) BY <2>3, <3>1
    <3> DEFINE s == SubSeq(k, 1, Len(d))
    <3>3. s \in Seq(Nat) /\ Len(s) = Len(d) /\ \A j \in 1..Len(d) : s[j] = k[j]
      BY <3>1, <3>2, Part
    <3>4. s \in Parts BY <3>2
    <3> HIDE DEF s, Parts
    <3>5. s = d BY <3>1, <3>3, SeqEqual
    <3>6. Last(d) = SlashByte BY <2>3 DEF Last
    <3> QED BY <2>1, <3>4, <3>5, <3>6 DEF EntryOf, Children, Parts
  <2> QED BY <2>1, <2>2, <2>3 DEF EntryOf, d
<1>3. ASSUME NEW d \in Children(prefix) PROVE \E k \in Below(prefix) : d = Entry(k, prefix, FALSE)
  <2>1. CASE d \in Below(prefix) /\ IsChild(d, prefix)
    <3>1. IsPrefix(d, d) BY <1>1, <2>1, PrefixPlaces
    <3>2. EntryOf(d, d, prefix) BY <1>1, <2>1, <3>1 DEF EntryOf
    <3>3. d = Entry(d, prefix, FALSE) BY <1>1, <2>1, <3>2, EntryOnly
    <3> QED BY <2>1, <3>3
  <2>2. CASE d \in Parts /\ Last(d) = SlashByte /\ IsChild(d, prefix)
    <3>1. PICK k \in Below(prefix) : \E i \in (Len(prefix) + 1)..Len(k) : d = SubSeq(k, 1, i)
      BY <2>2
    <3> PICK i \in (Len(prefix) + 1)..Len(k) : d = SubSeq(k, 1, i) BY <3>1
    <3>2. k \in Seq(Nat) /\ i \in 1..Len(k) BY <1>1, <3>1
    <3>3. d \in Seq(Nat) /\ Len(d) = i /\ IsPrefix(d, k) BY <3>1, <3>2, Part
    <3>4. Len(d) > Len(prefix) /\ d[Len(d)] = SlashByte BY <2>2, <3>1, <3>3 DEF Last
    <3>5. EntryOf(d, k, prefix) BY <2>2, <3>3, <3>4 DEF EntryOf, IsChild
    <3>6. d = Entry(k, prefix, FALSE) BY <3>2, <3>5, EntryOnly
    <3> QED BY <3>6
  <2> QED BY <2>1, <2>2 DEF Children
<1> QED BY <1>2, <1>3

\* The query's pattern finds what the prefix is a prefix of: no underscore in
\* a prefix stands for another character of a key.
PatternsArePlain == \A k \in StoreKeys, prefix \in ListPrefixes : Like(k, prefix) => IsPrefix(prefix, k)

\* A listing is exact for any keys and prefixes, if the database orders keys by
\* their bytes (pg_storage.go:65).
THEOREM ListIsExactAlways ==
  ASSUME ByBytes, PatternsArePlain
  PROVE  InputSpec => []ListIsExact
<1>1. ASSUME TableInv PROVE ListIsExact
  <2> SUFFICES ASSUME NEW prefix \in ListPrefixes
               PROVE  /\ ToSet(List(prefix, TRUE)) = Below(prefix)
                      /\ ToSet(List(prefix, FALSE)) = Children(prefix)
                      /\ \A recursive \in BOOLEAN : IsInjective(List(prefix, recursive))
    BY DEF ListIsExact
  <2> DEFINE s == Selected(prefix)
  <2>1. prefix \in Seq(Nat) BY KeyType DEF Keys
  <2>2. Found(prefix) = Below(prefix)
    <3>1. ASSUME NEW k \in DOMAIN table PROVE Like(k, prefix) <=> IsPrefix(prefix, k)
      <4>1. k \in StoreKeys /\ k \in Seq(Nat) BY <1>1, KeyType DEF TableInv, Keys
      <4>2. IsPrefix(prefix, k) => Like(k, prefix) BY <2>1, <4>1, PrefixPlaces DEF Like
      <4> QED BY <4>1, <4>2 DEF PatternsArePlain
    <3> QED BY <3>1 DEF Found, Below
  <2>3. /\ s \in Seq(Found(prefix)) /\ ToSet(s) = Found(prefix)
        /\ \A i, j \in DOMAIN s : i < j => Before(s[i], s[j])
    BY <1>1, SelectedRows
  <2>4. \A k \in Below(prefix) : k \in Seq(Nat) /\ IsPrefix(prefix, k)
    BY <1>1, KeyType DEF Below, TableInv, Keys
  <2> DEFINE m == Len(s)
  <2> HIDE DEF s
  <2>5. m \in Nat /\ DOMAIN s = 1..m /\ s \in [1..m -> Seq(Nat)]
        /\ (\A j \in 1..m : IsPrefix(prefix, s[j]))
        /\ \A i, j \in 1..m : i < j => BytesBefore(s[i], s[j])
    <3>1. m \in Nat /\ DOMAIN s = 1..m /\ \A j \in 1..m : s[j] \in Below(prefix)
      BY <2>2, <2>3
    <3>2. s = [j \in 1..m |-> s[j]] BY <2>3
    <3>3. \A i, j \in 1..m : i < j => BytesBefore(s[i], s[j])
      BY <2>3, <3>1 DEF Before, ByBytes
    <3> HIDE DEF m
    <3> QED BY <2>4, <3>1, <3>2, <3>3
  <2> HIDE DEF m
  <2>6. ASSUME NEW recursive \in BOOLEAN
        PROVE  /\ IsInjective(List(prefix, recursive))
               /\ ToSet(List(prefix, recursive))
                    = {Entry(k, prefix, recursive) : k \in Below(prefix)}
    BY <2>1, <2>2, <2>3, <2>5, ListIs DEF s
  <2>7. {Entry(k, prefix, TRUE) : k \in Below(prefix)} = Below(prefix) BY DEF Entry
  <2>8. {Entry(k, prefix, FALSE) : k \in Below(prefix)} = Children(prefix)
    BY <1>1, <2>1, EntriesAreChildren
  <2> QED BY <2>6, <2>7, <2>8
<1> QED BY <1>1, TableInvariant, PTL
=============================================================================
