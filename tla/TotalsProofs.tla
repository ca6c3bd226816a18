----------------------------- MODULE TotalsProofs -----------------------------
(***************************************************************************)
(* What Total computes.  The library's induction theorems take an operator *)
(* and cannot be used here; the least element that every set of numbers,   *)
(* or of subsets of a finite set, has (WFMin) serves instead.              *)
(***************************************************************************)
EXTENDS Totals, FiniteSetTheorems, WellFoundedInduction, TLAPS

\* Every set of natural numbers that has an element has a least one.
LEMMA LeastNumber ==
  ASSUME NEW T \in SUBSET Nat, T # {}
  PROVE  \E n \in T : \A m \in T : n <= m
<1> DEFINE R == OpToRel(<, Nat)
<1>1. IsWellFoundedOn(R, Nat) BY NatLessThanWellFounded
<1>2. T \subseteq Nat OBVIOUS
<1> HIDE DEF R
<1>3. PICK n \in T : \A m \in T : ~(<<m, n>> \in R)
  BY <1>1, <1>2, WFMin
<1>4. ASSUME NEW m \in T PROVE ~(m < n)
  <2>1. ~(<<m, n>> \in R) BY <1>3
  <2> QED BY <2>1 DEF R, OpToRel
<1> QED BY <1>4

\* Induction over the subsets of a finite set: a set that has every subset all
\* of whose smaller subsets it has, has them all.
LEMMA SubsetInduction ==
  ASSUME NEW S, IsFiniteSet(S), NEW T \in SUBSET SUBSET S,
         \A U \in SUBSET S : (\A V \in SUBSET U : V # U => V \in T) => U \in T
  PROVE  T = SUBSET S
<1> DEFINE Bad == (SUBSET S) \ T
           R == StrictSubsetOrdering(S)
<1> SUFFICES ASSUME Bad # {} PROVE FALSE OBVIOUS
<1>1. IsWellFoundedOn(R, SUBSET S)
  <2>1. FiniteSubsetsOf(S) = SUBSET S BY FS_FiniteSubsetsOfFinite
  <2>2. IsWellFoundedOn(R, FiniteSubsetsOf(S)) BY FS_StrictSubsetOrderingWellFounded
  <2> QED BY <2>1, <2>2
<1>2. Bad \subseteq SUBSET S OBVIOUS
<1> HIDE DEF R, Bad
<1>3. PICK U \in Bad : \A V \in Bad : ~(<<V, U>> \in R)
  BY <1>1, <1>2, WFMin
<1>4. ASSUME NEW V \in SUBSET U, V # U PROVE V \in T
  <2>1. U \in SUBSET S /\ V \in SUBSET S BY <1>2
  <2>2. <<V, U>> \in R BY <2>1, <1>4 DEF R, StrictSubsetOrdering
  <2> QED BY <2>1, <2>2, <1>3 DEF Bad
<1> QED BY <1>3, <1>4 DEF Bad

\* Induction over a finite set, one element at a time.
LEMMA FiniteSetInduction ==
  ASSUME NEW S, IsFiniteSet(S), NEW T \in SUBSET SUBSET S, {} \in T,
         \A U \in T : \A x \in S \ U : U \cup {x} \in T
  PROVE  S \in T
<1>1. ASSUME NEW U \in SUBSET S, \A V \in SUBSET U : V # U => V \in T
      PROVE  U \in T
  <2>1. CASE U = {} BY <2>1
  <2>2. CASE U # {}
    <3>1. PICK x : x \in U BY <2>2
    <3>2. U \ {x} \in T BY <3>1, <1>1
    <3>3. (U \ {x}) \cup {x} = U /\ x \in S \ (U \ {x}) BY <3>1
    <3> QED BY <3>2, <3>3
  <2> QED BY <2>1, <2>2
<1>2. T = SUBSET S BY <1>1, SubsetInduction
<1> QED BY <1>2

-----------------------------------------------------------------------------
(* Total folds over a set in an order it chooses.  A measure is the sum    *)
(* over every subset, in no order; Total is shown to be one.               *)

IsMeasure(f, g) ==
  /\ g \in [SUBSET DOMAIN f -> Nat]
  /\ g[{}] = 0
  /\ \A U \in SUBSET DOMAIN f : \A x \in DOMAIN f \ U : g[U \cup {x}] = f[x] + g[U]

\* Every function on a finite set has a measure.
LEMMA MeasureExists ==
  ASSUME NEW S, IsFiniteSet(S), NEW f \in [S -> Nat]
  PROVE  \E g : IsMeasure(f, g)
<1> DEFINE M(U, g) == /\ g \in [SUBSET U -> Nat]
                      /\ g[{}] = 0
                      /\ \A V \in SUBSET U : \A x \in U \ V : g[V \cup {x}] = f[x] + g[V]
           T == {U \in SUBSET S : \E g : M(U, g)}
<1>1. {} \in T
  <2>1. M({}, [U \in SUBSET {} |-> 0]) OBVIOUS
  <2> QED BY <2>1
<1>2. ASSUME NEW U \in T, NEW x \in S \ U PROVE U \cup {x} \in T
  <2>1. PICK g : M(U, g) OBVIOUS
  <2> DEFINE h == [V \in SUBSET (U \cup {x}) |->
                     IF x \in V THEN f[x] + g[V \ {x}] ELSE g[V]]
  <2>2. \A V \in SUBSET (U \cup {x}) : V \ {x} \in SUBSET U /\ (x \notin V => V \in SUBSET U)
    OBVIOUS
  <2>3. h \in [SUBSET (U \cup {x}) -> Nat] BY <2>1, <2>2
  <2>4. h[{}] = 0 BY <2>1
  <2>5. ASSUME NEW V \in SUBSET (U \cup {x}), NEW y \in (U \cup {x}) \ V
        PROVE  h[V \cup {y}] = f[y] + h[V]
    <3>1. CASE y = x
      <4>1. (V \cup {y}) \ {x} = V /\ x \in V \cup {y} /\ x \notin V BY <3>1
      <4> QED BY <4>1, <3>1
    <3>2. CASE y # x /\ x \in V
      <4>1. (V \cup {y}) \ {x} = (V \ {x}) \cup {y} /\ y \in U \ (V \ {x}) BY <3>2
      <4>2. g[(V \ {x}) \cup {y}] = f[y] + g[V \ {x}] BY <4>1, <2>1, <2>2
      <4>3. g[V \ {x}] \in Nat /\ f[x] \in Nat /\ f[y] \in Nat BY <2>1, <2>2
      <4>4. V \cup {y} \in SUBSET (U \cup {x}) OBVIOUS
      <4>5. h[V \cup {y}] = f[x] + g[(V \cup {y}) \ {x}] BY <4>4, <3>2
      <4>6. h[V] = f[x] + g[V \ {x}] BY <3>2
      <4>7. g[(V \cup {y}) \ {x}] = f[y] + g[V \ {x}] BY <4>1, <4>2
      <4> HIDE DEF h, M
      <4> QED BY <4>3, <4>5, <4>6, <4>7
    <3>3. CASE y # x /\ x \notin V
      <4>1. V \in SUBSET U /\ y \in U \ V /\ x \notin V \cup {y} BY <3>3
      <4>2. g[V \cup {y}] = f[y] + g[V] BY <4>1, <2>1
      <4> QED BY <4>1, <4>2
    <3> QED BY <3>1, <3>2, <3>3
  <2>6. M(U \cup {x}, h) BY <2>3, <2>4, <2>5
  <2> HIDE DEF M
  <2>7. U \cup {x} \in SUBSET S OBVIOUS
  <2> QED BY <2>6, <2>7
<1>3. S \in T
  <2> HIDE DEF T
  <2>1. T \in SUBSET SUBSET S BY DEF T
  <2> QED BY <1>1, <1>2, <2>1, FiniteSetInduction
<1> QED BY <1>3 DEF IsMeasure

\* Total is what its measure says: whichever element the fold picks, the
\* measure has the same value.
LEMMA TotalIsMeasure ==
  ASSUME NEW S, IsFiniteSet(S), NEW f \in [S -> Nat], NEW g, IsMeasure(f, g)
  PROVE  Total(f) = g[S]
<1> DEFINE pick(s) == CHOOSE x \in s : TRUE
           Fix(i) == i = [s \in SUBSET S |-> IF s = {} THEN 0
                                             ELSE f[pick(s)] + i[s \ {pick(s)}]]
           iter == CHOOSE i : Fix(i)
<1>1. Total(f) = iter[S]
  BY DOMAIN f = S DEF Total, MapThenSumSet, MapThenFoldSet
<1>2. \A s \in SUBSET S : s # {} =>
         /\ pick(s) \in s
         /\ s \ {pick(s)} \in SUBSET S
         /\ g[s] = f[pick(s)] + g[s \ {pick(s)}]
  <2> SUFFICES ASSUME NEW s \in SUBSET S, s # {}
               PROVE  /\ pick(s) \in s
                      /\ s \ {pick(s)} \in SUBSET S
                      /\ g[s] = f[pick(s)] + g[s \ {pick(s)}]
    OBVIOUS
  <2>1. pick(s) \in s OBVIOUS
  <2> HIDE DEF pick
  <2>2. s \ {pick(s)} \in SUBSET S /\ (s \ {pick(s)}) \cup {pick(s)} = s BY <2>1
  <2> QED BY <2>1, <2>2 DEF IsMeasure
<1>3. \E i : Fix(i)
  <2> HIDE DEF pick
  <2>1. Fix(g) BY <1>2 DEF IsMeasure
  <2> QED BY <2>1
<1>4. Fix(iter) BY <1>3
<1> HIDE DEF iter, pick
<1> DEFINE T == {s \in SUBSET S : iter[s] = g[s]}
<1>5. ASSUME NEW U \in SUBSET S, \A V \in SUBSET U : V # U => V \in T
      PROVE  U \in T
  <2>1. CASE U = {} BY <2>1, <1>4 DEF IsMeasure
  <2>2. CASE U # {}
    <3>1. U \ {pick(U)} \in T BY <1>2, <1>5, <2>2
    <3>2. iter[U] = f[pick(U)] + iter[U \ {pick(U)}] BY <1>4, <2>2
    <3> QED BY <3>1, <3>2, <1>2, <2>2
  <2> QED BY <2>1, <2>2
<1>6. T = SUBSET S
  <2> HIDE DEF T
  <2>1. T \in SUBSET SUBSET S BY DEF T
  <2> QED BY <1>5, <2>1, SubsetInduction
<1> QED BY <1>1, <1>6

-----------------------------------------------------------------------------

\* A total of numbers is a number.
LEMMA TotalType ==
  ASSUME NEW S, IsFiniteSet(S), NEW f \in [S -> Nat]
  PROVE  Total(f) \in Nat
<1>1. PICK g : IsMeasure(f, g) BY MeasureExists
<1>2. Total(f) = g[S] BY <1>1, TotalIsMeasure
<1> QED BY <1>1, <1>2 DEF IsMeasure

\* The total of nothing is zero.
LEMMA TotalEmpty ==
  ASSUME NEW f \in [{} -> Nat]
  PROVE  Total(f) = 0
<1>0. IsFiniteSet({}) BY FS_EmptySet
<1>1. PICK g : IsMeasure(f, g) BY <1>0, MeasureExists
<1>2. Total(f) = g[{}] BY <1>0, <1>1, TotalIsMeasure
<1> QED BY <1>1, <1>2 DEF IsMeasure

\* A total is any one value and the total of the others.
LEMMA TotalSplit ==
  ASSUME NEW S, IsFiniteSet(S), NEW f \in [S -> Nat], NEW x \in S
  PROVE  Total(f) = f[x] + Total([y \in S \ {x} |-> f[y]])
<1> DEFINE R == S \ {x}
           r == [y \in R |-> f[y]]
<1>1. PICK g : IsMeasure(f, g) BY MeasureExists
<1>2. Total(f) = g[S] BY <1>1, TotalIsMeasure
<1> DEFINE h == [U \in SUBSET R |-> g[U]]
<1>3. r \in [R -> Nat] OBVIOUS
<1>4. IsMeasure(r, h)
  <2>1. DOMAIN r = R /\ DOMAIN f = S OBVIOUS
  <2>2. h \in [SUBSET R -> Nat] /\ h[{}] = 0 BY <1>1 DEF IsMeasure
  <2>3. ASSUME NEW U \in SUBSET R, NEW y \in R \ U PROVE h[U \cup {y}] = r[y] + h[U]
    <3>1. U \in SUBSET S /\ y \in S \ U /\ U \cup {y} \in SUBSET R OBVIOUS
    <3>2. g[U \cup {y}] = f[y] + g[U] BY <3>1, <2>1, <1>1 DEF IsMeasure
    <3> QED BY <3>1, <3>2
  <2> QED BY <2>1, <2>2, <2>3 DEF IsMeasure
<1>5. IsFiniteSet(R) BY FS_RemoveElement
<1>6. Total(r) = h[R]
  <2> HIDE DEF r, h, R
  <2> QED BY <1>3, <1>4, <1>5, TotalIsMeasure
<1>7. g[R \cup {x}] = f[x] + g[R] BY <1>1 DEF IsMeasure
<1>8. R \cup {x} = S OBVIOUS
<1> QED BY <1>2, <1>6, <1>7, <1>8

\* Changing one value changes the total by the difference.
LEMMA TotalUpdate ==
  ASSUME NEW S, IsFiniteSet(S), NEW f \in [S -> Nat], NEW x \in S, NEW v \in Nat
  PROVE  Total([f EXCEPT ![x] = v]) = Total(f) - f[x] + v
<1> DEFINE g == [f EXCEPT ![x] = v]
           R == [y \in S \ {x} |-> f[y]]
<1>1. g \in [S -> Nat] /\ g[x] = v OBVIOUS
<1>2. [y \in S \ {x} |-> g[y]] = R OBVIOUS
<1>3. IsFiniteSet(S \ {x}) /\ R \in [S \ {x} -> Nat] BY FS_RemoveElement
<1> HIDE DEF g, R
<1>4. Total(g) = g[x] + Total([y \in S \ {x} |-> g[y]]) BY <1>1, TotalSplit
<1>5. Total(f) = f[x] + Total(R) BY TotalSplit DEF R
<1>6. Total(R) \in Nat BY <1>3, TotalType
<1> QED BY <1>1, <1>2, <1>4, <1>5, <1>6 DEF g

\* A finite function a, and b, which has one value more.
Grows(a, b, x) ==
  /\ IsFiniteSet(DOMAIN a) /\ x \notin DOMAIN a
  /\ a \in [DOMAIN a -> Nat] /\ b \in [DOMAIN a \cup {x} -> Nat]
  /\ \A y \in DOMAIN a : b[y] = a[y]

\* One more value adds itself.
LEMMA TotalGrow ==
  ASSUME NEW a, NEW b, NEW x, Grows(a, b, x)
  PROVE  Total(b) = b[x] + Total(a) /\ Total(a) \in Nat
<1> DEFINE W == DOMAIN a \cup {x}
<1>1. /\ IsFiniteSet(DOMAIN a) /\ a \in [DOMAIN a -> Nat]
      /\ IsFiniteSet(W) /\ x \in W /\ b \in [W -> Nat]
  BY FS_AddElement DEF Grows
<1>2. a = [y \in W \ {x} |-> b[y]] BY DEF Grows
<1>3. Total(b) = b[x] + Total([y \in W \ {x} |-> b[y]])
  <2> HIDE DEF W
  <2> QED BY <1>1, TotalSplit
<1> HIDE DEF W
<1> QED BY <1>1, <1>2, <1>3, TotalType

\* Greater values have a greater total.
LEMMA TotalMonotone ==
  ASSUME NEW S, IsFiniteSet(S), NEW f \in [S -> Nat], NEW g \in [S -> Nat],
         \A x \in S : f[x] <= g[x]
  PROVE  Total(f) <= Total(g)
<1> DEFINE On(h, U) == [x \in U |-> h[x]]
           T == {U \in SUBSET S : Total(On(f, U)) <= Total(On(g, U))}
<1>1. {} \in T
  <2>1. On(f, {}) \in [{} -> Nat] /\ On(g, {}) \in [{} -> Nat] OBVIOUS
  <2> HIDE DEF On
  <2> QED BY <2>1, TotalEmpty
<1>2. ASSUME NEW U \in T, NEW x \in S \ U PROVE U \cup {x} \in T
  <2> DEFINE W == U \cup {x}
  <2>1. IsFiniteSet(U) /\ x \notin U BY FS_Subset
  <2>2. ASSUME NEW h \in [S -> Nat]
        PROVE  Total(On(h, W)) = h[x] + Total(On(h, U)) /\ Total(On(h, U)) \in Nat
    <3>1. Grows(On(h, U), On(h, W), x) /\ On(h, W)[x] = h[x] BY <2>1 DEF Grows
    <3> HIDE DEF On
    <3> QED BY <3>1, TotalGrow
  <2> HIDE DEF On
  <2>3. /\ Total(On(f, W)) = f[x] + Total(On(f, U)) /\ Total(On(f, U)) \in Nat
        /\ Total(On(g, W)) = g[x] + Total(On(g, U)) /\ Total(On(g, U)) \in Nat
    BY <2>2
  <2>4. f[x] <= g[x] /\ f[x] \in Nat /\ g[x] \in Nat OBVIOUS
  <2>5. Total(On(f, U)) <= Total(On(g, U)) OBVIOUS
  <2>6. Total(On(f, W)) <= Total(On(g, W)) BY <2>3, <2>4, <2>5
  <2> QED BY <2>6
<1>3. S \in T
  <2> HIDE DEF T
  <2>1. T \in SUBSET SUBSET S BY DEF T
  <2> QED BY <1>1, <1>2, <2>1, FiniteSetInduction
<1>4. On(f, S) = f /\ On(g, S) = g OBVIOUS
<1> QED BY <1>3, <1>4

\* No total is less than one of its values.
LEMMA TotalBounds ==
  ASSUME NEW S, IsFiniteSet(S), NEW f \in [S -> Nat], NEW x \in S
  PROVE  f[x] <= Total(f)
<1> DEFINE R == [y \in S \ {x} |-> f[y]]
<1>1. IsFiniteSet(S \ {x}) /\ R \in [S \ {x} -> Nat] BY FS_RemoveElement
<1>2. Total(R) \in Nat
  <2> HIDE DEF R
  <2> QED BY <1>1, TotalType
<1>3. Total(f) = f[x] + Total(R) BY TotalSplit
<1> QED BY <1>2, <1>3

\* The total of zeros is zero.
LEMMA TotalZero ==
  ASSUME NEW S, IsFiniteSet(S), NEW f \in [S -> Nat], \A x \in S : f[x] = 0
  PROVE  Total(f) = 0
<1> DEFINE T == {U \in SUBSET S : Total([x \in U |-> 0]) = 0}
<1>1. {} \in T
  <2>1. [x \in {} |-> 0] \in [{} -> Nat] OBVIOUS
  <2> QED BY <2>1, TotalEmpty
<1>2. ASSUME NEW U \in T, NEW x \in S \ U PROVE U \cup {x} \in T
  <2> DEFINE W == U \cup {x}
             z == [y \in W |-> 0]
  <2>1. IsFiniteSet(W) BY FS_Subset
  <2>2. z \in [W -> Nat] /\ x \in W /\ z[x] = 0 OBVIOUS
  <2>3. [y \in W \ {x} |-> z[y]] = [y \in U |-> 0] OBVIOUS
  <2>4. Total(z) = z[x] + Total([y \in W \ {x} |-> z[y]])
    <3> HIDE DEF W, z
    <3> QED BY <2>1, <2>2, TotalSplit
  <2>5. Total(z) = 0 BY <2>2, <2>3, <2>4
  <2> QED BY <2>5
<1>3. S \in T
  <2> HIDE DEF T
  <2>1. T \in SUBSET SUBSET S BY DEF T
  <2> QED BY <1>1, <1>2, <2>1, FiniteSetInduction
<1>4. f = [x \in S |-> 0] OBVIOUS
<1> QED BY <1>3, <1>4

\* Values that are zero add nothing.
LEMMA TotalRestrict ==
  ASSUME NEW S, IsFiniteSet(S), NEW f \in [S -> Nat], NEW V \in SUBSET S,
         \A x \in S \ V : f[x] = 0
  PROVE  Total([x \in V |-> f[x]]) = Total(f)
<1> DEFINE On(U) == [x \in U |-> f[x]]
           T == {U \in SUBSET S : Total(On(U \cap V)) = Total(On(U))}
<1>1. {} \in T
  <2>1. {} \cap V = {} OBVIOUS
  <2> QED BY <2>1
<1>2. ASSUME NEW U \in T, NEW x \in S \ U PROVE U \cup {x} \in T
  <2> DEFINE W == U \cup {x}
             A == W \cap V
             B == U \cap V
  <2>1. IsFiniteSet(W) /\ IsFiniteSet(A) /\ IsFiniteSet(U) BY FS_Subset
  <2>2. /\ On(W) \in [W -> Nat] /\ On(A) \in [A -> Nat] /\ On(U) \in [U -> Nat]
        /\ On(W)[x] = f[x] /\ W \ {x} = U
    OBVIOUS
  <2>3. [y \in W \ {x} |-> On(W)[y]] = On(U) BY <2>2
  <2>4. Total(On(W)) = On(W)[x] + Total([y \in W \ {x} |-> On(W)[y]])
    <3>1. x \in W OBVIOUS
    <3> HIDE DEF W, On
    <3> QED BY <2>1, <2>2, <3>1, TotalSplit
  <2>5. CASE x \in V
    <3>1. x \in A /\ On(A)[x] = f[x] /\ A \ {x} = B BY <2>5
    <3>2. [y \in A \ {x} |-> On(A)[y]] = On(B) BY <3>1
    <3>3. Total(On(A)) = On(A)[x] + Total([y \in A \ {x} |-> On(A)[y]])
      <4>1. IsFiniteSet(A) /\ On(A) \in [A -> Nat] BY <2>1, <2>2
      <4>2. x \in A BY <3>1
      <4> HIDE DEF A, B, W, On, T
      <4> QED BY <4>1, <4>2, TotalSplit
    <3>4. Total(On(B)) = Total(On(U)) OBVIOUS
    <3>5. Total(On(A)) = Total(On(W))
      <4> HIDE DEF A, B, W, On
      <4> QED BY <2>2, <2>3, <2>4, <3>1, <3>2, <3>3, <3>4
    <3> QED BY <3>5
  <2>6. CASE x \notin V
    <3>1. A = B /\ f[x] = 0 BY <2>6
    <3>2. Total(On(U)) \in Nat
      <4> HIDE DEF On
      <4> QED BY <2>1, <2>2, TotalType
    <3>3. Total(On(B)) = Total(On(U)) OBVIOUS
    <3>4. Total(On(A)) = Total(On(W))
      <4> HIDE DEF A, B, W, On
      <4> QED BY <2>2, <2>3, <2>4, <3>1, <3>2, <3>3
    <3> QED BY <3>4
  <2> QED BY <2>5, <2>6
<1>3. S \in T
  <2> HIDE DEF T
  <2>1. T \in SUBSET SUBSET S BY DEF T
  <2> QED BY <1>1, <1>2, <2>1, FiniteSetInduction
<1>4. On(S) = f /\ S \cap V = V OBVIOUS
<1>5. Total(On(S \cap V)) = Total(On(S)) BY <1>3
<1> QED BY <1>4, <1>5

\* The total of sums is the sum of the totals.
LEMMA TotalAdd ==
  ASSUME NEW S, IsFiniteSet(S), NEW f \in [S -> Nat], NEW g \in [S -> Nat]
  PROVE  Total([x \in S |-> f[x] + g[x]]) = Total(f) + Total(g)
<1> DEFINE sum == [x \in S |-> f[x] + g[x]]
           On(h, U) == [x \in U |-> h[x]]
           T == {U \in SUBSET S : Total(On(sum, U)) = Total(On(f, U)) + Total(On(g, U))}
<1>0. sum \in [S -> Nat] /\ \A x \in S : sum[x] = f[x] + g[x]
  OBVIOUS
<1> HIDE DEF sum
<1>1. {} \in T
  <2>1. \A h : On(h, {}) \in [{} -> Nat] OBVIOUS
  <2> HIDE DEF On
  <2> QED BY <2>1, TotalEmpty
<1>2. ASSUME NEW U \in T, NEW x \in S \ U PROVE U \cup {x} \in T
  <2>1. ASSUME NEW h \in [S -> Nat]
        PROVE  Total(On(h, U \cup {x})) = h[x] + Total(On(h, U)) /\ Total(On(h, U)) \in Nat
    <3>1. IsFiniteSet(U) BY FS_Subset
    <3>2. Grows(On(h, U), On(h, U \cup {x}), x) /\ On(h, U \cup {x})[x] = h[x] BY <3>1 DEF Grows
    <3> HIDE DEF On
    <3> QED BY <3>2, TotalGrow
  <2>2. Total(On(sum, U)) = Total(On(f, U)) + Total(On(g, U)) OBVIOUS
  <2>3. sum[x] = f[x] + g[x] /\ f[x] \in Nat /\ g[x] \in Nat BY <1>0
  <2> HIDE DEF On, T
  <2>4. \A h \in {sum, f, g} : Total(On(h, U \cup {x})) = h[x] + Total(On(h, U))
                              /\ Total(On(h, U)) \in Nat
    BY <1>0, <2>1
  <2>5. Total(On(sum, U \cup {x})) = Total(On(f, U \cup {x})) + Total(On(g, U \cup {x}))
    BY <2>2, <2>3, <2>4
  <2> QED BY <2>5 DEF T
<1>3. S \in T
  <2> HIDE DEF T
  <2>1. T \in SUBSET SUBSET S BY DEF T
  <2> QED BY <1>1, <1>2, <2>1, FiniteSetInduction
<1>4. On(f, S) = f /\ On(g, S) = g /\ On(sum, S) = sum BY <1>0
<1> QED BY <1>3, <1>4 DEF sum

\* A table may be added up by rows or by columns.
LEMMA TotalSwap ==
  ASSUME NEW S, IsFiniteSet(S), NEW R, IsFiniteSet(R), NEW f \in [S -> [R -> Nat]]
  PROVE  Total([x \in S |-> Total(f[x])]) = Total([y \in R |-> Total([x \in S |-> f[x][y]])])
<1> DEFINE Rows(U) == [x \in U |-> Total(f[x])]
           Column(U, y) == [x \in U |-> f[x][y]]
           Columns(U) == [y \in R |-> Total(Column(U, y))]
           T == {U \in SUBSET S : Total(Rows(U)) = Total(Columns(U))}
<1>0. \A x \in S : Total(f[x]) \in Nat BY TotalType
<1>1. {} \in T
  <2>1. Rows({}) \in [{} -> Nat] /\ \A y : Column({}, y) \in [{} -> Nat] OBVIOUS
  <2> HIDE DEF Rows, Column
  <2>2. Total(Rows({})) = 0 /\ \A y : Total(Column({}, y)) = 0 BY <2>1, TotalEmpty
  <2>3. Columns({}) \in [R -> Nat] /\ \A y \in R : Columns({})[y] = 0 BY <2>2
  <2> HIDE DEF Columns
  <2>4. Total(Columns({})) = 0 BY <2>3, TotalZero
  <2> QED BY <2>2, <2>4
<1>2. ASSUME NEW U \in T, NEW x \in S \ U PROVE U \cup {x} \in T
  <2> DEFINE W == U \cup {x}
  <2>1. IsFiniteSet(U) /\ x \notin U BY FS_Subset
  <2>2. Total(Rows(W)) = Total(f[x]) + Total(Rows(U))
    <3>1. Grows(Rows(U), Rows(W), x) /\ Rows(W)[x] = Total(f[x]) BY <1>0, <2>1 DEF Grows
    <3> HIDE DEF Rows
    <3> QED BY <3>1, TotalGrow
  <2>3. ASSUME NEW y \in R
        PROVE  Total(Column(W, y)) = f[x][y] + Total(Column(U, y)) /\ Total(Column(U, y)) \in Nat
    <3>1. Grows(Column(U, y), Column(W, y), x) /\ Column(W, y)[x] = f[x][y] BY <2>1 DEF Grows
    <3> HIDE DEF Column
    <3> QED BY <3>1, TotalGrow
  <2>4. Columns(W) = [y \in R |-> f[x][y] + Columns(U)[y]]
    <3> HIDE DEF Column, W
    <3> QED BY <2>3
  <2>5. Columns(U) \in [R -> Nat] /\ f[x] \in [R -> Nat]
    <3> HIDE DEF Column
    <3> QED BY <2>3
  <2> HIDE DEF Columns, Rows
  <2>6. Total([y \in R |-> f[x][y] + Columns(U)[y]]) = Total(f[x]) + Total(Columns(U))
    BY <2>5, TotalAdd
  <2>7. Total(Rows(U)) = Total(Columns(U)) OBVIOUS
  <2>8. Total(Rows(W)) = Total(Columns(W)) BY <2>2, <2>4, <2>6, <2>7
  <2> QED BY <2>8
<1>3. S \in T
  <2> HIDE DEF T
  <2>1. T \in SUBSET SUBSET S BY DEF T
  <2> QED BY <1>1, <1>2, <2>1, FiniteSetInduction
<1> QED BY <1>3

\* The values of one group, of those that share a key.
Group(f, key, b) == [x \in {y \in DOMAIN f : key[y] = b} |-> f[x]]

\* Values may be added up group by group.
LEMMA TotalGroups ==
  ASSUME NEW S, IsFiniteSet(S), NEW f \in [S -> Nat],
         NEW B, IsFiniteSet(B), NEW key \in [S -> B]
  PROVE  Total([b \in B |-> Total(Group(f, key, b))]) = Total(f)
<1> DEFINE m == [x \in S |-> [b \in B |-> IF key[x] = b THEN f[x] ELSE 0]]
           Column(b) == [x \in S |-> m[x][b]]
<1>1. m \in [S -> [B -> Nat]] OBVIOUS
<1>2. ASSUME NEW x \in S PROVE Total(m[x]) = f[x]
  <2>1. PICK k \in B : k = key[x] OBVIOUS
  <2> DEFINE V == {k}
             one == [b \in V |-> m[x][b]]
  <2>2. m[x] \in [B -> Nat] /\ V \in SUBSET B /\ \A b \in B \ V : m[x][b] = 0 BY <2>1
  <2>3. one \in [V -> Nat] /\ one[k] = f[x] /\ [b \in V \ {k} |-> one[b]] \in [{} -> Nat]
    BY <2>1
  <2>4. IsFiniteSet(V) /\ k \in V BY FS_Singleton
  <2> HIDE DEF m, V
  <2>5. Total(one) = Total(m[x]) BY <2>2, TotalRestrict
  <2> HIDE DEF one
  <2>6. Total(one) = one[k] + Total([b \in V \ {k} |-> one[b]]) BY <2>3, <2>4, TotalSplit
  <2>7. Total([b \in V \ {k} |-> one[b]]) = 0 BY <2>3, TotalEmpty
  <2> QED BY <2>3, <2>5, <2>6, <2>7
<1>3. ASSUME NEW b \in B PROVE Total(Column(b)) = Total(Group(f, key, b))
  <2> DEFINE V == {y \in S : key[y] = b}
  <2>1. Column(b) \in [S -> Nat] /\ V \in SUBSET S
        /\ (\A x \in S \ V : Column(b)[x] = 0)
        /\ [x \in V |-> Column(b)[x]] = [x \in V |-> f[x]]
    OBVIOUS
  <2>2. Group(f, key, b) = [x \in V |-> f[x]] BY DEF Group
  <2> HIDE DEF Column, V, m
  <2>3. Total([x \in V |-> Column(b)[x]]) = Total(Column(b)) BY <2>1, TotalRestrict
  <2> QED BY <2>1, <2>2, <2>3
<1>4. [x \in S |-> Total(m[x])] = f
  <2> HIDE DEF m
  <2> QED BY <1>2
<1>5. [b \in B |-> Total(Column(b))] = [b \in B |-> Total(Group(f, key, b))]
  <2> HIDE DEF Column
  <2> QED BY <1>3
<1>6. Total([x \in S |-> Total(m[x])]) = Total([b \in B |-> Total(Column(b))])
  <2> HIDE DEF m
  <2> QED BY <1>1, TotalSwap DEF Column
<1> QED BY <1>4, <1>5, <1>6
=============================================================================
