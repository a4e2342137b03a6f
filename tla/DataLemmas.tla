------------------------------ MODULE DataLemmas ------------------------------
(***************************************************************************)
(* Lemmas about finite data that the proofs about the components share.    *)
(* An induction is stated for a set of things that have the property, so   *)
(* that it is a first-order fact: the members that lack it would have a    *)
(* least one.                                                              *)
(***************************************************************************)
EXTENDS Functions, FiniteSetTheorems, WellFoundedInduction, TLAPS

\* A set of naturals has a least member.
LEMMA LeastNatural ==
  ASSUME NEW T \in SUBSET Nat, T # {}
  PROVE  \E m \in T : \A k \in T : m <= k
<1>1. PICK m \in T : \A k \in T : ~(<<k, m>> \in OpToRel(<, Nat))
  BY NatLessThanWellFounded, WFMin
<1>2. \A k \in T : ~(k < m)
  BY <1>1 DEF OpToRel
<1>3. QED
  BY <1>2

\* A set of naturals that has 0 and the successor of each of its members is Nat.
LEMMA NaturalsBySuccessor ==
  ASSUME NEW F, 0 \in F, \A n \in Nat : n \in F => n + 1 \in F
  PROVE  Nat \subseteq F
<1>1. SUFFICES ASSUME Nat \ F # {} PROVE FALSE
  OBVIOUS
<1>2. PICK m \in Nat \ F : \A k \in Nat \ F : m <= k
  BY <1>1, LeastNatural
<1>3. m # 0 /\ m - 1 \in Nat /\ m - 1 \in F
  BY <1>2
<1>4. QED
  BY <1>2, <1>3

\* A set of subsets of a finite set that has a subset when it has all those
\* with one member less has them all.
LEMMA SubsetsByRemoval ==
  ASSUME NEW S, IsFiniteSet(S), NEW F,
         \A T \in SUBSET S : (\A x \in T : T \ {x} \in F) => T \in F
  PROVE  SUBSET S \subseteq F
<1> DEFINE Upto == {n \in Nat : \A T \in SUBSET S : Cardinality(T) <= n => T \in F}
<1>1. \A T \in SUBSET S : IsFiniteSet(T) /\ Cardinality(T) \in Nat /\ Cardinality(T) <= Cardinality(S)
  BY FS_Subset, FS_CardinalityType
<1>2. \A T \in SUBSET S : \A x \in T : Cardinality(T \ {x}) = Cardinality(T) - 1
  BY <1>1, FS_RemoveElement
<1>3. 0 \in Upto
  BY <1>1, FS_EmptySet
<1>4. ASSUME NEW n \in Nat, n \in Upto PROVE n + 1 \in Upto
  BY <1>1, <1>2, <1>4
<1>5. Nat \subseteq Upto
  <2> HIDE DEF Upto
  <2> QED BY <1>3, <1>4, NaturalsBySuccessor
<1>6. QED
  BY <1>1, <1>5, FS_CardinalityType

\* A function has finitely many values on a finite set.
LEMMA ValuesAreFinite ==
  ASSUME NEW S, IsFiniteSet(S), NEW f, f = [x \in S |-> f[x]]
  PROVE  IsFiniteSet({f[x] : x \in S})
<1>1. f \in Surjection(S, {f[x] : x \in S})
  BY DEF Surjection
<1>2. QED
  BY <1>1, FS_Surjection

-----------------------------------------------------------------------------
\* Sums

\* The member of a set that a fold takes first
First(S) == CHOOSE x \in S : TRUE

\* The recursive function of a fold that adds up f over the subsets of S
Sums(f, S, sum) ==
  sum = [s \in SUBSET S |-> IF s = {} THEN 0 ELSE f[First(s)] + sum[s \ {First(s)}]]

LEMMA SumIsChosen == \A f, S : SumFunctionOnSet(f, S) = (CHOOSE sum : Sums(f, S, sum))[S]
BY DEF SumFunctionOnSet, FoldFunctionOnSet, MapThenFoldSet, Sums, First

LEMMA FirstIsMember == \A S : S # {} => First(S) \in S
BY DEF First

\* That function exists: it can be built by the number of members.
LEMMA SumsExist ==
  ASSUME NEW f, NEW S, IsFiniteSet(S)
  PROVE  \E sum : Sums(f, S, sum)
<1> DEFINE Rest(s) == s \ {First(s)}
           Fits(sum, n) == \A s \in SUBSET S :
             Cardinality(s) <= n => sum[s] = IF s = {} THEN 0 ELSE f[First(s)] + sum[Rest(s)]
           Upto == {n \in Nat : \E sum : Fits(sum, n)}
<1>1. \A s \in SUBSET S : IsFiniteSet(s) /\ Cardinality(s) \in Nat /\ Cardinality(s) <= Cardinality(S)
  BY FS_Subset, FS_CardinalityType
<1>2. \A s \in SUBSET S : s # {} => Rest(s) \in SUBSET S /\ Cardinality(Rest(s)) = Cardinality(s) - 1
  BY <1>1, FirstIsMember, FS_RemoveElement
<1>3. \A s \in SUBSET S : Cardinality(s) = 0 <=> s = {}
  BY <1>1, FS_EmptySet
<1> HIDE DEF Rest
<1>4. 0 \in Upto
  <2>1. Fits([s \in SUBSET S |-> 0], 0)
    BY <1>1, <1>3
  <2>2. QED
    BY <2>1
<1>5. ASSUME NEW n \in Nat, n \in Upto PROVE n + 1 \in Upto
  <2>1. PICK sum : Fits(sum, n)
    BY <1>5
  <2> DEFINE more == [s \in SUBSET S |->
               IF Cardinality(s) <= n THEN sum[s] ELSE f[First(s)] + sum[Rest(s)]]
  <2>2. ASSUME NEW s \in SUBSET S, Cardinality(s) <= n + 1
        PROVE  more[s] = IF s = {} THEN 0 ELSE f[First(s)] + more[Rest(s)]
    <3>1. CASE s = {}
      <4>1. Cardinality(s) <= n /\ more[s] = sum[s]
        BY <1>1, <1>3, <3>1
      <4>2. QED
        BY <2>1, <3>1, <4>1
    <3>2. CASE s # {}
      <4>1. Rest(s) \in SUBSET S /\ Cardinality(Rest(s)) <= n
        BY <1>1, <1>2, <2>2, <3>2
      <4>2. more[Rest(s)] = sum[Rest(s)]
        BY <4>1
      <4>3. more[s] = f[First(s)] + sum[Rest(s)]
        BY <2>1, <3>2
      <4>4. QED
        BY <3>2, <4>2, <4>3
    <3>3. QED
      BY <3>1, <3>2
  <2>3. Fits(more, n + 1)
    <3> HIDE DEF more
    <3> QED BY <2>2
  <2>4. QED
    <3> HIDE DEF more, Fits
    <3> QED BY <2>3
<1>6. PICK sum : Fits(sum, Cardinality(S))
  <2>1. Nat \subseteq Upto
    <3> HIDE DEF Upto
    <3> QED BY <1>4, <1>5, NaturalsBySuccessor
  <2>2. QED
    BY <1>1, <2>1
<1> DEFINE total == [s \in SUBSET S |-> sum[s]]
<1>7. ASSUME NEW s \in SUBSET S
      PROVE  total[s] = IF s = {} THEN 0 ELSE f[First(s)] + total[Rest(s)]
  BY <1>1, <1>2, <1>6
<1>8. Sums(f, S, total)
  <2>1. total = [s \in SUBSET S |-> IF s = {} THEN 0 ELSE f[First(s)] + total[Rest(s)]]
    <3>1. total = [s \in SUBSET S |-> total[s]]
      OBVIOUS
    <3> HIDE DEF total
    <3>2. QED
      BY <1>7, <3>1
  <2>2. QED
    BY <2>1, Zenon DEF Sums, Rest
<1>9. QED
  BY <1>8

\* Two of them agree where both are defined.
LEMMA SumsAgree ==
  ASSUME NEW f, NEW S, IsFiniteSet(S), NEW T, S \subseteq T,
         NEW a, Sums(f, S, a), NEW b, Sums(f, T, b)
  PROVE  \A s \in SUBSET S : a[s] = b[s]
<1> DEFINE F == {s \in SUBSET S : a[s] = b[s]}
<1>1. ASSUME NEW s \in SUBSET S, \A x \in s : s \ {x} \in F PROVE s \in F
  <2>1. a[s] = IF s = {} THEN 0 ELSE f[First(s)] + a[s \ {First(s)}]
    BY DEF Sums
  <2>2. b[s] = IF s = {} THEN 0 ELSE f[First(s)] + b[s \ {First(s)}]
    BY DEF Sums
  <2>3. QED
    BY <1>1, <2>1, <2>2, FirstIsMember
<1>2. SUBSET S \subseteq F
  <2> HIDE DEF F
  <2> QED BY <1>1, SubsetsByRemoval
<1>3. QED
  BY <1>2

\* A sum is 0, or its first term and the sum of the others.
LEMMA SumEquation ==
  ASSUME NEW f, NEW S, IsFiniteSet(S)
  PROVE  SumFunctionOnSet(f, S) = IF S = {} THEN 0 ELSE f[First(S)] + SumFunctionOnSet(f, S \ {First(S)})
<1> DEFINE a == CHOOSE sum : Sums(f, S, sum)
           R == S \ {First(S)}
           b == CHOOSE sum : Sums(f, R, sum)
<1>1. IsFiniteSet(R)
  BY FS_RemoveElement
<1>2. Sums(f, S, a) /\ Sums(f, R, b)
  BY <1>1, SumsExist
<1>3. SumFunctionOnSet(f, S) = a[S] /\ SumFunctionOnSet(f, R) = b[R]
  BY SumIsChosen
<1> HIDE DEF a, b
<1>4. a[R] = b[R]
  BY <1>1, <1>2, SumsAgree
<1>5. a[S] = IF S = {} THEN 0 ELSE f[First(S)] + a[R]
  BY <1>2 DEF Sums
<1>6. QED
  BY <1>3, <1>4, <1>5

LEMMA SumOfNone == \A f : SumFunctionOnSet(f, {}) = 0
BY SumEquation, FS_EmptySet

\* The sum of naturals is a natural, and the sum of integers an integer.
LEMMA SumType ==
  ASSUME NEW S, IsFiniteSet(S), NEW f, NEW N \in {Nat, Int}, \A x \in S : f[x] \in N
  PROVE  SumFunctionOnSet(f, S) \in N
<1> DEFINE F == {s \in SUBSET S : SumFunctionOnSet(f, s) \in N}
<1>1. ASSUME NEW s \in SUBSET S, \A x \in s : s \ {x} \in F PROVE s \in F
  <2>1. SumFunctionOnSet(f, s) = IF s = {} THEN 0 ELSE f[First(s)] + SumFunctionOnSet(f, s \ {First(s)})
    BY SumEquation, FS_Subset
  <2>2. CASE s = {}
    BY <2>1, <2>2
  <2>3. CASE s # {}
    BY <1>1, <2>1, <2>3, FirstIsMember
  <2>4. QED
    BY <2>2, <2>3
<1>2. SUBSET S \subseteq F
  <2> HIDE DEF F
  <2> QED BY <1>1, SubsetsByRemoval
<1>3. QED
  BY <1>2

\* Any term can be taken out first.
LEMMA SumTakeOut ==
  ASSUME NEW S, IsFiniteSet(S), NEW f, \A x \in S : f[x] \in Int
  PROVE  \A x \in S : SumFunctionOnSet(f, S) = f[x] + SumFunctionOnSet(f, S \ {x})
<1> DEFINE F == {s \in SUBSET S : \A x \in s : SumFunctionOnSet(f, s) = f[x] + SumFunctionOnSet(f, s \ {x})}
<1>1. ASSUME NEW s \in SUBSET S, \A x \in s : s \ {x} \in F PROVE s \in F
  <2> SUFFICES ASSUME NEW x \in s PROVE SumFunctionOnSet(f, s) = f[x] + SumFunctionOnSet(f, s \ {x})
    OBVIOUS
  <2> DEFINE y == First(s)
  <2>1. y \in s /\ SumFunctionOnSet(f, s) = f[y] + SumFunctionOnSet(f, s \ {y})
    BY SumEquation, FirstIsMember, FS_Subset
  <2>2. CASE x = y
    BY <2>1, <2>2
  <2>3. CASE x # y
    <3> HIDE DEF y
    <3>1. SumFunctionOnSet(f, s \ {y}) = f[x] + SumFunctionOnSet(f, (s \ {y}) \ {x})
      BY <1>1, <2>1, <2>3
    <3>2. SumFunctionOnSet(f, s \ {x}) = f[y] + SumFunctionOnSet(f, (s \ {x}) \ {y})
      BY <1>1, <2>1, <2>3
    <3>3. (s \ {y}) \ {x} = (s \ {x}) \ {y}
      OBVIOUS
    <3>4. SumFunctionOnSet(f, (s \ {x}) \ {y}) \in Int /\ f[x] \in Int /\ f[y] \in Int
      <4>1. IsFiniteSet((s \ {x}) \ {y})
        BY FS_Subset
      <4>2. QED
        BY <2>1, <4>1, SumType
    <3>5. \A m, n, r \in Int : m + (n + r) = n + (m + r)
      OBVIOUS
    <3>6. SumFunctionOnSet(f, s) = f[y] + (f[x] + SumFunctionOnSet(f, (s \ {x}) \ {y}))
      BY <2>1, <3>1, <3>3
    <3>7. QED
      BY <3>2, <3>4, <3>5, <3>6
  <2>4. QED
    BY <2>2, <2>3
<1>2. SUBSET S \subseteq F
  <2> HIDE DEF F
  <2> QED BY <1>1, SubsetsByRemoval
<1>3. QED
  BY <1>2

\* One term more
LEMMA SumAdd ==
  ASSUME NEW S, IsFiniteSet(S), NEW x, x \notin S, NEW f, \A y \in S \cup {x} : f[y] \in Int
  PROVE  SumFunctionOnSet(f, S \cup {x}) = f[x] + SumFunctionOnSet(f, S)
<1>1. IsFiniteSet(S \cup {x}) /\ (S \cup {x}) \ {x} = S
  BY FS_AddElement
<1>2. QED
  BY <1>1, SumTakeOut

\* Functions that agree on a set have the same sum over it.
LEMMA SumSame ==
  ASSUME NEW S, IsFiniteSet(S), NEW f, NEW g, \A x \in S : f[x] = g[x]
  PROVE  SumFunctionOnSet(f, S) = SumFunctionOnSet(g, S)
<1> DEFINE F == {s \in SUBSET S : SumFunctionOnSet(f, s) = SumFunctionOnSet(g, s)}
<1>1. ASSUME NEW s \in SUBSET S, \A x \in s : s \ {x} \in F PROVE s \in F
  <2>1. \A h : SumFunctionOnSet(h, s) = IF s = {} THEN 0 ELSE h[First(s)] + SumFunctionOnSet(h, s \ {First(s)})
    BY SumEquation, FS_Subset
  <2>2. s # {} => f[First(s)] = g[First(s)] /\ SumFunctionOnSet(f, s \ {First(s)}) = SumFunctionOnSet(g, s \ {First(s)})
    BY <1>1, FirstIsMember
  <2>3. QED
    BY <2>1, <2>2
<1>2. SUBSET S \subseteq F
  <2> HIDE DEF F
  <2> QED BY <1>1, SubsetsByRemoval
<1>3. QED
  BY <1>2

\* Terms that are 0 do not count.
LEMMA SumOfNonzero ==
  ASSUME NEW S, IsFiniteSet(S), NEW R \in SUBSET S,
         NEW f, \A x \in S : f[x] \in Int, \A x \in S \ R : f[x] = 0
  PROVE  SumFunctionOnSet(f, S) = SumFunctionOnSet(f, R)
<1> DEFINE F == {s \in SUBSET S : SumFunctionOnSet(f, s) = SumFunctionOnSet(f, s \cap R)}
<1>1. ASSUME NEW s \in SUBSET S, \A x \in s : s \ {x} \in F PROVE s \in F
  <2>1. CASE s \subseteq R
    <3>1. s \cap R = s
      BY <2>1
    <3>2. QED
      BY <3>1
  <2>2. CASE ~(s \subseteq R)
    <3>1. PICK x \in s : x \notin R
      BY <2>2
    <3>2. IsFiniteSet(s) /\ IsFiniteSet(s \ {x})
      BY FS_Subset
    <3>3. SumFunctionOnSet(f, s) = f[x] + SumFunctionOnSet(f, s \ {x})
      BY <3>2, SumTakeOut
    <3>4. f[x] = 0 /\ SumFunctionOnSet(f, s \ {x}) \in Int
      BY <3>1, <3>2, SumType
    <3>5. SumFunctionOnSet(f, s \ {x}) = SumFunctionOnSet(f, (s \ {x}) \cap R) /\ (s \ {x}) \cap R = s \cap R
      BY <1>1, <3>1
    <3>6. SumFunctionOnSet(f, s) = SumFunctionOnSet(f, s \ {x})
      BY <3>3, <3>4
    <3>7. QED
      BY <3>5, <3>6
  <2>3. QED
    BY <2>1, <2>2
<1>2. SUBSET S \subseteq F
  <2> HIDE DEF F
  <2> QED BY <1>1, SubsetsByRemoval
<1>3. S \in F /\ S \cap R = R
  BY <1>2
<1>4. QED
  BY <1>3

\* One term changes.
LEMMA SumUpdate ==
  ASSUME NEW S, IsFiniteSet(S), NEW f \in [S -> Int], NEW x \in S, NEW v \in Int
  PROVE  SumFunctionOnSet([f EXCEPT ![x] = v], S) = SumFunctionOnSet(f, S) - f[x] + v
<1> DEFINE g == [f EXCEPT ![x] = v]
           R == S \ {x}
<1>1. IsFiniteSet(R)
  BY FS_RemoveElement
<1>2. SumFunctionOnSet(f, S) = f[x] + SumFunctionOnSet(f, R) /\ SumFunctionOnSet(f, R) \in Int
  BY <1>1, SumTakeOut, SumType
<1>3. SumFunctionOnSet(g, S) = v + SumFunctionOnSet(g, R)
  <2>1. g \in [S -> Int] /\ g[x] = v
    OBVIOUS
  <2> HIDE DEF g
  <2>2. QED
    BY <2>1, SumTakeOut
<1>4. SumFunctionOnSet(g, R) = SumFunctionOnSet(f, R)
  <2>1. \A y \in R : g[y] = f[y]
    OBVIOUS
  <2> HIDE DEF g
  <2>2. QED
    BY <1>1, <2>1, SumSame
<1>5. QED
  BY <1>2, <1>3, <1>4

\* Sums are added, and scaled, term by term.
LEMMA SumPlus ==
  ASSUME NEW S, IsFiniteSet(S), NEW f, NEW g, NEW h,
         \A x \in S : f[x] \in Int /\ g[x] \in Int /\ h[x] = f[x] + g[x]
  PROVE  SumFunctionOnSet(h, S) = SumFunctionOnSet(f, S) + SumFunctionOnSet(g, S)
<1> DEFINE F == {s \in SUBSET S : SumFunctionOnSet(h, s) = SumFunctionOnSet(f, s) + SumFunctionOnSet(g, s)}
<1>1. ASSUME NEW s \in SUBSET S, \A x \in s : s \ {x} \in F PROVE s \in F
  <2> DEFINE x == First(s)
             r == s \ {x}
  <2>1. \A e : SumFunctionOnSet(e, s) = IF s = {} THEN 0 ELSE e[x] + SumFunctionOnSet(e, r)
    BY SumEquation, FS_Subset
  <2>2. CASE s = {}
    BY <2>1, <2>2
  <2>3. CASE s # {}
    <3>1. x \in s /\ x \in S /\ IsFiniteSet(r)
      BY <2>3, FirstIsMember, FS_Subset
    <3>2. r \in F
      BY <1>1, <3>1
    <3>3. SumFunctionOnSet(f, r) \in Int /\ SumFunctionOnSet(g, r) \in Int
      BY <3>1, SumType
    <3>4. SumFunctionOnSet(h, r) = SumFunctionOnSet(f, r) + SumFunctionOnSet(g, r)
      BY <3>2
    <3>5. f[x] \in Int /\ g[x] \in Int /\ h[x] = f[x] + g[x]
      BY <3>1
    <3> HIDE DEF x, r
    <3>6. SumFunctionOnSet(h, s) = SumFunctionOnSet(f, s) + SumFunctionOnSet(g, s)
      BY <2>1, <2>3, <3>3, <3>4, <3>5
    <3>7. QED
      BY <3>6
  <2>4. QED
    BY <2>2, <2>3
<1>2. SUBSET S \subseteq F
  <2> HIDE DEF F
  <2> QED BY <1>1, SubsetsByRemoval
<1>3. QED
  BY <1>2

LEMMA SumScaled ==
  ASSUME NEW S, IsFiniteSet(S), NEW c \in Int, NEW f, NEW h,
         \A x \in S : f[x] \in Int /\ h[x] = c * f[x]
  PROVE  SumFunctionOnSet(h, S) = c * SumFunctionOnSet(f, S)
<1> DEFINE F == {s \in SUBSET S : SumFunctionOnSet(h, s) = c * SumFunctionOnSet(f, s)}
<1>1. ASSUME NEW s \in SUBSET S, \A x \in s : s \ {x} \in F PROVE s \in F
  <2> DEFINE x == First(s)
             r == s \ {x}
  <2>1. \A e : SumFunctionOnSet(e, s) = IF s = {} THEN 0 ELSE e[x] + SumFunctionOnSet(e, r)
    BY SumEquation, FS_Subset
  <2>2. CASE s = {}
    BY <2>1, <2>2
  <2>3. CASE s # {}
    <3>1. x \in s /\ x \in S /\ IsFiniteSet(r)
      BY <2>3, FirstIsMember, FS_Subset
    <3>2. r \in F
      BY <1>1, <3>1
    <3>3. SumFunctionOnSet(f, r) \in Int
      BY <3>1, SumType
    <3>4. SumFunctionOnSet(h, r) = c * SumFunctionOnSet(f, r)
      BY <3>2
    <3>5. f[x] \in Int /\ h[x] = c * f[x]
      BY <3>1
    <3> HIDE DEF x, r
    <3>6. \A m, n \in Int : c * m + c * n = c * (m + n)
      OBVIOUS
    <3>7. SumFunctionOnSet(h, s) = c * f[x] + c * SumFunctionOnSet(f, r)
      BY <2>1, <2>3, <3>4, <3>5
    <3>8. SumFunctionOnSet(f, s) = f[x] + SumFunctionOnSet(f, r)
      BY <2>1, <2>3
    <3>9. QED
      BY <3>3, <3>5, <3>6, <3>7, <3>8
  <2>4. QED
    BY <2>2, <2>3
<1>2. SUBSET S \subseteq F
  <2> HIDE DEF F
  <2> QED BY <1>1, SubsetsByRemoval
<1>3. QED
  BY <1>2

\* Larger terms make a larger sum.
LEMMA SumOrdered ==
  ASSUME NEW S, IsFiniteSet(S), NEW f, NEW g,
         \A x \in S : f[x] \in Int /\ g[x] \in Int /\ f[x] <= g[x]
  PROVE  SumFunctionOnSet(f, S) <= SumFunctionOnSet(g, S)
<1> DEFINE d == [x \in S |-> g[x] - f[x]]
<1>1. \A x \in S : d[x] \in Nat /\ g[x] = f[x] + d[x]
  OBVIOUS
<1> HIDE DEF d
<1>2. SumFunctionOnSet(g, S) = SumFunctionOnSet(f, S) + SumFunctionOnSet(d, S)
  BY <1>1, SumPlus
<1>3. SumFunctionOnSet(f, S) \in Int /\ SumFunctionOnSet(d, S) \in Nat
  BY <1>1, SumType
<1>4. QED
  BY <1>2, <1>3

\* So do more of them.
LEMMA SumOfMore ==
  ASSUME NEW S, IsFiniteSet(S), NEW R \in SUBSET S, NEW f, \A x \in S : f[x] \in Nat
  PROVE  SumFunctionOnSet(f, R) <= SumFunctionOnSet(f, S)
<1> DEFINE g == [x \in S |-> IF x \in R THEN f[x] ELSE 0]
<1>1. /\ \A x \in S : g[x] \in Int /\ f[x] \in Int /\ g[x] <= f[x]
      /\ \A x \in S \ R : g[x] = 0
      /\ \A x \in R : g[x] = f[x]
  OBVIOUS
<1> HIDE DEF g
<1>2. SumFunctionOnSet(g, S) <= SumFunctionOnSet(f, S)
  BY <1>1, SumOrdered
<1>3. SumFunctionOnSet(g, S) = SumFunctionOnSet(g, R)
  BY <1>1, SumOfNonzero
<1>4. SumFunctionOnSet(g, R) = SumFunctionOnSet(f, R)
  BY <1>1, SumSame, FS_Subset
<1>5. QED
  BY <1>2, <1>3, <1>4
-----------------------------------------------------------------------------
\* Sorted listings

\* A finite set of naturals can be listed in ascending and in descending order.
LEMMA SortedListings ==
  ASSUME NEW S \in SUBSET Nat, IsFiniteSet(S)
  PROVE  /\ \E s \in [1..Cardinality(S) -> S] : \A i, j \in 1..Cardinality(S) : i < j => s[i] < s[j]
         /\ \E s \in [1..Cardinality(S) -> S] : \A i, j \in 1..Cardinality(S) : i < j => s[i] > s[j]
<1> DEFINE Up(s, n)   == \A i, j \in 1..n : i < j => s[i] < s[j]
           Down(s, n) == \A i, j \in 1..n : i < j => s[i] > s[j]
           F == {T \in SUBSET S :
                   /\ \E s \in [1..Cardinality(T) -> T] : Up(s, Cardinality(T))
                   /\ \E s \in [1..Cardinality(T) -> T] : Down(s, Cardinality(T))}
<1>1. ASSUME NEW T \in SUBSET S, \A x \in T : T \ {x} \in F PROVE T \in F
  <2>1. CASE T = {}
    <3>1. Cardinality(T) = 0
      BY <2>1, FS_EmptySet
    <3>2. [x \in {} |-> x] \in [1..0 -> T]
      OBVIOUS
    <3>3. QED
      BY <3>1, <3>2
  <2>2. CASE T # {}
    <3>1. PICK m \in T : \A k \in T : m <= k
      BY <2>2, LeastNatural
    <3> DEFINE R == T \ {m}
               n == Cardinality(R)
    <3>2. n \in Nat /\ Cardinality(T) = n + 1 /\ \A k \in R : m < k
      <4>1. IsFiniteSet(T) /\ IsFiniteSet(R) /\ n = Cardinality(T) - 1
        BY FS_Subset, FS_RemoveElement
      <4>2. n \in Nat /\ Cardinality(T) \in Nat
        BY <4>1, FS_CardinalityType
      <4>3. QED
        BY <3>1, <4>1, <4>2
    <3>3. R \in F
      BY <1>1
    <3>4. PICK a \in [1..n -> R] : Up(a, n)
      BY <3>3
    <3>5. PICK d \in [1..n -> R] : Down(d, n)
      BY <3>3
    <3> HIDE DEF n
    <3> DEFINE up   == [i \in 1..(n + 1) |-> IF i = 1 THEN m ELSE a[i - 1]]
               down == [i \in 1..(n + 1) |-> IF i = n + 1 THEN m ELSE d[i]]
    <3>6. up \in [1..(n + 1) -> T] /\ Up(up, n + 1)
      <4>1. \A i \in 1..(n + 1) : i # 1 => i - 1 \in 1..n /\ a[i - 1] \in R
        BY <3>2
      <4>2. \A i, j \in 1..(n + 1) : i < j => j # 1 /\ (i = 1 \/ i - 1 < j - 1)
        BY <3>2
      <4>3. QED
        BY <3>1, <3>2, <3>4, <4>1, <4>2
    <3>7. down \in [1..(n + 1) -> T] /\ Down(down, n + 1)
      <4>1. \A i \in 1..(n + 1) : i # n + 1 => i \in 1..n /\ d[i] \in R
        BY <3>2
      <4>2. \A i, j \in 1..(n + 1) : i < j => i # n + 1
        BY <3>2
      <4>3. QED
        BY <3>1, <3>2, <3>5, <4>1, <4>2
    <3>8. QED
      <4> HIDE DEF up, down
      <4> QED BY <3>2, <3>6, <3>7
  <2>3. QED
    BY <2>1, <2>2
<1>2. SUBSET S \subseteq F
  <2> HIDE DEF F
  <2> QED BY <1>1, SubsetsByRemoval
<1>3. QED
  BY <1>2

\* A listing without repetition as long as its set leaves nothing out.
LEMMA ListingIsOnto ==
  ASSUME NEW S, IsFiniteSet(S), NEW s \in [1..Cardinality(S) -> S],
         \A i, j \in 1..Cardinality(S) : i # j => s[i] # s[j]
  PROVE  \A x \in S : \E i \in 1..Cardinality(S) : s[i] = x
<1>1. Cardinality(S) \in Nat
  BY FS_CardinalityType
<1>2. IsFiniteSet(1..Cardinality(S)) /\ Cardinality(1..Cardinality(S)) = Cardinality(S)
  BY <1>1, FS_Interval
<1>3. s \in Injection(1..Cardinality(S), S)
  BY DEF Injection, IsInjective
<1>4. s \in Surjection(1..Cardinality(S), S)
  BY <1>2, <1>3, FS_Injection
<1>5. QED
  BY <1>4 DEF Surjection
=============================================================================
