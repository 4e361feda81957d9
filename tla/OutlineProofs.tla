---------------------------- MODULE OutlineProofs ----------------------------
(***************************************************************************)
(* Lemmas for the proofs about outlines, theorems about the functions that *)
(* traverse them, and lemmas about what becomes of the caches and the lines*)
(* when regions of nodes change places, are cut out or are sorted.         *)
(***************************************************************************)
EXTENDS OutlineSort, FiniteSetTheorems, SequenceTheorems, WellFoundedInduction, TLAPS

-----------------------------------------------------------------------------
(* Least and greatest elements.                                            *)

LEMMA LeastElement ==
  ASSUME NEW S \in SUBSET Nat, S # {}
  PROVE  Min(S) \in S /\ \A x \in S : Min(S) <= x
<1>1. PICK n \in S : TRUE
  OBVIOUS
<1> DEFINE T == {0 .. x : x \in S \cap 0 .. n}
<1>2. T \subseteq SUBSET (0 .. n) /\ T # {}
  OBVIOUS
<1>3. IsWellFoundedOn(StrictSubsetOrdering(0 .. n), SUBSET (0 .. n))
  <2>0. IsFiniteSet(0 .. n)
    <3> n \in Int
      OBVIOUS
    <3> QED
      BY FS_Interval
  <2>1. FiniteSubsetsOf(0 .. n) = SUBSET (0 .. n)
    BY <2>0, FS_FiniteSubsetsOfFinite, Zenon
  <2>2. IsWellFoundedOn(StrictSubsetOrdering(0 .. n), FiniteSubsetsOf(0 .. n))
    BY FS_StrictSubsetOrderingWellFounded
  <2> QED
    BY <2>1, <2>2
<1>4. PICK t \in T : \A u \in T : ~(<<u, t>> \in StrictSubsetOrdering(0 .. n))
  BY <1>2, <1>3, WFMin, Zenon
<1>5. PICK m \in S \cap 0 .. n : t = 0 .. m
  OBVIOUS
<1>6. ASSUME NEW x \in S PROVE m <= x
  <2> SUFFICES ASSUME x < m PROVE FALSE
    BY <1>6
  <2>1. 0 .. x \in T /\ 0 .. x \subseteq t /\ m \in t /\ m \notin 0 .. x
    BY <1>5, <1>6
  <2>2. <<0 .. x, t>> \in StrictSubsetOrdering(0 .. n)
    BY <1>2, <2>1 DEF StrictSubsetOrdering
  <2> QED
    BY <1>4, <2>1, <2>2
<1> QED
  BY <1>6 DEF Min

LEMMA GreatestElement ==
  ASSUME NEW n \in Nat, NEW S \in SUBSET (0 .. n), S # {}
  PROVE  Max(S) \in S /\ \A x \in S : x <= Max(S)
<1> DEFINE T == {y \in 0 .. n : n - y \in S}
<1>1. T \in SUBSET Nat /\ T # {}
  <2>1. PICK x \in S : TRUE
    OBVIOUS
  <2>2. x \in 0 .. n /\ n - x \in 0 .. n /\ n - (n - x) = x
    OBVIOUS
  <2>3. n - x \in T
    BY <2>2
  <2>4. T \in SUBSET Nat
    OBVIOUS
  <2> HIDE DEF T
  <2> QED
    BY <2>3, <2>4
<1>2. Min(T) \in T /\ \A y \in T : Min(T) <= y
  <2> HIDE DEF T
  <2> QED
    BY <1>1, LeastElement
<1>3. ASSUME NEW x \in S PROVE x <= n - Min(T)
  <2>1. x \in 0 .. n /\ n - x \in 0 .. n /\ n - (n - x) = x
    OBVIOUS
  <2>2. Min(T) <= n - x
    BY <1>2, <2>1
  <2>3. Min(T) \in 0 .. n
    BY <1>2
  <2> HIDE DEF T
  <2> QED
    BY <2>1, <2>2, <2>3
<1> QED
  BY <1>2, <1>3 DEF Max

-----------------------------------------------------------------------------
(* Numbers in order.                                                       *)

\* The number of members of S below x.
Rank(S, x) == Cardinality({y \in S : y < x})

LEMMA RankIs ==
  ASSUME NEW n \in Nat, NEW S \in SUBSET (1 .. n), NEW x \in S
  PROVE  /\ Rank(S, x) \in 0 .. Cardinality(S) - 1
         /\ \A y \in S : x < y => Rank(S, x) < Rank(S, y)
         /\ IsFiniteSet(S) /\ Cardinality(S) \in Nat
<1> DEFINE below(y) == {z \in S : z < y}
<1>1. IsFiniteSet(S) /\ \A T \in SUBSET S : IsFiniteSet(T)
  <2>1. IsFiniteSet(1 .. n)
    <3> n \in Int /\ 1 \in Int
      OBVIOUS
    <3> QED
      BY FS_Interval
  <2>2. IsFiniteSet(S)
    BY <2>1, FS_Subset
  <2> QED
    BY <2>2, FS_Subset
<1>2. below(x) \subseteq S /\ x \notin below(x)
  OBVIOUS
<1>3. /\ IsFiniteSet(below(x)) /\ Cardinality(below(x)) \in Nat /\ Cardinality(S) \in Nat
      /\ IsFiniteSet(below(x) \cup {x}) /\ Cardinality(below(x) \cup {x}) = Cardinality(below(x)) + 1
  <2>1. IsFiniteSet(below(x))
    BY <1>1, <1>2
  <2> HIDE DEF below
  <2> QED
    BY <1>1, <1>2, <2>1, FS_AddElement, FS_CardinalityType
<1>4. ASSUME NEW T \in SUBSET S, below(x) \cup {x} \subseteq T
      PROVE  Cardinality(below(x)) < Cardinality(T) /\ Cardinality(T) \in Nat
  <2>1. Cardinality(below(x) \cup {x}) <= Cardinality(T)
    BY <1>1, <1>4, FS_Subset
  <2>2. Cardinality(T) \in Nat
    BY <1>1, FS_CardinalityType
  <2> HIDE DEF below
  <2> QED
    BY <1>3, <2>1, <2>2
<1>5. Cardinality(below(x)) < Cardinality(S)
  <2>1. below(x) \cup {x} \subseteq S
    OBVIOUS
  <2> HIDE DEF below
  <2> QED
    BY <1>4, <2>1
<1>6. ASSUME NEW y \in S, x < y PROVE Cardinality(below(x)) < Cardinality(below(y))
  <2>0. \A z \in S : z \in Int
    OBVIOUS
  <2>1. below(x) \cup {x} \subseteq below(y) /\ below(y) \in SUBSET S
    <3>1. x \in below(y)
      BY <1>6
    <3>2. ASSUME NEW z \in S, z < x PROVE z < y
      BY <1>6, <2>0, <3>2
    <3> QED
      BY <3>1, <3>2
  <2> HIDE DEF below
  <2> QED
    BY <1>4, <2>1
<1> HIDE DEF below
<1>7. Rank(S, x) = Cardinality(below(x)) /\ \A y : Rank(S, y) = Cardinality(below(y))
  BY DEF Rank, below
<1> QED
  BY <1>1, <1>3, <1>5, <1>6, <1>7

\* Every rank is that of a member.
LEMMA RanksAre ==
  ASSUME NEW n \in Nat, NEW S \in SUBSET (1 .. n), NEW i \in 1 .. Cardinality(S)
  PROVE  \E x \in S : Rank(S, x) = i - 1
<1> DEFINE Bad == {k \in Nat : k >= 1 /\ k <= Cardinality(S) /\ ~\E x \in S : Rank(S, x) = k - 1}
<1>1. IsFiniteSet(S) /\ Cardinality(S) \in Nat
  <2>1. IsFiniteSet(1 .. n)
    <3> n \in Int /\ 1 \in Int
      OBVIOUS
    <3> QED
      BY FS_Interval
  <2> QED
    BY <2>1, FS_Subset, FS_CardinalityType
<1> SUFFICES ASSUME Bad # {} PROVE FALSE
  BY <1>1
<1>2. PICK k \in Bad : \A j \in Bad : k <= j
  <2>1. Bad \in SUBSET Nat
    OBVIOUS
  <2> HIDE DEF Bad
  <2> QED
    BY <2>1, LeastElement
<1>3. k \in Nat /\ k >= 1 /\ k <= Cardinality(S) /\ ~\E x \in S : Rank(S, x) = k - 1
  OBVIOUS
<1>a. S \in SUBSET Nat /\ \A y \in S : y \in Int
  OBVIOUS
<1> HIDE DEF Bad
<1>4. CASE k = 1
  <2>1. S # {}
    BY <1>1, <1>3, <1>4, FS_EmptySet
  <2>2. PICK x \in S : \A y \in S : x <= y
    BY <1>a, <2>1, LeastElement
  <2>3. {y \in S : y < x} = {}
    <3>1. ASSUME NEW y \in S PROVE ~(y < x)
      <4>1. y \in Int /\ x \in Int /\ x <= y
        BY <1>a, <2>2
      <4> QED
        BY <4>1
    <3> QED
      BY <3>1
  <2>4. Rank(S, x) = 0
    BY <2>3, FS_EmptySet DEF Rank
  <2> QED
    BY <1>3, <1>4, <2>4
<1>5. CASE k # 1
  <2>1. k - 1 \in Nat /\ k - 1 >= 1 /\ k - 1 <= Cardinality(S) /\ ~(k <= k - 1)
    BY <1>1, <1>3, <1>5
  <2>2. k - 1 \notin Bad
    BY <1>2, <2>1
  <2>3. PICK x \in S : Rank(S, x) = k - 1 - 1
    BY <2>1, <2>2 DEF Bad
  <2> DEFINE below == {y \in S : y < x}
             above == {y \in S : x < y}
  <2>4. /\ IsFiniteSet(below) /\ Cardinality(below) = k - 2
        /\ Cardinality(below \cup {x}) = k - 1
    <3>1. IsFiniteSet(below)
      BY <1>1, FS_Subset
    <3>2. Cardinality(below) = k - 2
      <4>1. Cardinality(below) = k - 1 - 1
        BY <2>3 DEF Rank
      <4> HIDE DEF below
      <4> QED
        BY <1>3, <4>1
    <3>3. x \notin below
      BY <1>a
    <3> HIDE DEF below
    <3>4. Cardinality(below \cup {x}) = Cardinality(below) + 1
      BY <3>1, <3>3, FS_AddElement
    <3>5. k - 2 + 1 = k - 1
      BY <1>3
    <3> QED
      BY <3>1, <3>2, <3>4, <3>5
  <2>5. above # {}
    <3> SUFFICES ASSUME above = {} PROVE FALSE
      OBVIOUS
    <3>1. S = below \cup {x}
      <4>1. ASSUME NEW y \in S PROVE y < x \/ y = x
        <5>1. y \in Int /\ x \in Int /\ ~(x < y)
          BY <1>a
        <5> QED
          BY <5>1
      <4> QED
        BY <4>1
    <3> HIDE DEF below
    <3> QED
      BY <1>3, <2>4, <3>1
  <2>6. PICK y \in above : \A z \in above : y <= z
    <3>1. above \in SUBSET Nat
      BY <1>a
    <3> HIDE DEF above
    <3> QED
      BY <2>5, <3>1, LeastElement
  <2>7. {z \in S : z < y} = below \cup {x}
    <3>1. y \in Int /\ x \in Int /\ x < y
      BY <1>a
    <3>2. ASSUME NEW z \in S
          PROVE  z < y <=> z < x \/ z = x
      <4>1. z \in Int
        BY <1>a
      <4>2. x < z => y <= z
        BY <2>6
      <4> QED
        BY <3>1, <4>1, <4>2
    <3> QED
      BY <3>2
  <2>8. Rank(S, y) = k - 1 /\ y \in S
    <3>1. Rank(S, y) = Cardinality(below \cup {x})
      BY <2>7, Zenon DEF Rank
    <3>2. y \in S
      BY <2>6
    <3> HIDE DEF below
    <3> QED
      BY <2>4, <3>1, <3>2
  <2> QED
    BY <1>3, <2>8
<1> QED
  BY <1>4, <1>5

\* Ascending(S) has just the members of S, in order.
LEMMA AscendingIs ==
  ASSUME NEW n \in Nat, NEW S \in SUBSET (1 .. n)
  PROVE  /\ Ascending(S) \in Seq(S)
         /\ \A x \in S : \E i \in 1 .. Len(Ascending(S)) : Ascending(S)[i] = x
         /\ \A i, j \in 1 .. Len(Ascending(S)) : i < j => Ascending(S)[i] < Ascending(S)[j]
<1> DEFINE N == Cardinality(S)
           s == [i \in 1 .. N |-> CHOOSE x \in S : Rank(S, x) = i - 1]
<1>1. N \in Nat
  <2>1. IsFiniteSet(1 .. n)
    <3> n \in Int /\ 1 \in Int
      OBVIOUS
    <3> QED
      BY FS_Interval
  <2> QED
    BY <2>1, FS_Subset, FS_CardinalityType
<1>2. \A i \in 1 .. N : s[i] \in S /\ Rank(S, s[i]) = i - 1
  <2>1. ASSUME NEW i \in 1 .. N
        PROVE  \E x \in S : Rank(S, x) = i - 1
    BY RanksAre
  <2> QED
    BY <2>1
<1>3. s \in Seq(S) /\ Len(s) = N
  <2>1. s \in [1 .. N -> S]
    BY <1>2
  <2> HIDE DEF s
  <2> QED
    BY <1>1, <2>1
<1>4. Ascending(S) = s
  <2>1. s \o <<>> = s
    <3> HIDE DEF s
    <3> QED
      BY <1>3
  <2> QED
    BY <2>1 DEF Ascending, Once, Rank
<1>5. \A x, y \in S : /\ Rank(S, x) \in Int /\ Rank(S, x) >= 0 /\ Rank(S, x) <= N - 1
                      /\ x < y => Rank(S, x) < Rank(S, y)
                      /\ x \in Int
  <2>1. ASSUME NEW x \in S
        PROVE  /\ Rank(S, x) \in 0 .. N - 1
               /\ \A y \in S : x < y => Rank(S, x) < Rank(S, y)
               /\ x \in Int
    <3>1. x \in Int
      OBVIOUS
    <3> QED
      BY <3>1, RankIs, Zenon
  <2> QED
    BY <1>1, <2>1
<1> HIDE DEF s
<1>6. ASSUME NEW x \in S PROVE \E i \in 1 .. N : s[i] = x
  <2>1. PICK i \in 1 .. N : Rank(S, x) = i - 1
    <3>1. PICK k \in Int : k = Rank(S, x) /\ k >= 0 /\ k <= N - 1
      BY <1>5
    <3>2. k + 1 \in 1 .. N /\ k = k + 1 - 1
      BY <1>1, <3>1
    <3> QED
      BY <3>1, <3>2
  <2>2. PICK y \in S : y = s[i]
    BY <1>2
  <2>3. Rank(S, y) = Rank(S, x)
    BY <1>2, <2>1, <2>2
  <2>4. ~(x < y) /\ ~(y < x) /\ x \in Int /\ y \in Int
    BY <1>5, <2>3
  <2> QED
    BY <2>2, <2>4
<1>7. ASSUME NEW i \in 1 .. N, NEW j \in 1 .. N, i < j PROVE s[i] < s[j]
  <2>1. PICK x \in S, y \in S : x = s[i] /\ y = s[j]
    BY <1>2
  <2>2. Rank(S, x) = i - 1 /\ Rank(S, y) = j - 1
    BY <1>2, <2>1
  <2>3. Rank(S, x) < Rank(S, y)
    BY <1>1, <1>7, <2>2
  <2>4. x < y
    BY <1>5, <2>3
  <2> QED
    BY <2>1, <2>4
<1> QED
  BY <1>3, <1>4, <1>6, <1>7

\* Two sequences of numbers in order that have the same elements are the same.
LEMMA OrderIsUnique ==
  ASSUME NEW s \in Seq(Int), NEW t \in Seq(Int),
         \A i, j \in 1 .. Len(s) : i < j => s[i] < s[j],
         \A i, j \in 1 .. Len(t) : i < j => t[i] < t[j],
         \A i \in 1 .. Len(s) : \E j \in 1 .. Len(t) : t[j] = s[i],
         \A j \in 1 .. Len(t) : \E i \in 1 .. Len(s) : s[i] = t[j]
  PROVE  s = t
<1>1. PICK m \in Nat, n \in Nat : m = Len(s) /\ n = Len(t)
  OBVIOUS
<1>2. \A i \in 1 .. m : s[i] \in Int
  BY <1>1
<1>3. \A i \in 1 .. n : t[i] \in Int
  BY <1>1
<1>4. \A i, j \in 1 .. m : i < j => s[i] < s[j]
  BY <1>1
<1>5. \A i, j \in 1 .. n : i < j => t[i] < t[j]
  BY <1>1
<1>6. \A i \in 1 .. m : \E j \in 1 .. n : t[j] = s[i]
  BY <1>1
<1>7. \A j \in 1 .. n : \E i \in 1 .. m : s[i] = t[j]
  BY <1>1
<1> DEFINE Bad == {k \in Nat : /\ k >= 1 /\ (k <= m \/ k <= n)
                               /\ ~(k <= m /\ k <= n /\ s[k] = t[k])}
<1>8. Bad = {}
  <2> SUFFICES ASSUME Bad # {} PROVE FALSE
    OBVIOUS
  <2>1. PICK k \in Bad : \A j \in Bad : k <= j
    <3>1. Bad \in SUBSET Nat
      OBVIOUS
    <3> HIDE DEF Bad
    <3> QED
      BY <3>1, LeastElement
  <2>2. k \in Nat /\ k >= 1 /\ (k <= m \/ k <= n) /\ ~(k <= m /\ k <= n /\ s[k] = t[k])
    OBVIOUS
  <2>3. \A j \in Nat : j >= 1 /\ j < k /\ (j <= m \/ j <= n) => j <= m /\ j <= n /\ s[j] = t[j]
    <3>1. ASSUME NEW j \in Nat, j >= 1, j < k, j <= m \/ j <= n
          PROVE  j <= m /\ j <= n /\ s[j] = t[j]
      <4>1. j \notin Bad
        <5> HIDE DEF Bad
        <5>1. j \in Bad => k <= j
          BY <2>1
        <5> QED
          BY <2>2, <3>1, <5>1
      <4> QED
        BY <3>1, <4>1
    <3> QED
      BY <3>1
  <2> HIDE DEF Bad
  <2>4. k <= m => k <= n
    <3> SUFFICES ASSUME k <= m, n < k PROVE FALSE
      BY <1>1, <2>2
    <3>1. PICK j \in 1 .. n : t[j] = s[k]
      BY <1>1, <1>6, <2>2
    <3>2. j < k /\ j \in 1 .. m /\ j \in Nat /\ k \in 1 .. m
      BY <1>1, <2>2
    <3>3. s[j] = t[j]
      BY <2>3, <3>2
    <3>4. s[j] < s[k] /\ s[j] \in Int /\ s[k] \in Int
      BY <1>2, <1>4, <3>2
    <3> QED
      BY <3>1, <3>3, <3>4
  <2>5. k <= n => k <= m
    <3> SUFFICES ASSUME k <= n, m < k PROVE FALSE
      BY <1>1, <2>2
    <3>1. PICK j \in 1 .. m : s[j] = t[k]
      BY <1>1, <1>7, <2>2
    <3>2. j < k /\ j \in 1 .. n /\ j \in Nat /\ k \in 1 .. n
      BY <1>1, <2>2
    <3>3. s[j] = t[j]
      BY <2>3, <3>2
    <3>4. t[j] < t[k] /\ t[j] \in Int /\ t[k] \in Int
      BY <1>3, <1>5, <3>2
    <3> QED
      BY <3>1, <3>3, <3>4
  <2>6. k \in 1 .. m /\ k \in 1 .. n /\ s[k] # t[k]
    BY <1>1, <2>2, <2>4, <2>5
  <2>7. s[k] \in Int /\ t[k] \in Int
    BY <1>2, <1>3, <2>6
  <2>8. CASE s[k] < t[k]
    <3>1. PICK j \in 1 .. n : t[j] = s[k]
      BY <1>6, <2>6
    <3>2. t[j] \in Int
      BY <1>3
    <3>3. ~(j = k) /\ ~(k < j)
      BY <1>5, <2>6, <2>7, <2>8, <3>1, <3>2
    <3>4. j < k /\ j \in Nat /\ j >= 1 /\ j <= n
      BY <2>2, <3>3
    <3>5. s[j] = t[j] /\ j \in 1 .. m
      BY <1>1, <2>3, <3>4
    <3>6. s[j] < s[k]
      BY <1>4, <2>6, <3>4, <3>5
    <3> QED
      BY <2>7, <3>1, <3>5, <3>6
  <2>9. CASE t[k] < s[k]
    <3>1. PICK j \in 1 .. m : s[j] = t[k]
      BY <1>7, <2>6
    <3>2. s[j] \in Int
      BY <1>2
    <3>3. ~(j = k) /\ ~(k < j)
      BY <1>4, <2>6, <2>7, <2>9, <3>1, <3>2
    <3>4. j < k /\ j \in Nat /\ j >= 1 /\ j <= m
      BY <2>2, <3>3
    <3>5. s[j] = t[j] /\ j \in 1 .. n
      BY <1>1, <2>3, <3>4
    <3>6. t[j] < t[k]
      BY <1>5, <2>6, <3>4, <3>5
    <3> QED
      BY <2>7, <3>1, <3>5, <3>6
  <2> QED
    BY <2>6, <2>7, <2>8, <2>9
<1>9. \A k \in Nat : k >= 1 /\ (k <= m \/ k <= n) => k <= m /\ k <= n /\ s[k] = t[k]
  BY <1>8
<1> HIDE DEF Bad
<1>10. m = n
  <2>1. m >= 1 => m <= n
    BY <1>1, <1>9
  <2>2. n >= 1 => n <= m
    BY <1>1, <1>9
  <2>3. m \in Nat /\ n \in Nat
    OBVIOUS
  <2> QED
    BY <2>1, <2>2, <2>3
<1>11. \A k \in 1 .. m : s[k] = t[k]
  BY <1>1, <1>9
<1> QED
  BY <1>1, <1>10, <1>11, SeqEqual

-----------------------------------------------------------------------------
(* Traversal of an outline.                                                *)

\* The lines under a node are those with a higher level up to the next line
\* with a lower or the same one.
LEMMA BranchEndIs ==
  ASSUME NEW lev \in Seq(Positive), NEW s \in 1 .. Len(lev)
  PROVE  /\ BranchEnd(lev, s) \in s .. Len(lev)
         /\ s = 1 => BranchEnd(lev, s) = s
         /\ s # 1 => \A t \in s + 1 .. Len(lev) :
              t <= BranchEnd(lev, s) <=> \A j \in s + 1 .. t : lev[s] < lev[j]
<1> DEFINE after == {i \in s + 1 .. Len(lev) : lev[i] <= lev[s]}
<1> Len(lev) \in Nat /\ \A i \in 1 .. Len(lev) : lev[i] \in Nat
  BY DEF Positive
<1>1. CASE s \in {1, Len(lev)}
  BY <1>1 DEF BranchEnd, nodeSubnodes
<1>2. CASE s \notin {1, Len(lev)} /\ after = {}
  <2>1. BranchEnd(lev, s) = Len(lev)
    BY <1>2 DEF BranchEnd, nodeSubnodes
  <2>2. \A j \in s + 1 .. Len(lev) : lev[s] < lev[j]
    BY <1>2
  <2> QED
    BY <1>2, <2>1, <2>2
<1>3. CASE s \notin {1, Len(lev)} /\ after # {}
  <2>1. Min(after) \in after /\ \A i \in after : Min(after) <= i
    BY <1>3, LeastElement, after \in SUBSET Nat
  <2>2. BranchEnd(lev, s) = Min(after) - 1
    BY <1>3, <2>1 DEF BranchEnd, nodeSubnodes
  <2>3. \A j \in s + 1 .. Min(after) - 1 : lev[s] < lev[j]
    BY <2>1, SMTT(30)
  <2>4. Min(after) \in s + 1 .. Len(lev) /\ lev[Min(after)] <= lev[s]
    BY <2>1
  <2>5. ASSUME NEW t \in s + 1 .. Len(lev)
        PROVE  t <= Min(after) - 1 <=> \A j \in s + 1 .. t : lev[s] < lev[j]
    <3> HIDE DEF after
    <3>1. CASE t <= Min(after) - 1
      BY <2>3, <2>4, <3>1
    <3>2. CASE t >= Min(after)
      <4>1. Min(after) \in s + 1 .. t /\ ~(lev[s] < lev[Min(after)])
        BY <2>4, <3>2
      <4> QED
        BY <3>2, <2>4, <4>1
    <3> QED
      BY <2>4, <3>1, <3>2
  <2> HIDE DEF after
  <2> QED
    BY <1>3, <2>2, <2>4, <2>5
<1> QED
  BY <1>1, <1>2, <1>3

\* nodeSubnodes and nodeAncestors agree: a line is in the branch under a node
\* if and only if that node is an ancestor of it.
THEOREM BranchesHoldDescendants ==
  ASSUME NEW lev \in Seq(Positive), NEW s \in 1 .. Len(lev), NEW t \in Int
  PROVE  t \in s + 1 .. BranchEnd(lev, s) <=> t \in 1 .. Len(lev) /\ s \in nodeAncestors(lev, t)
<1> Len(lev) \in Nat
  OBVIOUS
<1> QED
  BY BranchEndIs DEF nodeAncestors

\* nodeParent and nodeAncestors agree: the parent is an ancestor, and the other
\* ancestors are those of the parent.
THEOREM AncestorsFollowParents ==
  ASSUME NEW lev \in Seq(Positive), NEW t \in 2 .. Len(lev)
  PROVE  nodeAncestors(lev, t) =
           IF nodeParent(lev, t) = 0 THEN {}
           ELSE {nodeParent(lev, t)} \cup nodeAncestors(lev, nodeParent(lev, t))
<1> DEFINE above == {i \in 2 .. t - 1 : lev[i] < lev[t]}
           p == nodeParent(lev, t)
<1> Len(lev) \in Nat /\ \A i \in 1 .. Len(lev) : lev[i] \in Nat \ {0}
  BY DEF Positive
<1>1. nodeAncestors(lev, t) \subseteq above
  BY DEF nodeAncestors
<1>2. CASE above = {}
  BY <1>1, <1>2 DEF nodeParent
<1>3. CASE above # {}
  <2>1. Max(above) \in above /\ \A i \in above : i <= Max(above)
    <3>1. above \in SUBSET (0 .. Len(lev))
      OBVIOUS
    <3> QED
      BY <1>3, <3>1, GreatestElement
  <2>2. lev[t] # 1
    BY <2>1
  <2>3. p = Max(above) /\ p # 0
    BY <1>3, <2>1, <2>2 DEF nodeParent
  <2>a. p \in 2 .. t - 1 /\ lev[p] < lev[t]
    BY <2>1, <2>3
  <2>b. \A i \in 2 .. t - 1 : lev[i] < lev[t] => i <= p
    BY <2>1, <2>3
  <2> HIDE DEF p
  <2>4. \A j \in p + 1 .. t : lev[t] <= lev[j]
    BY <2>a, <2>b
  <2>5. ASSUME NEW i \in nodeAncestors(lev, t), i # p
        PROVE  i \in nodeAncestors(lev, p)
    <3>1. i \in 2 .. p - 1
      BY <1>1, <2>a, <2>b, <2>5
    <3> QED
      BY <2>a, <2>5, <3>1 DEF nodeAncestors
  <2>6. p \in nodeAncestors(lev, t)
    BY <2>a, <2>4 DEF nodeAncestors
  <2>7. ASSUME NEW i \in nodeAncestors(lev, p)
        PROVE  i \in nodeAncestors(lev, t)
    BY <2>a, <2>4, SMTT(30) DEF nodeAncestors
  <2> QED
    BY <2>3, <2>5, <2>6, <2>7 DEF p
<1> QED
  BY <1>2, <1>3

-----------------------------------------------------------------------------
(* Recursion.                                                              *)

\* f is defined by recursion: it begins with d and goes on with g.
Recurs(f, D, d, n, g) ==
  /\ f \in [0 .. n -> D] /\ f[0] = d
  /\ \A k \in 1 .. n : f[k] = g[<<k, f[k - 1]>>]

IsStep(g, D, n) == g \in [(1 .. n) \X D -> D]

\* A function that is defined by recursion on a number exists.
LEMMA RecursionIs ==
  ASSUME NEW D, NEW d \in D, NEW n \in Nat, NEW g, IsStep(g, D, n)
  PROVE  \E f : Recurs(f, D, d, n, g)
<1> USE DEF Recurs, IsStep
<1> DEFINE IsUpTo(f, m) == f \in [0 .. m -> D] /\ f[0] = d /\ \A k \in 1 .. m : f[k] = g[<<k, f[k - 1]>>]
           Bad == {m \in 0 .. n : ~\E f : IsUpTo(f, m)}
<1>1. Bad = {}
  <2> SUFFICES ASSUME Bad # {} PROVE FALSE
    OBVIOUS
  <2>1. PICK m \in Bad : \A j \in Bad : m <= j
    <3>1. Bad \in SUBSET Nat
      OBVIOUS
    <3> HIDE DEF Bad
    <3> QED
      BY <3>1, LeastElement
  <2>2. m \in 0 .. n /\ ~\E f : IsUpTo(f, m)
    OBVIOUS
  <2>3. CASE m = 0
    <3>1. IsUpTo([k \in 0 .. 0 |-> d], 0)
      OBVIOUS
    <3> QED
      BY <2>2, <2>3, <3>1
  <2>4. CASE m # 0
    <3>1. m - 1 \in 0 .. n /\ ~(m <= m - 1) /\ m \in 1 .. n
      BY <2>2, <2>4
    <3>2. m - 1 \notin Bad
      <4> HIDE DEF Bad
      <4> QED
        BY <2>1, <3>1
    <3>3. PICK f : IsUpTo(f, m - 1)
      BY <3>1, <3>2
    <3> DEFINE h == [k \in 0 .. m |-> IF k = m THEN g[<<m, f[m - 1]>>] ELSE f[k]]
    <3>4. f[m - 1] \in D
      BY <3>1, <3>3
    <3>5. g[<<m, f[m - 1]>>] \in D
      BY <3>1, <3>4
    <3>6. \A k \in 0 .. m : k # m => k \in 0 .. m - 1
      BY <3>1
    <3>7. h \in [0 .. m -> D]
      BY <3>3, <3>5, <3>6
    <3>8. h[0] = d
      BY <2>4, <3>1, <3>3
    <3>9. ASSUME NEW k \in 1 .. m PROVE h[k] = g[<<k, h[k - 1]>>]
      <4>1. k - 1 \in 0 .. m /\ k - 1 # m /\ k \in 0 .. m
        BY <3>1
      <4>2. h[k - 1] = f[k - 1]
        BY <4>1
      <4>3. CASE k = m
        BY <4>1, <4>2, <4>3
      <4>4. CASE k # m
        <5>1. k \in 1 .. m - 1
          BY <3>1, <4>4
        <5> QED
          BY <3>3, <4>1, <4>2, <4>4, <5>1
      <4> QED
        BY <4>3, <4>4
    <3> HIDE DEF h
    <3>10. IsUpTo(h, m)
      BY <3>7, <3>8, <3>9
    <3> QED
      BY <2>2, <3>10
  <2> QED
    BY <2>3, <2>4
<1>2. n \in 0 .. n
  OBVIOUS
<1> QED
  BY <1>1, <1>2

\* Sequences one after the other, step by step.
Flattens(h, f, S, n) ==
  /\ h \in [0 .. n -> Seq(S)] /\ h[0] = <<>> /\ FlattenSeq(f) = h[n]
  /\ \A k \in 1 .. n : h[k] = h[k - 1] \o f[k]

LEMMA FlattenIs ==
  ASSUME NEW S, NEW n \in Nat, NEW f \in [1 .. n -> Seq(S)]
  PROVE  \E h : Flattens(h, f, S, n)
<1> DEFINE g == [q \in (1 .. n) \X Seq(S) |-> q[2] \o f[q[1]]]
<1>1. g \in [(1 .. n) \X Seq(S) -> Seq(S)] /\ <<>> \in Seq(S)
  OBVIOUS
<1>2. PICK h \in [0 .. n -> Seq(S)] : h[0] = <<>> /\ \A k \in 1 .. n : h[k] = g[<<k, h[k - 1]>>]
  <2> DEFINE D == Seq(S)
  <2>1. <<>> \in D /\ g \in [(1 .. n) \X D -> D]
    BY <1>1
  <2> HIDE DEF g, D
  <2>2. \E h : Recurs(h, D, <<>>, n, g)
    BY <2>1, RecursionIs, Zenon DEF IsStep
  <2> QED
    BY <2>2 DEF D, Recurs
<1>3. ASSUME NEW k \in 1 .. n PROVE h[k] = h[k - 1] \o f[k] /\ h[k] \in Seq(S) /\ h[k - 1] \in Seq(S)
  <2>1. k - 1 \in 0 .. n /\ k \in 0 .. n
    OBVIOUS
  <2>2. <<k, h[k - 1]>> \in (1 .. n) \X Seq(S)
    BY <2>1
  <2>3. g[<<k, h[k - 1]>>] = h[k - 1] \o f[k]
    BY <2>2
  <2> QED
    BY <1>2, <2>1, <2>3
<1> HIDE DEF g
<1>4. Len(f) = n
  OBVIOUS
<1>5. CASE n = 0
  <2>1. f = <<>>
    BY <1>5
  <2>2. FlattenSeq(f) = f
    BY <1>4, <1>5 DEF FlattenSeq
  <2> QED
    BY <1>2, <1>3, <1>5, <2>1, <2>2 DEF Flattens
<1>6. CASE n # 0
  <2> DEFINE Rec(w) == w = [i \in 1 .. n |-> IF i = 1 THEN f[i] ELSE w[i - 1] \o f[i]]
             e == [i \in 1 .. n |-> h[i]]
             c == CHOOSE w : Rec(w)
  <2>1. Rec(e)
    <3>1. ASSUME NEW i \in 1 .. n PROVE h[i] = IF i = 1 THEN f[i] ELSE e[i - 1] \o f[i]
      <4>1. CASE i = 1
        <5>1. h[1] = h[1 - 1] \o f[1] /\ f[1] \in Seq(S)
          BY <1>3, <4>1
        <5>2. 1 - 1 = 0
          OBVIOUS
        <5>3. <<>> \o f[1] = f[1]
          BY <5>1
        <5> QED
          BY <1>2, <4>1, <5>1, <5>2, <5>3
      <4>2. CASE i # 1
        <5>1. i - 1 \in 1 .. n
          BY <4>2
        <5> QED
          BY <1>3, <4>2, <5>1
      <4> QED
        BY <4>1, <4>2
    <3> QED
      BY <3>1
  <2>2. Rec(c)
    <3> HIDE DEF Rec, e
    <3> QED
      BY <2>1
  <2>3. FlattenSeq(f) = c[n]
    BY <1>4, <1>6, Zenon DEF FlattenSeq
  <2>4. \A i \in 1 .. n : c[i] = IF i = 1 THEN f[i] ELSE c[i - 1] \o f[i]
    <3> HIDE DEF c
    <3> QED
      BY <2>2
  <2> HIDE DEF c, Rec, e
  <2> DEFINE Bad == {i \in 1 .. n : c[i] # h[i]}
  <2>5. Bad = {}
    <3> SUFFICES ASSUME Bad # {} PROVE FALSE
      OBVIOUS
    <3>1. PICK i \in Bad : \A j \in Bad : i <= j
      <4>1. Bad \in SUBSET Nat
        OBVIOUS
      <4> HIDE DEF Bad
      <4> QED
        BY <4>1, LeastElement
    <3>2. i \in 1 .. n /\ c[i] # h[i]
      OBVIOUS
    <3>3. CASE i = 1
      <4>1. c[1] = f[1] /\ f[1] \in Seq(S)
        BY <2>4, <3>2, <3>3
      <4>2. h[1] = h[1 - 1] \o f[1] /\ 1 - 1 = 0
        <5>1. 1 \in 1 .. n /\ 1 - 1 = 0
          BY <3>2, <3>3
        <5> QED
          BY <1>3, <5>1
      <4>3. h[1] = <<>> \o f[1]
        BY <1>2, <4>2
      <4> QED
        BY <3>2, <3>3, <4>1, <4>3
    <3>4. CASE i # 1
      <4>1. i - 1 \in 1 .. n /\ ~(i <= i - 1)
        BY <3>2, <3>4
      <4>2. i - 1 \notin Bad
        <5> HIDE DEF Bad
        <5> QED
          BY <3>1, <4>1
      <4>3. c[i - 1] = h[i - 1]
        BY <4>1, <4>2
      <4> QED
        BY <1>3, <2>4, <3>2, <3>4, <4>3
    <3> QED
      BY <3>3, <3>4
  <2>6. n \in 1 .. n
    BY <1>6
  <2>7. c[n] = h[n]
    BY <2>5, <2>6
  <2> QED
    BY <1>2, <1>3, <2>3, <2>7 DEF Flattens
<1> QED
  BY <1>5, <1>6

\* The length of sequences one after the other, by the pairs of a sequence and
\* a place in it.
Places(f, k) == UNION {{<<i, j>> : j \in 1 .. Len(f[i])} : i \in 1 .. k}

IsPlace(f, m, q) == \E i \in 1 .. m, j \in Nat : j \in 1 .. Len(f[i]) /\ q = <<i, j>>

LEMMA PlacesAre ==
  ASSUME NEW f, NEW m, NEW q
  PROVE  q \in Places(f, m) <=> IsPlace(f, m, q)
BY DEF Places, IsPlace

LEMMA IntervalIs ==
  ASSUME NEW n \in Nat
  PROVE  IsFiniteSet(1 .. n) /\ Cardinality(1 .. n) = n
<1> n \in Int /\ 1 \in Int
  OBVIOUS
<1>1. IsFiniteSet(1 .. n) /\ Cardinality(1 .. n) = IF 1 > n THEN 0 ELSE n - 1 + 1
  BY FS_Interval
<1> QED
  BY <1>1

LEMMA FlattenLength ==
  ASSUME NEW S, NEW n \in Nat, NEW f \in [1 .. n -> Seq(S)]
  PROVE  /\ FlattenSeq(f) \in Seq(S) /\ IsFiniteSet(Places(f, n))
         /\ Len(FlattenSeq(f)) = Cardinality(Places(f, n))
<1>1. PICK h \in [0 .. n -> Seq(S)] : /\ h[0] = <<>> /\ FlattenSeq(f) = h[n]
                                      /\ \A k \in 1 .. n : h[k] = h[k - 1] \o f[k]
  <2>1. PICK h : Flattens(h, f, S, n)
    BY FlattenIs
  <2> QED
    BY <2>1 DEF Flattens
<1> DEFINE Bad == {k \in 0 .. n : ~(/\ IsFiniteSet(Places(f, k))
                                    /\ Len(h[k]) = Cardinality(Places(f, k)))}
<1>2. Bad = {}
  <2> SUFFICES ASSUME Bad # {} PROVE FALSE
    OBVIOUS
  <2>1. PICK k \in Bad : \A j \in Bad : k <= j
    <3>1. Bad \in SUBSET Nat
      OBVIOUS
    <3> HIDE DEF Bad
    <3> QED
      BY <3>1, LeastElement
  <2>2. k \in 0 .. n /\ ~(IsFiniteSet(Places(f, k)) /\ Len(h[k]) = Cardinality(Places(f, k)))
    OBVIOUS
  <2>3. CASE k = 0
    <3>1. Places(f, 0) = {}
      BY DEF Places
    <3>2. IsFiniteSet({}) /\ Cardinality({}) = 0
      BY FS_EmptySet
    <3>3. Len(h[0]) = 0
      BY <1>1
    <3> QED
      BY <2>2, <2>3, <3>1, <3>2, <3>3
  <2>4. CASE k # 0
    <3>1. k - 1 \in 0 .. n /\ ~(k <= k - 1) /\ k \in 1 .. n
      BY <2>2, <2>4
    <3>2. k - 1 \notin Bad
      <4> HIDE DEF Bad
      <4> QED
        BY <2>1, <3>1
    <3> DEFINE A == Places(f, k - 1)
               B == {<<k, j>> : j \in 1 .. Len(f[k])}
    <3>3. IsFiniteSet(A) /\ Len(h[k - 1]) = Cardinality(A)
      BY <3>1, <3>2
    <3>4. f[k] \in Seq(S) /\ Len(f[k]) \in Nat
      BY <3>1
    <3>5. IsFiniteSet(B) /\ Cardinality(B) = Len(f[k])
      <4> DEFINE b == [j \in 1 .. Len(f[k]) |-> <<k, j>>]
      <4>1. b \in Bijection(1 .. Len(f[k]), B)
        BY DEF Bijection, Injection, Surjection, IsInjective
      <4>2. IsFiniteSet(1 .. Len(f[k])) /\ Cardinality(1 .. Len(f[k])) = Len(f[k])
        BY <3>4, IntervalIs
      <4> HIDE DEF b, B
      <4> QED
        BY <4>1, <4>2, FS_Bijection DEF ExistsBijection
    <3>6. Places(f, k) = A \cup B
      <4>1. 1 .. k = (1 .. k - 1) \cup {k}
        <5>1. \A i \in Int : i \in 1 .. k <=> i \in 1 .. k - 1 \/ i = k
          BY <3>1
        <5>2. 1 .. k \subseteq Int /\ (1 .. k - 1) \cup {k} \subseteq Int
          BY <3>1
        <5> QED
          BY <5>1, <5>2
      <4>2. ASSUME NEW q
            PROVE  q \in Places(f, k) <=> q \in A \cup B
        <5>1. q \in B <=> \E j \in Nat : j \in 1 .. Len(f[k]) /\ q = <<k, j>>
          OBVIOUS
        <5>2. (q \in A <=> IsPlace(f, k - 1, q)) /\ (q \in Places(f, k) <=> IsPlace(f, k, q))
          BY PlacesAre, Zenon
        <5> HIDE DEF A, B
        <5> QED
          BY <4>1, <5>1, <5>2, Zenon DEF IsPlace
      <4> HIDE DEF A, B
      <4> QED
        BY <4>2, Zenon
    <3>7. A \cap B = {}
      <4>1. \A i \in 1 .. k - 1 : i # k
        BY <3>1
      <4> QED
        BY <4>1 DEF Places
    <3> HIDE DEF A, B
    <3>8. IsFiniteSet(A \cup B) /\ Cardinality(A \cup B) = Cardinality(A) + Cardinality(B) - Cardinality(A \cap B)
      BY <3>3, <3>5, FS_Union
    <3>9. Cardinality(A \cap B) = 0
      BY <3>7, FS_EmptySet
    <3>10. Len(h[k]) = Len(h[k - 1]) + Len(f[k]) /\ Len(h[k - 1]) \in Nat
      <4>1. h[k] = h[k - 1] \o f[k] /\ h[k - 1] \in Seq(S)
        BY <1>1, <3>1
      <4> QED
        BY <3>4, <4>1
    <3> QED
      BY <2>2, <3>3, <3>4, <3>5, <3>6, <3>8, <3>9, <3>10
  <2> QED
    BY <2>3, <2>4
<1>3. n \in 0 .. n
  OBVIOUS
<1>4. IsFiniteSet(Places(f, n)) /\ Len(h[n]) = Cardinality(Places(f, n)) /\ h[n] \in Seq(S)
  BY <1>2, <1>3
<1> QED
  BY <1>1, <1>4

\* The sequences e are the sequences f of elements of S in the order p.
IsPermuted(e, f, p, n, S) ==
  /\ n \in Nat
  /\ f \in [1 .. n -> Seq(S)] /\ e \in [1 .. n -> Seq(S)]
  /\ p \in Bijection(1 .. n, 1 .. n)
  /\ \A i \in 1 .. n : e[i] = f[p[i]]

\* Their concatenation is as long.
LEMMA FlattenPermuted ==
  ASSUME NEW S, NEW n, NEW f, NEW e, NEW p, IsPermuted(e, f, p, n, S)
  PROVE  Len(FlattenSeq(e)) = Len(FlattenSeq(f))
<1> /\ n \in Nat
    /\ f \in [1 .. n -> Seq(S)] /\ e \in [1 .. n -> Seq(S)]
    /\ p \in Bijection(1 .. n, 1 .. n)
    /\ \A i \in 1 .. n : e[i] = f[p[i]]
  BY DEF IsPermuted
<1> DEFINE b == [q \in Places(e, n) |-> <<p[q[1]], q[2]>>]
<1>1. /\ \A i \in 1 .. n : p[i] \in 1 .. n
      /\ \A i, j \in 1 .. n : p[i] = p[j] => i = j
      /\ \A j \in 1 .. n : \E i \in 1 .. n : p[i] = j
  BY DEF Bijection, Injection, Surjection, IsInjective
<1>2. \A g, q : q \in Places(g, n) <=> IsPlace(g, n, q)
  BY PlacesAre, Zenon
<1>3. b \in [Places(e, n) -> Places(f, n)]
  <2>1. ASSUME NEW q \in Places(e, n) PROVE <<p[q[1]], q[2]>> \in Places(f, n)
    <3>1. PICK i \in 1 .. n, j \in Nat : j \in 1 .. Len(e[i]) /\ q = <<i, j>>
      BY <1>2 DEF IsPlace
    <3>2. p[i] \in 1 .. n /\ j \in 1 .. Len(f[p[i]])
      BY <1>1, <3>1
    <3> QED
      BY <1>2, <3>1, <3>2 DEF IsPlace
  <2> QED
    BY <2>1
<1>4. \A q, r \in Places(e, n) : b[q] = b[r] => q = r
  <2>1. ASSUME NEW q \in Places(e, n), NEW r \in Places(e, n), b[q] = b[r] PROVE q = r
    <3>1. PICK i \in 1 .. n, j \in Nat : j \in 1 .. Len(e[i]) /\ q = <<i, j>>
      BY <1>2 DEF IsPlace
    <3>2. PICK k \in 1 .. n, l \in Nat : l \in 1 .. Len(e[k]) /\ r = <<k, l>>
      BY <1>2 DEF IsPlace
    <3>3. p[i] = p[k] /\ j = l
      BY <2>1, <3>1, <3>2
    <3> QED
      BY <1>1, <3>1, <3>2, <3>3
  <2> QED
    BY <2>1
<1>5. \A r \in Places(f, n) : \E q \in Places(e, n) : b[q] = r
  <2>1. ASSUME NEW r \in Places(f, n) PROVE \E q \in Places(e, n) : b[q] = r
    <3>1. PICK k \in 1 .. n, l \in Nat : l \in 1 .. Len(f[k]) /\ r = <<k, l>>
      BY <1>2 DEF IsPlace
    <3>2. PICK i \in 1 .. n : p[i] = k
      BY <1>1
    <3>3. l \in 1 .. Len(e[i])
      BY <3>1, <3>2
    <3>4. <<i, l>> \in Places(e, n)
      BY <1>2, <3>1, <3>3 DEF IsPlace
    <3> QED
      BY <3>1, <3>2, <3>4
  <2> QED
    BY <2>1
<1> HIDE DEF b
<1>6. b \in Bijection(Places(e, n), Places(f, n))
  BY <1>3, <1>4, <1>5 DEF Bijection, Injection, Surjection, IsInjective
<1>7. IsFiniteSet(Places(e, n)) /\ Len(FlattenSeq(e)) = Cardinality(Places(e, n))
  BY FlattenLength
<1>8. Len(FlattenSeq(f)) = Cardinality(Places(f, n))
  BY FlattenLength
<1>9. Cardinality(Places(f, n)) = Cardinality(Places(e, n))
  BY <1>6, <1>7, FS_Bijection DEF ExistsBijection
<1> QED
  BY <1>7, <1>8, <1>9

-----------------------------------------------------------------------------
(* Any order.                                                              *)

\* R orders S.
IsOrder(R, S) ==
  /\ \A x \in S : <<x, x>> \notin R
  /\ \A x, y, z \in S : <<x, y>> \in R /\ <<y, z>> \in R => <<x, z>> \in R
  /\ \A x, y \in S : x = y \/ <<x, y>> \in R \/ <<y, x>> \in R

\* The members of S before x.
Before(R, S, x) == {y \in S : <<y, x>> \in R}

\* Place i of s has a member of S with i - 1 before it, if there is one.
IsNumbering(s, R, S) ==
  /\ s = [i \in 1 .. Cardinality(S) |-> s[i]]
  /\ \A i \in 1 .. Cardinality(S) : \A x \in S :
       Cardinality(Before(R, S, x)) = i - 1
         => s[i] \in S /\ Cardinality(Before(R, S, s[i])) = i - 1

\* There is: all of them, once each.
LEMMA OrderIs ==
  ASSUME NEW S, IsFiniteSet(S), NEW R, IsOrder(R, S), NEW s, IsNumbering(s, R, S)
  PROVE  /\ s \in Bijection(1 .. Cardinality(S), S) /\ Cardinality(S) \in Nat
         /\ \A i, j \in 1 .. Cardinality(S) : i < j => <<s[i], s[j]>> \in R
<1> DEFINE n == Cardinality(S)
           r == [x \in S |-> Cardinality(Before(R, S, x)) + 1]
<1>1. n \in Nat
  BY FS_CardinalityType
<1>2. \A T \in SUBSET S : IsFiniteSet(T) /\ Cardinality(T) \in Nat
  BY FS_Subset, FS_CardinalityType
<1>3. ASSUME NEW x \in S, NEW T \in SUBSET S, Before(R, S, x) \cup {x} \subseteq T
      PROVE  Cardinality(Before(R, S, x)) < Cardinality(T)
  <2>1. Before(R, S, x) \in SUBSET S /\ x \notin Before(R, S, x)
    BY DEF Before, IsOrder
  <2>2. IsFiniteSet(Before(R, S, x)) /\ IsFiniteSet(T) /\ Cardinality(Before(R, S, x)) \in Nat /\ Cardinality(T) \in Nat
    BY <1>2, <2>1
  <2>3. Cardinality(Before(R, S, x) \cup {x}) = Cardinality(Before(R, S, x)) + 1
    BY <2>1, <2>2, FS_AddElement
  <2>4. Cardinality(Before(R, S, x) \cup {x}) <= Cardinality(T)
    BY <1>3, <2>2, FS_Subset
  <2> QED
    BY <2>2, <2>3, <2>4
<1>4. r \in [S -> 1 .. n]
  <2>1. ASSUME NEW x \in S PROVE Cardinality(Before(R, S, x)) + 1 \in 1 .. n
    <3>1. Before(R, S, x) \in SUBSET S
      BY DEF Before
    <3>2. Cardinality(Before(R, S, x)) < n /\ Cardinality(Before(R, S, x)) \in Nat
      BY <1>2, <1>3, <3>1
    <3> QED
      BY <1>1, <3>2
  <2> QED
    BY <2>1
<1>5. ASSUME NEW x \in S, NEW y \in S, <<x, y>> \in R PROVE r[x] < r[y]
  <2>1. Before(R, S, x) \cup {x} \subseteq Before(R, S, y) /\ Before(R, S, y) \in SUBSET S /\ Before(R, S, x) \in SUBSET S
    BY <1>5 DEF Before, IsOrder
  <2>2. Cardinality(Before(R, S, x)) < Cardinality(Before(R, S, y))
    BY <1>3, <2>1
  <2>3. Cardinality(Before(R, S, x)) \in Nat /\ Cardinality(Before(R, S, y)) \in Nat
    BY <1>2, <2>1
  <2> QED
    BY <2>2, <2>3
<1>6. ASSUME NEW x \in S, NEW y \in S, r[x] = r[y] PROVE x = y
  <2>1. r[x] \in Int /\ ~(r[x] < r[y]) /\ ~(r[y] < r[x])
    BY <1>4, <1>6
  <2> QED
    BY <1>5, <2>1 DEF IsOrder
<1>7. r \in Injection(S, 1 .. n)
  <2> HIDE DEF r
  <2> QED
    BY <1>4, <1>6 DEF Injection, IsInjective
<1>8. r \in Surjection(S, 1 .. n)
  <2>1. IsFiniteSet(1 .. n) /\ Cardinality(1 .. n) = n
    BY <1>1, IntervalIs
  <2> HIDE DEF r
  <2> QED
    BY <1>7, <2>1, FS_Injection
<1>9. \A i \in 1 .. n : s[i] \in S /\ r[s[i]] = i
  <2>1. ASSUME NEW i \in 1 .. n PROVE s[i] \in S /\ r[s[i]] = i
    <3>1. PICK x \in S : r[x] = i
      BY <1>8 DEF Surjection
    <3>2. Cardinality(Before(R, S, x)) = i - 1
      <4>1. Before(R, S, x) \in SUBSET S
        BY DEF Before
      <4>2. Cardinality(Before(R, S, x)) \in Nat
        BY <1>2, <4>1
      <4> QED
        BY <3>1, <4>2
    <3>3. s[i] \in S /\ Cardinality(Before(R, S, s[i])) = i - 1
      BY <3>2 DEF IsNumbering
    <3>4. Cardinality(Before(R, S, s[i])) + 1 = i
      BY <3>2, <3>3
    <3> QED
      BY <3>3, <3>4
  <2> QED
    BY <2>1
<1>10. s \in [1 .. n -> S]
  <2>1. s = [i \in 1 .. n |-> s[i]]
    BY DEF IsNumbering
  <2> QED
    BY <1>9, <2>1
<1>11. \A i, j \in 1 .. n : s[i] = s[j] => i = j
  BY <1>9
<1>12. \A x \in S : \E i \in 1 .. n : s[i] = x
  <2> HIDE DEF r
  <2>1. ASSUME NEW x \in S PROVE \E i \in 1 .. n : s[i] = x
    <3>1. r[x] \in 1 .. n
      BY <1>4
    <3>2. s[r[x]] \in S /\ r[s[r[x]]] = r[x]
      BY <1>9, <3>1
    <3> QED
      BY <1>6, <3>1, <3>2
  <2> QED
    BY <2>1
<1> HIDE DEF r
<1>13. ASSUME NEW i \in 1 .. n, NEW j \in 1 .. n, i < j
       PROVE  <<s[i], s[j]>> \in R
  <2>1. s[i] \in S /\ s[j] \in S /\ r[s[i]] = i /\ r[s[j]] = j
    BY <1>9
  <2>2. ~(r[s[j]] < r[s[i]]) /\ s[i] # s[j]
    BY <1>13, <2>1
  <2>3. <<s[j], s[i]>> \notin R
    BY <1>5, <2>1, <2>2
  <2> QED
    BY <2>1, <2>2, <2>3 DEF IsOrder
<1>14. s \in Bijection(1 .. n, S)
  BY <1>10, <1>11, <1>12 DEF Bijection, Injection, Surjection, IsInjective
<1> QED
  BY <1>1, <1>13, <1>14

\* f holds the parts of B between the z + 1 lines c, in the order p.
IsParts(B, c, p, f, z, S) ==
  /\ B \in Seq(S) /\ z \in Nat /\ p \in Bijection(1 .. z, 1 .. z)
  /\ \A j \in 1 .. z + 1 : c[j] \in 1 .. Len(B) + 1
  /\ \A j \in 1 .. z : c[j] <= c[j + 1]
  /\ f = [i \in 1 .. z |-> SubSeq(B, c[p[i]], c[p[i] + 1] - 1)]

\* B with its lines between c[1] and c[z + 1] replaced by the sequences f.
Rejoined(B, c, f, z) == SubSeq(B, 1, c[1] - 1) \o FlattenSeq(f) \o SubSeq(B, c[z + 1], Len(B))

LEMMA ConcatIs ==
  ASSUME NEW S, NEW s \in Seq(S), NEW t \in Seq(S)
  PROVE  s \o t \in Seq(S) /\ Len(s \o t) = Len(s) + Len(t)
OBVIOUS

\* B with its parts in that order is as long.
LEMMA PartsPermuted ==
  ASSUME NEW S, NEW B, NEW z, NEW c, NEW p, NEW f, IsParts(B, c, p, f, z, S)
  PROVE  Rejoined(B, c, f, z) \in Seq(S) /\ Len(Rejoined(B, c, f, z)) = Len(B)
<1>a. /\ B \in Seq(S) /\ z \in Nat /\ p \in Bijection(1 .. z, 1 .. z)
      /\ \A j \in 1 .. z + 1 : c[j] \in 1 .. Len(B) + 1
      /\ \A j \in 1 .. z : c[j] <= c[j + 1]
      /\ f = [i \in 1 .. z |-> SubSeq(B, c[p[i]], c[p[i] + 1] - 1)]
  BY DEF IsParts
<1> DEFINE g == [j \in 1 .. z |-> SubSeq(B, c[j], c[j + 1] - 1)]
<1>0. PICK N \in Nat : N = Len(B)
  BY <1>a
<1>1. ASSUME NEW j \in 1 .. z
      PROVE  /\ SubSeq(B, c[j], c[j + 1] - 1) \in Seq(S)
             /\ Len(SubSeq(B, c[j], c[j + 1] - 1)) = c[j + 1] - c[j]
  <2>1. j \in 1 .. z + 1 /\ j + 1 \in 1 .. z + 1
    BY <1>a
  <2>2. PICK a \in 1 .. N + 1, b \in 1 .. N + 1 : a = c[j] /\ b = c[j + 1] /\ a <= b
    BY <1>0, <1>a, <2>1
  <2>3. SubSeq(B, a, b - 1) \in Seq(S) /\ Len(SubSeq(B, a, b - 1)) = b - a
    <3>1. \A i \in a .. b - 1 : i \in 1 .. N
      BY <1>a, <2>2
    <3>2. \A i \in a .. b - 1 : B[i] \in S
      BY <1>0, <1>a, <3>1
    <3>3. a \in Nat /\ b - 1 \in Nat
      BY <2>2
    <3>4. SubSeq(B, a, b - 1) \in Seq(S) /\ Len(SubSeq(B, a, b - 1)) = IF a <= b - 1 THEN (b - 1) - a + 1 ELSE 0
      BY <1>0, <1>a, <3>1, <3>2, <3>3, SubSeqProperties
    <3> QED
      BY <2>2, <3>4
  <2> QED
    BY <2>2, <2>3
<1>2. g \in [1 .. z -> Seq(S)] /\ \A j \in 1 .. z : Len(g[j]) = c[j + 1] - c[j]
  BY <1>1, <1>a
<1>3. /\ p \in [1 .. z -> 1 .. z]
      /\ \A i \in 1 .. z : p[i] \in 1 .. z
  BY <1>a DEF Bijection, Injection
<1>4. f \in [1 .. z -> Seq(S)] /\ \A i \in 1 .. z : f[i] = g[p[i]]
  BY <1>1, <1>3, <1>a
<1> HIDE DEF g
<1>5. Len(FlattenSeq(f)) = Len(FlattenSeq(g)) /\ FlattenSeq(f) \in Seq(S)
  <2>1. Len(FlattenSeq(f)) = Len(FlattenSeq(g))
    <3>1. IsPermuted(f, g, p, z, S)
      BY <1>2, <1>4, <1>a DEF IsPermuted
    <3> QED
      BY <3>1, FlattenPermuted, ZenonT(30)
  <2> QED
    BY <1>4, <1>a, <2>1, FlattenLength
<1>6. PICK h : Flattens(h, g, S, z)
  BY <1>2, <1>a, FlattenIs
<1>7. /\ h \in [0 .. z -> Seq(S)] /\ h[0] = <<>> /\ FlattenSeq(g) = h[z]
      /\ \A k \in 1 .. z : h[k] = h[k - 1] \o g[k]
  BY <1>6, <1>a DEF Flattens
<1> DEFINE Bad == {k \in 0 .. z : Len(h[k]) # c[k + 1] - c[1]}
<1>8. Bad = {}
  <2> SUFFICES ASSUME Bad # {} PROVE FALSE
    OBVIOUS
  <2>1. PICK k \in Bad : \A j \in Bad : k <= j
    <3>1. Bad \in SUBSET Nat
      BY <1>a
    <3> HIDE DEF Bad
    <3> QED
      BY <3>1, LeastElement
  <2>2. k \in 0 .. z /\ Len(h[k]) # c[k + 1] - c[1]
    BY <2>1
  <2>3. c[1] \in Int /\ c[k + 1] \in Int
    <3>1. 1 \in 1 .. z + 1 /\ k + 1 \in 1 .. z + 1
      BY <1>a, <2>2
    <3> QED
      BY <1>0, <1>a, <3>1
  <2>4. CASE k = 0
    <3>1. Len(h[0]) = 0
      BY <1>7
    <3> QED
      BY <2>2, <2>3, <2>4, <3>1
  <2>5. CASE k # 0
    <3>1. k - 1 \in 0 .. z /\ ~(k <= k - 1) /\ k \in 1 .. z /\ k - 1 + 1 = k
      BY <1>a, <2>2, <2>5
    <3>2. k - 1 \notin Bad
      <4> HIDE DEF Bad
      <4> QED
        BY <2>1, <3>1
    <3>3. Len(h[k - 1]) = c[k] - c[1]
      BY <3>1, <3>2
    <3>4. c[k] \in Int
      <4>1. k \in 1 .. z + 1
        BY <1>a, <3>1
      <4> QED
        BY <1>0, <1>a, <4>1
    <3>5. Len(h[k]) = Len(h[k - 1]) + Len(g[k])
      <4>1. h[k] = h[k - 1] \o g[k] /\ h[k - 1] \in Seq(S) /\ g[k] \in Seq(S)
        BY <1>2, <1>7, <3>1
      <4> QED
        BY <4>1, ConcatIs
    <3>6. Len(g[k]) = c[k + 1] - c[k]
      BY <1>2, <1>a, <3>1
    <3>7. PICK u \in Int, v \in Int, w \in Int : u = c[1] /\ v = c[k] /\ w = c[k + 1]
      BY <2>3, <3>4
    <3>8. Len(h[k]) = (v - u) + (w - v)
      BY <3>3, <3>5, <3>6, <3>7
    <3>9. (v - u) + (w - v) = w - u
      BY <3>7
    <3> QED
      BY <2>2, <3>7, <3>8, <3>9
  <2> QED
    BY <2>4, <2>5
<1>9. Len(h[z]) = c[z + 1] - c[1]
  <2>1. z \in 0 .. z
    BY <1>a
  <2> QED
    BY <1>8, <1>a, <2>1
<1> HIDE DEF Bad
<1>10. PICK a \in 1 .. N + 1, b \in 1 .. N + 1 : a = c[1] /\ b = c[z + 1]
  <2>1. 1 \in 1 .. z + 1 /\ z + 1 \in 1 .. z + 1
    BY <1>a
  <2> QED
    BY <1>0, <1>a, <2>1
<1> DEFINE s == SubSeq(B, 1, a - 1)
           t == SubSeq(B, b, N)
<1>11. s \in Seq(S) /\ Len(s) = a - 1 /\ t \in Seq(S) /\ Len(t) = N - b + 1
  BY <1>0, <1>10, <1>a, SMTT(30)
<1> HIDE DEF s, t
<1>12. PICK q \in Seq(S) : q = FlattenSeq(f) /\ Len(q) = b - a
  BY <1>5, <1>7, <1>9, <1>10
<1>13. s \o q \in Seq(S) /\ Len(s \o q) = a - 1 + (b - a)
  <2>1. s \o q \in Seq(S) /\ Len(s \o q) = Len(s) + Len(q)
    BY <1>11, <1>12, ConcatIs
  <2> QED
    BY <1>11, <1>12, <2>1
<1>14. s \o q \o t \in Seq(S) /\ Len(s \o q \o t) = a - 1 + (b - a) + (N - b + 1)
  <2>1. PICK r \in Seq(S) : r = s \o q /\ Len(r) = a - 1 + (b - a)
    BY <1>13
  <2>2. r \o t \in Seq(S) /\ Len(r \o t) = Len(r) + Len(t)
    BY <1>11, <2>1, ConcatIs
  <2> QED
    BY <1>11, <2>1, <2>2
<1>15. a - 1 + (b - a) + (N - b + 1) = N
  BY <1>10
<1> QED
  BY <1>0, <1>10, <1>12, <1>14, <1>15 DEF Rejoined, s, t

-----------------------------------------------------------------------------
(* Folds.                                                                  *)

\* it is what MapThenFoldSet defines on the subsets of 1..n: the greatest
\* element is folded last.
IsFold(it, D, d, n, g) ==
  /\ it \in [SUBSET (1 .. n) -> D] /\ it[{}] = d
  /\ \A s \in SUBSET (1 .. n) : s # {} => it[s] = g[<<Max(s), it[s \ {Max(s)}]>>]

LEMMA MaxOfSubset ==
  ASSUME NEW n \in Nat, NEW s \in SUBSET (1 .. n), s # {}
  PROVE  /\ Max(s) \in s /\ Max(s) \in 1 .. n /\ \A x \in s : x <= Max(s)
         /\ s \ {Max(s)} \in SUBSET (1 .. n)
<1>1. s \in SUBSET (0 .. n)
  OBVIOUS
<1>2. Max(s) \in s /\ \A x \in s : x <= Max(s)
  BY <1>1, GreatestElement
<1> QED
  BY <1>2

LEMMA MaxOfInterval ==
  ASSUME NEW k \in Nat \ {0}
  PROVE  Max(1 .. k) = k /\ (1 .. k) \ {k} = 1 .. k - 1 /\ 1 .. k # {}
<1>1. 1 .. k # {} /\ k \in 1 .. k
  OBVIOUS
<1>2. Max(1 .. k) \in 1 .. k /\ \A x \in 1 .. k : x <= Max(1 .. k)
  BY <1>1, MaxOfSubset
<1>3. PICK m : m = Max(1 .. k)
  OBVIOUS
<1>4. m = k
  BY <1>1, <1>2, <1>3
<1> QED
  BY <1>1, <1>3, <1>4

LEMMA FoldExists ==
  ASSUME NEW D, NEW d \in D, NEW n \in Nat, NEW g, IsStep(g, D, n)
  PROVE  \E it : IsFold(it, D, d, n, g)
<1> DEFINE IsUpTo(it, m) ==
             /\ it \in [SUBSET (1 .. m) -> D] /\ it[{}] = d
             /\ \A s \in SUBSET (1 .. m) : s # {} => it[s] = g[<<Max(s), it[s \ {Max(s)}]>>]
           Bad == {m \in 0 .. n : ~\E it : IsUpTo(it, m)}
<1>1. Bad = {}
  <2> SUFFICES ASSUME Bad # {} PROVE FALSE
    OBVIOUS
  <2>1. PICK m \in Bad : \A j \in Bad : m <= j
    <3>1. Bad \in SUBSET Nat
      OBVIOUS
    <3> HIDE DEF Bad
    <3> QED
      BY <3>1, LeastElement
  <2>2. m \in 0 .. n /\ ~\E it : IsUpTo(it, m)
    OBVIOUS
  <2>3. CASE m = 0
    <3> DEFINE e == [s \in SUBSET (1 .. 0) |-> d]
    <3>1. SUBSET (1 .. 0) = {{}}
      <4>1. 1 .. 0 = {}
        OBVIOUS
      <4> QED
        BY <4>1
    <3>2. e \in [SUBSET (1 .. 0) -> D] /\ e[{}] = d /\ \A s \in SUBSET (1 .. 0) : s = {}
      BY <3>1
    <3> HIDE DEF e
    <3>3. IsUpTo(e, 0)
      BY <3>2
    <3> QED
      BY <2>2, <2>3, <3>3
  <2>4. CASE m # 0
    <3>1. m - 1 \in 0 .. n /\ ~(m <= m - 1) /\ m \in 1 .. n /\ m - 1 \in Nat /\ m \in Nat
      BY <2>2, <2>4
    <3>2. m - 1 \notin Bad
      <4> HIDE DEF Bad
      <4> QED
        BY <2>1, <3>1
    <3>3. PICK it : IsUpTo(it, m - 1)
      BY <3>1, <3>2
    <3> DEFINE h == [s \in SUBSET (1 .. m) |-> IF m \in s THEN g[<<m, it[s \ {m}]>>] ELSE it[s]]
    <3>4. ASSUME NEW s \in SUBSET (1 .. m)
          PROVE  /\ s \ {m} \in SUBSET (1 .. m - 1)
                 /\ m \notin s => s \in SUBSET (1 .. m - 1)
      BY <3>1
    <3>5. ASSUME NEW s \in SUBSET (1 .. m - 1)
          PROVE  it[s] \in D /\ s \in SUBSET (1 .. m) /\ m \notin s
      BY <3>1, <3>3
    <3>6. h \in [SUBSET (1 .. m) -> D]
      <4>1. ASSUME NEW s \in SUBSET (1 .. m)
            PROVE  (IF m \in s THEN g[<<m, it[s \ {m}]>>] ELSE it[s]) \in D
        <5>1. CASE m \in s
          <6>1. it[s \ {m}] \in D
            BY <3>4, <3>5
          <6>2. g[<<m, it[s \ {m}]>>] \in D
            BY <3>1, <6>1 DEF IsStep
          <6> QED
            BY <5>1, <6>2
        <5>2. CASE m \notin s
          BY <3>4, <3>5, <5>2
        <5> QED
          BY <5>1, <5>2
      <4> QED
        BY <4>1
    <3>7. /\ \A s \in SUBSET (1 .. m) : m \in s => h[s] = g[<<m, it[s \ {m}]>>]
          /\ \A s \in SUBSET (1 .. m - 1) : h[s] = it[s]
      BY <3>5
    <3> HIDE DEF h
    <3>8. h[{}] = d
      <4>1. {} \in SUBSET (1 .. m - 1)
        OBVIOUS
      <4> QED
        BY <3>3, <3>7, <4>1
    <3>9. ASSUME NEW s \in SUBSET (1 .. m), s # {}
          PROVE  h[s] = g[<<Max(s), h[s \ {Max(s)}]>>]
      <4>1. Max(s) \in s /\ Max(s) \in 1 .. m /\ \A x \in s : x <= Max(s)
        BY <3>1, <3>9, MaxOfSubset
      <4>2. CASE m \in s
        <5>1. Max(s) = m
          BY <3>1, <4>1, <4>2
        <5>2. h[s \ {m}] = it[s \ {m}]
          BY <3>4, <3>7
        <5> QED
          BY <3>7, <4>2, <5>1, <5>2
      <4>3. CASE m \notin s
        <5>1. s \in SUBSET (1 .. m - 1) /\ s \ {Max(s)} \in SUBSET (1 .. m - 1)
          BY <3>4, <4>3
        <5>2. h[s] = it[s] /\ h[s \ {Max(s)}] = it[s \ {Max(s)}]
          BY <3>7, <5>1
        <5>3. it[s] = g[<<Max(s), it[s \ {Max(s)}]>>]
          BY <3>3, <3>9, <5>1
        <5> QED
          BY <5>2, <5>3
      <4> QED
        BY <4>2, <4>3
    <3>10. IsUpTo(h, m)
      BY <3>6, <3>8, <3>9
    <3> QED
      BY <2>2, <3>10
  <2> QED
    BY <2>3, <2>4
<1>2. n \in 0 .. n
  OBVIOUS
<1>3. \E it : IsUpTo(it, n)
  BY <1>1, <1>2
<1> QED
  BY <1>3 DEF IsFold

\* Whatever function c satisfies the equation, it goes through the steps of f.
Folds(c, D, d, n, g) ==
  /\ c[{}] = d
  /\ \A k \in 1 .. n : c[1 .. k - 1] \in D => c[1 .. k] = g[<<k, c[1 .. k - 1]>>]

LEMMA FoldSteps ==
  ASSUME NEW D, NEW d \in D, NEW n \in Nat, NEW g, NEW f, Recurs(f, D, d, n, g),
         NEW c, Folds(c, D, d, n, g)
  PROVE  c[1 .. n] = f[n]
<1> USE DEF Folds
<1> DEFINE Bad == {k \in 0 .. n : c[1 .. k] # f[k]}
<1>1. Bad = {}
  <2> SUFFICES ASSUME Bad # {} PROVE FALSE
    OBVIOUS
  <2>1. PICK k \in Bad : \A j \in Bad : k <= j
    <3>1. Bad \in SUBSET Nat
      OBVIOUS
    <3> HIDE DEF Bad
    <3> QED
      BY <3>1, LeastElement
  <2>2. k \in 0 .. n /\ c[1 .. k] # f[k]
    OBVIOUS
  <2>3. CASE k = 0
    <3>1. 1 .. 0 = {} /\ f[0] = d
      BY DEF Recurs
    <3> QED
      BY <2>2, <2>3, <3>1
  <2>4. CASE k # 0
    <3>1. k \in 1 .. n /\ k - 1 \in 0 .. n /\ ~(k <= k - 1)
      BY <2>2, <2>4
    <3>2. k - 1 \notin Bad
      <4> HIDE DEF Bad
      <4> QED
        BY <2>1, <3>1
    <3>3. c[1 .. k - 1] = f[k - 1]
      BY <3>1, <3>2
    <3>4. f[k - 1] \in D /\ f[k] = g[<<k, f[k - 1]>>]
      BY <3>1 DEF Recurs
    <3>5. c[1 .. k] = g[<<k, c[1 .. k - 1]>>]
      BY <3>1, <3>3, <3>4
    <3> QED
      BY <2>2, <3>3, <3>4, <3>5
  <2> QED
    BY <2>3, <2>4
<1>2. n \in 0 .. n
  OBVIOUS
<1> QED
  BY <1>1, <1>2

-----------------------------------------------------------------------------
(* The lines of a mode in which a line alone tells whether it is a headline.*)

OneLineModes == MTYPE0 \cup {"hashes", "org", "cwiki", "wiki", "vimwiki", "html"}

IsHeadline(m, l) ==
  \/ m \in MTYPE0 /\ l.k \in {"head", "marked"}
  \/ m = "hashes" /\ l.k \in {"head", "glued"}
  \/ m = "org" /\ l.k = "head"
  \/ m = "cwiki" /\ l.k \in {"head", "glued"} /\ l.n > 2
  \/ m \in {"wiki", "vimwiki"} /\ l.k = "head"
  \/ m = "html" /\ l.k = "head" /\ l.n = l.c

\* The level of a line, 0 if it is no headline.
LevelIn(m, l) ==
  IF ~IsHeadline(m, l) THEN 0
  ELSE IF m = "cwiki" THEN l.n - 2
  ELSE IF m \in {"wiki", "vimwiki"} THEN Lesser(l.n, l.c) ELSE l.n

Kinds == {"head", "marked", "glued", "text"}
LineType == [k : Kinds, n : Int, c : Int, t : Int]
TreeLineType == [sel : BOOLEAN, x : BOOLEAN, lev : Int, head : Int]

\* This is how a parse finds headlines.
LEMMA ParseIs ==
  ASSUME NEW m \in OneLineModes, NEW b
  PROVE  OutlineOf(m, b) = Headlines(b, [i \in 1 .. Len(b) |-> LevelIn(m, b[i])])
<1> USE DEF LevelIn, IsHeadline, MTYPE0
<1>1. CASE m \in {"", "fmr"}
  <2>1. OutlineOf(m, b) = makeOutline(b)
    <3>1. CASE m = ""
      BY <3>1, Zenon DEF OutlineOf
    <3>2. CASE m = "fmr"
      BY <3>2, Zenon DEF OutlineOf
    <3> QED
      BY <1>1, <3>1, <3>2
  <2> QED
    BY <1>1, <2>1 DEF makeOutline
<1>2. CASE m = "fmr1"
  <2>1. OutlineOf(m, b) = fmr1_makeOutline(b)
    BY <1>2, Zenon DEF OutlineOf
  <2> QED
    BY <1>2, <2>1 DEF fmr1_makeOutline, makeOutline
<1>3. CASE m = "fmr2"
  <2>1. OutlineOf(m, b) = fmr2_makeOutline(b)
    BY <1>3, Zenon DEF OutlineOf
  <2> QED
    BY <1>3, <2>1 DEF fmr2_makeOutline, makeOutline
<1>4. CASE m = "hashes"
  <2>1. OutlineOf(m, b) = hashes_makeOutline(b)
    BY <1>4, Zenon DEF OutlineOf
  <2> QED
    BY <1>4, <2>1 DEF hashes_makeOutline
<1>5. CASE m = "org"
  <2>1. OutlineOf(m, b) = org_makeOutline(b)
    BY <1>5, Zenon DEF OutlineOf
  <2> QED
    BY <1>5, <2>1 DEF org_makeOutline
<1>6. CASE m = "cwiki"
  <2>1. OutlineOf(m, b) = cwiki_makeOutline(b)
    BY <1>6, Zenon DEF OutlineOf
  <2> QED
    BY <1>6, <2>1 DEF cwiki_makeOutline
<1>7. CASE m = "wiki"
  <2>1. OutlineOf(m, b) = wiki_makeOutline(b)
    BY <1>7, Zenon DEF OutlineOf
  <2> QED
    BY <1>7, <2>1 DEF wiki_makeOutline
<1>8. CASE m = "vimwiki"
  <2>1. OutlineOf(m, b) = vimwiki_makeOutline(b)
    BY <1>8, Zenon DEF OutlineOf
  <2> QED
    BY <1>8, <2>1 DEF vimwiki_makeOutline
<1>9. CASE m = "html"
  <2>1. OutlineOf(m, b) = html_makeOutline(b)
    BY <1>9, Zenon DEF OutlineOf
  <2> QED
    BY <1>9, <2>1 DEF html_makeOutline
<1> QED
  BY <1>1, <1>2, <1>3, <1>4, <1>5, <1>6, <1>7, <1>8, <1>9 DEF OneLineModes

\* Changing the level of a headline changes the level it is read with, and
\* neither its kind nor its text.
LEMMA ChangeLevIs ==
  ASSUME NEW m \in OneLineModes, NEW l \in LineType, NEW d \in Int,
         LevelIn(m, l) > 0, LevelIn(m, l) + d > 0
  PROVE  /\ ChangeLev(m, l, d) \in LineType
         /\ LevelIn(m, ChangeLev(m, l, d)) = LevelIn(m, l) + d
         /\ ChangeLev(m, l, d).k = l.k
         /\ ChangeLev(m, l, d).t = l.t
<1>1. l.n \in Int /\ l.c \in Int
  BY DEF LineType
<1>2. /\ Opening(l, d) \in LineType /\ Opening(l, d).k = l.k /\ Opening(l, d).t = l.t
      /\ Opening(l, d).n = l.n + d /\ Opening(l, d).c = l.c
  BY <1>1 DEF Opening, LineType
<1>3. /\ Both(l, d) \in LineType /\ Both(l, d).k = l.k /\ Both(l, d).t = l.t
      /\ Both(l, d).n = l.n + d /\ Both(l, d).c = l.c + d
  BY <1>1, <1>2 DEF Both, LineType
<1>4. CASE m \in MTYPE0 \cup {"hashes", "org", "cwiki"}
  <2>1. ChangeLev(m, l, d) = Opening(l, d)
    <3>1. CASE m \in MTYPE0
      <4>1. /\ m # "hashes" /\ m # "org" /\ m # "cwiki" /\ m # "wiki" /\ m # "vimwiki"
            /\ m # "html" /\ m # "txt2tags" /\ m # "viki"
        BY <3>1 DEF MTYPE0
      <4> QED
        BY <3>1, <4>1, Zenon DEF ChangeLev, changeLevBodyHead
    <3>2. CASE m \in {"hashes", "org", "cwiki"}
      <4>1. m \notin MTYPE0
        BY <3>2 DEF MTYPE0
      <4>2. CASE m = "hashes"
        BY <4>1, <4>2, Zenon DEF ChangeLev, hashes_changeLev
      <4>3. CASE m = "org"
        BY <4>1, <4>3, Zenon DEF ChangeLev, org_changeLev
      <4>4. CASE m = "cwiki"
        BY <4>1, <4>4, Zenon DEF ChangeLev, cwiki_changeLev
      <4> QED
        BY <3>2, <4>2, <4>3, <4>4
    <3> QED
      BY <1>4, <3>1, <3>2
  <2>2. CASE m \in MTYPE0
    <3>1. \A i : LevelIn(m, i) = IF i.k \in {"head", "marked"} THEN i.n ELSE 0
      BY <2>2 DEF LevelIn, IsHeadline, MTYPE0
    <3>2. l.k \in {"head", "marked"}
      BY <3>1
    <3> QED
      BY <1>2, <2>1, <3>1, <3>2
  <2>3. CASE m = "hashes"
    BY <1>1, <1>2, <2>1, <2>3 DEF LevelIn, IsHeadline, MTYPE0
  <2>4. CASE m = "org"
    BY <1>1, <1>2, <2>1, <2>4 DEF LevelIn, IsHeadline, MTYPE0
  <2>5. CASE m = "cwiki"
    BY <1>1, <1>2, <2>1, <2>5 DEF LevelIn, IsHeadline, MTYPE0
  <2> QED
    BY <1>4, <2>2, <2>3, <2>4, <2>5
<1>5. CASE m \in {"wiki", "vimwiki", "html"}
  <2>1. ChangeLev(m, l, d) = Both(l, d)
    <3>1. m \notin MTYPE0
      BY <1>5 DEF MTYPE0
    <3>2. CASE m = "wiki"
      BY <3>1, <3>2, Zenon DEF ChangeLev, wiki_changeLev
    <3>3. CASE m = "vimwiki"
      BY <3>1, <3>3, Zenon DEF ChangeLev, vimwiki_changeLev
    <3>4. CASE m = "html"
      BY <3>1, <3>4, Zenon DEF ChangeLev, html_changeLev
    <3> QED
      BY <1>5, <3>2, <3>3, <3>4
  <2>2. CASE m = "html"
    BY <1>1, <1>3, <2>1, <2>2 DEF LevelIn, IsHeadline, MTYPE0
  <2>3. CASE m \in {"wiki", "vimwiki"}
    <3>1. \A i : LevelIn(m, i) = IF i.k = "head" THEN Lesser(i.n, i.c) ELSE 0
      BY <2>3 DEF LevelIn, IsHeadline, MTYPE0
    <3>2. l.k = "head"
      BY <3>1
    <3>3. Lesser(l.n + d, l.c + d) = Lesser(l.n, l.c) + d
      BY <1>1 DEF Lesser
    <3> QED
      BY <1>3, <2>1, <3>1, <3>2, <3>3
  <2> QED
    BY <1>5, <2>2, <2>3
<1> QED
  BY <1>4, <1>5 DEF OneLineModes

LEMMA NoHook ==
  ASSUME NEW m \in OneLineModes, NEW S, NEW oop, NEW d, NEW bl1, NEW tl1, NEW bl2, NEW tl2,
         NEW blCut, NEW tlCut
  PROVE  AfterOop(m, S, oop, d, bl1, tl1, bl2, tl2, blCut, tlCut) = S
<1>1. /\ m # "dokuwiki" /\ m # "inverseAtx" /\ m # "vimoutliner" /\ m # "thevimoutliner"
      /\ m # "taskpaper" /\ m # "markdown" /\ m # "pandoc" /\ m # "rest" /\ m # "asciidoc"
  BY DEF OneLineModes, MTYPE0
<1> QED
  BY <1>1, Zenon DEF AfterOop

LEMMA LevelInType ==
  ASSUME NEW m \in OneLineModes, NEW l \in LineType
  PROVE  LevelIn(m, l) \in Int
<1>1. l.n \in Int /\ l.c \in Int
  BY DEF LineType
<1>2. Lesser(l.n, l.c) \in Int
  BY <1>1 DEF Lesser
<1> QED
  BY <1>1, <1>2 DEF LevelIn

-----------------------------------------------------------------------------
(* Slices, element by element.                                             *)

IsCut(T, w, s, a, b) ==
  /\ w \in Seq(T)
  /\ Len(w) = Len(s) - (b - a + 1)
  /\ \A i \in 1 .. a - 1 : w[i] = s[i]
  /\ \A i \in a .. Len(s) - (b - a + 1) : w[i] = s[i + (b - a + 1)]

LEMMA CutOutIs ==
  ASSUME NEW T, NEW s \in Seq(T), NEW a \in 1 .. Len(s), NEW b \in a .. Len(s)
  PROVE  IsCut(T, CutOut(s, a, b), s, a, b)
<1> DEFINE s1 == SubSeq(s, 1, a - 1)
           s2 == SubSeq(s, b + 1, Len(s))
<1>1. Len(s) \in Nat
  OBVIOUS
<1>2. s1 \in Seq(T) /\ Len(s1) = a - 1 /\ \A i \in 1 .. a - 1 : s1[i] = s[i]
  OBVIOUS
<1>3. s2 \in Seq(T) /\ Len(s2) = Len(s) - b /\ \A i \in 1 .. Len(s) - b : s2[i] = s[b + i]
  OBVIOUS
<1>4. CutOut(s, a, b) = s1 \o s2
  BY DEF CutOut
<1> HIDE DEF s1, s2
<1>5. /\ s1 \o s2 \in Seq(T)
      /\ Len(s1 \o s2) = Len(s1) + Len(s2)
      /\ \A i \in 1 .. Len(s1) + Len(s2) :
           (s1 \o s2)[i] = IF i <= Len(s1) THEN s1[i] ELSE s2[i - Len(s1)]
  BY <1>2, <1>3, ConcatProperties
<1>6. ASSUME NEW i \in 1 .. a - 1
      PROVE  (s1 \o s2)[i] = s[i]
  BY <1>1, <1>2, <1>3, <1>5
<1>7. ASSUME NEW i \in a .. Len(s) - (b - a + 1)
      PROVE  (s1 \o s2)[i] = s[i + (b - a + 1)]
  <2>1. i - (a - 1) \in 1 .. Len(s) - b /\ b + (i - (a - 1)) = i + (b - a + 1)
    BY <1>1
  <2>2. i \in 1 .. Len(s1) + Len(s2) /\ ~(i <= Len(s1)) /\ i - Len(s1) = i - (a - 1)
    BY <1>1, <1>2, <1>3
  <2>3. (s1 \o s2)[i] = s2[i - (a - 1)]
    BY <1>5, <2>2
  <2> QED
    BY <1>3, <2>1, <2>3
<1>8. Len(s1) + Len(s2) = Len(s) - (b - a + 1)
  BY <1>1, <1>2, <1>3
<1> QED
  BY <1>4, <1>5, <1>6, <1>7, <1>8 DEF IsCut

IsPut(T, w, s, k, t) ==
  /\ w \in Seq(T)
  /\ Len(w) = Len(s) + Len(t)
  /\ \A i \in 1 .. k : w[i] = s[i]
  /\ \A i \in k + 1 .. k + Len(t) : w[i] = t[i - k]
  /\ \A i \in k + Len(t) + 1 .. Len(s) + Len(t) : w[i] = s[i - Len(t)]

LEMMA PutAfterIs ==
  ASSUME NEW T, NEW s \in Seq(T), NEW t \in Seq(T), NEW k \in 0 .. Len(s)
  PROVE  IsPut(T, PutAfter(s, k, t), s, k, t)
<1> DEFINE s1 == SubSeq(s, 1, k)
           s2 == SubSeq(s, k + 1, Len(s))
           st == s1 \o t
<1>1. Len(s) \in Nat /\ Len(t) \in Nat
  OBVIOUS
<1>2. s1 \in Seq(T) /\ Len(s1) = k /\ \A i \in 1 .. k : s1[i] = s[i]
  OBVIOUS
<1>3. s2 \in Seq(T) /\ Len(s2) = Len(s) - k /\ \A i \in 1 .. Len(s) - k : s2[i] = s[k + i]
  OBVIOUS
<1>4. PutAfter(s, k, t) = st \o s2
  BY DEF PutAfter
<1> HIDE DEF s1, s2
<1>5. /\ st \in Seq(T)
      /\ Len(st) = k + Len(t)
      /\ \A i \in 1 .. k + Len(t) : st[i] = IF i <= k THEN s1[i] ELSE t[i - k]
  BY <1>2, ConcatProperties
<1> HIDE DEF st
<1>6. /\ st \o s2 \in Seq(T)
      /\ Len(st \o s2) = Len(st) + Len(s2)
      /\ \A i \in 1 .. Len(st) + Len(s2) :
           (st \o s2)[i] = IF i <= Len(st) THEN st[i] ELSE s2[i - Len(st)]
  BY <1>3, <1>5, ConcatProperties
<1>7. ASSUME NEW i \in 1 .. k
      PROVE  (st \o s2)[i] = s[i]
  BY <1>1, <1>2, <1>3, <1>5, <1>6
<1>8. ASSUME NEW i \in k + 1 .. k + Len(t)
      PROVE  (st \o s2)[i] = t[i - k]
  BY <1>1, <1>3, <1>5, <1>6
<1>9. ASSUME NEW i \in k + Len(t) + 1 .. Len(s) + Len(t)
      PROVE  (st \o s2)[i] = s[i - Len(t)]
  <2>1. i - (k + Len(t)) \in 1 .. Len(s) - k /\ k + (i - (k + Len(t))) = i - Len(t)
    BY <1>1
  <2>2. (st \o s2)[i] = s2[i - (k + Len(t))]
    <3>1. i \in 1 .. Len(st) + Len(s2) /\ ~(i <= Len(st)) /\ Len(st) = k + Len(t)
      BY <1>1, <1>3, <1>5
    <3> QED
      BY <1>6, <3>1
  <2> QED
    BY <1>3, <2>1, <2>2
<1>10. Len(st) + Len(s2) = Len(s) + Len(t)
  BY <1>1, <1>3, <1>5
<1> QED
  BY <1>4, <1>6, <1>7, <1>8, <1>9, <1>10 DEF IsPut

LEMMA SliceIs ==
  ASSUME NEW T, NEW s \in Seq(T), NEW a \in 1 .. Len(s), NEW b \in a .. Len(s)
  PROVE  /\ Slice(s, a, b) \in Seq(T)
         /\ Len(Slice(s, a, b)) = b - a + 1
         /\ \A i \in 1 .. b - a + 1 : Slice(s, a, b)[i] = s[a + i - 1]
BY DEF Slice

\* s with block b..c moved before a, as t.
IsMovedUp(T, w, s, a, b, c, t) ==
  /\ w \in Seq(T)
  /\ Len(w) = Len(s)
  /\ \A i \in (1 .. a - 1) \cup (c + 1 .. Len(s)) : w[i] = s[i]
  /\ \A i \in a .. a + (c - b) : w[i] = t[i - a + 1]
  /\ \A i \in a + (c - b) + 1 .. c : w[i] = s[i - (c - b + 1)]

LEMMA MovedUpIs ==
  ASSUME NEW T, NEW s \in Seq(T), NEW a \in 1 .. Len(s), NEW b \in a + 1 .. Len(s),
         NEW c \in b .. Len(s), NEW t \in Seq(T), Len(t) = c - b + 1
  PROVE  IsMovedUp(T, PutAfter(CutOut(s, b, c), a - 1, t), s, a, b, c, t)
<1> DEFINE u == CutOut(s, b, c)
           w == PutAfter(u, a - 1, t)
<1>1. Len(s) \in Nat /\ b \in 1 .. Len(s)
  OBVIOUS
<1>2. IsCut(T, u, s, b, c)
  BY <1>1, CutOutIs
<1> HIDE DEF u
<1>3. u \in Seq(T) /\ a - 1 \in 0 .. Len(u) /\ Len(u) = Len(s) - Len(t)
  BY <1>1, <1>2 DEF IsCut
<1>4. IsPut(T, w, u, a - 1, t)
  BY <1>3, PutAfterIs
<1> HIDE DEF w
<1>5. w \in Seq(T) /\ Len(w) = Len(s)
  BY <1>1, <1>3, <1>4, SMTT(30) DEF IsPut
<1>6. ASSUME NEW i \in 1 .. a - 1 PROVE w[i] = s[i]
  BY <1>1, <1>2, <1>4, SMTT(30) DEF IsCut, IsPut
<1>7. ASSUME NEW i \in c + 1 .. Len(s) PROVE w[i] = s[i]
  <2>1. /\ i \in a - 1 + Len(t) + 1 .. Len(u) + Len(t)
        /\ i - Len(t) \in b .. Len(s) - (c - b + 1)
        /\ i - Len(t) + (c - b + 1) = i
    BY <1>1, <1>3
  <2>2. w[i] = u[i - Len(t)]
    BY <1>4, <2>1 DEF IsPut
  <2>3. u[i - Len(t)] = s[i]
    BY <1>2, <2>1 DEF IsCut
  <2> QED
    BY <2>2, <2>3
<1>8. ASSUME NEW i \in a .. a + (c - b) PROVE w[i] = t[i - a + 1]
  <2>1. i - (a - 1) = i - a + 1 /\ i \in a - 1 + 1 .. a - 1 + Len(t)
    BY <1>1
  <2> QED
    BY <1>4, <2>1 DEF IsPut
<1>9. ASSUME NEW i \in a + (c - b) + 1 .. c PROVE w[i] = s[i - (c - b + 1)]
  <2>1. /\ i \in a - 1 + Len(t) + 1 .. Len(u) + Len(t)
        /\ i - Len(t) \in 1 .. b - 1
        /\ i - Len(t) = i - (c - b + 1)
    BY <1>1, <1>3
  <2>2. w[i] = u[i - Len(t)]
    BY <1>4, <2>1 DEF IsPut
  <2>3. u[i - Len(t)] = s[i - Len(t)]
    BY <1>2, <2>1 DEF IsCut
  <2> QED
    BY <2>1, <2>2, <2>3
<1> QED
  BY <1>5, <1>6, <1>7, <1>8, <1>9 DEF w, u, IsMovedUp

\* s with block a..b moved behind c, as t.
IsMovedDown(T, w, s, a, b, c, t) ==
  /\ w \in Seq(T)
  /\ Len(w) = Len(s)
  /\ \A i \in (1 .. a - 1) \cup (c + 1 .. Len(s)) : w[i] = s[i]
  /\ \A i \in a .. a + (c - b) - 1 : w[i] = s[i + (b - a + 1)]
  /\ \A i \in a + (c - b) .. c : w[i] = t[i - (a + (c - b)) + 1]

LEMMA MovedDownIs ==
  ASSUME NEW T, NEW s \in Seq(T), NEW a \in 1 .. Len(s), NEW b \in a .. Len(s),
         NEW c \in b + 1 .. Len(s), NEW t \in Seq(T), Len(t) = b - a + 1
  PROVE  IsMovedDown(T, CutOut(PutAfter(s, c, t), a, b), s, a, b, c, t)
<1> DEFINE u == PutAfter(s, c, t)
           w == CutOut(u, a, b)
<1>1. Len(s) \in Nat /\ c \in 0 .. Len(s)
  OBVIOUS
<1>2. IsPut(T, u, s, c, t)
  BY <1>1, PutAfterIs
<1> HIDE DEF u
<1>3. u \in Seq(T) /\ a \in 1 .. Len(u) /\ b \in a .. Len(u) /\ Len(u) = Len(s) + Len(t)
  BY <1>1, <1>2 DEF IsPut
<1>4. IsCut(T, w, u, a, b)
  BY <1>3, CutOutIs
<1> HIDE DEF w
<1>5. w \in Seq(T) /\ Len(w) = Len(s)
  BY <1>1, <1>3, <1>4 DEF IsCut
<1>6. ASSUME NEW i \in 1 .. a - 1 PROVE w[i] = s[i]
  BY <1>1, <1>2, <1>4 DEF IsCut, IsPut
<1>7. ASSUME NEW i \in a .. Len(s) PROVE w[i] = u[i + (b - a + 1)]
  <2>1. i \in a .. Len(u) - (b - a + 1)
    BY <1>1, <1>3
  <2> QED
    BY <1>4, <2>1 DEF IsCut
<1>8. ASSUME NEW i \in c + 1 .. Len(s) PROVE w[i] = s[i]
  <2>1. /\ i + (b - a + 1) \in c + Len(t) + 1 .. Len(s) + Len(t)
        /\ i + (b - a + 1) - Len(t) = i
        /\ i \in a .. Len(s)
    BY <1>1
  <2>2. u[i + (b - a + 1)] = s[i + (b - a + 1) - Len(t)]
    BY <1>2, <2>1 DEF IsPut
  <2> QED
    BY <1>7, <2>1, <2>2
<1>9. ASSUME NEW i \in a .. a + (c - b) - 1 PROVE w[i] = s[i + (b - a + 1)]
  <2>1. i + (b - a + 1) \in 1 .. c /\ i \in a .. Len(s)
    BY <1>1
  <2> QED
    BY <1>2, <1>7, <2>1 DEF IsPut
<1>10. ASSUME NEW i \in a + (c - b) .. c PROVE w[i] = t[i - (a + (c - b)) + 1]
  <2>1. /\ i + (b - a + 1) \in c + 1 .. c + Len(t)
        /\ i + (b - a + 1) - c = i - (a + (c - b)) + 1
        /\ i \in a .. Len(s)
    BY <1>1
  <2>2. u[i + (b - a + 1)] = t[i + (b - a + 1) - c]
    BY <1>2, <2>1 DEF IsPut
  <2> QED
    BY <1>7, <2>1, <2>2
<1> QED
  BY <1>5, <1>6, <1>8, <1>9, <1>10 DEF w, u, IsMovedDown

-----------------------------------------------------------------------------
(* What the caches tell.                                                   *)

\* bn and lv give the lines and levels of just the headlines of B, in order.
Told(m, bn, lv, B) ==
  /\ B \in Seq(LineType) /\ B # <<>>
  /\ bn \in Seq(Int) /\ lv \in Seq(Int) /\ Len(bn) = Len(lv) /\ bn # <<>>
  /\ bn[1] = 1 /\ lv[1] = 1
  /\ \A i \in 2 .. Len(bn) :
       bn[i] \in 1 .. Len(B) /\ lv[i] > 0 /\ LevelIn(m, B[bn[i]]) = lv[i]
  /\ \A i, j \in 2 .. Len(bn) : i < j => bn[i] < bn[j]
  /\ \A k \in 1 .. Len(B) : LevelIn(m, B[k]) > 0 => \E i \in 2 .. Len(bn) : bn[i] = k

\* The lines of Tree T show these headlines.
Shown(T, bn, lv, B) ==
  /\ T \in Seq(TreeLineType) /\ Len(T) = Len(lv)
  /\ \A i \in 2 .. Len(T) : /\ T[i].lev = lv[i]
                            /\ T[i].head = B[bn[i]].t
                            /\ T[i].x = (B[bn[i]].k = "marked")

WithLevel(m, l, d) == IF d = 0 THEN l ELSE ChangeLev(m, l, d)

\* Headline i of the new outline is headline o[i] of the old one with another
\* level, and there are no others.
IsRearranged(m, bn, lv, B, bn2, lv2, B2, o, d) ==
  /\ B2 \in Seq(LineType) /\ B2 # <<>>
  /\ bn2 \in Seq(Int) /\ lv2 \in Seq(Int) /\ Len(bn2) = Len(lv2) /\ bn2 # <<>>
  /\ bn2[1] = 1 /\ lv2[1] = 1
  /\ \A i \in 2 .. Len(bn2) :
       /\ o[i] \in 2 .. Len(bn) /\ d[i] \in Int
       /\ bn2[i] \in 1 .. Len(B2)
       /\ lv2[i] = lv[o[i]] + d[i] /\ lv2[i] > 0
       /\ B2[bn2[i]] = WithLevel(m, B[bn[o[i]]], d[i])
  /\ \A i, j \in 2 .. Len(bn2) : i < j => bn2[i] < bn2[j]
  /\ \A k \in 1 .. Len(B2) : LevelIn(m, B2[k]) > 0 => \E i \in 2 .. Len(bn2) : bn2[i] = k

\* Tree T2 has the lines of T in their new places.
IsTreeRearranged(T, T2, lv2, o) ==
  /\ T2 \in Seq(TreeLineType) /\ Len(T2) = Len(lv2)
  /\ T2[1] = T[1]
  /\ \A i \in 2 .. Len(T2) : /\ T2[i].lev = lv2[i]
                             /\ T2[i].head = T[o[i]].head
                             /\ T2[i].x = T[o[i]].x

\* The line that is left of a Body without lines.
LEMMA BlankIs == Blank \in LineType
<1>1. Blank = [k |-> "text", n |-> 0, c |-> 0, t |-> 0]
  BY DEF Blank, Text, Line, NoText
<1>2. "text" \in Kinds
  BY DEF Kinds
<1> HIDE DEF Blank
<1> QED
  BY <1>1, <1>2 DEF LineType

LEMMA WithLevelIs ==
  ASSUME NEW m \in OneLineModes, NEW l \in LineType, NEW d \in Int,
         LevelIn(m, l) > 0, LevelIn(m, l) + d > 0
  PROVE  /\ WithLevel(m, l, d) \in LineType
         /\ LevelIn(m, WithLevel(m, l, d)) = LevelIn(m, l) + d
         /\ WithLevel(m, l, d).k = l.k
         /\ WithLevel(m, l, d).t = l.t
<1>1. LevelIn(m, l) \in Int
  BY LevelInType
<1>2. CASE d = 0
  BY <1>1, <1>2 DEF WithLevel
<1>3. CASE d # 0
  BY <1>3, ChangeLevIs DEF WithLevel
<1> QED
  BY <1>2, <1>3

LEMMA RearrangedIsTold ==
  ASSUME NEW m \in OneLineModes, NEW bn, NEW lv, NEW B, NEW bn2, NEW lv2, NEW B2, NEW o, NEW d,
         NEW T, NEW T2, Told(m, bn, lv, B), Shown(T, bn, lv, B),
         IsRearranged(m, bn, lv, B, bn2, lv2, B2, o, d), IsTreeRearranged(T, T2, lv2, o)
  PROVE  Told(m, bn2, lv2, B2) /\ Shown(T2, bn2, lv2, B2)
<1>1. ASSUME NEW i \in 2 .. Len(bn2)
      PROVE  /\ LevelIn(m, B2[bn2[i]]) = lv2[i]
             /\ B2[bn2[i]].t = B[bn[o[i]]].t
             /\ B2[bn2[i]].k = B[bn[o[i]]].k
  <2>1. /\ o[i] \in 2 .. Len(bn) /\ d[i] \in Int
        /\ lv2[i] = lv[o[i]] + d[i] /\ lv2[i] > 0
        /\ B2[bn2[i]] = WithLevel(m, B[bn[o[i]]], d[i])
    BY DEF IsRearranged
  <2>2. PICK j \in 2 .. Len(bn) : j = o[i]
    BY <2>1
  <2>3. /\ bn[j] \in 1 .. Len(B) /\ lv[j] > 0 /\ LevelIn(m, B[bn[j]]) = lv[j]
        /\ B \in Seq(LineType)
    BY DEF Told
  <2>4. B[bn[j]] \in LineType
    BY <2>3
  <2>5. /\ B[bn[o[i]]] \in LineType
        /\ LevelIn(m, B[bn[o[i]]]) = lv[o[i]] /\ lv[o[i]] > 0
    BY <2>2, <2>3, <2>4
  <2> QED
    BY <2>1, <2>5, WithLevelIs
<1>2. Told(m, bn2, lv2, B2)
  BY <1>1 DEF IsRearranged, Told
<1>3. ASSUME NEW i \in 2 .. Len(T2)
      PROVE  T2[i].head = B2[bn2[i]].t /\ T2[i].x = (B2[bn2[i]].k = "marked")
  <2>1. i \in 2 .. Len(bn2) /\ o[i] \in 2 .. Len(T)
    BY DEF IsRearranged, IsTreeRearranged, Shown, Told
  <2>2. T2[i].head = T[o[i]].head /\ T2[i].x = T[o[i]].x
    BY DEF IsTreeRearranged
  <2>3. T[o[i]].head = B[bn[o[i]]].t /\ T[o[i]].x = (B[bn[o[i]]].k = "marked")
    BY <2>1 DEF Shown
  <2> QED
    BY <1>1, <2>1, <2>2, <2>3
<1> QED
  BY <1>2, <1>3 DEF IsTreeRearranged, Shown

\* The last line of the Body that belongs to headline i.
EndIn(bn, B, i) == IF i < Len(bn) THEN bn[i + 1] - 1 ELSE Len(B)

LEMMA EndIs ==
  ASSUME NEW m, NEW bn, NEW lv, NEW B, Told(m, bn, lv, B), NEW r \in 1 .. Len(bn)
  PROVE  /\ EndIn(bn, B, r) \in 0 .. Len(B)
         /\ r > 1 => bn[r] <= EndIn(bn, B, r)
         /\ \A j \in 2 .. Len(bn) : bn[j] <= EndIn(bn, B, r) <=> j <= r
<1>1. Len(bn) \in Nat /\ Len(B) \in Nat /\ bn \in Seq(Int)
  BY DEF Told
<1>2. \A j \in 2 .. Len(bn) : bn[j] \in 1 .. Len(B)
  BY DEF Told
<1>3. \A i, j \in 2 .. Len(bn) : i < j => bn[i] < bn[j]
  BY DEF Told
<1>4. CASE r = Len(bn)
  BY <1>1, <1>2, <1>4 DEF EndIn
<1>5. CASE r < Len(bn)
  <2>1. r + 1 \in 2 .. Len(bn) /\ EndIn(bn, B, r) = bn[r + 1] - 1
    BY <1>1, <1>5 DEF EndIn
  <2>2. ASSUME NEW j \in 2 .. Len(bn) PROVE bn[j] <= EndIn(bn, B, r) <=> j <= r
    <3>1. CASE j <= r
      <4>1. bn[j] < bn[r + 1]
        BY <1>1, <1>3, <2>1, <3>1
      <4> QED
        BY <1>2, <2>1, <3>1, <4>1
    <3>2. CASE j = r + 1
      BY <1>1, <1>2, <2>1, <3>2
    <3>3. CASE j > r + 1
      <4>1. bn[r + 1] < bn[j]
        BY <1>1, <1>3, <2>1, <3>3
      <4> QED
        BY <1>1, <1>2, <2>1, <3>3, <4>1
    <3> QED
      BY <1>1, <3>1, <3>2, <3>3
  <2> QED
    BY <1>1, <1>2, <2>1, <2>2
<1> QED
  BY <1>1, <1>4, <1>5

-----------------------------------------------------------------------------
(* Two regions of nodes that change places.                                *)

\* Body line bl is where node p begins, or would begin.
BeginsAt(bn, p, bl) == \A j \in 2 .. Len(bn) : bn[j] < bl <=> j < p

\* Line k of B with its level changed by d if it is a headline.
MovedLine(m, bn, B, k, d) ==
  IF \E i \in 2 .. Len(bn) : bn[i] = k THEN WithLevel(m, B[k], d) ELSE B[k]

\* The n1 nodes from p on, with size1 lines from bl on, and the n2 nodes after
\* them, with size2 lines, have changed places and got d1 and d2 added to their
\* levels.
IsSwapped(m, bn, lv, B, p, n1, n2, bl, size1, size2, d1, d2, bn2, lv2, B2) ==
  /\ B2 \in Seq(LineType) /\ Len(B2) = Len(B)
  /\ bn2 \in Seq(Int) /\ Len(bn2) = Len(bn)
  /\ lv2 \in Seq(Int) /\ Len(lv2) = Len(bn)
  /\ \A k \in (1 .. bl - 1) \cup (bl + size1 + size2 .. Len(B)) : B2[k] = B[k]
  /\ \A k \in bl .. bl + size2 - 1 : B2[k] = MovedLine(m, bn, B, k + size1, d2)
  /\ \A k \in bl + size2 .. bl + size2 + size1 - 1 : B2[k] = MovedLine(m, bn, B, k - size2, d1)
  /\ \A i \in (1 .. p - 1) \cup (p + n1 + n2 .. Len(bn)) : bn2[i] = bn[i] /\ lv2[i] = lv[i]
  /\ \A i \in p .. p + n2 - 1 : bn2[i] = bn[i + n1] - size1 /\ lv2[i] = lv[i + n1] + d2
  /\ \A i \in p + n2 .. p + n2 + n1 - 1 : bn2[i] = bn[i - n2] + size2 /\ lv2[i] = lv[i - n2] + d1

\* These are nodes and lines, and the levels are positive.
CanSwap(bn, lv, B, p, n1, n2, bl, size1, size2, d1, d2) ==
  /\ p > 1 /\ n1 >= 0 /\ n2 >= 0 /\ p + n1 + n2 - 1 <= Len(bn)
  /\ bl > 0 /\ size1 >= 0 /\ size2 >= 0 /\ bl + size1 + size2 - 1 <= Len(B)
  /\ BeginsAt(bn, p, bl)
  /\ BeginsAt(bn, p + n1, bl + size1)
  /\ BeginsAt(bn, p + n1 + n2, bl + size1 + size2)
  /\ \A i \in p .. p + n1 - 1 : lv[i] + d1 > 0
  /\ \A i \in p + n1 .. p + n1 + n2 - 1 : lv[i] + d2 > 0

SwapOrigin(p, n1, n2) ==
  [i \in Int |-> IF i \in p .. p + n2 - 1 THEN i + n1
                 ELSE IF i \in p + n2 .. p + n2 + n1 - 1 THEN i - n2 ELSE i]

SwapDelta(p, n1, n2, d1, d2) ==
  [i \in Int |-> IF i \in p .. p + n2 - 1 THEN d2
                 ELSE IF i \in p + n2 .. p + n2 + n1 - 1 THEN d1 ELSE 0]

LEMMA SwappedIsRearranged ==
  ASSUME NEW m \in OneLineModes, NEW bn, NEW lv, NEW B, Told(m, bn, lv, B),
         NEW p \in Int, NEW n1 \in Int, NEW n2 \in Int,
         NEW bl \in Int, NEW size1 \in Int, NEW size2 \in Int, NEW d1 \in Int, NEW d2 \in Int,
         CanSwap(bn, lv, B, p, n1, n2, bl, size1, size2, d1, d2),
         NEW bn2, NEW lv2, NEW B2,
         IsSwapped(m, bn, lv, B, p, n1, n2, bl, size1, size2, d1, d2, bn2, lv2, B2)
  PROVE  IsRearranged(m, bn, lv, B, bn2, lv2, B2, SwapOrigin(p, n1, n2),
                      SwapDelta(p, n1, n2, d1, d2))
<1> DEFINE o == SwapOrigin(p, n1, n2)
           d == SwapDelta(p, n1, n2, d1, d2)
           first == (2 .. p - 1) \cup (p + n1 + n2 .. Len(bn))
<1>1. PICK N \in Nat, Z \in Nat : N = Len(bn) /\ Z = Len(B)
  BY DEF Told
<1>2. \A i \in 2 .. N : bn[i] \in Int /\ 1 <= bn[i] /\ bn[i] <= Z /\ lv[i] \in Int /\ lv[i] > 0
                        /\ LevelIn(m, B[bn[i]]) = lv[i]
  <2>1. lv \in Seq(Int) /\ Len(lv) = Len(bn)
    BY DEF Told
  <2> QED
    BY <1>1, <2>1, SMTT(30) DEF Told
<1>3. \A i, j \in 2 .. N : i < j => bn[i] < bn[j]
  BY <1>1 DEF Told
<1>5. \A j \in 2 .. N : /\ bn[j] < bl <=> j < p
                        /\ bn[j] < bl + size1 <=> j < p + n1
                        /\ bn[j] < bl + size1 + size2 <=> j < p + n1 + n2
  BY <1>1 DEF CanSwap, BeginsAt
<1>6. /\ B2 \in Seq(LineType) /\ Len(B2) = Z
      /\ bn2 \in Seq(Int) /\ Len(bn2) = N
      /\ lv2 \in Seq(Int) /\ Len(lv2) = N
  BY <1>1 DEF IsSwapped
<1>7. /\ \A k \in (1 .. bl - 1) \cup (bl + size1 + size2 .. Z) : B2[k] = B[k]
      /\ \A k \in bl .. bl + size2 - 1 : B2[k] = MovedLine(m, bn, B, k + size1, d2)
      /\ \A k \in bl + size2 .. bl + size2 + size1 - 1 : B2[k] = MovedLine(m, bn, B, k - size2, d1)
  BY <1>1 DEF IsSwapped
<1>8. /\ \A i \in (1 .. p - 1) \cup (p + n1 + n2 .. N) : bn2[i] = bn[i] /\ lv2[i] = lv[i]
      /\ \A i \in p .. p + n2 - 1 : bn2[i] = bn[i + n1] - size1 /\ lv2[i] = lv[i + n1] + d2
      /\ \A i \in p + n2 .. p + n2 + n1 - 1 : bn2[i] = bn[i - n2] + size2 /\ lv2[i] = lv[i - n2] + d1
  BY <1>1 DEF IsSwapped
<1>10. /\ \A i \in p .. p + n1 - 1 : lv[i] + d1 > 0
       /\ \A i \in p + n1 .. p + n1 + n2 - 1 : lv[i] + d2 > 0
       /\ p + n1 + n2 - 1 <= N /\ bl + size1 + size2 - 1 <= Z
       /\ p > 1 /\ n1 >= 0 /\ n2 >= 0 /\ bl > 0 /\ size1 >= 0 /\ size2 >= 0
  BY <1>1 DEF CanSwap
<1>9. /\ \A i \in (1 .. p - 1) \cup (p + n1 + n2 .. N) : o[i] = i /\ d[i] = 0
      /\ \A i \in p .. p + n2 - 1 : o[i] = i + n1 /\ d[i] = d2
      /\ \A i \in p + n2 .. p + n2 + n1 - 1 : o[i] = i - n2 /\ d[i] = d1
  <2>1. ASSUME NEW i \in Int
        PROVE  /\ o[i] = IF i \in p .. p + n2 - 1 THEN i + n1
                         ELSE IF i \in p + n2 .. p + n2 + n1 - 1 THEN i - n2 ELSE i
               /\ d[i] = IF i \in p .. p + n2 - 1 THEN d2
                         ELSE IF i \in p + n2 .. p + n2 + n1 - 1 THEN d1 ELSE 0
    BY DEF SwapOrigin, SwapDelta
  <2> HIDE DEF o, d
  <2>2. ASSUME NEW i \in Int, i \in (1 .. p - 1) \cup (p + n1 + n2 .. N)
        PROVE  o[i] = i /\ d[i] = 0
    BY <1>10, <2>1, <2>2
  <2>3. ASSUME NEW i \in Int, i \in p .. p + n2 - 1
        PROVE  o[i] = i + n1 /\ d[i] = d2
    BY <1>10, <2>1, <2>3
  <2>4. ASSUME NEW i \in Int, i \in p + n2 .. p + n2 + n1 - 1
        PROVE  o[i] = i - n2 /\ d[i] = d1
    BY <1>10, <2>1, <2>4
  <2> QED
    BY <2>2, <2>3, <2>4
<1> HIDE DEF o, d
\* A headline of the new outline is in one of four places.
<1>11. ASSUME NEW i \in Int, i \in (2 .. p - 1) \cup (p + n1 + n2 .. N)
       PROVE  \E x \in Int :
              /\ x = bn[i] /\ bn2[i] = x /\ i \in 2 .. N
              /\ 1 <= x /\ x <= Z
              /\ i < p => x < bl
              /\ i >= p => x >= bl + size1 + size2
              /\ lv2[i] > 0 /\ B2[bn2[i]] = WithLevel(m, B[bn[o[i]]], d[i])
              /\ lv2[i] = lv[o[i]] + d[i] /\ o[i] \in 2 .. N /\ d[i] \in Int
  <2>1. i \in 2 .. N /\ bn2[i] = bn[i] /\ lv2[i] = lv[i] /\ o[i] = i /\ d[i] = 0
    BY <1>1, <1>8, <1>9, <1>10, <1>11, SMTT(30)
  <2>2. PICK x \in Int : x = bn[i] /\ 1 <= x /\ x <= Z
    BY <1>10, <1>2, <2>1
  <2>3. i < p => x < bl
    BY <1>10, <1>5, <2>1, <2>2
  <2>4. i >= p => x >= bl + size1 + size2
    <3>1. i >= p => i >= p + n1 + n2
      BY <1>10, <1>11
    <3>2. x < bl + size1 + size2 <=> i < p + n1 + n2
      BY <1>10, <1>5, <2>1, <2>2
    <3> QED
      BY <1>10, <3>1, <3>2
  <2>5. x \in (1 .. bl - 1) \cup (bl + size1 + size2 .. Z)
    BY <1>10, <1>11, <2>2, <2>3, <2>4
  <2>6. B2[x] = B[x]
    BY <1>10, <1>7, <2>5
  <2>7. lv2[i] > 0 /\ lv2[i] = lv[i] + 0
    BY <1>10, <1>2, <2>1
  <2>8. B2[bn2[i]] = WithLevel(m, B[bn[o[i]]], d[i])
    BY <1>10, <2>1, <2>2, <2>6 DEF WithLevel
  <2> QED
    BY <1>10, <2>1, <2>2, <2>3, <2>4, <2>7, <2>8
<1>12. ASSUME NEW i \in Int, i \in p .. p + n2 - 1
       PROVE  \E x \in Int :
              /\ x = bn[i + n1] /\ bn2[i] = x - size1 /\ i + n1 \in 2 .. N /\ i \in 2 .. N
              /\ x >= bl + size1 /\ x < bl + size1 + size2
              /\ lv2[i] > 0 /\ B2[bn2[i]] = WithLevel(m, B[bn[o[i]]], d[i])
              /\ lv2[i] = lv[o[i]] + d[i] /\ o[i] \in 2 .. N /\ d[i] \in Int
  <2>1. PICK j \in Int : j = i + n1
    BY <1>10
  <2>2. j \in 2 .. N /\ i \in 2 .. N /\ j >= p + n1 /\ j < p + n1 + n2 /\ j \in p + n1 .. p + n1 + n2 - 1
    BY <1>10, <1>12, <2>1
  <2>3. bn2[i] = bn[j] - size1 /\ lv2[i] = lv[j] + d2 /\ o[i] = j /\ d[i] = d2
    BY <1>10, <1>8, <1>9, <1>12, <2>1
  <2>4. PICK x \in Int : x = bn[j]
    BY <1>10, <1>2, <2>2
  <2>5. x >= bl + size1 /\ x < bl + size1 + size2
    BY <1>10, <1>5, <2>2, <2>4
  <2>6. PICK y \in Int : y = x - size1
    BY <1>10
  <2>7. y \in bl .. bl + size2 - 1 /\ y + size1 = x
    BY <1>10, <2>5, <2>6
  <2>8. B2[y] = MovedLine(m, bn, B, x, d2)
    BY <1>10, <1>7, <2>7
  <2>9. MovedLine(m, bn, B, x, d2) = WithLevel(m, B[x], d2)
    BY <1>10, <1>1, <2>2, <2>4 DEF MovedLine
  <2>10. lv2[i] > 0
    BY <1>10, <2>2, <2>3
  <2>11. B2[bn2[i]] = WithLevel(m, B[bn[o[i]]], d[i])
    BY <1>10, <2>3, <2>4, <2>6, <2>8, <2>9
  <2> QED
    BY <1>10, <2>1, <2>2, <2>3, <2>4, <2>5, <2>10, <2>11
<1>13. ASSUME NEW i \in Int, i \in p + n2 .. p + n2 + n1 - 1
       PROVE  \E x \in Int :
              /\ x = bn[i - n2] /\ bn2[i] = x + size2 /\ i - n2 \in 2 .. N /\ i \in 2 .. N
              /\ x >= bl /\ x < bl + size1
              /\ lv2[i] > 0 /\ B2[bn2[i]] = WithLevel(m, B[bn[o[i]]], d[i])
              /\ lv2[i] = lv[o[i]] + d[i] /\ o[i] \in 2 .. N /\ d[i] \in Int
  <2>1. PICK j \in Int : j = i - n2
    BY <1>10
  <2>2. j \in 2 .. N /\ i \in 2 .. N /\ j >= p /\ j < p + n1 /\ j \in p .. p + n1 - 1
    BY <1>10, <1>13, <2>1
  <2>3. bn2[i] = bn[j] + size2 /\ lv2[i] = lv[j] + d1 /\ o[i] = j /\ d[i] = d1
    BY <1>10, <1>8, <1>9, <1>13, <2>1
  <2>4. PICK x \in Int : x = bn[j]
    BY <1>10, <1>2, <2>2
  <2>5. x >= bl /\ x < bl + size1
    BY <1>10, <1>5, <2>2, <2>4
  <2>6. PICK y \in Int : y = x + size2
    BY <1>10
  <2>7. y \in bl + size2 .. bl + size2 + size1 - 1 /\ y - size2 = x
    BY <1>10, <2>5, <2>6
  <2>8. B2[y] = MovedLine(m, bn, B, x, d1)
    BY <1>10, <1>7, <2>7
  <2>9. MovedLine(m, bn, B, x, d1) = WithLevel(m, B[x], d1)
    BY <1>10, <1>1, <2>2, <2>4 DEF MovedLine
  <2>10. lv2[i] > 0
    BY <1>10, <2>2, <2>3
  <2>11. B2[bn2[i]] = WithLevel(m, B[bn[o[i]]], d[i])
    BY <1>10, <2>3, <2>4, <2>6, <2>8, <2>9
  <2> QED
    BY <1>10, <2>1, <2>2, <2>3, <2>4, <2>5, <2>10, <2>11
<1>14. ASSUME NEW i \in Int, i \in 2 .. N
       PROVE  \/ i \in (2 .. p - 1) \cup (p + n1 + n2 .. N)
              \/ i \in p .. p + n2 - 1
              \/ i \in p + n2 .. p + n2 + n1 - 1
  BY <1>10, <1>14
<1>15. ASSUME NEW i \in Int, i \in 2 .. N
       PROVE  /\ o[i] \in 2 .. N /\ d[i] \in Int /\ bn2[i] \in 1 .. Z
              /\ lv2[i] = lv[o[i]] + d[i] /\ lv2[i] > 0
              /\ B2[bn2[i]] = WithLevel(m, B[bn[o[i]]], d[i])
  <2>1. CASE i \in (2 .. p - 1) \cup (p + n1 + n2 .. N)
    BY <1>10, <1>11, <2>1
  <2>2. CASE i \in p .. p + n2 - 1
    BY <1>10, <1>12, <2>2
  <2>3. CASE i \in p + n2 .. p + n2 + n1 - 1
    BY <1>10, <1>13, <2>3
  <2> QED
    BY <1>10, <1>14, <1>15, <2>1, <2>2, <2>3
<1>16. ASSUME NEW i \in Int, NEW j \in Int, i \in 2 .. N, j \in 2 .. N, i < j
       PROVE  bn2[i] < bn2[j]
  <2>1. CASE i \in (2 .. p - 1) \cup (p + n1 + n2 .. N)
    <3>1. PICK x \in Int : /\ x = bn[i] /\ bn2[i] = x
                           /\ i < p => x < bl
                           /\ i >= p => x >= bl + size1 + size2
      BY <1>10, <1>11, <2>1
    <3>2. CASE j \in (2 .. p - 1) \cup (p + n1 + n2 .. N)
      BY <1>10, <1>3, <1>11, <1>16, <3>1, <3>2
    <3>3. CASE j \in p .. p + n2 - 1
      <4>1. PICK y \in Int : bn2[j] = y - size1 /\ y >= bl + size1
        BY <1>10, <1>12, <3>3
      <4> QED
        BY <1>10, <1>16, <2>1, <3>1, <3>3, <4>1
    <3>4. CASE j \in p + n2 .. p + n2 + n1 - 1
      <4>1. PICK y \in Int : bn2[j] = y + size2 /\ y >= bl
        BY <1>10, <1>13, <3>4
      <4> QED
        BY <1>10, <1>16, <2>1, <3>1, <3>4, <4>1
    <3> QED
      BY <1>10, <1>14, <1>16, <3>2, <3>3, <3>4
  <2>2. CASE i \in p .. p + n2 - 1
    <3>1. PICK x \in Int : /\ x = bn[i + n1] /\ bn2[i] = x - size1 /\ i + n1 \in 2 .. N
                           /\ x >= bl + size1 /\ x < bl + size1 + size2
      BY <1>10, <1>12, <2>2
    <3>2. CASE j \in (2 .. p - 1) \cup (p + n1 + n2 .. N)
      <4>1. PICK y \in Int : bn2[j] = y /\ (j >= p => y >= bl + size1 + size2)
        BY <1>10, <1>11, <3>2
      <4> QED
        BY <1>10, <1>16, <2>2, <3>1, <4>1
    <3>3. CASE j \in p .. p + n2 - 1
      <4>1. PICK y \in Int : y = bn[j + n1] /\ bn2[j] = y - size1 /\ j + n1 \in 2 .. N
        BY <1>10, <1>12, <3>3
      <4>2. x < y
        <5>1. i + n1 < j + n1
          BY <1>10, <1>16
        <5> QED
          BY <1>10, <1>3, <3>1, <4>1, <5>1
      <4> QED
        BY <1>10, <3>1, <4>1, <4>2
    <3>4. CASE j \in p + n2 .. p + n2 + n1 - 1
      <4>1. PICK y \in Int : bn2[j] = y + size2 /\ y >= bl
        BY <1>10, <1>13, <3>4
      <4> QED
        BY <1>10, <3>1, <4>1
    <3> QED
      BY <1>10, <1>14, <1>16, <3>2, <3>3, <3>4
  <2>3. CASE i \in p + n2 .. p + n2 + n1 - 1
    <3>1. PICK x \in Int : /\ x = bn[i - n2] /\ bn2[i] = x + size2 /\ i - n2 \in 2 .. N
                           /\ x >= bl /\ x < bl + size1
      BY <1>10, <1>13, <2>3
    <3>2. CASE j \in (2 .. p - 1) \cup (p + n1 + n2 .. N)
      <4>1. PICK y \in Int : bn2[j] = y /\ (j >= p => y >= bl + size1 + size2)
        BY <1>10, <1>11, <3>2
      <4> QED
        BY <1>10, <1>16, <2>3, <3>1, <4>1
    <3>3. CASE j \in p .. p + n2 - 1
      BY <1>10, <1>16, <2>3, <3>3
    <3>4. CASE j \in p + n2 .. p + n2 + n1 - 1
      <4>1. PICK y \in Int : y = bn[j - n2] /\ bn2[j] = y + size2 /\ j - n2 \in 2 .. N
        BY <1>10, <1>13, <3>4
      <4>2. x < y
        <5>1. i - n2 < j - n2
          BY <1>10, <1>16
        <5> QED
          BY <1>10, <1>3, <3>1, <4>1, <5>1
      <4> QED
        BY <1>10, <3>1, <4>1, <4>2
    <3> QED
      BY <1>10, <1>14, <1>16, <3>2, <3>3, <3>4
  <2> QED
    BY <1>10, <1>14, <1>16, <2>1, <2>2, <2>3
<1>17. ASSUME NEW k \in Int, k \in 1 .. Z, LevelIn(m, B2[k]) > 0
       PROVE  \E i \in 2 .. N : bn2[i] = k
  <2>0. ASSUME NEW c \in 1 .. Z, LevelIn(m, B[c]) > 0
        PROVE  \E j \in 2 .. N : bn[j] = c
    BY <1>10, <1>1, <2>0 DEF Told
  <2>00. ASSUME NEW c \in 1 .. Z, NEW dd, LevelIn(m, MovedLine(m, bn, B, c, dd)) > 0
         PROVE  \E j \in 2 .. N : bn[j] = c
    BY <1>10, <1>1, <2>0, <2>00 DEF MovedLine
  <2>1. CASE k \in (1 .. bl - 1) \cup (bl + size1 + size2 .. Z)
    <3>1. PICK j \in 2 .. N : bn[j] = k
      BY <1>10, <1>7, <1>17, <2>0, <2>1
    <3>2. j \in (1 .. p - 1) \cup (p + n1 + n2 .. N)
      <4>1. /\ k < bl <=> j < p
            /\ k < bl + size1 + size2 <=> j < p + n1 + n2
        BY <1>10, <1>5, <3>1
      <4> QED
        BY <1>10, <2>1, <4>1
    <3> QED
      BY <1>10, <1>8, <3>1, <3>2
  <2>2. CASE k \in bl .. bl + size2 - 1
    <3>1. PICK c \in Int : c = k + size1
      BY <1>10
    <3>2. c \in 1 .. Z /\ c >= bl + size1 /\ c < bl + size1 + size2
      BY <1>10, <2>2, <3>1
    <3>3. PICK j \in 2 .. N : bn[j] = c
      BY <1>10, <1>7, <1>17, <2>00, <2>2, <3>1, <3>2
    <3>4. j >= p + n1 /\ j < p + n1 + n2
      BY <1>10, <1>5, <3>2, <3>3
    <3>5. PICK i \in Int : i = j - n1
      BY <1>10
    <3>6. i \in p .. p + n2 - 1 /\ i \in 2 .. N /\ i + n1 = j
      BY <1>10, <3>4, <3>5
    <3>7. bn2[i] = c - size1
      BY <1>10, <1>8, <3>3, <3>6
    <3> QED
      BY <1>10, <3>1, <3>6, <3>7
  <2>3. CASE k \in bl + size2 .. bl + size2 + size1 - 1
    <3>1. PICK c \in Int : c = k - size2
      BY <1>10
    <3>2. c \in 1 .. Z /\ c >= bl /\ c < bl + size1
      BY <1>10, <2>3, <3>1
    <3>3. PICK j \in 2 .. N : bn[j] = c
      BY <1>10, <1>7, <1>17, <2>00, <2>3, <3>1, <3>2
    <3>4. j >= p /\ j < p + n1
      BY <1>10, <1>5, <3>2, <3>3
    <3>5. PICK i \in Int : i = j + n2
      BY <1>10
    <3>6. i \in p + n2 .. p + n2 + n1 - 1 /\ i \in 2 .. N /\ i - n2 = j
      BY <1>10, <3>4, <3>5
    <3>7. bn2[i] = c + size2
      BY <1>10, <1>8, <3>3, <3>6
    <3> QED
      BY <1>10, <3>1, <3>6, <3>7
  <2> QED
    BY <1>10, <1>17, <2>1, <2>2, <2>3
<1>18. bn2[1] = 1 /\ lv2[1] = 1
  <2>1. 1 \in 1 .. p - 1
    BY <1>10
  <2> QED
    BY <1>8, <2>1 DEF Told
<1>19. B2 # <<>> /\ bn2 # <<>>
  <2>1. N # 0
    BY <1>10
  <2>2. Z # 0
    BY <1>1 DEF Told
  <2> QED
    BY <1>6, <2>1, <2>2
<1> QED
  BY <1>10, <1>1, <1>6, <1>15, <1>16, <1>17, <1>18, <1>19 DEF IsRearranged, o, d

-----------------------------------------------------------------------------
(* A region that is cut out.                                               *)

\* The n nodes from p on, with size lines from bl on, are gone.  A Body without
\* lines becomes a blank one.
IsTrimmed(bn, lv, B, p, n, bl, size, bn2, lv2, B2) ==
  /\ B2 \in Seq(LineType)
  /\ bn2 \in Seq(Int) /\ Len(bn2) = Len(bn) - n
  /\ lv2 \in Seq(Int) /\ Len(lv2) = Len(bn) - n
  /\ \/ /\ Len(B2) = Len(B) - size /\ size < Len(B)
        /\ \A k \in 1 .. bl - 1 : B2[k] = B[k]
        /\ \A k \in bl .. Len(B) - size : B2[k] = B[k + size]
     \/ B2 = <<Blank>> /\ Len(bn) - n = 1
  /\ \A i \in 1 .. p - 1 : bn2[i] = bn[i] /\ lv2[i] = lv[i]
  /\ \A i \in p .. Len(bn) - n : bn2[i] = bn[i + n] - size /\ lv2[i] = lv[i + n]

\* These are nodes and lines.
CanTrim(bn, B, p, n, bl, size) ==
  /\ p > 1 /\ n >= 0 /\ p + n - 1 <= Len(bn)
  /\ bl > 0 /\ size >= 0 /\ bl + size - 1 <= Len(B)
  /\ BeginsAt(bn, p, bl)
  /\ BeginsAt(bn, p + n, bl + size)

TrimOrigin(p, n) == [i \in Int |-> IF i < p THEN i ELSE i + n]

LEMMA TrimmedIsRearranged ==
  ASSUME NEW m \in OneLineModes, NEW bn, NEW lv, NEW B, Told(m, bn, lv, B),
         NEW p \in Int, NEW n \in Int, NEW bl \in Int, NEW size \in Int,
         CanTrim(bn, B, p, n, bl, size),
         NEW bn2, NEW lv2, NEW B2,
         IsTrimmed(bn, lv, B, p, n, bl, size, bn2, lv2, B2)
  PROVE  IsRearranged(m, bn, lv, B, bn2, lv2, B2, TrimOrigin(p, n), [i \in Int |-> 0])
<1> DEFINE o == TrimOrigin(p, n)
<1>1. PICK N \in Nat, Z \in Nat : N = Len(bn) /\ Z = Len(B)
  BY DEF Told
<1>2. \A i \in 2 .. N : bn[i] \in Int /\ 1 <= bn[i] /\ bn[i] <= Z /\ lv[i] \in Int /\ lv[i] > 0
                        /\ LevelIn(m, B[bn[i]]) = lv[i]
  <2>1. lv \in Seq(Int) /\ Len(lv) = Len(bn) /\ bn \in Seq(Int)
    BY DEF Told
  <2> QED
    BY <1>1, <2>1 DEF Told
<1>3. \A i, j \in 2 .. N : i < j => bn[i] < bn[j]
  BY <1>1 DEF Told
<1>4. \A j \in 2 .. N : /\ bn[j] < bl <=> j < p
                        /\ bn[j] < bl + size <=> j < p + n
  BY <1>1 DEF CanTrim, BeginsAt
<1>5. /\ p > 1 /\ n >= 0 /\ p + n - 1 <= N
      /\ bl > 0 /\ size >= 0 /\ bl + size - 1 <= Z
  BY <1>1 DEF CanTrim
<1>6. /\ B2 \in Seq(LineType)
      /\ bn2 \in Seq(Int) /\ Len(bn2) = N - n
      /\ lv2 \in Seq(Int) /\ Len(lv2) = N - n
  BY <1>1 DEF IsTrimmed
<1>7. /\ \A i \in 1 .. p - 1 : bn2[i] = bn[i] /\ lv2[i] = lv[i]
      /\ \A i \in p .. N - n : bn2[i] = bn[i + n] - size /\ lv2[i] = lv[i + n]
  BY <1>1 DEF IsTrimmed
<1>8. \A i \in Int : o[i] = IF i < p THEN i ELSE i + n
  BY DEF TrimOrigin
<1> HIDE DEF o
<1>9. bn2[1] = 1 /\ lv2[1] = 1
  <2>1. 1 \in 1 .. p - 1
    BY <1>5
  <2> QED
    BY <1>7, <2>1 DEF Told
<1>10. bn2 # <<>>
  <2>1. N - n # 0
    BY <1>5
  <2> QED
    BY <1>6, <2>1
<1>11. CASE B2 = <<Blank>> /\ N - n = 1
  <2>1. Len(B2) = 1 /\ B2[1] = Blank /\ B2 # <<>>
    BY <1>11
  <2>2. LevelIn(m, Blank) = 0
    BY DEF LevelIn, IsHeadline, Blank, Text, Line
  <2>3. \A k \in 1 .. Len(B2) : ~(LevelIn(m, B2[k]) > 0)
    BY <2>1, <2>2
  <2>4. Len(bn2) = Len(lv2) /\ \A i : i \notin 2 .. Len(bn2)
    BY <1>6, <1>11
  <2> QED
    BY <1>6, <1>9, <1>10, <2>1, <2>3, <2>4 DEF IsRearranged
<1>12. CASE /\ Len(B2) = Z - size /\ size < Z
            /\ \A k \in 1 .. bl - 1 : B2[k] = B[k]
            /\ \A k \in bl .. Z - size : B2[k] = B[k + size]
  <2>1. ASSUME NEW i \in Int, i \in 2 .. p - 1
        PROVE  \E x \in Int :
               /\ x = bn[i] /\ bn2[i] = x /\ 1 <= x /\ x < bl /\ i \in 2 .. N
               /\ o[i] = i /\ lv2[i] = lv[i] + 0 /\ lv2[i] > 0
               /\ B2[bn2[i]] = B[bn[o[i]]]
    <3>1. i \in 2 .. N /\ i < p /\ i \in 1 .. p - 1
      BY <1>5, <2>1
    <3>2. PICK x \in Int : x = bn[i] /\ 1 <= x
      BY <1>2, <3>1
    <3>3. x < bl
      BY <1>4, <3>1, <3>2
    <3>4. o[i] = i /\ bn2[i] = x /\ lv2[i] = lv[i] + 0 /\ lv2[i] > 0
      BY <1>2, <1>7, <1>8, <3>1, <3>2
    <3>5. B2[x] = B[x]
      BY <1>12, <3>2, <3>3
    <3> QED
      BY <3>1, <3>2, <3>3, <3>4, <3>5
  <2>2. ASSUME NEW i \in Int, i \in p .. N - n
        PROVE  \E x \in Int :
               /\ x = bn[i + n] /\ bn2[i] = x - size /\ x <= Z /\ x >= bl + size
               /\ i + n \in 2 .. N
               /\ o[i] = i + n /\ lv2[i] = lv[i + n] + 0 /\ lv2[i] > 0
               /\ B2[bn2[i]] = B[bn[o[i]]]
    <3>1. PICK j \in Int : j = i + n
      OBVIOUS
    <3>2. j \in 2 .. N /\ j >= p + n /\ ~(i < p)
      BY <1>5, <2>2, <3>1
    <3>3. PICK x \in Int : x = bn[j] /\ x <= Z
      BY <1>2, <3>2
    <3>4. x >= bl + size
      BY <1>4, <3>2, <3>3
    <3>5. o[i] = j /\ bn2[i] = x - size /\ lv2[i] = lv[j] + 0 /\ lv2[i] > 0
      BY <1>2, <1>7, <1>8, <2>2, <3>1, <3>2, <3>3
    <3>6. PICK y \in Int : y = x - size
      OBVIOUS
    <3>7. y \in bl .. Z - size /\ y + size = x
      BY <3>3, <3>4, <3>6
    <3>8. B2[y] = B[x]
      BY <1>12, <3>7
    <3> QED
      BY <3>1, <3>2, <3>3, <3>4, <3>5, <3>6, <3>8
  <2>3. ASSUME NEW i \in Int, i \in 2 .. N - n
        PROVE  i \in 2 .. p - 1 \/ i \in p .. N - n
    BY <2>3
  <2>4. ASSUME NEW i \in Int, i \in 2 .. N - n
        PROVE  /\ o[i] \in 2 .. N /\ bn2[i] \in 1 .. Z - size
               /\ lv2[i] = lv[o[i]] + 0 /\ lv2[i] > 0
               /\ B2[bn2[i]] = WithLevel(m, B[bn[o[i]]], 0)
    <3>1. CASE i \in 2 .. p - 1
      BY <1>5, <2>1, <3>1 DEF WithLevel
    <3>2. CASE i \in p .. N - n
      BY <1>5, <2>2, <3>2 DEF WithLevel
    <3> QED
      BY <2>3, <2>4, <3>1, <3>2
  <2>5. ASSUME NEW i \in Int, NEW j \in Int, i \in 2 .. N - n, j \in 2 .. N - n, i < j
        PROVE  bn2[i] < bn2[j]
    <3>1. CASE i \in 2 .. p - 1
      <4>1. PICK x \in Int : x = bn[i] /\ bn2[i] = x /\ x < bl /\ i \in 2 .. N
        BY <2>1, <3>1
      <4>2. CASE j \in 2 .. p - 1
        BY <1>3, <2>1, <2>5, <4>1, <4>2
      <4>3. CASE j \in p .. N - n
        <5>1. PICK y \in Int : bn2[j] = y - size /\ y >= bl + size
          BY <2>2, <4>3
        <5> QED
          BY <4>1, <5>1
      <4> QED
        BY <2>3, <2>5, <4>2, <4>3
    <3>2. CASE i \in p .. N - n
      <4>1. PICK x \in Int : x = bn[i + n] /\ bn2[i] = x - size /\ i + n \in 2 .. N
        BY <2>2, <3>2
      <4>2. j \in p .. N - n
        BY <2>5, <3>2
      <4>3. PICK y \in Int : y = bn[j + n] /\ bn2[j] = y - size /\ j + n \in 2 .. N
        BY <2>2, <4>2
      <4>4. i + n < j + n
        BY <2>5
      <4>5. x < y
        BY <1>3, <4>1, <4>3, <4>4
      <4> QED
        BY <4>1, <4>3, <4>5
    <3> QED
      BY <2>3, <2>5, <3>1, <3>2
  <2>6. ASSUME NEW k \in Int, k \in 1 .. Z - size, LevelIn(m, B2[k]) > 0
        PROVE  \E i \in 2 .. N - n : bn2[i] = k
    <3>1. ASSUME NEW c \in 1 .. Z, LevelIn(m, B[c]) > 0
          PROVE  \E j \in 2 .. N : bn[j] = c
      BY <1>1, <3>1 DEF Told
    <3>2. CASE k \in 1 .. bl - 1
      <4>1. k \in 1 .. Z /\ k < bl
        BY <1>5, <2>6, <3>2
      <4>2. PICK j \in 2 .. N : bn[j] = k
        BY <1>12, <2>6, <3>1, <3>2, <4>1
      <4>3. j < p
        BY <1>4, <4>1, <4>2
      <4>4. j \in 1 .. p - 1 /\ j \in 2 .. N - n
        BY <1>5, <4>3
      <4> QED
        BY <1>7, <4>2, <4>4
    <3>3. CASE k \in bl .. Z - size
      <4>1. PICK c \in Int : c = k + size
        OBVIOUS
      <4>2. c \in 1 .. Z /\ c >= bl + size
        BY <1>5, <3>3, <4>1
      <4>3. PICK j \in 2 .. N : bn[j] = c
        BY <1>12, <2>6, <3>1, <3>3, <4>1, <4>2
      <4>4. j >= p + n
        BY <1>4, <4>2, <4>3
      <4>5. PICK i \in Int : i = j - n
        OBVIOUS
      <4>6. i \in p .. N - n /\ i \in 2 .. N - n /\ i + n = j
        BY <1>5, <4>4, <4>5
      <4>7. bn2[i] = c - size
        BY <1>7, <4>3, <4>6
      <4> QED
        BY <4>1, <4>6, <4>7
    <3> QED
      BY <2>6, <3>2, <3>3
  <2>7. B2 # <<>>
    <3>1. Len(B2) # 0
      BY <1>12
    <3> QED
      BY <1>6, <3>1
  <2> QED
    BY <1>1, <1>6, <1>9, <1>10, <1>12, <2>4, <2>5, <2>6, <2>7 DEF IsRearranged, o
<1> QED
  BY <1>1, <1>11, <1>12 DEF IsTrimmed

-----------------------------------------------------------------------------
(* Where nodes begin and end.                                              *)

LEMMA NodeBegins ==
  ASSUME NEW m, NEW bn, NEW lv, NEW B, Told(m, bn, lv, B), NEW p \in 2 .. Len(bn)
  PROVE  bn[p] \in Int /\ bn[p] > 0 /\ bn[p] <= Len(B) /\ BeginsAt(bn, p, bn[p])
<1>1. Len(bn) \in Nat /\ Len(B) \in Nat
  BY DEF Told
<1>2. \A j \in 2 .. Len(bn) : bn[j] \in Int /\ bn[j] > 0 /\ bn[j] <= Len(B)
  BY <1>1 DEF Told
<1>3. \A i, j \in 2 .. Len(bn) : i < j => bn[i] < bn[j]
  BY DEF Told
<1>4. ASSUME NEW j \in 2 .. Len(bn)
      PROVE  bn[j] < bn[p] <=> j < p
  <2>1. bn[j] \in Int /\ bn[p] \in Int
    BY <1>2
  <2>2. CASE j < p
    BY <1>3, <2>2
  <2>3. CASE j = p
    BY <2>1, <2>3
  <2>4. CASE j > p
    <3>1. bn[p] < bn[j]
      BY <1>3, <2>4
    <3> QED
      BY <2>1, <2>4, <3>1
  <2> QED
    BY <1>1, <2>2, <2>3, <2>4
<1> QED
  BY <1>2, <1>4 DEF BeginsAt

LEMMA RegionEnds ==
  ASSUME NEW m, NEW bn, NEW lv, NEW B, Told(m, bn, lv, B), NEW p \in 2 .. Len(bn),
         NEW r \in p .. Len(bn)
  PROVE  /\ EndIn(bn, B, r) \in Int /\ EndIn(bn, B, r) <= Len(B) /\ EndIn(bn, B, r) >= bn[p]
         /\ BeginsAt(bn, r + 1, EndIn(bn, B, r) + 1)
<1>1. Len(bn) \in Nat /\ Len(B) \in Nat
  BY DEF Told
<1>2. r \in 1 .. Len(bn)
  BY <1>1
<1>3. PICK e \in Int : e = EndIn(bn, B, r) /\ e <= Len(B)
  BY <1>1, <1>2, EndIs
<1>4. \A j \in 2 .. Len(bn) : bn[j] <= e <=> j <= r
  BY <1>2, <1>3, EndIs
<1>5. ASSUME NEW j \in 2 .. Len(bn)
      PROVE  bn[j] < e + 1 <=> j < r + 1
  <2>1. bn[j] \in Int
    BY <1>1 DEF Told
  <2> QED
    BY <1>4, <2>1
<1>6. bn[p] <= e
  BY <1>1, <1>4
<1>7. e >= bn[p]
  <2>1. bn[p] \in Int
    BY <1>1 DEF Told
  <2> QED
    BY <1>6, <2>1
<1> QED
  BY <1>3, <1>5, <1>7 DEF BeginsAt

\* t is the Body lines of the nodes q..r with their levels changed by d.
IsRegion(m, bn, B, q, r, d, t) ==
  /\ t \in Seq(LineType)
  /\ Len(t) = EndIn(bn, B, r) - bn[q] + 1
  /\ \A k \in 1 .. Len(t) : t[k] = MovedLine(m, bn, B, bn[q] - 1 + k, d)

LEMMA NotMoved ==
  ASSUME NEW m, NEW bn, NEW B, NEW k
  PROVE  MovedLine(m, bn, B, k, 0) = B[k]
BY DEF MovedLine, WithLevel

IsShifted(w, s, a, b, d) ==
  /\ w \in Seq(Int) /\ Len(w) = Len(s)
  /\ \A i \in 1 .. Len(s) : i \in a .. b => w[i] = s[i] + d
  /\ \A i \in 1 .. Len(s) : i \notin a .. b => w[i] = s[i]

LEMMA ShiftIs ==
  ASSUME NEW s \in Seq(Int), NEW a \in Int, NEW b \in Int, NEW d \in Int
  PROVE  IsShifted(Shift(s, a, b, d), s, a, b, d)
BY DEF Shift, IsShifted

-----------------------------------------------------------------------------
(* Moving up: the region q..r goes before p.                               *)

UpIn(s, p, q, r, t) == PutAfter(CutOut(s, q, r), p - 1, t)

UpBnodes(bn, p, q, r, bp, bq, e) ==
  LET b == Shift(Shift(bn, p, q - 1, e - bq + 1), q, r, bp - bq)
  IN  UpIn(b, p, q, r, Slice(b, q, r))

UpLevels(lv, p, q, r, d) == UpIn(lv, p, q, r, Slice(Shift(lv, q, r, d), q, r))

\* The nodes q..r may go before node p: their Body lines, with the levels
\* changed by d, are t.
CanGoUp(m, bn, lv, B, p, q, r, d, t, bp, bq, e) ==
  /\ p > 1 /\ p < q /\ q <= r /\ r <= Len(bn)
  /\ bp = bn[p] /\ bq = bn[q] /\ e = EndIn(bn, B, r)
  /\ \A i \in q .. r : lv[i] + d > 0
  /\ IsRegion(m, bn, B, q, r, d, t)

LEMMA UpIsSwap ==
  ASSUME NEW m \in OneLineModes, NEW bn, NEW lv, NEW B, Told(m, bn, lv, B),
         NEW p \in Int, NEW q \in Int, NEW r \in Int, NEW d \in Int, NEW t,
         NEW bp \in Int, NEW bq \in Int, NEW e \in Int,
         CanGoUp(m, bn, lv, B, p, q, r, d, t, bp, bq, e)
  PROVE  /\ CanSwap(bn, lv, B, p, q - p, r + 1 - q, bp, bq - bp, e + 1 - bq, 0, d)
         /\ IsSwapped(m, bn, lv, B, p, q - p, r + 1 - q, bp, bq - bp, e + 1 - bq, 0, d,
                      UpBnodes(bn, p, q, r, bp, bq, e), UpLevels(lv, p, q, r, d),
                      UpIn(B, bp, bq, e, t))
<1>1. PICK N \in Nat, Z \in Nat : N = Len(bn) /\ Z = Len(B)
  BY DEF Told
<1>2. p > 1 /\ p < q /\ q <= r /\ r <= N
  BY <1>1 DEF CanGoUp
<1>3. p \in 2 .. Len(bn) /\ q \in 2 .. Len(bn) /\ q \in p .. Len(bn) /\ r \in q .. Len(bn)
      /\ p \in 1 .. Len(bn) /\ q \in p + 1 .. Len(bn) /\ q - 1 \in p .. Len(bn)
  BY <1>1, <1>2
<1>4. bp > 0 /\ bp <= Z /\ BeginsAt(bn, p, bp) /\ bq > 0 /\ bq <= Z /\ BeginsAt(bn, q, bq)
  BY <1>1, <1>3, NodeBegins DEF CanGoUp
<1>5. e <= Z /\ e >= bq /\ BeginsAt(bn, r + 1, e + 1)
  BY <1>1, <1>3, RegionEnds DEF CanGoUp
<1>6. bp < bq
  BY <1>3 DEF Told, CanGoUp
<1>7. /\ lv \in Seq(Int) /\ Len(lv) = N /\ bn \in Seq(Int) /\ B \in Seq(LineType)
      /\ \A i \in 2 .. N : lv[i] \in Int /\ lv[i] > 0
  BY <1>1 DEF Told
<1>8. CanSwap(bn, lv, B, p, q - p, r + 1 - q, bp, bq - bp, e + 1 - bq, 0, d)
  <2>1. /\ p + (q - p) = q /\ p + (q - p) + (r + 1 - q) = r + 1
        /\ bp + (bq - bp) = bq /\ bp + (bq - bp) + (e + 1 - bq) = e + 1
    BY <1>2
  <2>2. /\ p > 1 /\ q - p >= 0 /\ r + 1 - q >= 0 /\ (r + 1) - 1 <= Len(bn)
        /\ bp > 0 /\ bq - bp >= 0 /\ e + 1 - bq >= 0 /\ (e + 1) - 1 <= Len(B)
    BY <1>1, <1>2, <1>4, <1>5, <1>6
  <2>3. ASSUME NEW i \in Int, i \in p .. q - 1
        PROVE  lv[i] + 0 > 0
    <3>1. i \in 2 .. N
      BY <1>2, <2>3
    <3>2. PICK y \in Int : y = lv[i] /\ y > 0
      BY <1>7, <3>1
    <3> QED
      BY <3>2
  <2>4. \A i \in q .. (r + 1) - 1 : lv[i] + d > 0
    BY DEF CanGoUp
  <2> QED
    BY <1>4, <1>5, <2>1, <2>2, <2>3, <2>4 DEF CanSwap
<1>9. t \in Seq(LineType) /\ Len(t) = e - bq + 1
      /\ \A k \in 1 .. e - bq + 1 : t[k] = MovedLine(m, bn, B, bq - 1 + k, d)
  BY DEF IsRegion, CanGoUp
<1>10. IsMovedUp(LineType, UpIn(B, bp, bq, e, t), B, bp, bq, e, t)
  <2>1. bp \in 1 .. Len(B) /\ bq \in bp + 1 .. Len(B) /\ e \in bq .. Len(B)
    BY <1>1, <1>4, <1>5, <1>6
  <2> QED
    BY <1>7, <1>9, <2>1, MovedUpIs DEF UpIn
<1> DEFINE b1 == Shift(bn, p, q - 1, e - bq + 1)
           b == Shift(b1, q, r, bp - bq)
           l == Shift(lv, q, r, d)
<1>11. /\ b1 \in Seq(Int) /\ Len(b1) = N
       /\ \A i \in 1 .. N : i \in p .. q - 1 => b1[i] = bn[i] + (e - bq + 1)
       /\ \A i \in 1 .. N : i \notin p .. q - 1 => b1[i] = bn[i]
  <2>1. q - 1 \in Int /\ e - bq + 1 \in Int
    BY <1>2
  <2>2. IsShifted(b1, bn, p, q - 1, e - bq + 1)
    BY <1>7, <2>1, ShiftIs, Zenon
  <2> HIDE DEF b1
  <2> QED
    BY <1>1, <2>2 DEF IsShifted
<1> HIDE DEF b1
<1>12. /\ b \in Seq(Int) /\ Len(b) = N
       /\ \A i \in 1 .. N : i \in q .. r => b[i] = b1[i] + (bp - bq)
       /\ \A i \in 1 .. N : i \notin q .. r => b[i] = b1[i]
  <2>1. bp - bq \in Int
    BY <1>2
  <2>2. IsShifted(b, b1, q, r, bp - bq)
    BY <1>11, <2>1, ShiftIs, Zenon
  <2> HIDE DEF b
  <2> QED
    BY <1>1, <1>11, <2>2 DEF IsShifted
<1> HIDE DEF b
<1>13. /\ l \in Seq(Int) /\ Len(l) = N
       /\ \A i \in 1 .. N : i \in q .. r => l[i] = lv[i] + d
  <2>1. IsShifted(l, lv, q, r, d)
    BY <1>7, ShiftIs, Zenon
  <2> HIDE DEF l
  <2> QED
    BY <1>1, <1>7, <2>1 DEF IsShifted
<1> HIDE DEF l
<1>14. IsMovedUp(Int, UpBnodes(bn, p, q, r, bp, bq, e), b, p, q, r, Slice(b, q, r))
  <2>1. p \in 1 .. Len(b) /\ q \in p + 1 .. Len(b) /\ q \in 1 .. Len(b) /\ r \in q .. Len(b)
    BY <1>1, <1>3, <1>12
  <2>2. Slice(b, q, r) \in Seq(Int) /\ Len(Slice(b, q, r)) = r - q + 1
    BY <1>12, <2>1, SliceIs
  <2>3. UpBnodes(bn, p, q, r, bp, bq, e) = PutAfter(CutOut(b, q, r), p - 1, Slice(b, q, r))
    BY DEF UpBnodes, UpIn, b, b1
  <2> QED
    BY <1>12, <2>1, <2>2, <2>3, MovedUpIs
<1>15. IsMovedUp(Int, UpLevels(lv, p, q, r, d), lv, p, q, r, Slice(l, q, r))
  <2>1. /\ p \in 1 .. Len(lv) /\ q \in p + 1 .. Len(lv) /\ r \in q .. Len(lv)
        /\ q \in 1 .. Len(l) /\ r \in q .. Len(l)
    BY <1>1, <1>3, <1>7, <1>13
  <2>2. Slice(l, q, r) \in Seq(Int) /\ Len(Slice(l, q, r)) = r - q + 1
    BY <1>13, <2>1, SliceIs
  <2>3. UpLevels(lv, p, q, r, d) = PutAfter(CutOut(lv, q, r), p - 1, Slice(l, q, r))
    BY DEF UpLevels, UpIn, l
  <2> QED
    BY <1>7, <2>1, <2>2, <2>3, MovedUpIs
<1> DEFINE B2 == UpIn(B, bp, bq, e, t)
           bn2 == UpBnodes(bn, p, q, r, bp, bq, e)
           lv2 == UpLevels(lv, p, q, r, d)
<1> HIDE DEF B2, bn2, lv2
<1>16. /\ Slice(b, q, r) \in Seq(Int) /\ \A i \in 1 .. r - q + 1 : Slice(b, q, r)[i] = b[q + i - 1]
       /\ Slice(l, q, r) \in Seq(Int) /\ \A i \in 1 .. r - q + 1 : Slice(l, q, r)[i] = l[q + i - 1]
  <2>1. q \in 1 .. Len(b) /\ r \in q .. Len(b) /\ q \in 1 .. Len(l) /\ r \in q .. Len(l)
    BY <1>1, <1>3, <1>12, <1>13
  <2> QED
    <3>1. /\ Slice(b, q, r) \in Seq(Int)
          /\ \A i \in 1 .. r - q + 1 : Slice(b, q, r)[i] = b[q + i - 1]
      BY <1>12, <2>1, SliceIs, ZenonT(40)
    <3>2. /\ Slice(l, q, r) \in Seq(Int)
          /\ \A i \in 1 .. r - q + 1 : Slice(l, q, r)[i] = l[q + i - 1]
      BY <1>13, <2>1, SliceIs
    <3> QED
      BY <3>1, <3>2
<1>17. /\ B2 \in Seq(LineType) /\ Len(B2) = Len(B)
       /\ \A k \in (1 .. bp - 1) \cup (e + 1 .. Len(B)) : B2[k] = B[k]
       /\ \A k \in bp .. bp + (e - bq) : B2[k] = t[k - bp + 1]
       /\ \A k \in bp + (e - bq) + 1 .. e : B2[k] = B[k - (e - bq + 1)]
  BY <1>10 DEF IsMovedUp, B2
<1>18. /\ bn2 \in Seq(Int) /\ Len(bn2) = Len(b)
       /\ \A k \in (1 .. p - 1) \cup (r + 1 .. Len(b)) : bn2[k] = b[k]
       /\ \A k \in p .. p + (r - q) : bn2[k] = Slice(b, q, r)[k - p + 1]
       /\ \A k \in p + (r - q) + 1 .. r : bn2[k] = b[k - (r - q + 1)]
  BY <1>14 DEF IsMovedUp, bn2
<1>19. /\ lv2 \in Seq(Int) /\ Len(lv2) = Len(lv)
       /\ \A k \in (1 .. p - 1) \cup (r + 1 .. Len(lv)) : lv2[k] = lv[k]
       /\ \A k \in p .. p + (r - q) : lv2[k] = Slice(l, q, r)[k - p + 1]
       /\ \A k \in p + (r - q) + 1 .. r : lv2[k] = lv[k - (r - q + 1)]
  BY <1>15 DEF IsMovedUp, lv2
<1>20. ASSUME NEW k \in Int, k \in bp .. bp + (e + 1 - bq) - 1
       PROVE  B2[k] = MovedLine(m, bn, B, k + (bq - bp), d)
  <2>1. k \in bp .. bp + (e - bq) /\ k - bp + 1 \in 1 .. e - bq + 1
        /\ bq - 1 + (k - bp + 1) = k + (bq - bp)
    BY <1>2, <1>20
  <2>2. t[k - bp + 1] = MovedLine(m, bn, B, bq - 1 + (k - bp + 1), d)
    BY <1>9, <2>1
  <2> QED
    BY <1>17, <2>1, <2>2
<1>21. ASSUME NEW k \in Int, k \in bp + (e + 1 - bq) .. bp + (e + 1 - bq) + (bq - bp) - 1
       PROVE  B2[k] = MovedLine(m, bn, B, k - (e + 1 - bq), 0)
  <2>1. k \in bp + (e - bq) + 1 .. e /\ k - (e - bq + 1) = k - (e + 1 - bq)
    BY <1>2, <1>21
  <2> QED
    <3>1. B2[k] = B[k - (e + 1 - bq)]
      BY <1>17, <2>1
    <3>2. MovedLine(m, bn, B, k - (e + 1 - bq), 0) = B[k - (e + 1 - bq)]
      BY NotMoved
    <3> QED
      BY <3>1, <3>2
<1>22. ASSUME NEW i \in Int, i \in (1 .. p - 1) \cup (r + 1 .. N)
       PROVE  bn2[i] = bn[i] /\ lv2[i] = lv[i]
  <2>1. i \in 1 .. N /\ i \notin q .. r /\ i \notin p .. q - 1
    BY <1>2, <1>3, <1>22
  <2> QED
    BY <1>7, <1>11, <1>12, <1>18, <1>19, <1>22, <2>1
<1>23. ASSUME NEW i \in Int, i \in p .. p + (r + 1 - q) - 1
       PROVE  bn2[i] = bn[i + (q - p)] - (bq - bp) /\ lv2[i] = lv[i + (q - p)] + d
  <2>1. PICK j \in Int : j = i + (q - p)
    BY <1>2
  <2>2. /\ i \in p .. p + (r - q) /\ i - p + 1 \in 1 .. r - q + 1 /\ q + (i - p + 1) - 1 = j
        /\ j \in q .. r /\ j \in 1 .. N /\ j \notin p .. q - 1 /\ j \in 2 .. N
    BY <1>2, <1>23, <2>1
  <2>3. bn2[i] = b[j] /\ lv2[i] = l[j]
    BY <1>16, <1>18, <1>19, <2>2
  <2>4. b[j] = bn[j] + (bp - bq) /\ l[j] = lv[j] + d
    BY <1>11, <1>12, <1>13, <2>2
  <2>5. PICK x \in Int : x = bn[j]
    <3>1. bn[j] \in Int
      BY <1>1, <1>7, <2>2
    <3> QED
      BY <3>1
  <2>6. x + (bp - bq) = x - (bq - bp)
    BY <1>2
  <2> QED
    BY <2>1, <2>3, <2>4, <2>5, <2>6
<1>24. ASSUME NEW i \in Int, i \in p + (r + 1 - q) .. p + (r + 1 - q) + (q - p) - 1
       PROVE  /\ bn2[i] = bn[i - (r + 1 - q)] + (e + 1 - bq)
              /\ lv2[i] = lv[i - (r + 1 - q)] + 0
  <2>1. PICK j \in Int : j = i - (r + 1 - q)
    BY <1>2
  <2>2. /\ i \in p + (r - q) + 1 .. r /\ i - (r - q + 1) = j
        /\ j \in p .. q - 1 /\ j \in 1 .. N /\ j \notin q .. r /\ j \in 2 .. N
    BY <1>2, <1>24, <2>1
  <2>3. bn2[i] = b[j] /\ lv2[i] = lv[j]
    BY <1>18, <1>19, <2>2
  <2>4. b[j] = bn[j] + (e - bq + 1)
    BY <1>11, <1>12, <2>2
  <2>5. PICK x \in Int, y \in Int : x = bn[j] /\ y = lv[j]
    <3>1. bn[j] \in Int /\ lv[j] \in Int
      BY <1>1, <1>7, <2>2
    <3> QED
      BY <3>1
  <2>6. x + (e - bq + 1) = x + (e + 1 - bq) /\ y = y + 0
    BY <1>2
  <2> QED
    BY <2>1, <2>3, <2>4, <2>5, <2>6
<1>25. \A k \in (1 .. bp - 1) \cup (bp + (bq - bp) + (e + 1 - bq) .. Len(B)) : B2[k] = B[k]
  <2>1. bp + (bq - bp) + (e + 1 - bq) = e + 1
    BY <1>2
  <2> QED
    BY <1>17, <2>1
<1>26. \A i \in (1 .. p - 1) \cup (p + (q - p) + (r + 1 - q) .. Len(bn)) : bn2[i] = bn[i] /\ lv2[i] = lv[i]
  <2>1. p + (q - p) + (r + 1 - q) = r + 1
    BY <1>2
  <2>2. ASSUME NEW i \in Int, i \in (1 .. p - 1) \cup (r + 1 .. Len(bn))
        PROVE  bn2[i] = bn[i] /\ lv2[i] = lv[i]
    BY <1>1, <1>22, <2>2
  <2> QED
    BY <1>2, <2>1, <2>2
<1>27. IsSwapped(m, bn, lv, B, p, q - p, r + 1 - q, bp, bq - bp, e + 1 - bq, 0, d, bn2, lv2, B2)
  BY <1>1, <1>7, <1>12, <1>17, <1>18, <1>19, <1>20, <1>21, <1>23, <1>24, <1>25, <1>26 DEF IsSwapped
<1> QED
  BY <1>8, <1>27 DEF bn2, lv2, B2

-----------------------------------------------------------------------------
(* Moving down: the region p..q goes after r.                              *)

DownIn(s, p, q, r, t) == CutOut(PutAfter(s, r, t), p, q)

DownBnodes(bn, p, q, r, bp, e1, e2) ==
  LET b == Shift(Shift(bn, p, q, e2 - e1), q + 1, r, 0 - (e1 - bp + 1))
  IN  DownIn(b, p, q, r, Slice(b, p, q))

DownLevels(lv, p, q, r, d) == DownIn(lv, p, q, r, Slice(Shift(lv, p, q, d), p, q))

\* The nodes p..q may go after node r: their Body lines, with the levels
\* changed by d, are t.
CanGoDown(m, bn, lv, B, p, q, r, d, t, bp, e1, e2) ==
  /\ p > 1 /\ p <= q /\ q < r /\ r <= Len(bn)
  /\ bp = bn[p] /\ e1 = EndIn(bn, B, q) /\ e2 = EndIn(bn, B, r)
  /\ \A i \in p .. q : lv[i] + d > 0
  /\ IsRegion(m, bn, B, p, q, d, t)

LEMMA DownIsSwap ==
  ASSUME NEW m \in OneLineModes, NEW bn, NEW lv, NEW B, Told(m, bn, lv, B),
         NEW p \in Int, NEW q \in Int, NEW r \in Int, NEW d \in Int, NEW t,
         NEW bp \in Int, NEW e1 \in Int, NEW e2 \in Int,
         CanGoDown(m, bn, lv, B, p, q, r, d, t, bp, e1, e2)
  PROVE  /\ CanSwap(bn, lv, B, p, q + 1 - p, r - q, bp, e1 + 1 - bp, e2 - e1, d, 0)
         /\ IsSwapped(m, bn, lv, B, p, q + 1 - p, r - q, bp, e1 + 1 - bp, e2 - e1, d, 0,
                      DownBnodes(bn, p, q, r, bp, e1, e2), DownLevels(lv, p, q, r, d),
                      DownIn(B, bp, e1, e2, t))
<1>1. PICK N \in Nat, Z \in Nat : N = Len(bn) /\ Z = Len(B)
  BY DEF Told
<1>2. p > 1 /\ p <= q /\ q < r /\ r <= N
  BY <1>1 DEF CanGoDown
<1>3. /\ p \in 2 .. Len(bn) /\ q \in p .. Len(bn) /\ r \in p .. Len(bn) /\ r \in q + 1 .. Len(bn)
      /\ p \in 1 .. Len(bn) /\ q \in 1 .. Len(bn) /\ r \in 1 .. Len(bn)
      /\ q + 1 \in 2 .. Len(bn) /\ r \in 2 .. Len(bn)
  BY <1>1, <1>2
<1>4. bp > 0 /\ bp <= Z /\ BeginsAt(bn, p, bp)
  BY <1>1, <1>3, NodeBegins DEF CanGoDown
<1>5. /\ e1 <= Z /\ e1 >= bp /\ BeginsAt(bn, q + 1, e1 + 1)
      /\ e2 <= Z /\ e2 >= bp /\ BeginsAt(bn, r + 1, e2 + 1)
  BY <1>1, <1>3, RegionEnds DEF CanGoDown
<1>6. e1 < e2
  <2>1. PICK x \in Int : x = bn[q + 1]
    <3>1. bn[q + 1] \in Int
      BY <1>3 DEF Told
    <3> QED
      BY <3>1
  <2>2. \A j \in 2 .. Len(bn) : /\ bn[j] < e1 + 1 <=> j < q + 1
                                /\ bn[j] < e2 + 1 <=> j < r + 1
    BY <1>5 DEF BeginsAt
  <2>3. ~(x < e1 + 1) /\ x < e2 + 1
    BY <1>2, <1>3, <2>1, <2>2
  <2> QED
    BY <2>3
<1>7. /\ lv \in Seq(Int) /\ Len(lv) = N /\ bn \in Seq(Int) /\ B \in Seq(LineType)
      /\ \A i \in 2 .. N : lv[i] \in Int /\ lv[i] > 0
  BY <1>1 DEF Told
<1>8. CanSwap(bn, lv, B, p, q + 1 - p, r - q, bp, e1 + 1 - bp, e2 - e1, d, 0)
  <2>1. /\ p + (q + 1 - p) = q + 1 /\ p + (q + 1 - p) + (r - q) = r + 1
        /\ bp + (e1 + 1 - bp) = e1 + 1 /\ bp + (e1 + 1 - bp) + (e2 - e1) = e2 + 1
    BY <1>2
  <2>2. /\ p > 1 /\ q + 1 - p >= 0 /\ r - q >= 0 /\ (r + 1) - 1 <= Len(bn)
        /\ bp > 0 /\ e1 + 1 - bp >= 0 /\ e2 - e1 >= 0 /\ (e2 + 1) - 1 <= Len(B)
    BY <1>1, <1>2, <1>4, <1>5, <1>6
  <2>3. ASSUME NEW i \in Int, i \in q + 1 .. (r + 1) - 1
        PROVE  lv[i] + 0 > 0
    <3>1. i \in 2 .. N
      BY <1>2, <2>3
    <3>2. PICK y \in Int : y = lv[i] /\ y > 0
      BY <1>7, <3>1
    <3> QED
      BY <3>2
  <2>4. \A i \in p .. (q + 1) - 1 : lv[i] + d > 0
    BY DEF CanGoDown
  <2>5. \A i \in p .. p + (q + 1 - p) - 1 : lv[i] + d > 0
    BY <2>1, <2>4
  <2>6. \A i \in p + (q + 1 - p) .. p + (q + 1 - p) + (r - q) - 1 : lv[i] + 0 > 0
    BY <2>1, <2>3
  <2>7. /\ BeginsAt(bn, p + (q + 1 - p), bp + (e1 + 1 - bp))
        /\ BeginsAt(bn, p + (q + 1 - p) + (r - q), bp + (e1 + 1 - bp) + (e2 - e1))
    BY <1>5, <2>1, Zenon
  <2>8. /\ p + (q + 1 - p) + (r - q) - 1 <= Len(bn)
        /\ bp + (e1 + 1 - bp) + (e2 - e1) - 1 <= Len(B)
    <3>1. e2 <= Z
      BY <1>5
    <3>2. p + (q + 1 - p) + (r - q) - 1 <= N /\ bp + (e1 + 1 - bp) + (e2 - e1) - 1 <= Z
      BY <1>2, <3>1
    <3> QED
      BY <1>1, <3>2, Zenon
  <2> QED
    BY <1>4, <2>2, <2>5, <2>6, <2>7, <2>8, Zenon DEF CanSwap
<1>9. t \in Seq(LineType) /\ Len(t) = e1 - bp + 1
      /\ \A k \in 1 .. e1 - bp + 1 : t[k] = MovedLine(m, bn, B, bp - 1 + k, d)
  BY DEF IsRegion, CanGoDown
<1>10. IsMovedDown(LineType, DownIn(B, bp, e1, e2, t), B, bp, e1, e2, t)
  <2>1. bp \in 1 .. Len(B) /\ e1 \in bp .. Len(B) /\ e2 \in e1 + 1 .. Len(B)
    BY <1>1, <1>4, <1>5, <1>6
  <2> QED
    BY <1>7, <1>9, <2>1, MovedDownIs DEF DownIn
<1> DEFINE b1 == Shift(bn, p, q, e2 - e1)
           b == Shift(b1, q + 1, r, 0 - (e1 - bp + 1))
           l == Shift(lv, p, q, d)
<1>11. /\ b1 \in Seq(Int) /\ Len(b1) = N
       /\ \A i \in 1 .. N : i \in p .. q => b1[i] = bn[i] + (e2 - e1)
       /\ \A i \in 1 .. N : i \notin p .. q => b1[i] = bn[i]
  <2>1. e2 - e1 \in Int
    BY <1>2
  <2>2. IsShifted(b1, bn, p, q, e2 - e1)
    BY <1>7, <2>1, ShiftIs, Zenon
  <2> HIDE DEF b1
  <2> QED
    BY <1>1, <2>2 DEF IsShifted
<1> HIDE DEF b1
<1>12. /\ b \in Seq(Int) /\ Len(b) = N
       /\ \A i \in 1 .. N : i \in q + 1 .. r => b[i] = b1[i] + (0 - (e1 - bp + 1))
       /\ \A i \in 1 .. N : i \notin q + 1 .. r => b[i] = b1[i]
  <2>1. q + 1 \in Int /\ 0 - (e1 - bp + 1) \in Int
    BY <1>2
  <2>2. IsShifted(b, b1, q + 1, r, 0 - (e1 - bp + 1))
    BY <1>11, <2>1, ShiftIs, Zenon
  <2> HIDE DEF b
  <2> QED
    BY <1>1, <1>11, <2>2 DEF IsShifted
<1> HIDE DEF b
<1>13. /\ l \in Seq(Int) /\ Len(l) = N
       /\ \A i \in 1 .. N : i \in p .. q => l[i] = lv[i] + d
  <2>1. IsShifted(l, lv, p, q, d)
    BY <1>7, ShiftIs, Zenon
  <2> HIDE DEF l
  <2> QED
    BY <1>1, <1>7, <2>1 DEF IsShifted
<1> HIDE DEF l
<1>14. IsMovedDown(Int, DownBnodes(bn, p, q, r, bp, e1, e2), b, p, q, r, Slice(b, p, q))
  <2>1. p \in 1 .. Len(b) /\ q \in p .. Len(b) /\ r \in q + 1 .. Len(b)
    BY <1>1, <1>3, <1>12
  <2>2. Slice(b, p, q) \in Seq(Int) /\ Len(Slice(b, p, q)) = q - p + 1
    BY <1>12, <2>1, SliceIs, ZenonT(40)
  <2>3. DownBnodes(bn, p, q, r, bp, e1, e2) = CutOut(PutAfter(b, r, Slice(b, p, q)), p, q)
    BY DEF DownBnodes, DownIn, b, b1
  <2> QED
    BY <1>12, <2>1, <2>2, <2>3, MovedDownIs
<1>15. IsMovedDown(Int, DownLevels(lv, p, q, r, d), lv, p, q, r, Slice(l, p, q))
  <2>1. /\ p \in 1 .. Len(lv) /\ q \in p .. Len(lv) /\ r \in q + 1 .. Len(lv)
        /\ p \in 1 .. Len(l) /\ q \in p .. Len(l)
    BY <1>1, <1>3, <1>7, <1>13
  <2>2. Slice(l, p, q) \in Seq(Int) /\ Len(Slice(l, p, q)) = q - p + 1
    BY <1>13, <2>1, SliceIs
  <2>3. DownLevels(lv, p, q, r, d) = CutOut(PutAfter(lv, r, Slice(l, p, q)), p, q)
    BY DEF DownLevels, DownIn, l
  <2> QED
    BY <1>7, <2>1, <2>2, <2>3, MovedDownIs
<1> DEFINE B2 == DownIn(B, bp, e1, e2, t)
           bn2 == DownBnodes(bn, p, q, r, bp, e1, e2)
           lv2 == DownLevels(lv, p, q, r, d)
<1> HIDE DEF B2, bn2, lv2
<1>16. /\ Slice(b, p, q) \in Seq(Int) /\ \A i \in 1 .. q - p + 1 : Slice(b, p, q)[i] = b[p + i - 1]
       /\ Slice(l, p, q) \in Seq(Int) /\ \A i \in 1 .. q - p + 1 : Slice(l, p, q)[i] = l[p + i - 1]
  <2>1. p \in 1 .. Len(b) /\ q \in p .. Len(b) /\ p \in 1 .. Len(l) /\ q \in p .. Len(l)
    BY <1>1, <1>3, <1>12, <1>13
  <2>2. /\ Slice(b, p, q) \in Seq(Int)
        /\ \A i \in 1 .. q - p + 1 : Slice(b, p, q)[i] = b[p + i - 1]
    BY <1>12, <2>1, SliceIs, ZenonT(40)
  <2>3. /\ Slice(l, p, q) \in Seq(Int)
        /\ \A i \in 1 .. q - p + 1 : Slice(l, p, q)[i] = l[p + i - 1]
    BY <1>13, <2>1, SliceIs
  <2> QED
    BY <2>2, <2>3
<1>17. /\ B2 \in Seq(LineType) /\ Len(B2) = Len(B)
       /\ \A k \in (1 .. bp - 1) \cup (e2 + 1 .. Len(B)) : B2[k] = B[k]
       /\ \A k \in bp .. bp + (e2 - e1) - 1 : B2[k] = B[k + (e1 - bp + 1)]
       /\ \A k \in bp + (e2 - e1) .. e2 : B2[k] = t[k - (bp + (e2 - e1)) + 1]
  BY <1>10 DEF IsMovedDown, B2
<1>18. /\ bn2 \in Seq(Int) /\ Len(bn2) = Len(b)
       /\ \A k \in (1 .. p - 1) \cup (r + 1 .. Len(b)) : bn2[k] = b[k]
       /\ \A k \in p .. p + (r - q) - 1 : bn2[k] = b[k + (q - p + 1)]
       /\ \A k \in p + (r - q) .. r : bn2[k] = Slice(b, p, q)[k - (p + (r - q)) + 1]
  BY <1>14 DEF IsMovedDown, bn2
<1>19. /\ lv2 \in Seq(Int) /\ Len(lv2) = Len(lv)
       /\ \A k \in (1 .. p - 1) \cup (r + 1 .. Len(lv)) : lv2[k] = lv[k]
       /\ \A k \in p .. p + (r - q) - 1 : lv2[k] = lv[k + (q - p + 1)]
       /\ \A k \in p + (r - q) .. r : lv2[k] = Slice(l, p, q)[k - (p + (r - q)) + 1]
  BY <1>15 DEF IsMovedDown, lv2
<1>20. ASSUME NEW k \in Int, k \in bp + (e2 - e1) .. bp + (e2 - e1) + (e1 + 1 - bp) - 1
       PROVE  B2[k] = MovedLine(m, bn, B, k - (e2 - e1), d)
  <2>1. /\ k \in bp + (e2 - e1) .. e2 /\ k - (bp + (e2 - e1)) + 1 \in 1 .. e1 - bp + 1
        /\ bp - 1 + (k - (bp + (e2 - e1)) + 1) = k - (e2 - e1)
    BY <1>2, <1>20
  <2>2. t[k - (bp + (e2 - e1)) + 1] =
          MovedLine(m, bn, B, bp - 1 + (k - (bp + (e2 - e1)) + 1), d)
    BY <1>9, <2>1
  <2> QED
    BY <1>17, <2>1, <2>2
<1>21. ASSUME NEW k \in Int, k \in bp .. bp + (e2 - e1) - 1
       PROVE  B2[k] = MovedLine(m, bn, B, k + (e1 + 1 - bp), 0)
  <2>1. k + (e1 - bp + 1) = k + (e1 + 1 - bp)
    BY <1>2, <1>21
  <2>2. B2[k] = B[k + (e1 + 1 - bp)]
    BY <1>17, <1>21, <2>1
  <2>3. MovedLine(m, bn, B, k + (e1 + 1 - bp), 0) = B[k + (e1 + 1 - bp)]
    BY NotMoved
  <2> QED
    BY <2>2, <2>3
<1>22. ASSUME NEW i \in Int, i \in (1 .. p - 1) \cup (r + 1 .. N)
       PROVE  bn2[i] = bn[i] /\ lv2[i] = lv[i]
  <2>1. i \in 1 .. N /\ i \notin q + 1 .. r /\ i \notin p .. q
    BY <1>2, <1>22
  <2> QED
    BY <1>7, <1>11, <1>12, <1>18, <1>19, <1>22, <2>1
<1>23. ASSUME NEW i \in Int, i \in p .. p + (r - q) - 1
       PROVE  bn2[i] = bn[i + (q + 1 - p)] - (e1 + 1 - bp) /\ lv2[i] = lv[i + (q + 1 - p)] + 0
  <2>1. PICK j \in Int : j = i + (q + 1 - p)
    BY <1>2
  <2>2. /\ i + (q - p + 1) = j
        /\ j \in q + 1 .. r /\ j \in 1 .. N /\ j \notin p .. q /\ j \in 2 .. N
    BY <1>2, <1>23, <2>1
  <2>3. bn2[i] = b[j] /\ lv2[i] = lv[j]
    BY <1>18, <1>19, <1>23, <2>2
  <2>4. b[j] = bn[j] + (0 - (e1 - bp + 1))
    BY <1>11, <1>12, <2>2
  <2>5. PICK x \in Int, y \in Int : x = bn[j] /\ y = lv[j]
    <3>1. bn[j] \in Int /\ lv[j] \in Int
      BY <1>1, <1>7, <2>2
    <3> QED
      BY <3>1
  <2>6. x + (0 - (e1 - bp + 1)) = x - (e1 + 1 - bp) /\ y = y + 0
    BY <1>2
  <2> QED
    BY <2>1, <2>3, <2>4, <2>5, <2>6
<1>24. ASSUME NEW i \in Int, i \in p + (r - q) .. p + (r - q) + (q + 1 - p) - 1
       PROVE  bn2[i] = bn[i - (r - q)] + (e2 - e1) /\ lv2[i] = lv[i - (r - q)] + d
  <2>1. PICK j \in Int : j = i - (r - q)
    BY <1>2
  <2>2. /\ i \in p + (r - q) .. r /\ i - (p + (r - q)) + 1 \in 1 .. q - p + 1
        /\ p + (i - (p + (r - q)) + 1) - 1 = j
        /\ j \in p .. q /\ j \in 1 .. N /\ j \notin q + 1 .. r /\ j \in 2 .. N
    BY <1>2, <1>24, <2>1
  <2>3. bn2[i] = b[j] /\ lv2[i] = l[j]
    BY <1>16, <1>18, <1>19, <2>2
  <2>4. b[j] = bn[j] + (e2 - e1) /\ l[j] = lv[j] + d
    BY <1>11, <1>12, <1>13, <2>2
  <2> QED
    BY <2>1, <2>3, <2>4
<1>25. \A k \in (1 .. bp - 1) \cup (bp + (e1 + 1 - bp) + (e2 - e1) .. Len(B)) : B2[k] = B[k]
  <2>1. bp + (e1 + 1 - bp) + (e2 - e1) = e2 + 1
    BY <1>2
  <2> QED
    BY <1>17, <2>1
<1>26. \A i \in (1 .. p - 1) \cup (p + (q + 1 - p) + (r - q) .. Len(bn)) : bn2[i] = bn[i] /\ lv2[i] = lv[i]
  <2>1. p + (q + 1 - p) + (r - q) = r + 1
    BY <1>2
  <2>2. ASSUME NEW i \in Int, i \in (1 .. p - 1) \cup (r + 1 .. Len(bn))
        PROVE  bn2[i] = bn[i] /\ lv2[i] = lv[i]
    BY <1>1, <1>22, <2>2
  <2> QED
    BY <1>2, <2>1, <2>2
<1>27. IsSwapped(m, bn, lv, B, p, q + 1 - p, r - q, bp, e1 + 1 - bp, e2 - e1, d, 0, bn2, lv2, B2)
  BY <1>1, <1>7, <1>12, <1>17, <1>18, <1>19, <1>20, <1>21, <1>23, <1>24, <1>25, <1>26 DEF IsSwapped
<1> QED
  BY <1>8, <1>27 DEF bn2, lv2, B2

\* s with block a..b replaced by t.
IsReplaced(T, w, s, a, b, t) ==
  /\ w \in Seq(T)
  /\ Len(w) = Len(s)
  /\ \A i \in (1 .. a - 1) \cup (b + 1 .. Len(s)) : w[i] = s[i]
  /\ \A i \in a .. b : w[i] = t[i - a + 1]

LEMMA ReplacedIs ==
  ASSUME NEW T, NEW s \in Seq(T), NEW a \in 1 .. Len(s), NEW b \in a .. Len(s),
         NEW t \in Seq(T), Len(t) = b - a + 1
  PROVE  /\ IsReplaced(T, PutAfter(CutOut(s, a, b), a - 1, t), s, a, b, t)
         /\ IsReplaced(T, SubSeq(s, 1, a - 1) \o t \o SubSeq(s, b + 1, Len(s)), s, a, b, t)
<1> DEFINE u == CutOut(s, a, b)
           w == PutAfter(u, a - 1, t)
           s1 == SubSeq(s, 1, a - 1)
           s2 == SubSeq(s, b + 1, Len(s))
           st == s1 \o t
<1>1. Len(s) \in Nat
  OBVIOUS
<1>2. IsReplaced(T, w, s, a, b, t)
  <2>1. IsCut(T, u, s, a, b)
    BY CutOutIs
  <2> HIDE DEF u
  <2>2. u \in Seq(T) /\ a - 1 \in 0 .. Len(u) /\ Len(u) = Len(s) - Len(t)
    BY <1>1, <2>1 DEF IsCut
  <2>3. IsPut(T, w, u, a - 1, t)
    BY <2>2, PutAfterIs
  <2> HIDE DEF w
  <2>4. w \in Seq(T) /\ Len(w) = Len(s)
    BY <1>1, <2>2, <2>3 DEF IsPut
  <2>5. ASSUME NEW i \in 1 .. a - 1 PROVE w[i] = s[i]
    BY <1>1, <2>1, <2>3 DEF IsCut, IsPut
  <2>6. ASSUME NEW i \in b + 1 .. Len(s) PROVE w[i] = s[i]
    <3>1. /\ i \in a - 1 + Len(t) + 1 .. Len(u) + Len(t)
          /\ i - Len(t) \in a .. Len(s) - (b - a + 1)
          /\ i - Len(t) + (b - a + 1) = i
      BY <1>1, <2>2
    <3>2. w[i] = u[i - Len(t)]
      BY <2>3, <3>1 DEF IsPut
    <3>3. u[i - Len(t)] = s[i]
      BY <2>1, <3>1 DEF IsCut
    <3> QED
      BY <3>2, <3>3
  <2>7. ASSUME NEW i \in a .. b PROVE w[i] = t[i - a + 1]
    <3>1. i - (a - 1) = i - a + 1 /\ i \in a - 1 + 1 .. a - 1 + Len(t)
      BY <1>1
    <3> QED
      BY <2>3, <3>1 DEF IsPut
  <2> QED
    BY <2>4, <2>5, <2>6, <2>7 DEF IsReplaced
<1>3. IsReplaced(T, st \o s2, s, a, b, t)
  <2>1. s1 \in Seq(T) /\ Len(s1) = a - 1 /\ \A i \in 1 .. a - 1 : s1[i] = s[i]
    OBVIOUS
  <2>2. s2 \in Seq(T) /\ Len(s2) = Len(s) - b /\ \A i \in 1 .. Len(s) - b : s2[i] = s[b + i]
    OBVIOUS
  <2> HIDE DEF s1, s2
  <2>3. /\ st \in Seq(T)
        /\ Len(st) = b
        /\ \A i \in 1 .. b : st[i] = IF i <= a - 1 THEN s1[i] ELSE t[i - (a - 1)]
    <3>1. (a - 1) + (b - a + 1) = b
      BY <1>1
    <3>2. /\ st \in Seq(T)
          /\ Len(st) = Len(s1) + Len(t)
          /\ \A i \in 1 .. Len(s1) + Len(t) :
               st[i] = IF i <= Len(s1) THEN s1[i] ELSE t[i - Len(s1)]
      BY <2>1, ConcatProperties
    <3> QED
      BY <2>1, <3>1, <3>2
  <2> HIDE DEF st
  <2>4. /\ st \o s2 \in Seq(T)
        /\ Len(st \o s2) = Len(s)
        /\ \A i \in 1 .. Len(s) : (st \o s2)[i] = IF i <= b THEN st[i] ELSE s2[i - b]
    <3>1. b + (Len(s) - b) = Len(s)
      BY <1>1
    <3>2. /\ st \o s2 \in Seq(T)
          /\ Len(st \o s2) = Len(st) + Len(s2)
          /\ \A i \in 1 .. Len(st) + Len(s2) :
               (st \o s2)[i] = IF i <= Len(st) THEN st[i] ELSE s2[i - Len(st)]
      BY <2>2, <2>3, ConcatProperties, ZenonT(40)
    <3> QED
      BY <2>2, <2>3, <3>1, <3>2
  <2>5. ASSUME NEW i \in 1 .. a - 1 PROVE (st \o s2)[i] = s[i]
    <3>1. i \in 1 .. Len(s) /\ i \in 1 .. b /\ i <= a - 1
      BY <1>1
    <3> QED
      BY <2>1, <2>3, <2>4, <3>1, SMTT(30)
  <2>6. ASSUME NEW i \in b + 1 .. Len(s) PROVE (st \o s2)[i] = s[i]
    <3>1. i - b \in 1 .. Len(s) - b /\ b + (i - b) = i /\ i \in 1 .. Len(s) /\ ~(i <= b)
      BY <1>1
    <3> QED
      BY <2>2, <2>4, <3>1
  <2>7. ASSUME NEW i \in a .. b PROVE (st \o s2)[i] = t[i - a + 1]
    <3>1. i \in 1 .. Len(s) /\ i \in 1 .. b /\ ~(i <= a - 1) /\ i - (a - 1) = i - a + 1
      BY <1>1
    <3> QED
      BY <2>3, <2>4, <3>1
  <2> QED
    BY <2>4, <2>5, <2>6, <2>7 DEF IsReplaced
<1> QED
  BY <1>2, <1>3

-----------------------------------------------------------------------------
(* Promoting: the levels of the region p..r change and it stays.           *)

PromotedIn(s, a, b, t) == SubSeq(s, 1, a - 1) \o t \o SubSeq(s, b + 1, Len(s))

\* The levels of the nodes p..r may change by d: their Body lines are then t.
CanPromote(m, bn, lv, B, p, r, d, t, bp, e) ==
  /\ p > 1 /\ p <= r /\ r <= Len(bn)
  /\ bp = bn[p] /\ e = EndIn(bn, B, r)
  /\ \A i \in p .. r : lv[i] + d > 0
  /\ IsRegion(m, bn, B, p, r, d, t)

LEMMA PromotedIsSwap ==
  ASSUME NEW m \in OneLineModes, NEW bn, NEW lv, NEW B, Told(m, bn, lv, B),
         NEW p \in Int, NEW r \in Int, NEW d \in Int, NEW t, NEW bp \in Int, NEW e \in Int,
         CanPromote(m, bn, lv, B, p, r, d, t, bp, e)
  PROVE  /\ CanSwap(bn, lv, B, p, 0, r + 1 - p, bp, 0, e + 1 - bp, 0, d)
         /\ IsSwapped(m, bn, lv, B, p, 0, r + 1 - p, bp, 0, e + 1 - bp, 0, d,
                      bn, Shift(lv, p, r, d), PromotedIn(B, bp, e, t))
<1>1. PICK N \in Nat, Z \in Nat : N = Len(bn) /\ Z = Len(B)
  BY DEF Told
<1>2. p > 1 /\ p <= r /\ r <= N
  BY <1>1 DEF CanPromote
<1>3. /\ p \in 2 .. Len(bn) /\ r \in p .. Len(bn)
  BY <1>1, <1>2
<1>4. bp > 0 /\ bp <= Z /\ BeginsAt(bn, p, bp)
  BY <1>1, <1>3, NodeBegins DEF CanPromote
<1>5. e <= Z /\ e >= bp /\ BeginsAt(bn, r + 1, e + 1)
  BY <1>1, <1>3, RegionEnds DEF CanPromote
<1>6. /\ p + 0 = p /\ p + 0 + (r + 1 - p) = r + 1 /\ p + (r + 1 - p) = r + 1
      /\ bp + 0 = bp /\ bp + 0 + (e + 1 - bp) = e + 1 /\ bp + (e + 1 - bp) = e + 1
  BY <1>2
<1>7. /\ lv \in Seq(Int) /\ Len(lv) = N /\ bn \in Seq(Int) /\ B \in Seq(LineType)
  BY <1>1 DEF Told
<1>8. CanSwap(bn, lv, B, p, 0, r + 1 - p, bp, 0, e + 1 - bp, 0, d)
  <2>1. /\ p > 1 /\ 0 >= 0 /\ r + 1 - p >= 0 /\ bp > 0 /\ e + 1 - bp >= 0
    BY <1>2, <1>4, <1>5
  <2>2. p + 0 + (r + 1 - p) - 1 <= Len(bn) /\ bp + 0 + (e + 1 - bp) - 1 <= Len(B)
    <3>1. e <= Z
      BY <1>5
    <3>2. p + 0 + (r + 1 - p) - 1 <= N /\ bp + 0 + (e + 1 - bp) - 1 <= Z
      BY <1>2, <3>1
    <3> QED
      BY <1>1, <3>2, Zenon
  <2>3. /\ BeginsAt(bn, p + 0, bp + 0)
        /\ BeginsAt(bn, p + 0 + (r + 1 - p), bp + 0 + (e + 1 - bp))
    BY <1>4, <1>5, <1>6, Zenon
  <2>4. \A i \in p .. p + 0 - 1 : lv[i] + 0 > 0
    BY <1>2
  <2>5. \A i \in p + 0 .. p + 0 + (r + 1 - p) - 1 : lv[i] + d > 0
    <3>1. \A i \in p .. (r + 1) - 1 : lv[i] + d > 0
      BY DEF CanPromote
    <3> QED
      BY <1>6, <3>1
  <2> QED
    BY <1>4, <2>1, <2>2, <2>3, <2>4, <2>5, Zenon DEF CanSwap
<1>9. t \in Seq(LineType) /\ Len(t) = e - bp + 1
      /\ \A k \in 1 .. e - bp + 1 : t[k] = MovedLine(m, bn, B, bp - 1 + k, d)
  BY DEF IsRegion, CanPromote
<1> DEFINE B2 == PromotedIn(B, bp, e, t)
           lv2 == Shift(lv, p, r, d)
<1>10. IsReplaced(LineType, B2, B, bp, e, t)
  <2>1. bp \in 1 .. Len(B) /\ e \in bp .. Len(B)
    BY <1>1, <1>4, <1>5
  <2> QED
    BY <1>7, <1>9, <2>1, ReplacedIs DEF PromotedIn
<1>11. /\ lv2 \in Seq(Int) /\ Len(lv2) = N
       /\ \A i \in 1 .. N : i \in p .. r => lv2[i] = lv[i] + d
       /\ \A i \in 1 .. N : i \notin p .. r => lv2[i] = lv[i]
  <2>1. IsShifted(lv2, lv, p, r, d)
    BY <1>7, ShiftIs, Zenon
  <2> HIDE DEF lv2
  <2> QED
    BY <1>1, <1>7, <2>1 DEF IsShifted
<1> HIDE DEF B2, lv2
<1>12. /\ B2 \in Seq(LineType) /\ Len(B2) = Len(B)
       /\ \A k \in (1 .. bp - 1) \cup (e + 1 .. Len(B)) : B2[k] = B[k]
       /\ \A k \in bp .. e : B2[k] = t[k - bp + 1]
  BY <1>10 DEF IsReplaced
<1>13. \A k \in (1 .. bp - 1) \cup (bp + 0 + (e + 1 - bp) .. Len(B)) : B2[k] = B[k]
  BY <1>6, <1>12
<1>14. ASSUME NEW k \in Int, k \in bp .. bp + (e + 1 - bp) - 1
       PROVE  B2[k] = MovedLine(m, bn, B, k + 0, d)
  <2>1. /\ k \in bp .. e /\ k - bp + 1 \in 1 .. e - bp + 1 /\ bp - 1 + (k - bp + 1) = k + 0
    BY <1>2, <1>14
  <2>2. t[k - bp + 1] = MovedLine(m, bn, B, bp - 1 + (k - bp + 1), d)
    BY <1>9, <2>1
  <2> QED
    BY <1>12, <2>1, <2>2
<1>15. \A k \in bp + (e + 1 - bp) .. bp + (e + 1 - bp) + 0 - 1 :
         B2[k] = MovedLine(m, bn, B, k - (e + 1 - bp), 0)
  BY <1>2
<1>16. \A i \in (1 .. p - 1) \cup (p + 0 + (r + 1 - p) .. Len(bn)) : bn[i] = bn[i] /\ lv2[i] = lv[i]
  <2>1. ASSUME NEW i \in Int, i \in (1 .. p - 1) \cup (r + 1 .. N)
        PROVE  lv2[i] = lv[i]
    <3>1. i \in 1 .. N /\ i \notin p .. r
      BY <1>2, <2>1
    <3> QED
      BY <1>11, <3>1
  <2> QED
    BY <1>1, <1>2, <1>6, <2>1
<1>17. ASSUME NEW i \in Int, i \in p .. p + (r + 1 - p) - 1
       PROVE  bn[i] = bn[i + 0] - 0 /\ lv2[i] = lv[i + 0] + d
  <2>1. i + 0 = i /\ i \in p .. r /\ i \in 1 .. N
    BY <1>2, <1>17
  <2>2. PICK x \in Int : x = bn[i]
    <3>1. bn[i] \in Int
      BY <1>1, <1>7, <2>1
    <3> QED
      BY <3>1
  <2>3. x = x - 0
    OBVIOUS
  <2> QED
    BY <1>11, <2>1, <2>2, <2>3
<1>18. \A i \in p + (r + 1 - p) .. p + (r + 1 - p) + 0 - 1 :
         bn[i] = bn[i - (r + 1 - p)] + (e + 1 - bp) /\ lv2[i] = lv[i - (r + 1 - p)] + 0
  BY <1>2
<1>19. /\ Len(bn) = Len(bn) /\ Len(lv2) = Len(bn)
       /\ \A k \in bp .. bp + (e + 1 - bp) - 1 : B2[k] = MovedLine(m, bn, B, k + 0, d)
       /\ \A i \in p .. p + (r + 1 - p) - 1 : bn[i] = bn[i + 0] - 0 /\ lv2[i] = lv[i + 0] + d
  BY <1>1, <1>11, <1>14, <1>17
<1>20. IsSwapped(m, bn, lv, B, p, 0, r + 1 - p, bp, 0, e + 1 - bp, 0, d, bn, lv2, B2)
  BY <1>7, <1>11, <1>12, <1>13, <1>15, <1>16, <1>18, <1>19, Zenon DEF IsSwapped
<1> QED
  BY <1>8, <1>20 DEF lv2, B2

-----------------------------------------------------------------------------
(* Cutting: the region p..r is gone.                                       *)

CutBody(B, bp, e) == IF CutOut(B, bp, e) = <<>> THEN <<Blank>> ELSE CutOut(B, bp, e)

CutBnodes(bn, p, r, bp, e) == CutOut(Shift(bn, r + 1, Len(bn), bp - e - 1), p, r)

CanCut(bn, B, p, r, bp, e) ==
  p > 1 /\ p <= r /\ r <= Len(bn) /\ bp = bn[p] /\ e = EndIn(bn, B, r)

LEMMA CutIsTrim ==
  ASSUME NEW m \in OneLineModes, NEW bn, NEW lv, NEW B, Told(m, bn, lv, B),
         NEW p \in Int, NEW r \in Int, NEW bp \in Int, NEW e \in Int,
         CanCut(bn, B, p, r, bp, e)
  PROVE  /\ CanTrim(bn, B, p, r + 1 - p, bp, e + 1 - bp)
         /\ IsTrimmed(bn, lv, B, p, r + 1 - p, bp, e + 1 - bp,
                      CutBnodes(bn, p, r, bp, e), CutOut(lv, p, r), CutBody(B, bp, e))
<1>1. PICK N \in Nat, Z \in Nat : N = Len(bn) /\ Z = Len(B)
  BY DEF Told
<1>2. p > 1 /\ p <= r /\ r <= N
  BY <1>1 DEF CanCut
<1>3. p \in 2 .. Len(bn) /\ p \in 1 .. Len(bn) /\ r \in p .. Len(bn)
  BY <1>1, <1>2
<1>4. bp > 0 /\ bp <= Z /\ BeginsAt(bn, p, bp)
  BY <1>1, <1>3, NodeBegins DEF CanCut
<1>5. e <= Z /\ e >= bp /\ BeginsAt(bn, r + 1, e + 1)
  BY <1>1, <1>3, RegionEnds DEF CanCut
<1>6. p + (r + 1 - p) = r + 1 /\ bp + (e + 1 - bp) = e + 1
  BY <1>2
<1>7. lv \in Seq(Int) /\ Len(lv) = N /\ bn \in Seq(Int) /\ B \in Seq(LineType)
  BY <1>1 DEF Told
<1>8. CanTrim(bn, B, p, r + 1 - p, bp, e + 1 - bp)
  <2>1. p > 1 /\ r + 1 - p >= 0 /\ bp > 0 /\ e + 1 - bp >= 0
    BY <1>2, <1>4, <1>5
  <2>2. p + (r + 1 - p) - 1 <= Len(bn) /\ bp + (e + 1 - bp) - 1 <= Len(B)
    <3>1. e <= Z
      BY <1>5
    <3>2. p + (r + 1 - p) - 1 <= N /\ bp + (e + 1 - bp) - 1 <= Z
      BY <1>2, <3>1
    <3> QED
      BY <1>1, <3>2, Zenon
  <2>3. BeginsAt(bn, p + (r + 1 - p), bp + (e + 1 - bp))
    BY <1>5, <1>6, Zenon
  <2> QED
    BY <1>4, <2>1, <2>2, <2>3, Zenon DEF CanTrim
<1> DEFINE b == Shift(bn, r + 1, Len(bn), bp - e - 1)
           bn2 == CutBnodes(bn, p, r, bp, e)
           lv2 == CutOut(lv, p, r)
           rest == CutOut(B, bp, e)
           B2 == CutBody(B, bp, e)
<1>9. /\ b \in Seq(Int) /\ Len(b) = N
      /\ \A i \in 1 .. N : i \in r + 1 .. N => b[i] = bn[i] + (bp - e - 1)
      /\ \A i \in 1 .. N : i \notin r + 1 .. N => b[i] = bn[i]
  <2>1. r + 1 \in Int /\ Len(bn) \in Int /\ bp - e - 1 \in Int
    BY <1>1
  <2>2. IsShifted(b, bn, r + 1, Len(bn), bp - e - 1)
    BY <1>7, <2>1, ShiftIs, Zenon
  <2> HIDE DEF b
  <2> QED
    BY <1>1, <2>2 DEF IsShifted
<1>10. IsCut(Int, bn2, b, p, r) /\ IsCut(Int, lv2, lv, p, r)
  <2>1. p \in 1 .. Len(b) /\ r \in p .. Len(b) /\ p \in 1 .. Len(lv) /\ r \in p .. Len(lv)
    BY <1>1, <1>3, <1>7, <1>9
  <2>2. bn2 = CutOut(b, p, r)
    BY DEF CutBnodes
  <2> HIDE DEF b
  <2> QED
    BY <1>7, <1>9, <2>1, <2>2, CutOutIs
<1>11. IsCut(LineType, rest, B, bp, e)
  <2>1. bp \in 1 .. Len(B) /\ e \in bp .. Len(B)
    BY <1>1, <1>4, <1>5
  <2> QED
    BY <1>7, <2>1, CutOutIs
<1>12. B2 = IF rest = <<>> THEN <<Blank>> ELSE rest
  BY DEF CutBody
<1> HIDE DEF b, bn2, lv2, rest, B2
<1>13. /\ bn2 \in Seq(Int) /\ Len(bn2) = N - (r - p + 1)
       /\ \A i \in 1 .. p - 1 : bn2[i] = b[i]
       /\ \A i \in p .. N - (r - p + 1) : bn2[i] = b[i + (r - p + 1)]
  BY <1>9, <1>10 DEF IsCut
<1>14. /\ lv2 \in Seq(Int) /\ Len(lv2) = N - (r - p + 1)
       /\ \A i \in 1 .. p - 1 : lv2[i] = lv[i]
       /\ \A i \in p .. N - (r - p + 1) : lv2[i] = lv[i + (r - p + 1)]
  BY <1>7, <1>10 DEF IsCut
<1>15. /\ rest \in Seq(LineType) /\ Len(rest) = Z - (e - bp + 1)
       /\ \A k \in 1 .. bp - 1 : rest[k] = B[k]
       /\ \A k \in bp .. Z - (e - bp + 1) : rest[k] = B[k + (e - bp + 1)]
  BY <1>1, <1>11 DEF IsCut
<1>16. ASSUME NEW i \in Int, i \in 1 .. p - 1
       PROVE  bn2[i] = bn[i] /\ lv2[i] = lv[i]
  <2>1. i \in 1 .. N /\ i \notin r + 1 .. N
    BY <1>2, <1>16
  <2> QED
    BY <1>9, <1>13, <1>14, <1>16, <2>1
<1>17. ASSUME NEW i \in Int, i \in p .. N - (r + 1 - p)
       PROVE  bn2[i] = bn[i + (r + 1 - p)] - (e + 1 - bp) /\ lv2[i] = lv[i + (r + 1 - p)]
  <2>1. PICK j \in Int : j = i + (r + 1 - p)
    BY <1>2
  <2>2. i \in p .. N - (r - p + 1) /\ i + (r - p + 1) = j /\ j \in 1 .. N /\ j \in r + 1 .. N
    BY <1>2, <1>17, <2>1
  <2>3. bn2[i] = b[j] /\ lv2[i] = lv[j] /\ b[j] = bn[j] + (bp - e - 1)
    BY <1>9, <1>13, <1>14, <2>2
  <2>4. PICK x \in Int : x = bn[j]
    <3>1. bn[j] \in Int
      BY <1>1, <1>7, <2>2
    <3> QED
      BY <3>1
  <2>5. x + (bp - e - 1) = x - (e + 1 - bp)
    BY <1>2
  <2> QED
    BY <2>1, <2>3, <2>4, <2>5
<1>18. /\ N - (r - p + 1) = N - (r + 1 - p)
       /\ Z - (e - bp + 1) = Z - (e + 1 - bp)
  BY <1>2
<1>19. B2 \in Seq(LineType)
       /\ \/ /\ Len(B2) = Z - (e + 1 - bp) /\ e + 1 - bp < Z
             /\ \A k \in 1 .. bp - 1 : B2[k] = B[k]
             /\ \A k \in bp .. Z - (e + 1 - bp) : B2[k] = B[k + (e + 1 - bp)]
          \/ B2 = <<Blank>> /\ N - (r + 1 - p) = 1
  <2>1. CASE rest # <<>>
    <3>1. B2 = rest
      BY <1>12, <2>1
    <3>2. e + 1 - bp < Z
      <4>1. Len(rest) \in Nat \ {0}
        BY <1>15, <2>1, EmptySeq
      <4>2. PICK x \in Nat : x = Len(rest) /\ x > 0
        BY <4>1
      <4>3. x = Z - (e - bp + 1)
        BY <1>15, <4>2
      <4> QED
        BY <4>2, <4>3
    <3>3. \A k \in bp .. Z - (e + 1 - bp) : rest[k] = B[k + (e + 1 - bp)]
      <4>1. e - bp + 1 = e + 1 - bp
        BY <1>2
      <4> QED
        BY <1>15, <4>1
    <3> QED
      BY <1>15, <1>18, <3>1, <3>2, <3>3
  <2>2. CASE rest = <<>>
    <3>1. B2 = <<Blank>>
      BY <1>12, <2>2
    <3>2. Blank \in LineType
      BY BlankIs
    <3>3. Z - (e - bp + 1) = 0
      <4>1. Len(rest) = 0
        BY <2>2
      <4> QED
        BY <1>15, <4>1
    <3>4. bp = 1 /\ e = Z
      BY <1>4, <1>5, <3>3
    <3>5. \A j \in 2 .. N : bn[j] \in Int /\ bn[j] > 0 /\ bn[j] <= Z
      BY <1>1 DEF Told
    <3>6. p = 2
      <4>1. 2 \in 2 .. N
        BY <1>2
      <4>2. PICK x \in Int : x = bn[2] /\ x > 0
        BY <3>5, <4>1
      <4>3. x < bp <=> 2 < p
        BY <1>1, <1>4, <4>1, <4>2 DEF BeginsAt
      <4> QED
        BY <1>2, <3>4, <4>2, <4>3
    <3>7. r = N
      <4>1. N \in 2 .. N
        BY <1>2
      <4>2. PICK x \in Int : x = bn[N] /\ x <= Z
        BY <3>5, <4>1
      <4>3. x < e + 1 <=> N < r + 1
        BY <1>1, <1>5, <4>1, <4>2 DEF BeginsAt
      <4> QED
        BY <1>2, <3>4, <4>2, <4>3
    <3> QED
      BY <3>1, <3>2, <3>6, <3>7
  <2> QED
    BY <2>1, <2>2
<1>20. \A i \in p .. Len(bn) - (r + 1 - p) :
         bn2[i] = bn[i + (r + 1 - p)] - (e + 1 - bp) /\ lv2[i] = lv[i + (r + 1 - p)]
  BY <1>1, <1>17
<1>21. IsTrimmed(bn, lv, B, p, r + 1 - p, bp, e + 1 - bp, bn2, lv2, B2)
  <2>1. Len(bn2) = Len(bn) - (r + 1 - p) /\ Len(lv2) = Len(bn) - (r + 1 - p)
    BY <1>1, <1>13, <1>14, <1>18
  <2>2. \/ /\ Len(B2) = Len(B) - (e + 1 - bp) /\ e + 1 - bp < Len(B)
           /\ \A k \in 1 .. bp - 1 : B2[k] = B[k]
           /\ \A k \in bp .. Len(B) - (e + 1 - bp) : B2[k] = B[k + (e + 1 - bp)]
        \/ B2 = <<Blank>> /\ Len(bn) - (r + 1 - p) = 1
    <3>1. Len(B) = Z /\ Len(bn) = N
      BY <1>1
    <3> QED
      BY <1>19, <3>1, Zenon
  <2>3. \A i \in 1 .. p - 1 : bn2[i] = bn[i] /\ lv2[i] = lv[i]
    BY <1>16
  <2>4. bn2 \in Seq(Int) /\ lv2 \in Seq(Int) /\ B2 \in Seq(LineType)
    BY <1>13, <1>14, <1>19
  <2> QED
    BY <1>20, <2>1, <2>2, <2>3, <2>4, Zenon DEF IsTrimmed
<1> QED
  BY <1>8, <1>21 DEF bn2, lv2, B2

-----------------------------------------------------------------------------
(* Parts of a sequence in another order.                                   *)

\* What rises at every step ascends.
LEMMA StepsAscend ==
  ASSUME NEW n \in Nat, NEW f, \A i \in 1 .. n : f[i] \in Int,
         \A i \in 1 .. n : i < n => f[i] < f[i + 1]
  PROVE  \A i, j \in 1 .. n : i < j => f[i] < f[j]
<1> SUFFICES ASSUME NEW i \in 1 .. n, NEW k \in 1 .. n, i < k
             PROVE  f[i] < f[k]
  OBVIOUS
<1> DEFINE Bad == {j \in 1 .. n : i < j /\ ~(f[i] < f[j])}
<1>1. CASE Bad = {}
  BY <1>1
<1>2. CASE Bad # {}
  <2>1. PICK b \in Bad : \A j \in Bad : b <= j
    <3>1. Bad \in SUBSET Nat
      OBVIOUS
    <3> HIDE DEF Bad
    <3> QED
      BY <1>2, <3>1, LeastElement
  <2>2. b \in 1 .. n /\ i < b /\ ~(f[i] < f[b])
    OBVIOUS
  <2>3. PICK a \in Int : a = b - 1 /\ a + 1 = b /\ a \in 1 .. n /\ a < n /\ i <= a
    BY <2>2
  <2>4. f[a] < f[b]
    BY <2>3
  <2>5. a \notin Bad
    <3> HIDE DEF Bad
    <3> QED
      BY <2>1, <2>2, <2>3
  <2>6. i = a \/ f[i] < f[a]
    BY <2>3, <2>5
  <2>7. f[i] \in Int /\ f[a] \in Int /\ f[b] \in Int
    BY <2>2, <2>3
  <2> QED
    BY <2>2, <2>4, <2>6, <2>7
<1> QED
  BY <1>1, <1>2

\* Parts begin at the a[i], the last one ends before a[z + 1]; the i-th is the
\* one that was the p[i]-th when they began at the c[j].
IsShuffle(a, c, p, z) ==
  /\ z \in Nat /\ z >= 1 /\ p \in Bijection(1 .. z, 1 .. z)
  /\ \A i \in 1 .. z + 1 : a[i] \in Int /\ c[i] \in Int
  /\ a[1] = c[1] /\ a[z + 1] = c[z + 1]
  /\ \A i \in 1 .. z : c[i] < c[i + 1] /\ a[i + 1] = a[i] + (c[p[i] + 1] - c[p[i]])

\* The places of the parts.
LEMMA ShuffleIs ==
  ASSUME NEW a, NEW c, NEW p, NEW z, IsShuffle(a, c, p, z)
  PROVE  /\ z \in Nat /\ z >= 1
         /\ \A i \in 1 .. z + 1 : a[i] \in Int /\ c[i] \in Int
         /\ a[1] = c[1] /\ a[z + 1] = c[z + 1]
         /\ \A i \in 1 .. z : /\ p[i] \in 1 .. z /\ c[p[i]] \in Int /\ c[p[i] + 1] \in Int
                              /\ c[i] < c[i + 1] /\ a[i] < a[i + 1]
                              /\ a[i + 1] - a[i] = c[p[i] + 1] - c[p[i]]
         /\ \A i, j \in 1 .. z + 1 : i < j => a[i] < a[j] /\ c[i] < c[j]
<1>1. /\ z \in Nat /\ z >= 1 /\ a[1] = c[1] /\ a[z + 1] = c[z + 1]
      /\ \A i \in 1 .. z + 1 : a[i] \in Int /\ c[i] \in Int
  BY DEF IsShuffle
<1>2. ASSUME NEW i \in 1 .. z
      PROVE  /\ p[i] \in 1 .. z /\ c[p[i]] \in Int /\ c[p[i] + 1] \in Int
             /\ c[i] < c[i + 1] /\ a[i] < a[i + 1]
             /\ a[i + 1] - a[i] = c[p[i] + 1] - c[p[i]]
  <2>1. PICK j \in 1 .. z : j = p[i]
    BY DEF IsShuffle, Bijection, Injection
  <2>2. j \in 1 .. z + 1 /\ j + 1 \in 1 .. z + 1 /\ i \in 1 .. z + 1 /\ i + 1 \in 1 .. z + 1
    BY <1>1
  <2>3. PICK x \in Int, y \in Int, u \in Int, v \in Int :
          x = c[j] /\ y = c[j + 1] /\ u = a[i] /\ v = a[i + 1]
    BY <1>1, <2>2
  <2>4. c[i] < c[i + 1] /\ c[j] < c[j + 1] /\ a[i + 1] = a[i] + (c[p[i] + 1] - c[p[i]])
    BY <2>1 DEF IsShuffle
  <2>5. x < y /\ v = u + (y - x)
    BY <2>1, <2>3, <2>4
  <2>6. u < v /\ v - u = y - x
    BY <2>3, <2>5
  <2> QED
    BY <2>1, <2>3, <2>4, <2>6
<1>3. PICK n \in Nat : n = z + 1
  BY <1>1
<1>4. \A i \in 1 .. n : i < n => i \in 1 .. z
  BY <1>1, <1>3
<1>5. \A i, j \in 1 .. n : i < j => a[i] < a[j]
  <2>1. /\ \A i \in 1 .. n : a[i] \in Int
        /\ \A i \in 1 .. n : i < n => a[i] < a[i + 1]
    BY <1>1, <1>2, <1>3, <1>4
  <2> QED
    BY <2>1, StepsAscend
<1>6. \A i, j \in 1 .. n : i < j => c[i] < c[j]
  <2>1. /\ \A i \in 1 .. n : c[i] \in Int
        /\ \A i \in 1 .. n : i < n => c[i] < c[i + 1]
    BY <1>1, <1>2, <1>3, <1>4
  <2> QED
    BY <2>1, StepsAscend
<1> QED
  BY <1>1, <1>2, <1>3, <1>5, <1>6

\* The other way round.
LEMMA ShuffleBack ==
  ASSUME NEW a, NEW c, NEW p, NEW z, IsShuffle(a, c, p, z)
  PROVE  \E q : IsShuffle(c, a, q, z) /\ \A i \in 1 .. z : q[p[i]] = i /\ p[q[i]] = i
<1> DEFINE q == [j \in 1 .. z |-> CHOOSE i \in 1 .. z : p[i] = j]
<1>1. /\ z \in Nat /\ z >= 1 /\ p \in Bijection(1 .. z, 1 .. z)
  BY DEF IsShuffle
<1>2. /\ \A i \in 1 .. z : p[i] \in 1 .. z
      /\ \A i, j \in 1 .. z : p[i] = p[j] => i = j
      /\ \A j \in 1 .. z : \E i \in 1 .. z : p[i] = j
  BY <1>1 DEF Bijection, Injection, Surjection, IsInjective
<1>3. \A j \in 1 .. z : q[j] \in 1 .. z /\ p[q[j]] = j
  BY <1>2
<1>4. q \in [1 .. z -> 1 .. z]
  BY <1>3
<1> HIDE DEF q
<1>5. \A i \in 1 .. z : q[p[i]] = i
  BY <1>2, <1>3
<1>6. q \in Bijection(1 .. z, 1 .. z)
  <2>1. \A i, j \in 1 .. z : q[i] = q[j] => i = j
    BY <1>3
  <2>2. \A j \in 1 .. z : \E i \in 1 .. z : q[i] = j
    BY <1>2, <1>5
  <2> QED
    BY <1>4, <2>1, <2>2 DEF Bijection, Injection, Surjection, IsInjective
<1>7. ASSUME NEW j \in 1 .. z
      PROVE  a[j] < a[j + 1] /\ c[j + 1] = c[j] + (a[q[j] + 1] - a[q[j]])
  <2>1. PICK i \in 1 .. z : i = q[j] /\ p[i] = j
    BY <1>3
  <2>2. a[i + 1] - a[i] = c[p[i] + 1] - c[p[i]] /\ a[j] < a[j + 1]
    BY ShuffleIs
  <2>3. j \in 1 .. z + 1 /\ j + 1 \in 1 .. z + 1
    BY <1>1
  <2>4. PICK x \in Int, y \in Int : x = c[j] /\ y = c[j + 1]
    BY <2>3, ShuffleIs
  <2>5. y = x + (a[i + 1] - a[i])
    BY <2>1, <2>2, <2>4
  <2> QED
    BY <2>1, <2>2, <2>4, <2>5
<1>8. IsShuffle(c, a, q, z)
  <2>1. /\ \A i \in 1 .. z + 1 : a[i] \in Int /\ c[i] \in Int
        /\ a[1] = c[1] /\ a[z + 1] = c[z + 1]
    BY ShuffleIs
  <2> QED
    BY <1>1, <1>6, <1>7, <2>1 DEF IsShuffle
<1> QED
  BY <1>3, <1>5, <1>8

\* Each place is in one part.
LEMMA PartExists ==
  ASSUME NEW a, NEW c, NEW p, NEW z, IsShuffle(a, c, p, z), NEW x \in Int, a[1] <= x, x < a[z + 1]
  PROVE  \E i \in 1 .. z : a[i] <= x /\ x < a[i + 1]
<1>1. z \in Nat /\ z >= 1 /\ \A i \in 1 .. z + 1 : a[i] \in Int
  BY ShuffleIs
<1> DEFINE S == {i \in 1 .. z + 1 : a[i] <= x}
<1>2. S \in SUBSET (0 .. z + 1) /\ S # {} /\ z + 1 \in Nat
  BY <1>1
<1>3. PICK n \in Nat : n = z + 1
  BY <1>2
<1>4. PICK i \in S : \A j \in S : j <= i
  <2> HIDE DEF S
  <2> QED
    BY <1>2, <1>3, GreatestElement
<1>5. i \in 1 .. z + 1 /\ a[i] <= x
  OBVIOUS
<1>6. i # z + 1
  <2>1. PICK v \in Int : v = a[z + 1]
    BY <1>1
  <2> QED
    BY <1>5, <2>1
<1>7. i \in 1 .. z /\ i + 1 \in 1 .. z + 1
  BY <1>1, <1>5, <1>6
<1>8. i + 1 \notin S
  <2> HIDE DEF S
  <2> QED
    BY <1>4, <1>7
<1>9. ~(a[i + 1] <= x) /\ a[i + 1] \in Int
  BY <1>1, <1>7, <1>8
<1> QED
  BY <1>5, <1>7, <1>9

\* No place is in two parts.
LEMMA PartIsUnique ==
  ASSUME NEW a, NEW c, NEW p, NEW z, IsShuffle(a, c, p, z), NEW x \in Int,
         NEW i \in 1 .. z, a[i] <= x, x < a[i + 1],
         NEW j \in 1 .. z, a[j] <= x, x < a[j + 1]
  PROVE  i = j
<1>1. z \in Nat /\ \A u, v \in 1 .. z + 1 : u < v => a[u] < a[v]
  BY ShuffleIs
<1>2. ASSUME NEW u \in 1 .. z, NEW v \in 1 .. z, u < v, x < a[u + 1], a[v] <= x
      PROVE  FALSE
  <2>1. u + 1 \in 1 .. z + 1 /\ v \in 1 .. z + 1 /\ (u + 1 = v \/ u + 1 < v)
    BY <1>1, <1>2
  <2>2. PICK s \in Int, t \in Int : s = a[u + 1] /\ t = a[v]
    BY <2>1, ShuffleIs
  <2>3. s <= t
    BY <1>1, <2>1, <2>2
  <2> QED
    BY <1>2, <2>2, <2>3
<1>3. ~(i < j) /\ ~(j < i)
  BY <1>2
<1> QED
  BY <1>3

-----------------------------------------------------------------------------
(* Where the elements of the parts come from.                              *)

\* Place x of part i now, place y before.
IsFrom(a, c, p, z, x, y) ==
  \/ (x < c[1] \/ x >= c[z + 1]) /\ y = x
  \/ \E i \in 1 .. z : a[i] <= x /\ x < a[i + 1] /\ y = c[p[i]] + (x - a[i])

\* Every place comes from one.
LEMMA FromExists ==
  ASSUME NEW a, NEW c, NEW p, NEW z, IsShuffle(a, c, p, z), NEW x \in Int
  PROVE  \E y \in Int : IsFrom(a, c, p, z, x, y)
<1>1. PICK s \in Int, t \in Int : s = c[1] /\ t = c[z + 1] /\ s = a[1] /\ t = a[z + 1]
  <2>1. z \in Nat /\ z >= 1 /\ a[1] = c[1] /\ a[z + 1] = c[z + 1]
    BY ShuffleIs
  <2>2. 1 \in 1 .. z + 1 /\ z + 1 \in 1 .. z + 1
    BY <2>1
  <2> QED
    BY <2>1, <2>2, ShuffleIs
<1>2. CASE x < s \/ x >= t
  BY <1>1, <1>2 DEF IsFrom
<1>3. CASE s <= x /\ x < t
  <2>1. PICK i \in 1 .. z : a[i] <= x /\ x < a[i + 1]
    BY <1>1, <1>3, PartExists
  <2>2. c[p[i]] \in Int /\ a[i] \in Int
    <3>1. i \in 1 .. z + 1
      BY ShuffleIs
    <3> QED
      BY <3>1, ShuffleIs
  <2>3. c[p[i]] + (x - a[i]) \in Int
    BY <2>2
  <2> QED
    BY <2>1, <2>3 DEF IsFrom
<1> QED
  BY <1>1, <1>2, <1>3

\* And from no other.
LEMMA FromIsUnique ==
  ASSUME NEW a, NEW c, NEW p, NEW z, IsShuffle(a, c, p, z), NEW x \in Int,
         NEW y, NEW w, IsFrom(a, c, p, z, x, y), IsFrom(a, c, p, z, x, w)
  PROVE  y = w
<1>1. PICK s \in Int, t \in Int : s = c[1] /\ t = c[z + 1] /\ s = a[1] /\ t = a[z + 1]
  <2>1. z \in Nat /\ z >= 1 /\ a[1] = c[1] /\ a[z + 1] = c[z + 1]
    BY ShuffleIs
  <2>2. 1 \in 1 .. z + 1 /\ z + 1 \in 1 .. z + 1
    BY <2>1
  <2> QED
    BY <2>1, <2>2, ShuffleIs
<1>2. ASSUME NEW i \in 1 .. z, a[i] <= x, x < a[i + 1]
      PROVE  s <= x /\ x < t
  <2>1. /\ z \in Nat /\ i \in 1 .. z + 1 /\ i + 1 \in 1 .. z + 1
        /\ 1 \in 1 .. z + 1 /\ z + 1 \in 1 .. z + 1
    BY ShuffleIs
  <2>2. PICK u \in Int, v \in Int : u = a[i] /\ v = a[i + 1]
    BY <2>1, ShuffleIs
  <2>3. (1 = i \/ 1 < i) /\ (i + 1 = z + 1 \/ i + 1 < z + 1)
    BY <2>1
  <2>4. 1 < i => s < u
    BY <1>1, <2>1, <2>2, ShuffleIs
  <2>5. i + 1 < z + 1 => v < t
    BY <1>1, <2>1, <2>2, ShuffleIs
  <2>6. s <= u /\ v <= t
    BY <1>1, <2>2, <2>3, <2>4, <2>5
  <2> QED
    BY <1>2, <2>2, <2>6
<1>3. CASE x < s \/ x >= t
  <2>1. ~\E i \in 1 .. z : a[i] <= x /\ x < a[i + 1]
    BY <1>1, <1>2, <1>3
  <2> QED
    BY <2>1 DEF IsFrom
<1>4. CASE s <= x /\ x < t
  <2>1. PICK i \in 1 .. z : a[i] <= x /\ x < a[i + 1] /\ y = c[p[i]] + (x - a[i])
    BY <1>1, <1>4 DEF IsFrom
  <2>2. PICK j \in 1 .. z : a[j] <= x /\ x < a[j + 1] /\ w = c[p[j]] + (x - a[j])
    BY <1>1, <1>4 DEF IsFrom
  <2>3. i = j
    BY <2>1, <2>2, PartIsUnique
  <2> QED
    BY <2>1, <2>2, <2>3
<1> QED
  BY <1>1, <1>3, <1>4

\* The places before are places of the parts as they were.
LEMMA FromIs ==
  ASSUME NEW a, NEW c, NEW p, NEW z, IsShuffle(a, c, p, z), NEW q, IsShuffle(c, a, q, z),
         \A i \in 1 .. z : q[p[i]] = i,
         NEW x \in Int, NEW y, IsFrom(a, c, p, z, x, y)
  PROVE  /\ y \in Int /\ IsFrom(c, a, q, z, y, x)
         /\ x < c[1] \/ x >= c[z + 1] => y = x
         /\ c[1] <= x /\ x < c[z + 1] => c[1] <= y /\ y < c[z + 1]
<1>1. PICK s \in Int, t \in Int : s = c[1] /\ t = c[z + 1] /\ s = a[1] /\ t = a[z + 1]
  <2>1. z \in Nat /\ z >= 1 /\ a[1] = c[1] /\ a[z + 1] = c[z + 1]
    BY ShuffleIs
  <2>2. 1 \in 1 .. z + 1 /\ z + 1 \in 1 .. z + 1
    BY <2>1
  <2> QED
    BY <2>1, <2>2, ShuffleIs
<1>2. CASE x < s \/ x >= t
  <2>1. IsFrom(a, c, p, z, x, x)
    BY <1>1, <1>2 DEF IsFrom
  <2>2. y = x
    BY <2>1, FromIsUnique
  <2>3. IsFrom(c, a, q, z, y, x)
    BY <1>1, <1>2, <2>2 DEF IsFrom
  <2> QED
    BY <1>1, <1>2, <2>2, <2>3
<1>3. CASE s <= x /\ x < t
  <2>1. PICK i \in 1 .. z : a[i] <= x /\ x < a[i + 1] /\ y = c[p[i]] + (x - a[i])
    BY <1>1, <1>3 DEF IsFrom
  <2>2. PICK j \in 1 .. z : j = p[i] /\ q[j] = i
    BY ShuffleIs
  <2>3. /\ z \in Nat /\ i \in 1 .. z + 1 /\ i + 1 \in 1 .. z + 1 /\ j \in 1 .. z + 1
        /\ j + 1 \in 1 .. z + 1 /\ 1 \in 1 .. z + 1 /\ z + 1 \in 1 .. z + 1
    BY ShuffleIs
  <2>4. PICK u \in Int, v \in Int, b \in Int, e \in Int :
          u = a[i] /\ v = a[i + 1] /\ b = c[j] /\ e = c[j + 1]
    BY <2>3, ShuffleIs
  <2>5. v - u = e - b
    BY <2>2, <2>4, ShuffleIs
  <2>6. y = b + (x - u) /\ y \in Int /\ b <= y /\ y < e
    BY <2>1, <2>2, <2>4, <2>5
  <2>7. x = u + (y - b)
    BY <2>4, <2>6
  <2>8. IsFrom(c, a, q, z, y, x)
    BY <2>2, <2>4, <2>6, <2>7 DEF IsFrom
  <2>9. s <= b /\ e <= t
    <3>1. (1 = j \/ 1 < j) /\ (j + 1 = z + 1 \/ j + 1 < z + 1)
      BY <2>3
    <3>2. 1 < j => s < b
      BY <1>1, <2>3, <2>4, ShuffleIs
    <3>3. j + 1 < z + 1 => e < t
      BY <1>1, <2>3, <2>4, ShuffleIs
    <3>4. 1 = j => s = b
      BY <1>1, <2>4, Zenon
    <3>5. j + 1 = z + 1 => e = t
      BY <1>1, <2>4, Zenon
    <3> QED
      BY <3>1, <3>2, <3>3, <3>4, <3>5
  <2>10. s <= y /\ y < t
    BY <2>4, <2>6, <2>9
  <2> QED
    BY <1>1, <1>3, <2>6, <2>8, <2>10
<1> QED
  BY <1>1, <1>2, <1>3

\* The sequences that Flattens joins are parts of the whole.
HasPart(h, f, n, i, S) ==
  /\ h[i - 1] \in Seq(S) /\ h[n] \in Seq(S)
  /\ Len(h[i]) = Len(h[i - 1]) + Len(f[i])
  /\ \A u \in 1 .. Len(f[i]) : h[n][Len(h[i - 1]) + u] = f[i][u]

\* An element of the whole is one of a part.
LEMMA FlattenHas ==
  ASSUME NEW h, NEW f, NEW S, NEW n, n \in Nat, Flattens(h, f, S, n), NEW i, i \in 1 .. n, f[i] \in Seq(S)
  PROVE  HasPart(h, f, n, i, S)
<1>a. n \in Nat /\ i \in 1 .. n
  OBVIOUS
<1>1. /\ h \in [0 .. n -> Seq(S)]
      /\ \A k \in 1 .. n : h[k] = h[k - 1] \o f[k]
  BY DEF Flattens
<1>2. \A k \in 0 .. n : h[k] \in Seq(S)
  BY <1>1
<1>3. PICK g \in Seq(S), t \in Seq(S) : g = h[i - 1] /\ t = f[i]
  <2>1. i - 1 \in 0 .. n
    OBVIOUS
  <2> QED
    BY <1>2, <2>1
<1>4. PICK G \in Nat, T \in Nat : G = Len(g) /\ T = Len(t)
  OBVIOUS
<1>5. h[i] = g \o t
  BY <1>1, <1>3
<1> DEFINE Holds(w) == G + T <= Len(w) /\ \A u \in 1 .. T : w[G + u] = t[u]
<1>6. Holds(h[i]) /\ Len(h[i]) = G + T
  BY <1>4, <1>5
<1>7. ASSUME NEW w \in Seq(S), NEW v, Holds(w), w \o v \in Seq(S), v \in Seq(S)
      PROVE  Holds(w \o v)
  <2>1. Len(w \o v) >= Len(w) /\ \A k \in 1 .. Len(w) : (w \o v)[k] = w[k]
    BY <1>7
  <2>2. \A u \in 1 .. T : G + u \in 1 .. Len(w)
    BY <1>4, <1>7
  <2> QED
    BY <1>4, <1>7, <2>1, <2>2
<1>8. ASSUME NEW k \in 1 .. n PROVE h[k] = h[k - 1] \o f[k] /\ h[k] \in Seq(S) /\ h[k - 1] \in Seq(S)
  <2>1. k - 1 \in 0 .. n /\ k \in 0 .. n
    OBVIOUS
  <2> QED
    BY <1>1, <1>2, <2>1
<1> DEFINE Bad == {k \in i .. n : ~Holds(h[k])}
<1>9. Bad = {}
  <2> SUFFICES ASSUME Bad # {} PROVE FALSE
    OBVIOUS
  <2>1. PICK b \in Bad : \A j \in Bad : b <= j
    <3>1. Bad \in SUBSET Nat
      OBVIOUS
    <3> HIDE DEF Bad
    <3> QED
      BY <3>1, LeastElement
  <2>2. b \in i .. n /\ ~Holds(h[b])
    OBVIOUS
  <2> HIDE DEF Holds
  <2>3. b # i
    BY <1>6, <2>2
  <2>4. PICK k \in Int : k = b - 1 /\ k \in i .. n /\ k \in 0 .. n /\ b \in 1 .. n /\ k < b
    BY <2>2, <2>3
  <2>5. Holds(h[k])
    <3>1. k \notin Bad
      <4> HIDE DEF Bad
      <4> QED
        BY <2>1, <2>4
    <3> QED
      BY <2>4, <3>1
  <2>6. PICK w \in Seq(S) : w = h[k]
    BY <1>2, <2>4
  <2>7. h[b] = w \o f[b] /\ h[b] \in Seq(S)
    BY <1>8, <2>4, <2>6
  <2>8. PICK v : v = f[b]
    OBVIOUS
  <2>9. w \o v \in Seq(S)
    BY <2>7, <2>8
  <2>10. Holds(w \o v)
    <3>1. Len(w \o v) = Len(w) + Len(v) /\ Len(w \o v) \in Nat
      BY <2>9
    <3> QED
      BY <1>7, <2>5, <2>6, <2>8, <2>9
  <2> QED
    BY <2>2, <2>7, <2>8, <2>10
<1>10. Holds(h[n])
  <2>1. n \in i .. n
    OBVIOUS
  <2> HIDE DEF Holds
  <2> QED
    BY <1>9, <2>1
<1>11. h[n] \in Seq(S)
  <2>1. n \in 0 .. n
    OBVIOUS
  <2> QED
    BY <1>2, <2>1
<1> QED
  BY <1>3, <1>4, <1>6, <1>10, <1>11 DEF HasPart

\* The lines of B2 are those of B with the parts in another order.
IsShuffled(B, B2, a, c, p, z) ==
  /\ Len(B2) = Len(B)
  /\ \A k \in 1 .. c[1] - 1 : B2[k] = B[k]
  /\ \A i \in 1 .. z : \A t \in 0 .. c[p[i] + 1] - c[p[i]] - 1 : B2[a[i] + t] = B[c[p[i]] + t]
  /\ \A k \in c[z + 1] .. Len(B) : B2[k] = B[k]

IsConcat(u, s, t) ==
  /\ Len(u) = Len(s) + Len(t)
  /\ \A k \in 1 .. Len(s) : u[k] = s[k]
  /\ \A k \in 1 .. Len(t) : u[Len(s) + k] = t[k]

\* The elements of two sequences put together.
LEMMA ConcatHas ==
  ASSUME NEW S, NEW s, NEW t, NEW u, s \in Seq(S), t \in Seq(S), u = s \o t
  PROVE  IsConcat(u, s, t)
BY DEF IsConcat

AreThree(b, x, y, w, X, Y, W, S) ==
  /\ x \in Seq(S) /\ y \in Seq(S) /\ w \in Seq(S) /\ X \in Nat /\ Y \in Nat /\ W \in Nat
  /\ Len(x) = X /\ Len(y) = Y /\ Len(w) = W /\ b = x \o y \o w

HasThree(b, x, y, w, X, Y, W) ==
  /\ Len(b) = X + Y + W
  /\ \A k \in 1 .. X : b[k] = x[k]
  /\ \A k \in 1 .. Y : b[X + k] = y[k]
  /\ \A k \in 1 .. W : b[X + Y + k] = w[k]

\* The elements of three sequences put together.
LEMMA ThreeJoined ==
  ASSUME NEW b, NEW x, NEW y, NEW w, NEW X, NEW Y, NEW W, NEW S, AreThree(b, x, y, w, X, Y, W, S)
  PROVE  HasThree(b, x, y, w, X, Y, W)
<1>1. /\ x \in Seq(S) /\ y \in Seq(S) /\ w \in Seq(S) /\ X \in Nat /\ Y \in Nat /\ W \in Nat
      /\ Len(x) = X /\ Len(y) = Y /\ Len(w) = W /\ b = (x \o y) \o w
  BY DEF AreThree
<1>2. PICK g \in Seq(S) : g = x \o y
  <2>1. x \o y \in Seq(S)
    BY <1>1, ConcatIs
  <2> QED
    BY <2>1
<1>3. Len(g) = X + Y /\ (\A k \in 1 .. X : g[k] = x[k]) /\ \A k \in 1 .. Y : g[X + k] = y[k]
  <2>1. IsConcat(g, x, y)
    BY <1>1, <1>2, ConcatHas, Zenon
  <2> QED
    BY <1>1, <2>1, Zenon DEF IsConcat
<1>4. b = g \o w
  BY <1>1, <1>2
<1>5. PICK Z \in Nat : Z = Len(g) /\ Z = X + Y
  BY <1>1, <1>3
<1>6. Len(b) = Z + W /\ (\A k \in 1 .. Z : b[k] = g[k]) /\ \A k \in 1 .. W : b[Z + k] = w[k]
  <2>1. IsConcat(b, g, w)
    BY <1>1, <1>4, ConcatHas, Zenon
  <2> QED
    BY <1>1, <1>5, <2>1, Zenon DEF IsConcat
<1>7. /\ \A k \in 1 .. X : k \in 1 .. Z
      /\ \A k \in 1 .. Y : X + k \in 1 .. Z
  BY <1>1, <1>5
<1> QED
  BY <1>3, <1>5, <1>6, <1>7 DEF HasThree

\* A Body with its parts in another order.
LEMMA RejoinedIs ==
  ASSUME NEW S, NEW B, NEW z, NEW c, NEW p, NEW f, IsParts(B, c, p, f, z, S), z >= 1,
         \A j \in 1 .. z : c[j] < c[j + 1]
  PROVE  \E a : IsShuffle(a, c, p, z) /\ IsShuffled(B, Rejoined(B, c, f, z), a, c, p, z)
<1>1. /\ B \in Seq(S) /\ z \in Nat /\ p \in Bijection(1 .. z, 1 .. z)
      /\ \A j \in 1 .. z + 1 : c[j] \in 1 .. Len(B) + 1
      /\ f = [i \in 1 .. z |-> SubSeq(B, c[p[i]], c[p[i] + 1] - 1)]
  BY DEF IsParts
<1>2. PICK N \in Nat : N = Len(B)
  BY <1>1
<1>3. \A i \in 1 .. z : p[i] \in 1 .. z
  BY <1>1 DEF Bijection, Injection
<1>4. ASSUME NEW i \in 1 .. z
      PROVE  /\ c[p[i]] \in 1 .. N /\ c[p[i] + 1] \in 1 .. N + 1 /\ c[p[i]] < c[p[i] + 1]
             /\ f[i] \in Seq(S) /\ Len(f[i]) = c[p[i] + 1] - c[p[i]]
             /\ \A t \in 0 .. c[p[i] + 1] - c[p[i]] - 1 : f[i][t + 1] = B[c[p[i]] + t]
  <2>1. PICK j \in 1 .. z : j = p[i]
    BY <1>3
  <2>2. j \in 1 .. z + 1 /\ j + 1 \in 1 .. z + 1
    BY <1>1
  <2>3. PICK b \in 1 .. N + 1, e \in 1 .. N + 1 : b = c[j] /\ e = c[j + 1] /\ b < e
    BY <1>1, <1>2, <2>2
  <2>4. PICK y \in Int : y = e - 1 /\ b \in 1 .. N /\ y \in b .. N
    BY <2>3
  <2>5. f[i] = Slice(B, b, y)
    BY <1>1, <2>1, <2>3, <2>4 DEF Slice
  <2>6. /\ Slice(B, b, y) \in Seq(S) /\ Len(Slice(B, b, y)) = y - b + 1
        /\ \A u \in 1 .. y - b + 1 : Slice(B, b, y)[u] = B[b + u - 1]
    BY <1>1, <1>2, <2>4, SliceIs
  <2>7. y - b + 1 = e - b
    BY <2>4
  <2>8. ASSUME NEW t \in 0 .. e - b - 1
        PROVE  f[i][t + 1] = B[b + t]
    <3>1. PICK u \in Int : u = t + 1 /\ u \in 1 .. y - b + 1 /\ b + u - 1 = b + t
      BY <2>3, <2>4
    <3> QED
      BY <2>5, <2>6, <3>1
  <2> QED
    BY <2>1, <2>3, <2>4, <2>5, <2>6, <2>7, <2>8
<1>5. f \in [1 .. z -> Seq(S)]
  BY <1>1, <1>4
<1>6. PICK h : Flattens(h, f, S, z)
  BY <1>1, <1>5, FlattenIs
<1>7. /\ h \in [0 .. z -> Seq(S)] /\ h[0] = <<>> /\ FlattenSeq(f) = h[z]
  BY <1>6 DEF Flattens
<1>8. \A i \in 1 .. z + 1 : h[i - 1] \in Seq(S) /\ Len(h[i - 1]) \in Nat
  <2>1. ASSUME NEW i \in 1 .. z + 1 PROVE h[i - 1] \in Seq(S)
    <3>1. i - 1 \in 0 .. z
      BY <1>1
    <3> QED
      BY <1>7, <3>1
  <2> QED
    BY <2>1
<1>9. PICK w \in Seq(S), M \in Nat : w = h[z] /\ M = Len(w)
  <2>1. z \in 0 .. z
    BY <1>1
  <2> QED
    BY <1>7, <2>1
<1>10. PICK s \in 1 .. N + 1, t \in 1 .. N + 1 : s = c[1] /\ t = c[z + 1]
  <2>1. 1 \in 1 .. z + 1 /\ z + 1 \in 1 .. z + 1
    BY <1>1
  <2> QED
    BY <1>1, <1>2, <2>1
<1>11. PICK x, y : x = SubSeq(B, 1, s - 1) /\ y = SubSeq(B, t, N)
  OBVIOUS
<1>12. /\ x \in Seq(S) /\ Len(x) = s - 1 /\ \A k \in 1 .. s - 1 : x[k] = B[k]
       /\ y \in Seq(S) /\ Len(y) = N + 1 - t /\ \A k \in 1 .. N + 1 - t : y[k] = B[t + k - 1]
  <2>1. \A i \in 1 .. N : B[i] \in S
    BY <1>1, <1>2
  <2>2. PICK u \in Nat, o \in Nat : u = s - 1 /\ o = 1 /\ u <= N
    OBVIOUS
  <2>3. /\ SubSeq(B, o, u) \in Seq(S) /\ Len(SubSeq(B, o, u)) = (IF o <= u THEN u - o + 1 ELSE 0)
        /\ \A k \in 1 .. u - o + 1 : SubSeq(B, o, u)[k] = B[o + k - 1]
    <3>1. \A i \in o .. u : i \in 1 .. N /\ B[i] \in S
      BY <2>1, <2>2
    <3> QED
      BY <1>1, <1>2, <3>1, SubSeqProperties
  <2>4. /\ SubSeq(B, t, N) \in Seq(S) /\ Len(SubSeq(B, t, N)) = (IF t <= N THEN N - t + 1 ELSE 0)
        /\ \A k \in 1 .. N - t + 1 : SubSeq(B, t, N)[k] = B[t + k - 1]
    <3>1. \A i \in t .. N : i \in 1 .. N /\ B[i] \in S
      BY <2>1
    <3>2. t \in Nat
      OBVIOUS
    <3> QED
      BY <1>1, <1>2, <3>1, <3>2, SubSeqProperties
  <2>5. u - o + 1 = u /\ (IF o <= u THEN u - o + 1 ELSE 0) = u /\ \A k \in 1 .. u : o + k - 1 = k
    BY <2>2
  <2>6. x = SubSeq(B, o, u)
    BY <1>11, <2>2
  <2>7. (IF t <= N THEN N - t + 1 ELSE 0) = N + 1 - t /\ N - t + 1 = N + 1 - t
    OBVIOUS
  <2>8. x \in Seq(S) /\ Len(x) = s - 1 /\ \A k \in 1 .. s - 1 : x[k] = B[k]
    BY <2>2, <2>3, <2>5, <2>6
  <2>9. y \in Seq(S) /\ Len(y) = N + 1 - t /\ \A k \in 1 .. N + 1 - t : y[k] = B[t + k - 1]
    BY <1>11, <2>4, <2>7
  <2> QED
    BY <2>8, <2>9
<1>13. PICK B2 : B2 = Rejoined(B, c, f, z)
  OBVIOUS
<1>14. B2 = x \o w \o y
  BY <1>2, <1>7, <1>9, <1>10, <1>11, <1>13, Zenon DEF Rejoined
<1>15. Len(B2) = N
  BY <1>2, <1>13, PartsPermuted
<1>16. PICK X \in Nat, Y \in Nat : X = Len(x) /\ Y = Len(y) /\ X = s - 1 /\ Y = N + 1 - t
  BY <1>12
<1>17. /\ Len(B2) = X + M + Y
       /\ \A k \in 1 .. X : B2[k] = x[k]
       /\ \A k \in 1 .. M : B2[X + k] = w[k]
       /\ \A k \in 1 .. Y : B2[X + M + k] = y[k]
  <2>1. AreThree(B2, x, w, y, X, M, Y, S)
    BY <1>9, <1>12, <1>14, <1>16, Zenon DEF AreThree
  <2> QED
    <3>1. HasThree(B2, x, w, y, X, M, Y)
      BY <2>1, ThreeJoined, Zenon
    <3> QED
      BY <3>1 DEF HasThree
<1>18. s + M = t
  <2>1. N = X + M + Y
    BY <1>15, <1>17
  <2> QED
    BY <1>16, <2>1
<1> DEFINE a == [i \in 1 .. z + 1 |-> s + Len(h[i - 1])]
<1>19. \A i \in 1 .. z + 1 : a[i] = s + Len(h[i - 1]) /\ a[i] \in Int
  BY <1>8
<1>20. a[1] = c[1] /\ a[z + 1] = c[z + 1]
  <2>1. 1 \in 1 .. z + 1 /\ z + 1 \in 1 .. z + 1 /\ 1 - 1 = 0 /\ (z + 1) - 1 = z
    BY <1>1
  <2>2. a[1] = s + Len(h[0]) /\ a[z + 1] = s + Len(h[z])
    BY <1>19, <2>1
  <2>3. Len(h[0]) = 0
    BY <1>7
  <2> HIDE DEF a
  <2> QED
    BY <1>9, <1>10, <1>18, <2>2, <2>3
<1> HIDE DEF a
<1>21. ASSUME NEW i \in 1 .. z
       PROVE  /\ a[i + 1] = a[i] + (c[p[i] + 1] - c[p[i]])
              /\ \A v \in 0 .. c[p[i] + 1] - c[p[i]] - 1 : B2[a[i] + v] = B[c[p[i]] + v]
  <2>1. PICK b \in 1 .. N, e \in 1 .. N + 1 :
          /\ b = c[p[i]] /\ e = c[p[i] + 1] /\ b < e /\ f[i] \in Seq(S) /\ Len(f[i]) = e - b
          /\ \A v \in 0 .. e - b - 1 : f[i][v + 1] = B[b + v]
    BY <1>4
  <2>2. /\ h[i - 1] \in Seq(S) /\ Len(h[i]) = Len(h[i - 1]) + Len(f[i])
        /\ \A u \in 1 .. Len(f[i]) : h[z][Len(h[i - 1]) + u] = f[i][u]
    <3>1. HasPart(h, f, z, i, S)
      BY <1>1, <1>6, <2>1, FlattenHas, Zenon
    <3> QED
      BY <3>1 DEF HasPart
  <2>3. PICK G \in Nat : G = Len(h[i - 1])
    BY <2>2
  <2>4. i \in 1 .. z + 1 /\ i + 1 \in 1 .. z + 1 /\ (i + 1) - 1 = i
    BY <1>1
  <2>5. a[i] = s + G /\ a[i + 1] = s + (G + (e - b))
    BY <1>19, <2>1, <2>2, <2>3, <2>4
  <2>6. G + (e - b) <= M
    <3>1. a[i + 1] <= t
      <4>1. CASE i = z
        BY <1>10, <1>20, <4>1
      <4>2. CASE i # z
        <5>1. i + 1 \in 1 .. z
          BY <1>1, <4>2
        <5>2. PICK n \in Nat : n = z + 1
          BY <1>1
        <5>3. \A k \in 1 .. n : k < n => a[k] < a[k + 1]
          <6>1. ASSUME NEW k \in 1 .. z PROVE a[k] < a[k + 1]
            <7>1. c[p[k]] \in Int /\ c[p[k] + 1] \in Int /\ c[p[k]] < c[p[k] + 1] /\ f[k] \in Seq(S)
                  /\ Len(f[k]) = c[p[k] + 1] - c[p[k]]
              BY <1>4
            <7>2. Len(h[k]) = Len(h[k - 1]) + Len(f[k])
              <8>1. HasPart(h, f, z, k, S)
                BY <1>1, <1>6, <7>1, FlattenHas, Zenon
              <8> QED
                BY <8>1 DEF HasPart
            <7>3. k \in 1 .. z + 1 /\ k + 1 \in 1 .. z + 1 /\ (k + 1) - 1 = k
              BY <1>1
            <7>4. a[k] = s + Len(h[k - 1]) /\ a[k + 1] = s + Len(h[k]) /\ Len(h[k - 1]) \in Nat
              BY <1>8, <1>19, <7>3
            <7>5. PICK u \in Int : u = c[p[k] + 1] - c[p[k]] /\ u > 0 /\ Len(f[k]) = u
              BY <7>1
            <7> QED
              BY <7>2, <7>4, <7>5
          <6>2. \A k \in 1 .. n : k < n => k \in 1 .. z
            BY <1>1, <5>2
          <6> QED
            BY <6>1, <6>2
        <5>4. \A k, l \in 1 .. n : k < l => a[k] < a[l]
          <6>1. \A k \in 1 .. n : a[k] \in Int
            BY <1>19, <5>2
          <6> QED
            BY <5>3, <6>1, StepsAscend
        <5>5. i + 1 \in 1 .. n /\ z + 1 \in 1 .. n /\ i + 1 < z + 1
          BY <1>1, <5>1, <5>2
        <5>6. a[i + 1] < a[z + 1] /\ a[i + 1] \in Int
          BY <1>19, <2>4, <5>4, <5>5
        <5> QED
          BY <1>10, <1>20, <5>6
      <4> QED
        BY <4>1, <4>2
    <3> QED
      BY <1>18, <2>1, <2>5, <3>1
  <2>7. ASSUME NEW v \in 0 .. e - b - 1
        PROVE  B2[a[i] + v] = B[b + v]
    <3>a. PICK u \in Int : u = v + 1
      OBVIOUS
    <3>1. u \in 1 .. Len(f[i]) /\ G + u \in 1 .. M
      <4>1. u >= 1 /\ u <= e - b /\ b \in Int /\ e \in Int /\ M \in Int /\ G \in Nat
        BY <3>a
      <4>2. G + u <= M /\ G + u >= 1
        BY <2>6, <4>1
      <4>3. Len(f[i]) = e - b
        BY <2>1
      <4> QED
        BY <4>1, <4>2, <4>3
    <3>2. X + (G + u) = (s + G) + v
      BY <1>16, <3>a
    <3>3. B2[X + (G + u)] = w[G + u] /\ w[G + u] = f[i][u] /\ f[i][u] = B[b + v]
      <4>1. B2[X + (G + u)] = w[G + u]
        BY <1>17, <3>1
      <4>2. w[G + u] = f[i][u]
        BY <1>9, <2>2, <2>3, <3>1
      <4>3. f[i][v + 1] = B[b + v]
        BY <2>1
      <4> QED
        BY <3>a, <4>1, <4>2, <4>3
    <3> QED
      BY <2>5, <3>2, <3>3
  <2> QED
    BY <2>1, <2>5, <2>7
<1>22. IsShuffle(a, c, p, z)
  <2>1. \A i \in 1 .. z + 1 : a[i] \in Int /\ c[i] \in Int
    BY <1>1, <1>2, <1>19
  <2> QED
    BY <1>1, <1>20, <1>21, <2>1 DEF IsShuffle
<1>23. IsShuffled(B, B2, a, c, p, z)
  <2>1. ASSUME NEW k \in 1 .. c[1] - 1 PROVE B2[k] = B[k]
    BY <1>10, <1>12, <1>16, <1>17
  <2>2. ASSUME NEW k \in c[z + 1] .. N PROVE B2[k] = B[k]
    <3>1. PICK u \in Int : u = k + 1 - t
      <4>1. k \in Int
        BY <1>10, <2>2
      <4> QED
        BY <4>1
    <3>2. t <= k /\ k <= N /\ k \in Int
      BY <1>10, <2>2
    <3>3. u \in 1 .. Y /\ (X + M) + u = k /\ (t + u) - 1 = k
      BY <1>16, <1>18, <3>1, <3>2
    <3>4. B2[(X + M) + u] = y[u]
      BY <1>17, <3>3
    <3>5. y[u] = B[(t + u) - 1]
      BY <1>12, <1>16, <3>3
    <3> QED
      BY <3>3, <3>4, <3>5
  <2> QED
    BY <1>2, <1>15, <1>21, <2>1, <2>2 DEF IsShuffled
<1> QED
  BY <1>13, <1>22, <1>23

Swaps(a, c, p, q, z) ==
  /\ IsShuffle(a, c, p, z) /\ IsShuffle(c, a, q, z)
  /\ \A i \in 1 .. z : q[p[i]] = i /\ p[q[i]] = i

\* P takes each of the places 0..N to the one where its element is now.
IsPlacing(P, a, c, p, q, z, N) ==
  /\ Swaps(a, c, p, q, z) /\ N \in Nat /\ 1 <= c[1] /\ c[z + 1] <= N + 1
  /\ \A k \in 0 .. N : P[k] \in Int /\ IsFrom(c, a, q, z, k, P[k])

\* There is a place for every element.
LEMMA PlacingExists ==
  ASSUME NEW a, NEW c, NEW p, NEW z, IsShuffle(a, c, p, z), NEW N \in Nat, 1 <= c[1], c[z + 1] <= N + 1
  PROVE  \E P, q : IsPlacing(P, a, c, p, q, z, N)
<1>1. PICK q : IsShuffle(c, a, q, z) /\ \A i \in 1 .. z : q[p[i]] = i /\ p[q[i]] = i
  BY ShuffleBack
<1> DEFINE P == [k \in 0 .. N |-> CHOOSE y \in Int : IsFrom(c, a, q, z, k, y)]
<1>2. ASSUME NEW k \in 0 .. N
      PROVE  P[k] \in Int /\ IsFrom(c, a, q, z, k, P[k])
  <2>1. k \in Int
    OBVIOUS
  <2>2. \E y \in Int : IsFrom(c, a, q, z, k, y)
    BY <1>1, <2>1, FromExists
  <2>3. P[k] = CHOOSE y \in Int : IsFrom(c, a, q, z, k, y)
    OBVIOUS
  <2> HIDE DEF P
  <2> QED
    BY <2>2, <2>3, Zenon
<1> HIDE DEF P
<1>3. IsPlacing(P, a, c, p, q, z, N)
  BY <1>1, <1>2 DEF IsPlacing, Swaps
<1> QED
  BY <1>3

\* Outside of the parts elements stay where they are.
Outside(c, z, k) == k < c[1] \/ k >= c[z + 1]

\* The places are those of a permutation, and what is outside stays.
LEMMA PlacingIs ==
  ASSUME NEW P, NEW a, NEW c, NEW p, NEW q, NEW z, NEW N, IsPlacing(P, a, c, p, q, z, N)
  PROVE  /\ N \in Nat
         /\ \A k \in 0 .. N : /\ P[k] \in 0 .. N
                              /\ Outside(c, z, k) => P[k] = k
                              /\ ~Outside(c, z, k) => ~Outside(c, z, P[k])
         /\ \A j \in 1 .. z : \A k \in 0 .. N :
              c[j] <= k /\ k < c[j + 1] => P[k] = a[q[j]] + (k - c[j])
         /\ \A k \in 0 .. N : ~Outside(c, z, k) => \E j \in 1 .. z : c[j] <= k /\ k < c[j + 1]
         /\ \A j, k \in 0 .. N : P[j] = P[k] => j = k
         /\ \A y \in 0 .. N : \E k \in 0 .. N : P[k] = y
<1>1. /\ IsShuffle(a, c, p, z) /\ IsShuffle(c, a, q, z)
      /\ \A i \in 1 .. z : p[q[i]] = i
      /\ \A i \in 1 .. z : q[p[i]] = i
      /\ N \in Nat /\ 1 <= c[1] /\ c[z + 1] <= N + 1
      /\ \A k \in 0 .. N : P[k] \in Int /\ IsFrom(c, a, q, z, k, P[k])
  BY DEF IsPlacing, Swaps
<1>2. PICK s \in Int, t \in Int : /\ s = c[1] /\ t = c[z + 1] /\ s = a[1] /\ t = a[z + 1]
                                  /\ 1 <= s /\ t <= N + 1
  <2>1. z \in Nat /\ z >= 1 /\ a[1] = c[1] /\ a[z + 1] = c[z + 1]
    BY <1>1, ShuffleIs
  <2>2. 1 \in 1 .. z + 1 /\ z + 1 \in 1 .. z + 1
    BY <2>1
  <2>3. c[1] \in Int /\ c[z + 1] \in Int
    BY <1>1, <2>2, ShuffleIs
  <2> QED
    BY <1>1, <2>1, <2>3
<1>3. \A k : Outside(c, z, k) <=> k < s \/ k >= t
  BY <1>2 DEF Outside
<1>4. ASSUME NEW k \in 0 .. N
      PROVE  /\ P[k] \in 0 .. N /\ IsFrom(a, c, p, z, P[k], k)
             /\ Outside(c, z, k) => P[k] = k
             /\ ~Outside(c, z, k) => ~Outside(c, z, P[k])
  <2>1. PICK y \in Int, x \in Int : y = P[k] /\ x = k /\ IsFrom(c, a, q, z, x, y)
    BY <1>1
  <2>2. /\ IsFrom(a, c, p, z, y, x)
        /\ x < a[1] \/ x >= a[z + 1] => y = x
        /\ a[1] <= x /\ x < a[z + 1] => a[1] <= y /\ y < a[z + 1]
    BY <1>1, <2>1, FromIs
  <2>3. /\ x < s \/ x >= t => y = x
        /\ s <= x /\ x < t => s <= y /\ y < t
    BY <1>2, <2>2
  <2>4. y \in 0 .. N
    <3>1. x >= 0 /\ x <= N
      BY <2>1
    <3> QED
      BY <1>1, <1>2, <2>3, <3>1
  <2> QED
    BY <1>3, <2>1, <2>2, <2>3, <2>4
<1>5. ASSUME NEW j \in 1 .. z, NEW k \in 0 .. N, c[j] <= k, k < c[j + 1]
      PROVE  P[k] = a[q[j]] + (k - c[j])
  <2>1. IsFrom(c, a, q, z, k, a[q[j]] + (k - c[j]))
    BY <1>5, Zenon DEF IsFrom
  <2>2. k \in Int /\ IsFrom(c, a, q, z, k, P[k])
    BY <1>1
  <2>3. PICK u, w : u = P[k] /\ w = a[q[j]] + (k - c[j])
    OBVIOUS
  <2>4. u = w
    BY <1>1, <2>1, <2>2, <2>3, FromIsUnique
  <2> QED
    BY <2>3, <2>4
<1>6. ASSUME NEW k \in 0 .. N, ~Outside(c, z, k)
      PROVE  \E j \in 1 .. z : c[j] <= k /\ k < c[j + 1]
  <2>1. k \in Int /\ s <= k /\ k < t
    BY <1>3, <1>6
  <2> QED
    BY <1>1, <1>2, <2>1, PartExists
<1>7. ASSUME NEW j \in 0 .. N, NEW k \in 0 .. N, P[j] = P[k]
      PROVE  j = k
  <2>1. PICK y \in Int : y = P[j] /\ y = P[k] /\ IsFrom(a, c, p, z, y, j) /\ IsFrom(a, c, p, z, y, k)
    BY <1>4, <1>7
  <2> QED
    BY <1>1, <2>1, FromIsUnique
<1>8. ASSUME NEW y \in 0 .. N
      PROVE  \E k \in 0 .. N : P[k] = y
  <2>1. PICK k \in Int : IsFrom(a, c, p, z, y, k)
    <3>1. y \in Int
      OBVIOUS
    <3> QED
      BY <1>1, <3>1, FromExists
  <2>2. /\ IsFrom(c, a, q, z, k, y)
        /\ y < c[1] \/ y >= c[z + 1] => k = y
        /\ c[1] <= y /\ y < c[z + 1] => c[1] <= k /\ k < c[z + 1]
    <3>1. y \in Int
      OBVIOUS
    <3> QED
      BY <1>1, <2>1, <3>1, FromIs
  <2>3. /\ y < s \/ y >= t => k = y
        /\ s <= y /\ y < t => s <= k /\ k < t
    BY <1>2, <2>2
  <2>4. k \in 0 .. N
    BY <1>1, <1>2, <2>3
  <2>5. IsFrom(c, a, q, z, k, P[k])
    BY <1>1, <2>4
  <2>6. P[k] = y
    <3>1. PICK u : u = P[k]
      OBVIOUS
    <3> QED
      BY <1>1, <2>2, <2>5, <3>1, FromIsUnique
  <2> QED
    BY <2>4, <2>6
<1> QED
  BY <1>1, <1>4, <1>5, <1>6, <1>7, <1>8

-----------------------------------------------------------------------------
(* Lines with levels v; those without a headline have level 0.             *)

\* The branches of siblings at level L, which begin at the c[j]; the last one
\* ends before c[z + 1].
IsSibs(v, N, c, z, L) ==
  /\ N \in Nat /\ z \in Nat /\ z >= 1 /\ L \in Int /\ L > 0
  /\ \A k \in 1 .. N : v[k] \in Int
  /\ \A j \in 1 .. z + 1 : c[j] \in 1 .. N + 1
  /\ \A j \in 1 .. z : c[j] < c[j + 1] /\ c[j] <= N /\ v[c[j]] = L
  /\ \A k \in 1 .. N : c[1] <= k /\ k < c[z + 1] => v[k] <= 0 \/ v[k] > L \/ \E j \in 1 .. z : k = c[j]
  /\ c[z + 1] <= N => v[c[z + 1]] > 0 /\ v[c[z + 1]] <= L

\* The headline in line q is the parent of the one in line k, 0 if there is none.
IsParentAt(v, k, q) ==
  /\ q \in 0 .. k - 1
  /\ q = 0 \/ (v[q] > 0 /\ v[q] < v[k])
  /\ \A x \in q + 1 .. k - 1 : v[x] <= 0 \/ v[x] >= v[k]

\* The lines change places; a node keeps its lines and its parent.
IsReordering(P, v, v2, N) ==
  /\ N \in Nat /\ P[0] = 0
  /\ \A k \in 0 .. N : P[k] \in 0 .. N
  /\ \A j, k \in 0 .. N : P[j] = P[k] => j = k
  /\ \A y \in 0 .. N : \E k \in 0 .. N : P[k] = y
  /\ \A k \in 0 .. N - 1 : v[k + 1] <= 0 => P[k + 1] = P[k] + 1
  /\ \A k \in 1 .. N : v2[P[k]] = v[k]
  /\ \A k \in 1 .. N : v[k] > 0 => \A q \in 0 .. N : IsParentAt(v, k, q) => IsParentAt(v2, P[k], P[q])

\* Lines that stay are reordered.
LEMMA SameReordering ==
  ASSUME NEW v, NEW N \in Nat
  PROVE  IsReordering([k \in 0 .. N |-> k], v, v, N)
<1> DEFINE P == [k \in 0 .. N |-> k]
<1>1. \A k \in 0 .. N : P[k] = k
  OBVIOUS
<1> HIDE DEF P
<1>2. 0 \in 0 .. N /\ \A k \in 1 .. N : k \in 0 .. N
  OBVIOUS
<1>3. \A k \in 0 .. N - 1 : k \in 0 .. N /\ k + 1 \in 0 .. N
  OBVIOUS
<1>4. \A k \in 1 .. N : v[k] > 0 => \A q \in 0 .. N : IsParentAt(v, k, q) => IsParentAt(v, P[k], P[q])
  BY <1>1, <1>2
<1>5. \A k \in 0 .. N - 1 : P[k + 1] = P[k] + 1
  BY <1>1, <1>3
<1>6. \A k \in 1 .. N : v[P[k]] = v[k]
  BY <1>1, <1>2
<1> QED
  BY <1>1, <1>2, <1>4, <1>5, <1>6 DEF IsReordering, P

\* One reordering after another is a reordering.
LEMMA ReorderingsCompose ==
  ASSUME NEW P, NEW Q, NEW v, NEW w, NEW u, NEW N, IsReordering(P, v, w, N), IsReordering(Q, w, u, N)
  PROVE  IsReordering([k \in 0 .. N |-> Q[P[k]]], v, u, N)
<1> DEFINE R == [k \in 0 .. N |-> Q[P[k]]]
<1>1. /\ N \in Nat /\ P[0] = 0
      /\ \A k \in 0 .. N : P[k] \in 0 .. N
      /\ \A j, k \in 0 .. N : P[j] = P[k] => j = k
      /\ \A y \in 0 .. N : \E k \in 0 .. N : P[k] = y
      /\ \A k \in 0 .. N - 1 : v[k + 1] <= 0 => P[k + 1] = P[k] + 1
      /\ \A k \in 1 .. N : w[P[k]] = v[k]
      /\ \A k \in 1 .. N : v[k] > 0 => \A q \in 0 .. N : IsParentAt(v, k, q) => IsParentAt(w, P[k], P[q])
  BY DEF IsReordering
<1>2. /\ Q[0] = 0
      /\ \A k \in 0 .. N : Q[k] \in 0 .. N
      /\ \A j, k \in 0 .. N : Q[j] = Q[k] => j = k
      /\ \A y \in 0 .. N : \E k \in 0 .. N : Q[k] = y
      /\ \A k \in 0 .. N - 1 : w[k + 1] <= 0 => Q[k + 1] = Q[k] + 1
      /\ \A k \in 1 .. N : u[Q[k]] = w[k]
      /\ \A k \in 1 .. N : w[k] > 0 => \A q \in 0 .. N : IsParentAt(w, k, q) => IsParentAt(u, Q[k], Q[q])
  BY DEF IsReordering
<1>3. \A k \in 0 .. N : R[k] = Q[P[k]]
  OBVIOUS
<1> HIDE DEF R
<1>4. 0 \in 0 .. N /\ \A k \in 1 .. N : k \in 0 .. N /\ P[k] \in 1 .. N
  <2>1. \A k \in 1 .. N : k \in 0 .. N /\ k # 0
    BY <1>1
  <2>2. 0 \in 0 .. N
    BY <1>1
  <2>3. \A k \in 1 .. N : P[k] \in 0 .. N /\ P[k] # 0
    BY <1>1, <2>1, <2>2
  <2>4. \A x \in 0 .. N : x # 0 => x \in 1 .. N
    BY <1>1
  <2> QED
    BY <2>1, <2>2, <2>3, <2>4
<1>5. R[0] = 0 /\ \A k \in 0 .. N : R[k] \in 0 .. N
  BY <1>1, <1>2, <1>3, <1>4
<1>6. \A j, k \in 0 .. N : R[j] = R[k] => j = k
  <2>1. ASSUME NEW j \in 0 .. N, NEW k \in 0 .. N, R[j] = R[k] PROVE j = k
    <3>1. PICK x \in 0 .. N, y \in 0 .. N : x = P[j] /\ y = P[k]
      BY <1>1
    <3>2. Q[x] = Q[y]
      BY <1>3, <2>1, <3>1
    <3>3. x = y
      BY <1>2, <3>2
    <3> QED
      BY <1>1, <3>1, <3>3
  <2> QED
    BY <2>1
<1>7. \A y \in 0 .. N : \E k \in 0 .. N : R[k] = y
  <2>1. ASSUME NEW y \in 0 .. N PROVE \E k \in 0 .. N : R[k] = y
    <3>1. PICK j \in 0 .. N : Q[j] = y
      BY <1>2
    <3>2. PICK k \in 0 .. N : P[k] = j
      BY <1>1
    <3> QED
      BY <1>3, <3>1, <3>2
  <2> QED
    BY <2>1
<1>8. ASSUME NEW k \in 0 .. N - 1, v[k + 1] <= 0
      PROVE  R[k + 1] = R[k] + 1
  <2>1. k \in 0 .. N /\ k + 1 \in 1 .. N /\ k + 1 \in 0 .. N
    BY <1>1
  <2>2. PICK x \in 0 .. N, y \in 0 .. N : x = P[k] /\ y = P[k + 1] /\ y = x + 1
    BY <1>1, <1>8, <2>1
  <2>3. x \in 0 .. N - 1 /\ w[x + 1] <= 0
    BY <1>1, <1>8, <2>1, <2>2
  <2>4. Q[x + 1] = Q[x] + 1
    BY <1>2, <2>3
  <2> QED
    BY <1>3, <2>1, <2>2, <2>4
<1>9. \A k \in 1 .. N : u[R[k]] = v[k]
  <2>1. ASSUME NEW k \in 1 .. N PROVE u[R[k]] = v[k]
    <3>1. PICK x \in 1 .. N : x = P[k]
      BY <1>4
    <3>2. R[k] = Q[x] /\ u[Q[x]] = w[x] /\ w[x] = v[k]
      BY <1>1, <1>2, <1>3, <1>4, <3>1
    <3> QED
      BY <3>2
  <2> QED
    BY <2>1
<1>10. ASSUME NEW k \in 1 .. N, v[k] > 0, NEW q \in 0 .. N, IsParentAt(v, k, q)
       PROVE  IsParentAt(u, R[k], R[q])
  <2>1. PICK x \in 1 .. N, y \in 0 .. N : x = P[k] /\ y = P[q]
    BY <1>1, <1>4
  <2>2. IsParentAt(w, x, y) /\ w[x] > 0
    BY <1>1, <1>10, <2>1
  <2>3. IsParentAt(u, Q[x], Q[y])
    BY <1>2, <2>2
  <2>4. R[k] = Q[x] /\ R[q] = Q[y]
    BY <1>3, <1>4, <2>1
  <2> QED
    BY <2>3, <2>4
<1> QED
  BY <1>1, <1>5, <1>6, <1>7, <1>8, <1>9, <1>10 DEF IsReordering, R

\* v2 are the levels after the branches have changed places.
IsMovedBy(v, v2, P, a, c, p, q, z, N, L) ==
  /\ IsSibs(v, N, c, z, L) /\ IsPlacing(P, a, c, p, q, z, N)
  /\ \A k \in 1 .. N : v2[P[k]] = v[k]

\* What is known of branches that have changed places.
LEMMA SibsMoved ==
  ASSUME NEW v, NEW v2, NEW P, NEW a, NEW c, NEW p, NEW q, NEW z, NEW N, NEW L,
         IsMovedBy(v, v2, P, a, c, p, q, z, N, L)
  PROVE  /\ N \in Nat /\ P[0] = 0
         /\ c[1] \in 1 .. N /\ c[z + 1] \in 1 .. N + 1 /\ c[1] < c[z + 1]
         /\ \A k \in 1 .. N : /\ v[k] \in Int /\ v2[k] \in Int
                              /\ Outside(c, z, k) => v2[k] = v[k]
                              /\ ~Outside(c, z, k) => v[k] <= 0 \/ v[k] >= L
                              /\ ~Outside(c, z, k) => v2[k] <= 0 \/ v2[k] >= L
         /\ v2[c[1]] = L
<1>1. IsSibs(v, N, c, z, L) /\ IsPlacing(P, a, c, p, q, z, N) /\ \A k \in 1 .. N : v2[P[k]] = v[k]
  BY DEF IsMovedBy
<1>2. /\ N \in Nat /\ z \in Nat /\ z >= 1 /\ L \in Int /\ L > 0
      /\ \A k \in 1 .. N : v[k] \in Int
      /\ \A j \in 1 .. z + 1 : c[j] \in 1 .. N + 1
      /\ \A j \in 1 .. z : c[j] < c[j + 1] /\ c[j] <= N /\ v[c[j]] = L
      /\ \A k \in 1 .. N : c[1] <= k /\ k < c[z + 1] => v[k] <= 0 \/ v[k] > L \/ \E j \in 1 .. z : k = c[j]
  BY <1>1 DEF IsSibs
<1>3. /\ \A k \in 0 .. N : /\ P[k] \in 0 .. N
                           /\ Outside(c, z, k) => P[k] = k
                           /\ ~Outside(c, z, k) => ~Outside(c, z, P[k])
      /\ \A j \in 1 .. z : \A k \in 0 .. N :
           c[j] <= k /\ k < c[j + 1] => P[k] = a[q[j]] + (k - c[j])
      /\ \A y \in 0 .. N : \E k \in 0 .. N : P[k] = y
  BY <1>1, PlacingIs
<1>4. /\ IsShuffle(a, c, p, z) /\ \A i \in 1 .. z : q[p[i]] = i
  BY <1>1 DEF IsPlacing, Swaps
<1>5. PICK s \in 1 .. N, t \in 1 .. N + 1 : s = c[1] /\ t = c[z + 1] /\ s < t
  <2>1. 1 \in 1 .. z + 1 /\ z + 1 \in 1 .. z + 1 /\ 1 \in 1 .. z /\ 1 < z + 1
    BY <1>2
  <2>2. c[1] \in 1 .. N + 1 /\ c[1] <= N /\ c[z + 1] \in 1 .. N + 1
    BY <1>2, <2>1
  <2>3. c[1] < c[z + 1]
    BY <1>4, <2>1, ShuffleIs
  <2>4. c[1] \in 1 .. N
    BY <1>2, <2>2
  <2> QED
    BY <2>2, <2>3, <2>4
<1>6. \A k : Outside(c, z, k) <=> k < s \/ k >= t
  BY <1>5 DEF Outside
<1>7. P[0] = 0
  <2>1. 0 \in 0 .. N /\ 0 < s
    BY <1>2, <1>5
  <2>2. Outside(c, z, 0)
    BY <1>6, <2>1
  <2> QED
    BY <1>3, <2>1, <2>2
<1>8. ASSUME NEW k \in 1 .. N, ~Outside(c, z, k)
      PROVE  v[k] <= 0 \/ v[k] >= L
  <2>1. v[k] <= 0 \/ v[k] > L \/ \E j \in 1 .. z : k = c[j]
    BY <1>2, <1>5, <1>6, <1>8
  <2>2. ASSUME NEW j \in 1 .. z, k = c[j] PROVE v[k] = L
    BY <1>2, <2>2
  <2>3. v[k] \in Int
    BY <1>2
  <2> QED
    BY <1>2, <2>1, <2>2, <2>3
<1>9. ASSUME NEW k \in 1 .. N
      PROVE  /\ v2[k] \in Int
             /\ Outside(c, z, k) => v2[k] = v[k]
             /\ ~Outside(c, z, k) => v2[k] <= 0 \/ v2[k] >= L
  <2>1. k \in 0 .. N
    BY <1>2
  <2>2. PICK x \in 0 .. N : P[x] = k
    BY <1>3, <2>1
  <2>3. x \in 1 .. N
    <3>1. x # 0
      BY <1>2, <1>7, <2>2
    <3> QED
      BY <1>2, <3>1
  <2>4. v2[k] = v[x]
    BY <1>1, <2>2, <2>3
  <2>5. Outside(c, z, x) => x = k
    BY <1>3, <2>2
  <2>6. ~Outside(c, z, x) => ~Outside(c, z, k)
    BY <1>3, <2>2
  <2>7. ~Outside(c, z, x) => v[x] <= 0 \/ v[x] >= L
    BY <1>8, <2>3
  <2>8. v[x] \in Int
    BY <1>2, <2>3
  <2> QED
    BY <2>4, <2>5, <2>6, <2>7, <2>8, Zenon
<1>10. v2[s] = L
  <2>1. PICK i \in 1 .. z : i = p[1] /\ q[i] = 1
    <3>1. 1 \in 1 .. z
      BY <1>2
    <3>2. p[1] \in 1 .. z
      BY <1>4, <3>1, ShuffleIs
    <3> QED
      BY <1>4, <3>1, <3>2
  <2>2. PICK x \in 1 .. N : x = c[i]
    <3>1. i \in 1 .. z + 1
      BY <1>2
    <3>2. c[i] \in 1 .. N + 1 /\ c[i] <= N
      BY <1>2, <3>1
    <3>3. c[i] \in 1 .. N
      BY <1>2, <3>2
    <3> QED
      BY <3>3
  <2>3. x \in 0 .. N /\ c[i] <= x /\ x < c[i + 1] /\ v[x] = L
    BY <1>2, <2>2
  <2>4. P[x] = a[q[i]] + (x - c[i])
    BY <1>3, <2>3
  <2>5. a[1] = s
    BY <1>4, <1>5, ShuffleIs
  <2>6. P[x] = s
    <3>1. P[x] = s + (x - x)
      BY <2>1, <2>2, <2>4, <2>5
    <3> QED
      BY <3>1
  <2> QED
    BY <1>1, <2>3, <2>6
<1> QED
  BY <1>2, <1>5, <1>7, <1>8, <1>9, <1>10

\* Nodes keep their lines and parents.
LEMMA ShuffleReorders ==
  ASSUME NEW v, NEW v2, NEW P, NEW a, NEW c, NEW p, NEW q, NEW z, NEW N, NEW L,
         IsMovedBy(v, v2, P, a, c, p, q, z, N, L)
  PROVE  IsReordering(P, v, v2, N)
<1>1. IsSibs(v, N, c, z, L) /\ IsPlacing(P, a, c, p, q, z, N) /\ \A k \in 1 .. N : v2[P[k]] = v[k]
  BY DEF IsMovedBy
<1>2. /\ z \in Nat /\ z >= 1 /\ L \in Int /\ L > 0
      /\ \A j \in 1 .. z + 1 : c[j] \in 1 .. N + 1
      /\ \A j \in 1 .. z : c[j] < c[j + 1] /\ v[c[j]] = L
      /\ \A k \in 1 .. N : c[1] <= k /\ k < c[z + 1] => v[k] <= 0 \/ v[k] > L \/ \E j \in 1 .. z : k = c[j]
      /\ c[z + 1] <= N => v[c[z + 1]] > 0 /\ v[c[z + 1]] <= L
  BY <1>1 DEF IsSibs
<1>3. /\ \A k \in 0 .. N : /\ P[k] \in 0 .. N
                           /\ Outside(c, z, k) => P[k] = k
                           /\ ~Outside(c, z, k) => ~Outside(c, z, P[k])
      /\ \A j \in 1 .. z : \A k \in 0 .. N :
           c[j] <= k /\ k < c[j + 1] => P[k] = a[q[j]] + (k - c[j])
      /\ \A k \in 0 .. N : ~Outside(c, z, k) => \E j \in 1 .. z : c[j] <= k /\ k < c[j + 1]
      /\ \A j, k \in 0 .. N : P[j] = P[k] => j = k
      /\ \A y \in 0 .. N : \E k \in 0 .. N : P[k] = y
  BY <1>1, PlacingIs
<1>4. /\ IsShuffle(a, c, p, z) /\ IsShuffle(c, a, q, z)
  BY <1>1 DEF IsPlacing, Swaps
<1>5. /\ N \in Nat /\ P[0] = 0
      /\ \A k \in 1 .. N : /\ v[k] \in Int /\ v2[k] \in Int
                           /\ Outside(c, z, k) => v2[k] = v[k]
                           /\ ~Outside(c, z, k) => v[k] <= 0 \/ v[k] >= L
                           /\ ~Outside(c, z, k) => v2[k] <= 0 \/ v2[k] >= L
  BY SibsMoved
<1>6. PICK s \in 1 .. N, t \in 1 .. N + 1 : s = c[1] /\ t = c[z + 1] /\ s < t
  <2>1. c[1] \in 1 .. N /\ c[z + 1] \in 1 .. N + 1 /\ c[1] < c[z + 1]
    BY SibsMoved
  <2> QED
    BY <2>1
<1>7. \A k : Outside(c, z, k) <=> k < s \/ k >= t
  BY <1>6 DEF Outside
<1>8. ASSUME NEW j \in 1 .. z
      PROVE  \E b \in 1 .. N + 1, e \in 1 .. N + 1, g \in Int :
               /\ b = c[j] /\ e = c[j + 1] /\ b < e
               /\ \A k \in 0 .. N : b <= k /\ k < e => P[k] = k + g
  <2>1. j \in 1 .. z + 1 /\ j + 1 \in 1 .. z + 1
    BY <1>2
  <2>2. PICK b \in 1 .. N + 1, e \in 1 .. N + 1 : b = c[j] /\ e = c[j + 1] /\ b < e
    BY <1>2, <2>1
  <2>3. PICK h \in Int : h = a[q[j]]
    <3>1. q[j] \in 1 .. z
      BY <1>4, ShuffleIs
    <3>2. a[q[j]] \in Int
      BY <1>4, ShuffleIs
    <3> QED
      BY <3>2
  <2>4. PICK g \in Int : g = h - b
    BY <2>2
  <2>5. ASSUME NEW k \in 0 .. N, b <= k, k < e PROVE P[k] = k + g
    <3>1. P[k] = h + (k - b)
      BY <1>3, <2>2, <2>3, <2>5
    <3> QED
      BY <2>2, <2>4, <3>1
  <2> QED
    BY <2>2, <2>5
<1>9. ASSUME NEW k \in 0 .. N - 1, v[k + 1] <= 0
      PROVE  P[k + 1] = P[k] + 1
  <2>1. PICK y \in 1 .. N : y = k + 1 /\ y \in 0 .. N /\ k \in 0 .. N
    BY <1>5
  <2>2. \A j \in 1 .. z : y # c[j]
    BY <1>2, <1>9, <2>1
  <2>3. y # t
    <3>1. t <= N => v[t] > 0
      BY <1>2, <1>6
    <3>2. v[y] <= 0 /\ v[y] \in Int /\ y <= N
      BY <1>5, <1>9, <2>1
    <3>3. CASE y = t
      <4>1. v[t] > 0 /\ v[t] = v[y]
        BY <3>1, <3>2, <3>3
      <4> QED
        BY <3>2, <4>1
    <3> QED
      BY <3>3
  <2>4. CASE Outside(c, z, y)
    <3>1. Outside(c, z, k)
      BY <1>6, <1>7, <2>1, <2>3, <2>4
    <3> QED
      BY <1>3, <2>1, <2>4, <3>1
  <2>5. CASE ~Outside(c, z, y)
    <3>1. PICK j \in 1 .. z : c[j] <= y /\ y < c[j + 1]
      BY <1>3, <2>1, <2>5
    <3>2. PICK b \in 1 .. N + 1, e \in 1 .. N + 1, g \in Int :
               /\ b = c[j] /\ e = c[j + 1] /\ b < e
               /\ \A x \in 0 .. N : b <= x /\ x < e => P[x] = x + g
      BY <1>8
    <3>3. b <= k /\ k < e /\ b <= y /\ y < e
      BY <2>1, <2>2, <3>1, <3>2
    <3>4. P[k] = k + g /\ P[y] = y + g
      BY <2>1, <3>2, <3>3
    <3> QED
      BY <2>1, <3>4
  <2> QED
    BY <2>4, <2>5
<1>10. ASSUME NEW k \in 1 .. N, v[k] > 0, NEW o \in 0 .. N, IsParentAt(v, k, o)
       PROVE  IsParentAt(v2, P[k], P[o])
  <2>1. /\ o \in 0 .. k - 1
        /\ o = 0 \/ (v[o] > 0 /\ v[o] < v[k])
        /\ \A x \in o + 1 .. k - 1 : v[x] <= 0 \/ v[x] >= v[k]
    BY <1>10 DEF IsParentAt
  <2>2. k \in 0 .. N /\ o < k /\ v[k] \in Int /\ v2[P[k]] = v[k]
    BY <1>1, <1>5, <2>1
  <2>3. o # 0 => o \in 1 .. N /\ v[o] \in Int /\ v2[P[o]] = v[o]
    <3>1. o # 0 => o \in 1 .. N
      BY <1>5
    <3> QED
      BY <1>1, <1>5, <3>1
  <2>4. PICK K \in 0 .. N, O \in 0 .. N : K = P[k] /\ O = P[o]
    BY <1>3, <2>2
  <2>5. o = 0 => O = 0
    BY <1>5, <2>4
  <2>6. O = 0 \/ (v2[O] > 0 /\ v2[O] < v2[K])
    BY <2>1, <2>2, <2>3, <2>4, <2>5
  <2>7. ASSUME O < K, \A x \in O + 1 .. K - 1 : v2[x] <= 0 \/ v2[x] >= v[k]
        PROVE  IsParentAt(v2, P[k], P[o])
    <3>1. O \in 0 .. K - 1
      BY <2>7
    <3>2. v2[K] = v[k]
      BY <2>2, <2>4
    <3>3. IsParentAt(v2, K, O)
      BY <2>6, <2>7, <3>1, <3>2 DEF IsParentAt
    <3> QED
      BY <2>4, <3>3
  \* q is not in the region unless k is.
  <2>8. CASE k < s
    <3>1. K = k /\ O = o
      BY <1>3, <1>7, <2>2, <2>4, <2>8
    <3>2. ASSUME NEW x \in O + 1 .. K - 1 PROVE v2[x] <= 0 \/ v2[x] >= v[k]
      <4>1. x \in 1 .. N /\ x < s /\ x \in o + 1 .. k - 1
        BY <2>2, <2>8, <3>1, <1>5
      <4>2. v2[x] = v[x]
        BY <1>5, <1>7, <4>1
      <4> QED
        BY <2>1, <4>1, <4>2
    <3> QED
      BY <2>2, <2>7, <3>1, <3>2
  <2>9. ASSUME o < s, v[k] <= L, s <= K, k >= s,
               \A x \in 1 .. N : x >= t /\ x < K => x < k
        PROVE  IsParentAt(v2, P[k], P[o])
    <3>1. O = o
      BY <1>3, <1>7, <2>4, <2>9
    <3>2. ASSUME NEW x \in O + 1 .. K - 1 PROVE v2[x] <= 0 \/ v2[x] >= v[k]
      <4>1. x \in 1 .. N /\ x > o /\ x < K /\ x \in Int
        BY <1>5, <3>1
      <4>2. CASE Outside(c, z, x)
        <5>1. x < k
          BY <1>6, <1>7, <2>9, <4>1, <4>2
        <5>2. x \in o + 1 .. k - 1 /\ v2[x] = v[x]
          BY <1>5, <4>1, <4>2, <5>1
        <5> QED
          BY <2>1, <5>2
      <4>3. CASE ~Outside(c, z, x)
        <5>1. v2[x] <= 0 \/ v2[x] >= L
          BY <1>5, <4>1, <4>3
        <5>2. v2[x] \in Int
          BY <1>5, <4>1
        <5> QED
          BY <1>2, <2>2, <2>9, <5>1, <5>2
      <4> QED
        BY <4>2, <4>3
    <3>3. O < K
      BY <1>6, <2>9, <3>1
    <3> QED
      BY <2>7, <3>2, <3>3
  <2>10. ASSUME o >= s, o < t PROVE v[o] >= L /\ o # 0
    <3>1. o # 0 /\ o \in 1 .. N
      BY <1>5, <1>6, <2>10
    <3>2. ~Outside(c, z, o)
      BY <1>7, <2>10, <1>6
    <3>3. v[o] <= 0 \/ v[o] >= L
      BY <1>5, <3>1, <3>2
    <3> QED
      BY <2>1, <2>3, <3>1, <3>3
  <2>11. CASE s <= k /\ k < t
    <3>1. PICK j \in 1 .. z : c[j] <= k /\ k < c[j + 1]
      <4>1. ~Outside(c, z, k)
        BY <1>6, <1>7, <2>11
      <4> QED
        BY <1>3, <2>2, <4>1
    <3>2. PICK b \in 1 .. N + 1, e \in 1 .. N + 1, g \in Int :
               /\ b = c[j] /\ e = c[j + 1] /\ b < e
               /\ \A x \in 0 .. N : b <= x /\ x < e => P[x] = x + g
      BY <1>8
    <3>3. s <= K /\ K < t
      <4>1. ~Outside(c, z, k)
        BY <1>6, <1>7, <2>11
      <4>2. ~Outside(c, z, K)
        BY <1>3, <2>2, <2>4, <4>1
      <4> QED
        BY <1>6, <1>7, <4>2
    <3>4. CASE k = b
      <4>1. v[k] = L
        BY <1>2, <3>2, <3>4
      <4>2. o < s
        <5>1. ~(o >= s /\ o < t)
          BY <1>2, <2>1, <2>3, <2>10, <4>1
        <5> QED
          BY <1>6, <2>2, <2>11, <5>1
      <4>3. \A x \in 1 .. N : x >= t /\ x < K => x < k
        BY <1>6, <3>3
      <4> QED
        BY <2>9, <2>11, <3>3, <4>1, <4>2, <4>3, <1>2
    <3>5. CASE k # b
      <4>1. b < k /\ k < e
        BY <3>1, <3>2, <3>5
      <4>2. v[k] > L
        <5>1. ASSUME NEW i \in 1 .. z, k = c[i] PROVE FALSE
          <6>1. i \in 1 .. z + 1 /\ j \in 1 .. z + 1 /\ j + 1 \in 1 .. z + 1
            BY <1>2
          <6>2. i < j \/ i = j \/ i = j + 1 \/ j + 1 < i
            BY <1>2
          <6>3. i < j => k < b
            BY <1>4, <3>2, <5>1, <6>1, ShuffleIs
          <6>4. j + 1 < i => e < k
            BY <1>4, <3>2, <5>1, <6>1, ShuffleIs
          <6>5. i = j => k = b
            BY <3>2, <5>1
          <6>6. i = j + 1 => k = e
            BY <3>2, <5>1
          <6> QED
            BY <4>1, <6>2, <6>3, <6>4, <6>5, <6>6
        <5>2. c[1] <= k /\ k < c[z + 1]
          BY <1>6, <2>11
        <5> QED
          BY <1>2, <1>10, <2>2, <5>1, <5>2
      <4>3. b <= o
        <5>1. CASE o < b
          <6>1. b \in o + 1 .. k - 1
            BY <4>1, <5>1
          <6>2. v[b] = L
            BY <1>2, <3>2
          <6>3. v[b] <= 0 \/ v[b] >= v[k]
            BY <2>1, <6>1
          <6> QED
            BY <1>2, <2>2, <4>2, <6>2, <6>3
        <5> QED
          BY <5>1
      <4>4. K = k + g /\ O = o + g
        BY <2>2, <2>4, <3>2, <4>1, <4>3
      <4>5. ASSUME NEW x \in O + 1 .. K - 1 PROVE v2[x] <= 0 \/ v2[x] >= v[k]
        <5>1. PICK y \in Int : y = x - g
          OBVIOUS
        <5>2. y \in o + 1 .. k - 1 /\ y \in 1 .. N /\ y \in 0 .. N /\ b <= y /\ y < e /\ y + g = x
          <6>1. PICK u \in Int, w \in Int : u = o /\ w = k /\ 1 <= b /\ b <= u /\ w < e /\ w <= N
            BY <4>1, <4>3, <1>5
          <6>2. x >= (u + g) + 1 /\ x <= (w + g) - 1 /\ x \in Int
            BY <4>4, <6>1
          <6>3. y + g = x
            BY <5>1, <6>2
          <6>4. y >= u + 1 /\ y <= w - 1
            BY <6>2, <6>3
          <6>5. y \in Int /\ b <= y /\ 1 <= y /\ y < e /\ y <= N
            <7>1. PICK d \in Int, f \in Int, M \in Int : d = b /\ f = e /\ M = N
              BY <1>5
            <7>2. 1 <= d /\ d <= u /\ w < f /\ w <= M
              BY <6>1, <7>1
            <7>3. d <= y /\ 1 <= y /\ y < f /\ y <= M
              BY <6>4, <7>2
            <7> QED
              BY <7>1, <7>3
          <6> QED
            BY <1>5, <6>1, <6>3, <6>4, <6>5
        <5>3. P[y] = x
          BY <3>2, <5>2
        <5>4. v2[x] = v[y]
          BY <1>1, <5>2, <5>3
        <5> QED
          BY <2>1, <5>2, <5>4
      <4> QED
        BY <2>2, <2>7, <4>4, <4>5
    <3> QED
      BY <3>4, <3>5
  <2>12. CASE t <= k
    <3>1. K = k
      BY <1>3, <1>7, <2>2, <2>4, <2>12
    <3>2. CASE o >= t
      <4>1. O = o
        BY <1>3, <1>7, <2>4, <3>2
      <4>2. ASSUME NEW x \in O + 1 .. K - 1 PROVE v2[x] <= 0 \/ v2[x] >= v[k]
        <5>1. x \in o + 1 .. k - 1 /\ x \in 1 .. N /\ x >= t
          <6>1. x \in o + 1 .. k - 1
            BY <3>1, <4>1
          <6>2. x \in Int /\ x > o /\ x < k /\ o \in Int /\ t >= 1 /\ k <= N
            BY <6>1
          <6>3. PICK u \in Int, w \in Int, d \in Int, M \in Int : u = o /\ w = k /\ d = t /\ M = N
            BY <1>5
          <6>4. d <= u /\ u < x /\ x < w /\ w <= M /\ 1 <= d
            BY <3>2, <6>2, <6>3
          <6>5. 1 <= x /\ x <= M /\ x >= d
            BY <6>2, <6>4
          <6> QED
            BY <1>5, <6>1, <6>2, <6>3, <6>5
        <5>2. v2[x] = v[x]
          BY <1>5, <1>7, <5>1
        <5> QED
          BY <2>1, <5>1, <5>2
      <4> QED
        BY <2>2, <2>7, <3>1, <4>1, <4>2
    <3>3. CASE o < t
      <4>1. t <= N /\ v[t] > 0 /\ v[t] <= L /\ v[t] \in Int
        BY <1>2, <1>5, <1>6, <2>12
      <4>2. v[k] <= L
        <5>1. CASE k = t
          BY <4>1, <5>1
        <5>2. CASE k # t
          <6>1. t \in o + 1 .. k - 1
            BY <2>12, <3>3, <5>2
          <6>2. v[t] >= v[k]
            BY <2>1, <2>2, <4>1, <6>1
          <6> QED
            BY <1>2, <2>2, <4>1, <6>2
        <5> QED
          BY <5>1, <5>2
      <4>3. o < s
        <5>1. ~(o >= s /\ o < t)
          BY <1>2, <2>1, <2>2, <2>3, <2>10, <4>2
        <5> QED
          BY <3>3, <5>1
      <4> QED
        BY <1>6, <2>9, <2>12, <3>1, <4>2, <4>3
    <3> QED
      BY <3>2, <3>3
  <2> QED
    BY <2>8, <2>11, <2>12
<1> QED
  BY <1>1, <1>3, <1>5, <1>9, <1>10 DEF IsReordering

\* Other siblings, which are not below these, stay where they are.
LEMMA SibsStay ==
  ASSUME NEW v, NEW v2, NEW P, NEW a, NEW c, NEW p, NEW q, NEW z, NEW N, NEW L,
         IsMovedBy(v, v2, P, a, c, p, q, z, N, L),
         NEW d, NEW y, NEW M, IsSibs(v, N, d, y, M), M <= L,
         \A i \in 1 .. z, j \in 1 .. y : c[i] # d[j]
  PROVE  IsSibs(v2, N, d, y, M)
<1>1. IsSibs(v, N, c, z, L) /\ IsPlacing(P, a, c, p, q, z, N)
  BY DEF IsMovedBy
<1>2. /\ z \in Nat /\ z >= 1 /\ L \in Int /\ L > 0
      /\ \A j \in 1 .. z : v[c[j]] = L
      /\ \A k \in 1 .. N : c[1] <= k /\ k < c[z + 1] => v[k] <= 0 \/ v[k] > L \/ \E j \in 1 .. z : k = c[j]
  BY <1>1 DEF IsSibs
<1>3. /\ y \in Nat /\ y >= 1 /\ M \in Int /\ M > 0
      /\ \A j \in 1 .. y + 1 : d[j] \in 1 .. N + 1
      /\ \A j \in 1 .. y : d[j] < d[j + 1] /\ d[j] <= N /\ v[d[j]] = M
      /\ \A k \in 1 .. N : d[1] <= k /\ k < d[y + 1] => v[k] <= 0 \/ v[k] > M \/ \E j \in 1 .. y : k = d[j]
      /\ d[y + 1] <= N => v[d[y + 1]] > 0 /\ v[d[y + 1]] <= M
  BY DEF IsSibs
<1>4. /\ N \in Nat
      /\ \A k \in 1 .. N : /\ v[k] \in Int /\ v2[k] \in Int
                           /\ Outside(c, z, k) => v2[k] = v[k]
                           /\ ~Outside(c, z, k) => v[k] <= 0 \/ v[k] >= L
                           /\ ~Outside(c, z, k) => v2[k] <= 0 \/ v2[k] >= L
      /\ v2[c[1]] = L
  BY SibsMoved
<1>5. PICK s \in 1 .. N, t \in 1 .. N + 1 : s = c[1] /\ t = c[z + 1] /\ s < t
  <2>1. c[1] \in 1 .. N /\ c[z + 1] \in 1 .. N + 1 /\ c[1] < c[z + 1]
    BY SibsMoved
  <2> QED
    BY <2>1
<1>6. \A k : Outside(c, z, k) <=> k < s \/ k >= t
  BY <1>5 DEF Outside
<1>7. PICK f \in 1 .. N, e \in 1 .. N + 1 : f = d[1] /\ e = d[y + 1] /\ f < e
  <2>1. 1 \in 1 .. y + 1 /\ y + 1 \in 1 .. y + 1 /\ 1 \in 1 .. y /\ 1 < y + 1
    BY <1>3
  <2>2. PICK n \in Nat : n = y + 1
    BY <1>3
  <2>3. d[1] < d[y + 1]
    <3>1. \A j \in 1 .. n : d[j] \in Int
      BY <1>3, <2>2
    <3>2. \A j \in 1 .. n : j < n => d[j] < d[j + 1]
      <4>1. \A j \in 1 .. n : j < n => j \in 1 .. y
        BY <1>3, <2>2
      <4> QED
        BY <1>3, <4>1
    <3>3. \A i, j \in 1 .. n : i < j => d[i] < d[j]
      BY <3>1, <3>2, StepsAscend
    <3> QED
      BY <2>1, <2>2, <3>3
  <2>4. d[1] \in 1 .. N + 1 /\ d[1] <= N /\ d[y + 1] \in 1 .. N + 1
    BY <1>3, <2>1
  <2>5. d[1] \in 1 .. N
    BY <1>4, <2>4
  <2> QED
    BY <2>3, <2>4, <2>5
<1>8. ASSUME NEW k \in 1 .. N, ~Outside(c, z, k), v[k] = L
      PROVE  \E i \in 1 .. z : k = c[i]
  <2>1. c[1] <= k /\ k < c[z + 1]
    BY <1>5, <1>6, <1>8
  <2>2. v[k] <= 0 \/ v[k] > L \/ \E j \in 1 .. z : k = c[j]
    BY <1>2, <2>1
  <2>3. ~(v[k] <= 0) /\ ~(v[k] > L)
    BY <1>2, <1>8
  <2> QED
    BY <2>2, <2>3
<1>9. ASSUME NEW j \in 1 .. y
      PROVE  d[j] \in 1 .. N /\ Outside(c, z, d[j]) /\ v2[d[j]] = M
  <2>1. PICK k \in 1 .. N : k = d[j] /\ v[k] = M
    <3>1. j \in 1 .. y + 1
      BY <1>3
    <3>2. d[j] \in 1 .. N + 1 /\ d[j] <= N /\ v[d[j]] = M
      BY <1>3, <3>1
    <3>3. d[j] \in 1 .. N
      BY <1>4, <3>2
    <3> QED
      BY <3>2, <3>3
  <2>2. CASE ~Outside(c, z, k)
    <3>1. v[k] <= 0 \/ v[k] >= L
      BY <1>4, <2>2
    <3>2. v[k] = L
      BY <1>2, <1>3, <2>1, <3>1
    <3>3. PICK i \in 1 .. z : k = c[i]
      BY <1>8, <2>2, <3>2
    <3> QED
      BY <2>1, <3>3
  <2>3. CASE Outside(c, z, k)
    BY <1>4, <2>1, <2>3
  <2> QED
    BY <2>2, <2>3
<1>10. ASSUME M = L, f <= s, s < e
       PROVE  FALSE
  <2>1. v[s] = M
    <3>1. 1 \in 1 .. z
      BY <1>2
    <3> QED
      BY <1>2, <1>5, <1>10, <3>1
  <2>2. v[s] <= 0 \/ v[s] > M \/ \E j \in 1 .. y : s = d[j]
    BY <1>3, <1>7, <1>10
  <2>3. ~(v[s] <= 0) /\ ~(v[s] > M)
    BY <1>3, <2>1
  <2>4. PICK j \in 1 .. y : s = d[j]
    BY <2>2, <2>3
  <2>5. 1 \in 1 .. z
    BY <1>2
  <2> QED
    BY <1>5, <2>4, <2>5
<1>11. f < s \/ f >= t
  <2>1. 1 \in 1 .. y
    BY <1>3
  <2>2. Outside(c, z, f)
    BY <1>7, <1>9, <2>1
  <2> QED
    BY <1>6, <2>2
<1>12. ASSUME NEW k \in 1 .. N, d[1] <= k, k < d[y + 1]
       PROVE  v2[k] <= 0 \/ v2[k] > M \/ \E j \in 1 .. y : k = d[j]
  <2>1. CASE Outside(c, z, k)
    BY <1>3, <1>4, <1>12, <2>1
  <2>2. CASE ~Outside(c, z, k)
    <3>1. v2[k] <= 0 \/ v2[k] >= L
      BY <1>4, <2>2
    <3>2. M # L
      <4>1. s <= k /\ k < t /\ f <= k /\ k < e
        BY <1>5, <1>6, <1>7, <1>12, <2>2
      <4>2. f <= s /\ s < e
        BY <1>11, <4>1
      <4> QED
        BY <1>10, <4>2
    <3>3. v2[k] \in Int
      BY <1>4
    <3> QED
      BY <1>2, <1>3, <3>1, <3>2, <3>3
  <2> QED
    BY <2>1, <2>2
<1>13. ASSUME e <= N
       PROVE  v2[e] > 0 /\ v2[e] <= M
  <2>1. e \in 1 .. N /\ v[e] > 0 /\ v[e] <= M /\ v[e] \in Int
    <3>1. e \in 1 .. N
      BY <1>7, <1>13
    <3> QED
      BY <1>3, <1>4, <1>7, <1>13, <3>1
  <2>2. CASE Outside(c, z, e)
    BY <1>4, <2>1, <2>2
  <2>3. CASE ~Outside(c, z, e)
    <3>1. v[e] <= 0 \/ v[e] >= L
      BY <1>4, <2>1, <2>3
    <3>2. v[e] = L /\ M = L
      BY <1>2, <1>3, <2>1, <3>1
    <3>3. s <= e /\ e < t
      BY <1>6, <1>7, <1>5, <2>3
    <3>4. e = s
      <4>1. ~(f <= s /\ s < e)
        BY <1>10, <3>2
      <4> QED
        BY <1>7, <1>11, <3>3, <4>1
    <3>5. v2[e] = L
      BY <1>4, <1>5, <3>4
    <3> QED
      BY <1>2, <3>2, <3>5
  <2> QED
    BY <2>2, <2>3
<1>14. \A j \in 1 .. y : d[j] < d[j + 1] /\ d[j] <= N /\ v2[d[j]] = M
  BY <1>3, <1>9
<1>15. d[y + 1] <= N => v2[d[y + 1]] > 0 /\ v2[d[y + 1]] <= M
  BY <1>7, <1>13
<1> QED
  BY <1>3, <1>4, <1>12, <1>14, <1>15 DEF IsSibs

\* Line h and the lines without a headline after it, the last one in e.
IsBlock(v, N, h, e) ==
  /\ N \in Nat /\ h \in 0 .. N /\ e \in h .. N
  /\ \A k \in h + 1 .. e : v[k] <= 0
  /\ e < N => v[e + 1] > 0

\* The lines of a block have moved together.
MovesAlong(P, h, e) == \A k \in h .. e : P[k] = P[h] + (k - h)

\* The lines of a block stay together.
LEMMA BlockStays ==
  ASSUME NEW P, NEW v, NEW v2, NEW N, IsReordering(P, v, v2, N), \A k \in 1 .. N : v[k] \in Int,
         NEW h, NEW e, IsBlock(v, N, h, e)
  PROVE  /\ MovesAlong(P, h, e)
         /\ P[h] \in 0 .. N
         /\ IsBlock(v2, N, P[h], P[h] + (e - h))
<1>1. /\ N \in Nat /\ P[0] = 0
      /\ \A k \in 0 .. N : P[k] \in 0 .. N
      /\ \A j, k \in 0 .. N : P[j] = P[k] => j = k
      /\ \A y \in 0 .. N : \E k \in 0 .. N : P[k] = y
      /\ \A k \in 0 .. N - 1 : v[k + 1] <= 0 => P[k + 1] = P[k] + 1
      /\ \A k \in 1 .. N : v2[P[k]] = v[k]
  BY DEF IsReordering
<1>2. /\ h \in 0 .. N /\ e \in h .. N
      /\ \A k \in h + 1 .. e : v[k] <= 0
      /\ e < N => v[e + 1] > 0
  BY DEF IsBlock
<1>3. PICK x \in 0 .. N : x = P[h]
  BY <1>1, <1>2
<1> DEFINE Bad == {k \in h .. e : P[k] # x + (k - h)}
<1>4. Bad = {}
  <2> SUFFICES ASSUME Bad # {} PROVE FALSE
    OBVIOUS
  <2>1. PICK k \in Bad : \A j \in Bad : k <= j
    <3>1. Bad \in SUBSET Nat
      BY <1>2
    <3> HIDE DEF Bad
    <3> QED
      BY <3>1, LeastElement
  <2>2. k \in h .. e /\ P[k] # x + (k - h)
    OBVIOUS
  <2>3. k # h
    <3>1. CASE k = h
      <4>1. x + (k - h) = x
        BY <1>2, <3>1
      <4> QED
        BY <1>3, <2>2, <3>1, <4>1
    <3> QED
      BY <3>1
  <2>4. PICK j \in Int : j = k - 1 /\ j + 1 = k /\ j \in h .. e /\ j \in 0 .. N - 1 /\ j < k /\ k \in h + 1 .. e
    BY <1>1, <1>2, <2>2, <2>3
  <2>5. j \notin Bad
    <3> HIDE DEF Bad
    <3> QED
      BY <2>1, <2>2, <2>4
  <2>6. P[j] = x + (j - h)
    BY <2>4, <2>5
  <2>7. P[k] = P[j] + 1
    BY <1>1, <1>2, <2>4
  <2>8. x + (k - h) = (x + (j - h)) + 1
    BY <1>2, <2>4
  <2> QED
    BY <2>2, <2>6, <2>7, <2>8
<1>5. \A k \in h .. e : P[k] = x + (k - h)
  BY <1>4
<1> HIDE DEF Bad
<1>6. PICK y \in 0 .. N : y = P[e] /\ y = x + (e - h) /\ x <= y
  <2>1. e \in 0 .. N /\ e \in h .. e
    BY <1>1, <1>2
  <2>2. P[e] = x + (e - h) /\ P[e] \in 0 .. N
    BY <1>1, <1>5, <2>1
  <2>3. x <= x + (e - h)
    BY <1>2
  <2> QED
    BY <2>2, <2>3
<1>7. ASSUME NEW k \in x + 1 .. y
      PROVE  v2[k] <= 0
  <2>1. PICK j \in Int : j = (k - x) + h
    BY <1>2
  <2>2. j \in h + 1 .. e /\ j \in h .. e /\ j \in 1 .. N /\ x + (j - h) = k
    BY <1>1, <1>2, <1>6, <2>1
  <2>3. P[j] = k /\ v[j] <= 0
    BY <1>2, <1>5, <2>2
  <2> QED
    BY <1>1, <2>2, <2>3
<1>8. ASSUME y < N
      PROVE  v2[y + 1] > 0
  <2>1. PICK w \in 1 .. N : w = y + 1 /\ w \in 0 .. N
    BY <1>1, <1>8
  <2>2. PICK k \in 0 .. N : P[k] = w
    BY <1>1, <2>1
  <2>3. k \in 1 .. N
    <3>1. k # 0
      BY <1>1, <2>1, <2>2
    <3> QED
      BY <1>1, <3>1
  <2>4. v2[w] = v[k] /\ v[k] \in Int
    BY <1>1, <2>2, <2>3
  <2>5. CASE v[k] <= 0
    <3>1. PICK j \in 0 .. N - 1 : j + 1 = k /\ j \in 0 .. N
      <4>1. k - 1 \in 0 .. N - 1 /\ (k - 1) + 1 = k /\ k - 1 \in 0 .. N
        BY <1>1, <2>3
      <4> QED
        BY <4>1
    <3>2. P[k] = P[j] + 1
      BY <1>1, <2>5, <3>1
    <3>3. P[j] \in 0 .. N
      BY <1>1, <3>1
    <3>4. P[j] = P[e]
      BY <1>6, <2>1, <2>2, <3>2, <3>3
    <3>5. j = e
      <4>1. e \in 0 .. N
        BY <1>1, <1>2
      <4> QED
        BY <1>1, <3>1, <3>4, <4>1
    <3>6. e < N /\ v[e + 1] = v[k]
      BY <1>1, <3>1, <3>5
    <3> QED
      BY <1>2, <2>4, <2>5, <3>6
  <2> QED
    BY <2>1, <2>4, <2>5
<1>9. IsBlock(v2, N, x, y)
  BY <1>1, <1>6, <1>7, <1>8 DEF IsBlock
<1>10. MovesAlong(P, h, e)
  BY <1>3, <1>5 DEF MovesAlong
<1> QED
  BY <1>3, <1>6, <1>9, <1>10

\* The block of a headline ends at one line.
LEMMA BlockIsUnique ==
  ASSUME NEW v, NEW N, NEW h, NEW e, NEW d, IsBlock(v, N, h, e), IsBlock(v, N, h, d),
         \A k \in 1 .. N : v[k] \in Int
  PROVE  e = d
<1>1. /\ N \in Nat /\ h \in 0 .. N /\ e \in h .. N /\ d \in h .. N
      /\ \A k \in h + 1 .. e : v[k] <= 0
      /\ \A k \in h + 1 .. d : v[k] <= 0
      /\ e < N => v[e + 1] > 0
      /\ d < N => v[d + 1] > 0
  BY DEF IsBlock
<1>2. ASSUME e < d PROVE FALSE
  <2>1. e + 1 \in h + 1 .. d /\ e + 1 \in 1 .. N /\ e < N
    BY <1>1, <1>2
  <2>2. v[e + 1] <= 0 /\ v[e + 1] > 0 /\ v[e + 1] \in Int
    BY <1>1, <2>1
  <2> QED
    BY <2>2
<1>3. ASSUME d < e PROVE FALSE
  <2>1. d + 1 \in h + 1 .. e /\ d + 1 \in 1 .. N /\ d < N
    BY <1>1, <1>3
  <2>2. v[d + 1] <= 0 /\ v[d + 1] > 0 /\ v[d + 1] \in Int
    BY <1>1, <2>1
  <2> QED
    BY <2>2
<1> QED
  BY <1>1, <1>2, <1>3

-----------------------------------------------------------------------------
(* Sorting: the lines of the Body after it are those before it.            *)

\* Groups of siblings: nodes of an outline of N lines, in ascending order.
IsGroup(s, N) ==
  /\ s \in Seq(2 .. N)
  /\ \A i, j \in 1 .. Len(s) : i < j => s[i] < s[j]

LEMMA AscendingIsGroup ==
  ASSUME NEW N \in Nat, NEW S \in SUBSET (2 .. N)
  PROVE  IsGroup(Ascending(S), N)
<1>1. S \in SUBSET (1 .. N)
  OBVIOUS
<1>2. /\ Ascending(S) \in Seq(S)
      /\ \A i, j \in 1 .. Len(Ascending(S)) : i < j => Ascending(S)[i] < Ascending(S)[j]
  BY <1>1, AscendingIs
<1>3. Ascending(S) \in Seq(2 .. N)
  <2>1. PICK s \in Seq(S) : s = Ascending(S)
    BY <1>2
  <2>2. \A i \in 1 .. Len(s) : s[i] \in 2 .. N
    <3>1. \A i \in 1 .. Len(s) : s[i] \in S
      BY ElementOfSeq
    <3> QED
      BY <3>1
  <2>3. s \in Seq(2 .. N)
    BY <2>2
  <2> QED
    BY <2>1, <2>3
<1> QED
  BY <1>2, <1>3 DEF IsGroup

\* s are nodes of one level, with no other of that level and none above between them.
IsSiblings(lv, s, N) ==
  /\ IsGroup(s, N)
  /\ \A i, j \in 1 .. Len(s) : lv[s[i]] = lv[s[j]]
  /\ \A i, j \in 1 .. Len(s) : \A k \in s[i] .. s[j] :
       lv[k] >= lv[s[i]] /\ (lv[k] = lv[s[i]] => \E x \in 1 .. Len(s) : s[x] = k)

\* All the nodes of one level in a part of the outline that does not go above it.
LEMMA AscendingIsSiblings ==
  ASSUME NEW lv, NEW N \in Nat, NEW S \in SUBSET (2 .. N), NEW L,
         \A i \in S : lv[i] = L,
         \A i, j \in S : \A k \in i .. j : lv[k] >= L /\ (lv[k] = L => k \in S)
  PROVE  IsSiblings(lv, Ascending(S), N)
<1>1. PICK s : s = Ascending(S)
  OBVIOUS
<1>2. IsGroup(s, N)
  BY <1>1, AscendingIsGroup
<1>3. s \in Seq(S) /\ \A x \in S : \E i \in 1 .. Len(s) : s[i] = x
  <2>1. S \in SUBSET (1 .. N)
    OBVIOUS
  <2> QED
    BY <1>1, <2>1, AscendingIs
<1>4. \A i \in 1 .. Len(s) : s[i] \in S
  BY <1>3, ElementOfSeq
<1>5. \A i, j \in 1 .. Len(s) : lv[s[i]] = lv[s[j]]
  BY <1>4
<1>6. ASSUME NEW i \in 1 .. Len(s), NEW j \in 1 .. Len(s), NEW k \in s[i] .. s[j]
      PROVE  lv[k] >= lv[s[i]] /\ (lv[k] = lv[s[i]] => \E x \in 1 .. Len(s) : s[x] = k)
  <2>1. s[i] \in S /\ s[j] \in S /\ lv[s[i]] = L
    BY <1>4
  <2>2. lv[k] >= L /\ (lv[k] = L => k \in S)
    BY <2>1
  <2> QED
    BY <1>3, <2>1, <2>2
<1>7. IsSiblings(lv, s, N)
  BY <1>2, <1>5, <1>6 DEF IsSiblings
<1> QED
  BY <1>1, <1>7

\* No nodes are siblings.
LEMMA NoneAreSiblings ==
  ASSUME NEW lv, NEW N
  PROVE  IsSiblings(lv, <<>>, N)
<1>1. IsGroup(<<>>, N)
  BY DEF IsGroup
<1>2. \A i \in 1 .. Len(<<>>) : FALSE
  OBVIOUS
<1> QED
  BY <1>1, <1>2 DEF IsSiblings

\* The nodes that voom_OopSort is to sort are siblings.
LEMMA SortRangeIsSiblings ==
  ASSUME NEW lv \in Seq(Positive), NEW N \in Nat, N = Len(lv), NEW l1 \in 2 .. N, NEW l2 \in 2 .. N
  PROVE  IsSiblings(lv, SortRange(lv, l1, l2), N)
<1>1. CASE l1 = l2
  <2>1. PICK S : /\ S = {i \in 2 .. N : /\ lv[i] = lv[l1]
                                        /\ \A j \in (i .. l1) \cup (l1 .. i) : lv[j] >= lv[l1]}
    OBVIOUS
  <2>2. SortRange(lv, l1, l2) = Ascending(S)
    BY <1>1, <2>1, Zenon DEF SortRange, nodeSiblings, Lines
  <2>3. S \in SUBSET (2 .. N) /\ \A i \in S : lv[i] = lv[l1]
    BY <2>1
  <2>4. ASSUME NEW i \in S, NEW j \in S, NEW k \in i .. j
        PROVE  lv[k] >= lv[l1] /\ (lv[k] = lv[l1] => k \in S)
    <3>1. i \in 2 .. N /\ j \in 2 .. N /\ k \in 2 .. N
      BY <2>3
    <3>2. /\ \A x \in (i .. l1) \cup (l1 .. i) : lv[x] >= lv[l1]
          /\ \A x \in (j .. l1) \cup (l1 .. j) : lv[x] >= lv[l1]
      BY <2>1
    <3>3. k \in (i .. l1) \cup (l1 .. j)
      BY <3>1
    <3>4. \A x \in (k .. l1) \cup (l1 .. k) : x \in (i .. l1) \cup (l1 .. j)
      BY <3>1
    <3>5. \A x \in (k .. l1) \cup (l1 .. k) : lv[x] >= lv[l1]
      BY <3>2, <3>4
    <3>6. lv[k] >= lv[l1]
      BY <3>2, <3>3
    <3> QED
      BY <2>1, <3>1, <3>5, <3>6
  <2>5. IsSiblings(lv, Ascending(S), N)
    BY <2>3, <2>4, AscendingIsSiblings
  <2> QED
    BY <2>2, <2>5
<1>2. CASE l1 # l2
  <2>1. PICK S : S = {i \in l1 .. l2 : lv[i] = lv[l1]}
    OBVIOUS
  <2>2. CASE l1 > l2 \/ \E i \in l1 .. l2 : lv[i] < lv[l1]
    <3>1. SortRange(lv, l1, l2) = <<>>
      BY <1>2, <2>2, Zenon DEF SortRange, rangeSiblings
    <3> QED
      BY <3>1, NoneAreSiblings
  <2>3. CASE ~(l1 > l2 \/ \E i \in l1 .. l2 : lv[i] < lv[l1])
    <3>1. SortRange(lv, l1, l2) = Ascending(S)
      BY <1>2, <2>1, <2>3, Zenon DEF SortRange, rangeSiblings, Lines
    <3>2. S \in SUBSET (2 .. N) /\ \A i \in S : lv[i] = lv[l1]
      BY <2>1
    <3>3. ASSUME NEW i \in S, NEW j \in S, NEW k \in i .. j
          PROVE  lv[k] >= lv[l1] /\ (lv[k] = lv[l1] => k \in S)
      <4>1. k \in l1 .. l2
        BY <2>1
      <4>2. ~(lv[k] < lv[l1])
        BY <2>3, <4>1
      <4>3. lv[k] \in Int /\ lv[l1] \in Int
        <5>1. k \in 1 .. Len(lv) /\ l1 \in 1 .. Len(lv)
          BY <4>1
        <5> QED
          BY <5>1 DEF Positive
      <4>4. lv[k] >= lv[l1]
        BY <4>2, <4>3
      <4> QED
        BY <2>1, <4>1, <4>4
    <3>4. IsSiblings(lv, Ascending(S), N)
      BY <3>2, <3>3, AscendingIsSiblings
    <3> QED
      BY <3>1, <3>4
  <2> QED
    BY <2>2, <2>3
<1> QED
  BY <1>1, <1>2

\* Of the nodes a.. from the first one on, p is the one x is under, 0 if x is under none.
Above(lv, a, p, x) ==
  /\ p < x
  /\ \A y \in a .. x : p < y => lv[y] >= lv[x]
  /\ p # 0 => a <= p /\ lv[p] < lv[x]

\* A node is under one node of those at hand.
LEMMA AboveIsUnique ==
  ASSUME NEW lv, NEW a \in Nat, a > 0, NEW p \in Nat, NEW q \in Nat, NEW x \in Nat,
         Above(lv, a, p, x), Above(lv, a, q, x), \A y \in a .. x : lv[y] \in Int, a <= x
  PROVE  p = q
<1>1. /\ p < x /\ q < x
      /\ \A y \in a .. x : p < y => lv[y] >= lv[x]
      /\ \A y \in a .. x : q < y => lv[y] >= lv[x]
      /\ p # 0 => a <= p /\ lv[p] < lv[x]
      /\ q # 0 => a <= q /\ lv[q] < lv[x]
  BY DEF Above
<1>2. x \in a .. x /\ lv[x] \in Int
  OBVIOUS
<1>3. ASSUME p < q PROVE FALSE
  <2>1. q # 0 /\ q \in a .. x
    BY <1>1, <1>3
  <2>2. lv[q] \in Int /\ lv[q] >= lv[x] /\ lv[q] < lv[x]
    BY <1>1, <1>3, <2>1
  <2> QED
    BY <1>2, <2>2
<1>4. ASSUME q < p PROVE FALSE
  <2>1. p # 0 /\ p \in a .. x
    BY <1>1, <1>4
  <2>2. lv[p] \in Int /\ lv[p] >= lv[x] /\ lv[p] < lv[x]
    BY <1>1, <1>4, <2>1
  <2> QED
    BY <1>2, <2>2
<1> QED
  BY <1>3, <1>4

\* Groups that can be sorted one after the other: the deeper ones first.
IsGroups(G, lv, N) ==
  /\ Len(G) \in Nat
  /\ \A k \in 1 .. Len(G) : IsSiblings(lv, G[k], N)
  /\ \A k, l \in 1 .. Len(G) : k < l =>
       \A i \in 1 .. Len(G[k]) : \A j \in 1 .. Len(G[l]) : G[k][i] # G[l][j] /\ lv[G[k][i]] >= lv[G[l][j]]

\* Group g, whose nodes are of level g[1] and under node g[2].
IsGroupUnder(lv, a, g, N) ==
  /\ g[1] \in Int /\ g[2] \in Nat /\ IsSiblings(lv, g[3], N)
  /\ \A i \in 1 .. Len(g[3]) : g[3][i] \in a .. N /\ lv[g[3][i]] = g[1] /\ Above(lv, a, g[2], g[3][i])

\* The children of a node are siblings and under it.
LEMMA ChildrenAreUnder ==
  ASSUME NEW lv \in Seq(Positive), NEW N \in Nat, N = Len(lv), NEW a \in 2 .. N, NEW e \in 2 .. N,
         NEW p \in a .. e - 1, lv[p] < lv[p + 1], NEW g, g = <<lv[p + 1], p, ChildrenGroup(lv, p, e)>>
  PROVE  IsGroupUnder(lv, a, g, N)
<1>1. PICK S : S = {i \in p + 1 .. e : lv[i] = lv[p + 1] /\ \A j \in p + 1 .. i : lv[j] >= lv[p + 1]}
  OBVIOUS
<1>2. ChildrenGroup(lv, p, e) = Ascending(S)
  BY <1>1, Zenon DEF ChildrenGroup, Lines
<1>3. PICK L \in Int : L = lv[p + 1]
  <2>1. p + 1 \in 1 .. Len(lv)
    OBVIOUS
  <2> QED
    BY <2>1 DEF Positive
<1>4. \A i \in S : i \in p + 1 .. e /\ lv[i] = L /\ \A j \in p + 1 .. i : lv[j] >= L
  BY <1>1, <1>3
<1>5. S \in SUBSET (2 .. N) /\ S \in SUBSET (1 .. N)
  BY <1>1
<1>6. ASSUME NEW i \in S, NEW j \in S, NEW k \in i .. j
      PROVE  lv[k] >= L /\ (lv[k] = L => k \in S)
  <2>1. i \in p + 1 .. e /\ j \in p + 1 .. e /\ \A y \in p + 1 .. j : lv[y] >= L
    BY <1>4
  <2>2. k \in p + 1 .. j /\ k \in p + 1 .. e /\ \A y \in p + 1 .. k : y \in p + 1 .. j
    BY <2>1
  <2> QED
    BY <1>1, <1>3, <2>1, <2>2
<1>7. IsSiblings(lv, Ascending(S), N)
  BY <1>4, <1>5, <1>6, AscendingIsSiblings
<1>8. PICK s : s = Ascending(S) /\ s \in Seq(S)
  BY <1>5, AscendingIs
<1>9. g[1] = L /\ g[2] = p /\ g[3] = s
  BY <1>2, <1>3, <1>8
<1>10. ASSUME NEW i \in 1 .. Len(s)
       PROVE  s[i] \in a .. N /\ lv[s[i]] = L /\ Above(lv, a, p, s[i])
  <2>1. PICK x \in S : x = s[i]
    BY <1>8, ElementOfSeq
  <2>2. x \in p + 1 .. e /\ lv[x] = L /\ \A j \in p + 1 .. x : lv[j] >= L
    BY <1>4
  <2>3. x \in a .. N /\ p < x /\ \A y \in a .. x : p < y => y \in p + 1 .. x
    BY <2>2
  <2>4. Above(lv, a, p, x)
    BY <1>3, <2>2, <2>3 DEF Above
  <2> QED
    BY <2>1, <2>2, <2>3, <2>4
<1>11. p \in Nat
  OBVIOUS
<1> QED
  BY <1>7, <1>8, <1>9, <1>10, <1>11 DEF IsGroupUnder

\* The groups under a group.
LEMMA GroupsAreSiblings ==
  ASSUME NEW lv \in Seq(Positive), NEW N \in Nat, N = Len(lv), NEW s, IsSiblings(lv, s, N)
  PROVE  IsGroups(getSiblingsGroups(lv, s), lv, N)
<1>1. CASE s = <<>>
  <2>1. getSiblingsGroups(lv, s) = <<>>
    BY <1>1 DEF getSiblingsGroups
  <2>2. IsGroups(<<>>, lv, N)
    BY DEF IsGroups
  <2> QED
    BY <2>1, <2>2
<1>2. CASE s # <<>>
  <2> DEFINE l1 == Head(s)
             l2 == BranchEnd(lv, Last(s))
             parents == {p \in l1 .. l2 - 1 : lv[p] < lv[p + 1]}
             made == [p \in parents |-> <<lv[p + 1], p, ChildrenGroup(lv, p, l2)>>]
             groups == {<<lv[l1], 0, s>>}
                         \cup {<<lv[p + 1], p, ChildrenGroup(lv, p, l2)>> : p \in parents}
             before(g, h) == g[1] > h[1] \/ (g[1] = h[1] /\ g[2] > h[2])
             R == {q \in groups \X groups : before(q[1], q[2])}
             chosen(i) == CHOOSE x \in groups : Cardinality({y \in groups : before(y, x)}) = i - 1
             t == [i \in 1 .. Cardinality(groups) |-> chosen(i)]
  <2>0. IsGroup(s, N)
    BY DEF IsSiblings
  <2>1. l1 \in 2 .. N /\ l2 \in 2 .. N /\ 1 \in 1 .. Len(s) /\ l1 = s[1]
    <3>1. Len(s) \in Nat /\ Len(s) > 0 /\ 1 \in 1 .. Len(s) /\ Len(s) \in 1 .. Len(s)
      BY <1>2, <2>0 DEF IsGroup
    <3>2. Head(s) \in 2 .. N /\ Last(s) \in 2 .. N /\ Head(s) = s[1]
      BY <1>2, <2>0, <3>1 DEF IsGroup, Last
    <3>3. PICK w : w = Last(s) /\ w \in 2 .. N
      BY <3>2
    <3>4. w \in 1 .. Len(lv)
      BY <3>3
    <3>5. BranchEnd(lv, w) \in w .. Len(lv)
      BY <3>4, BranchEndIs
    <3> QED
      BY <3>1, <3>2, <3>3, <3>5
  <2> HIDE DEF l1, l2
  <2>2. \A i \in 1 .. N : lv[i] \in Int
    BY DEF Positive
  <2>3. parents \in SUBSET (2 .. N - 1) /\ \A p \in parents : p \in Int /\ p > 0 /\ p + 1 \in 2 .. N
    BY <2>1
  <2>4. IsFiniteSet(parents)
    <3>1. IsFiniteSet(1 .. N) /\ parents \in SUBSET (1 .. N)
      BY <2>3, IntervalIs
    <3> QED
      BY <3>1, FS_Subset
  <2>5. IsFiniteSet(groups)
    <3> DEFINE images == {<<lv[p + 1], p, ChildrenGroup(lv, p, l2)>> : p \in parents}
    <3> HIDE DEF parents
    <3>1. made \in Surjection(parents, images)
      BY DEF Surjection
    <3>2. IsFiniteSet(images)
      <4> HIDE DEF made, images
      <4> QED
        BY <2>4, <3>1, FS_Surjection
    <3>3. IsFiniteSet({<<lv[l1], 0, s>>})
      BY FS_Singleton
    <3> HIDE DEF images
    <3>4. IsFiniteSet({<<lv[l1], 0, s>>} \cup images)
      BY <3>2, <3>3, FS_Union
    <3> QED
      BY <3>4 DEF images
  <2>6. /\ \A g \in groups : IsGroupUnder(lv, l1, g, N) /\ g[1] \in Int /\ g[2] \in Nat
        /\ \A g, h \in groups : g[2] = h[2] => g = h
    <3>1. ASSUME NEW p \in parents
          PROVE  IsGroupUnder(lv, l1, <<lv[p + 1], p, ChildrenGroup(lv, p, l2)>>, N)
      <4>1. p \in l1 .. l2 - 1 /\ lv[p] < lv[p + 1]
        OBVIOUS
      <4> QED
        BY <2>1, <4>1, ChildrenAreUnder
    <3>2. IsGroupUnder(lv, l1, <<lv[l1], 0, s>>, N)
      <4>1. ASSUME NEW i \in 1 .. Len(s)
            PROVE  s[i] \in l1 .. N /\ lv[s[i]] = lv[l1] /\ Above(lv, l1, 0, s[i])
        <5>1. PICK x \in 2 .. N : x = s[i] /\ l1 <= x
          <6>1. s[i] \in 2 .. N /\ (1 < i => s[1] < s[i]) /\ i \in Int /\ 1 <= i
            BY <2>0, <2>1 DEF IsGroup
          <6>2. i # 1 => s[1] < s[i]
            BY <6>1
          <6> QED
            BY <2>1, <6>1, <6>2
        <5>2. lv[x] = lv[l1] /\ \A y \in l1 .. x : lv[y] >= lv[l1]
          BY <2>1, <5>1 DEF IsSiblings
        <5>3. Above(lv, l1, 0, x)
          BY <5>1, <5>2 DEF Above
        <5> QED
          BY <2>1, <5>1, <5>2, <5>3
      <4>2. PICK g : g = <<lv[l1], 0, s>>
        OBVIOUS
      <4>3. g[1] = lv[l1] /\ g[2] = 0 /\ g[3] = s /\ lv[l1] \in Int
        BY <2>1, <2>2, <4>2
      <4>4. IsGroupUnder(lv, l1, g, N)
        BY <4>1, <4>3 DEF IsGroupUnder
      <4> QED
        BY <4>2, <4>4
    <3>3. \A g \in groups : IsGroupUnder(lv, l1, g, N)
      <4> HIDE DEF parents
      <4> QED
        BY <3>1, <3>2
    <3>4. \A p \in parents : p # 0
      BY <2>3
    <3>5. \A g, h \in groups : g[2] = h[2] => g = h
      <4> HIDE DEF parents
      <4> QED
        BY <3>4
    <3> HIDE DEF groups
    <3> QED
      BY <3>3, <3>5 DEF IsGroupUnder
  <2>7. IsOrder(R, groups)
    <3> HIDE DEF groups
    <3>1. \A x \in groups : <<x, x>> \notin R
      BY <2>6
    <3>2. \A x, y, z \in groups : <<x, y>> \in R /\ <<y, z>> \in R => <<x, z>> \in R
      BY <2>6
    <3>3. \A x, y \in groups : x = y \/ <<x, y>> \in R \/ <<y, x>> \in R
      BY <2>6
    <3> HIDE DEF R
    <3> QED
      BY <3>1, <3>2, <3>3 DEF IsOrder
  <2>8. IsNumbering(t, R, groups)
    <3> HIDE DEF groups
    <3>1. \A x \in groups : {y \in groups : before(y, x)} = Before(R, groups, x)
      BY DEF Before
    <3> HIDE DEF R, before
    <3>2. ASSUME NEW i \in 1 .. Cardinality(groups), NEW x \in groups,
                 Cardinality(Before(R, groups, x)) = i - 1
          PROVE  t[i] \in groups /\ Cardinality(Before(R, groups, t[i])) = i - 1
      <4>1. Cardinality({y \in groups : before(y, x)}) = i - 1
        BY <3>1, <3>2
      <4>2. t[i] \in groups /\ Cardinality({y \in groups : before(y, t[i])}) = i - 1
        BY <4>1
      <4> QED
        BY <3>1, <4>2
    <3> HIDE DEF chosen
    <3>3. t = [i \in 1 .. Cardinality(groups) |-> t[i]]
      OBVIOUS
    <3> HIDE DEF t
    <3> QED
      BY <3>2, <3>3 DEF IsNumbering
  <2>9. /\ t \in Bijection(1 .. Cardinality(groups), groups) /\ Cardinality(groups) \in Nat
        /\ \A i, j \in 1 .. Cardinality(groups) : i < j => <<t[i], t[j]>> \in R
    <3> HIDE DEF t, R, groups
    <3> QED
      BY <2>5, <2>7, <2>8, OrderIs
  <2>10. PICK n \in Nat : n = Cardinality(groups)
    BY <2>9
  <2>11. t \in [1 .. n -> groups]
    <3> HIDE DEF t, groups
    <3> QED
      BY <2>9, <2>10 DEF Bijection, Injection
  <2>12. t \o <<>> = t /\ Len(t) = n
    <3> HIDE DEF t, groups
    <3> QED
      BY <2>11
  <2>13. getSiblingsGroups(lv, s) = [i \in 1 .. n |-> t[i][3]]
    <3>1. InOrder(groups, before) = t
      BY <2>12, Zenon DEF InOrder, Once
    <3>2. getSiblingsGroups(lv, s)
            = [i \in 1 .. Len(InOrder(groups, before)) |-> InOrder(groups, before)[i][3]]
      BY <1>2, Zenon DEF getSiblingsGroups, l1, l2
    <3> HIDE DEF t, groups, before
    <3> QED
      BY <2>12, <3>1, <3>2
  <2> HIDE DEF t, groups
  <2>14. ASSUME NEW k \in 1 .. n, NEW l \in 1 .. n, k < l
         PROVE  t[k] \in groups /\ t[l] \in groups /\ t[k] # t[l] /\ t[k][1] >= t[l][1]
    <3>1. t[k] \in groups /\ t[l] \in groups
      BY <2>11
    <3>2. <<t[k], t[l]>> \in R
      BY <2>9, <2>10, <2>14
    <3>3. before(t[k], t[l]) /\ <<t[l], t[l]>> \notin R
      BY <2>7, <3>1, <3>2 DEF IsOrder
    <3> HIDE DEF R
    <3>4. t[k] # t[l]
      BY <3>2, <3>3
    <3>5. t[k][1] \in Int /\ t[l][1] \in Int
      BY <2>6, <3>1
    <3> QED
      BY <3>1, <3>3, <3>4, <3>5
  <2>15. ASSUME NEW g \in groups, NEW h \in groups, g # h, g[1] >= h[1],
                NEW i \in 1 .. Len(g[3]), NEW j \in 1 .. Len(h[3])
         PROVE  g[3][i] # h[3][j] /\ lv[g[3][i]] >= lv[h[3][j]]
    <3>1. /\ g[3][i] \in l1 .. N /\ lv[g[3][i]] = g[1] /\ Above(lv, l1, g[2], g[3][i]) /\ g[2] \in Nat
          /\ h[3][j] \in l1 .. N /\ lv[h[3][j]] = h[1] /\ Above(lv, l1, h[2], h[3][j]) /\ h[2] \in Nat
      BY <2>6 DEF IsGroupUnder
    <3>2. ASSUME g[3][i] = h[3][j] PROVE FALSE
      <4>1. PICK x \in l1 .. N, p \in Nat, q \in Nat :
              x = g[3][i] /\ p = g[2] /\ q = h[2] /\ Above(lv, l1, p, x) /\ Above(lv, l1, q, x)
        BY <3>1, <3>2
      <4>2. l1 \in Nat /\ l1 > 0 /\ x \in Nat /\ l1 <= x /\ \A y \in l1 .. x : lv[y] \in Int
        <5>1. \A y \in l1 .. x : y \in 1 .. N
          BY <2>1
        <5> QED
          BY <2>1, <2>2, <5>1
      <4>3. p = q
        BY <4>1, <4>2, AboveIsUnique
      <4> QED
        BY <2>6, <2>15, <4>1, <4>3
    <3> QED
      BY <2>15, <3>1, <3>2
  <2>16. PICK G : G = getSiblingsGroups(lv, s)
    OBVIOUS
  <2>17. Len(G) = n /\ \A k \in 1 .. n : G[k] = t[k][3]
    BY <2>13, <2>16
  <2>18. \A k \in 1 .. n : IsSiblings(lv, G[k], N)
    BY <2>6, <2>11, <2>17 DEF IsGroupUnder
  <2>19. ASSUME NEW k \in 1 .. n, NEW l \in 1 .. n, k < l,
                NEW i \in 1 .. Len(G[k]), NEW j \in 1 .. Len(G[l])
         PROVE  G[k][i] # G[l][j] /\ lv[G[k][i]] >= lv[G[l][j]]
    <3>1. PICK g \in groups, h \in groups : g = t[k] /\ h = t[l] /\ g # h /\ g[1] >= h[1]
      BY <2>14, <2>19
    <3>2. G[k] = g[3] /\ G[l] = h[3]
      BY <2>17, <3>1
    <3>3. \A x \in 1 .. Len(g[3]) : \A y \in 1 .. Len(h[3]) : g[3][x] # h[3][y] /\ lv[g[3][x]] >= lv[h[3][y]]
      BY <2>15, <3>1
    <3>4. i \in 1 .. Len(g[3]) /\ j \in 1 .. Len(h[3])
      BY <3>2
    <3>5. g[3][i] # h[3][j] /\ lv[g[3][i]] >= lv[h[3][j]]
      BY <3>3, <3>4
    <3> QED
      BY <3>2, <3>5
  <2>20. IsGroups(G, lv, N)
    BY <2>17, <2>18, <2>19 DEF IsGroups
  <2> QED
    BY <2>16, <2>20
<1> QED
  BY <1>1, <1>2

\* The orders are permutations.
LEMMA IndicesPermute ==
  ASSUME NEW heads \in Seq(Int), NEW order \in Orders, NEW p \in SortedIndices(heads, order, FALSE)
  PROVE  p \in Bijection(1 .. Len(heads), 1 .. Len(heads))
<1> DEFINE z == Len(heads)
<1>1. z \in Nat /\ heads \in [1 .. z -> Int]
  OBVIOUS
<1> HIDE DEF z
<1>2. IsFiniteSet(1 .. z) /\ Cardinality(1 .. z) = z
  BY <1>1, IntervalIs
<1>3. CASE order = "shuffle"
  <2>1. p \in [1 .. z -> 1 .. z] /\ \A i, j \in 1 .. z : p[i] = p[j] => i = j
    BY <1>1, <1>3 DEF SortedIndices, z
  <2>2. p \in Injection(1 .. z, 1 .. z)
    BY <2>1 DEF Injection, IsInjective
  <2>3. p \in Surjection(1 .. z, 1 .. z)
    BY <1>2, <2>2, FS_Injection
  <2> QED
    BY <2>2, <2>3 DEF Bijection, z
<1>4. CASE order # "shuffle"
  <2> DEFINE key == [i \in 1 .. z |-> IF FALSE THEN lower(heads[i]) ELSE heads[i]]
             before(i, j) == CASE order = "sort" -> key[i] < key[j] \/ (key[i] = key[j] /\ i < j)
                               [] order = "r"    -> key[i] > key[j] \/ (key[i] = key[j] /\ i < j)
                               [] OTHER          -> i > j
             S == 1 .. z
             R == {q \in S \X S : before(q[1], q[2])}
             chosen(i) == CHOOSE x \in S : Cardinality({y \in S : before(y, x)}) = i - 1
             t == [i \in 1 .. Cardinality(S) |-> chosen(i)]
  <2>1. \A i \in S : key[i] \in Int /\ i \in Int
    BY <1>1
  <2> HIDE DEF key
  <2>2. IsOrder(R, S)
    <3>1. CASE order = "sort"
      <4>1. \A i, j \in S : <<i, j>> \in R <=> (key[i] < key[j] \/ (key[i] = key[j] /\ i < j))
        BY <3>1
      <4> HIDE DEF R, S
      <4> QED
        BY <2>1, <4>1, SMTT(30) DEF IsOrder
    <3>2. CASE order = "r"
      <4>1. \A i, j \in S : <<i, j>> \in R <=> (key[i] > key[j] \/ (key[i] = key[j] /\ i < j))
        BY <3>2
      <4> HIDE DEF R, S
      <4> QED
        BY <2>1, <4>1 DEF IsOrder
    <3>3. CASE order \notin {"sort", "r"}
      <4>1. \A i, j \in S : <<i, j>> \in R <=> i > j
        BY <3>3
      <4> HIDE DEF R, S
      <4> QED
        BY <2>1, <4>1 DEF IsOrder
    <3> QED
      BY <3>1, <3>2, <3>3
  <2>3. IsNumbering(t, R, S)
    <3> HIDE DEF S
    <3>1. \A x \in S : {y \in S : before(y, x)} = Before(R, S, x)
      <4> HIDE DEF before
      <4> QED
        BY DEF Before
    <3> HIDE DEF R, before
    <3>2. ASSUME NEW i \in 1 .. Cardinality(S), NEW x \in S, Cardinality(Before(R, S, x)) = i - 1
          PROVE  t[i] \in S /\ Cardinality(Before(R, S, t[i])) = i - 1
      <4>1. Cardinality({y \in S : before(y, x)}) = i - 1
        BY <3>1, <3>2
      <4>2. t[i] \in S /\ Cardinality({y \in S : before(y, t[i])}) = i - 1
        BY <4>1
      <4> QED
        BY <3>1, <4>2
    <3> HIDE DEF chosen
    <3>3. t = [i \in 1 .. Cardinality(S) |-> t[i]]
      OBVIOUS
    <3> HIDE DEF t
    <3> QED
      BY <3>2, <3>3 DEF IsNumbering
  <2>4. t \in Bijection(S, S)
    <3> HIDE DEF t, R
    <3>1. t \in Bijection(1 .. Cardinality(S), S)
      <4> HIDE DEF S
      <4>1. IsFiniteSet(S)
        BY <1>2 DEF S
      <4> QED
        BY <2>2, <2>3, <4>1, OrderIs
    <3> QED
      BY <1>2, <3>1
  <2>5. SortedIndices(heads, order, FALSE) = {t \o <<>>}
    <3>1. InOrder(1 .. z, before) = t \o <<>>
      BY Zenon DEF InOrder, Once
    <3>2. SortedIndices(heads, order, FALSE) = {InOrder(1 .. z, before)}
      BY <1>4, Zenon DEF SortedIndices, key, z
    <3> QED
      BY <3>1, <3>2, Zenon
  <2>6. t \o <<>> = t
    <3> HIDE DEF t
    <3>1. t \in [1 .. z -> S]
      BY <2>4 DEF Bijection, Injection
    <3> QED
      BY <3>1
  <2> HIDE DEF t
  <2> QED
    BY <2>4, <2>5, <2>6 DEF z
<1> QED
  BY <1>3, <1>4

\* The numbers of an outline of a Body of L lines.
IsNumbered(bn, lv, L) ==
  /\ L \in Nat
  /\ bn \in Seq(Int) /\ lv \in Seq(Positive) /\ Len(bn) = Len(lv)
  /\ \A i \in 2 .. Len(bn) : bn[i] \in 1 .. L
  /\ \A i, j \in 2 .. Len(bn) : i < j => bn[i] < bn[j]

\* The levels of the lines.
LevelsAt(m, B) == [k \in 1 .. Len(B) |-> LevelIn(m, B[k])]

\* The levels are numbers.
LEMMA LevelsAtAre ==
  ASSUME NEW m, NEW B \in Seq(LineType), NEW v, v = LevelsAt(m, B)
  PROVE  \A k \in 1 .. Len(B) : v[k] = LevelIn(m, B[k]) /\ v[k] \in Int
<1>1. \A k \in 1 .. Len(B) : v[k] = LevelIn(m, B[k])
  BY DEF LevelsAt
<1>2. ASSUME NEW l \in LineType PROVE LevelIn(m, l) \in Int
  <2>1. l.n \in Int /\ l.c \in Int
    BY DEF LineType
  <2>2. LevelIn(m, l) \in {0, l.n - 2, Lesser(l.n, l.c), l.n}
    BY DEF LevelIn
  <2>3. Lesser(l.n, l.c) \in Int
    BY <2>1 DEF Lesser
  <2> QED
    BY <2>1, <2>2, <2>3
<1>3. \A k \in 1 .. Len(B) : B[k] \in LineType
  OBVIOUS
<1> QED
  BY <1>1, <1>2, <1>3

\* The lines of a node are a block.
LEMMA ToldBlocks ==
  ASSUME NEW m, NEW bn, NEW lv, NEW B, Told(m, bn, lv, B), NEW i \in 1 .. Len(bn), NEW v, v = LevelsAt(m, B)
  PROVE  IsBlock(v, Len(B), IF i = 1 THEN 0 ELSE bn[i], EndIn(bn, B, i))
<1>1. PICK N \in Nat, Z \in Nat : N = Len(bn) /\ Z = Len(B) /\ i \in 1 .. N /\ B \in Seq(LineType)
  BY DEF Told
<1>2. /\ \A j \in 2 .. N : bn[j] \in 1 .. Z /\ lv[j] > 0 /\ LevelIn(m, B[bn[j]]) = lv[j]
      /\ \A j, k \in 2 .. N : j < k => bn[j] < bn[k]
      /\ \A k \in 1 .. Z : LevelIn(m, B[k]) > 0 => \E j \in 2 .. N : bn[j] = k
  BY <1>1 DEF Told
<1>3. \A k \in 1 .. Z : v[k] = LevelIn(m, B[k]) /\ v[k] \in Int
  <2>1. \A k \in 1 .. Len(B) : v[k] = LevelIn(m, B[k]) /\ v[k] \in Int
    BY <1>1, LevelsAtAre, Zenon
  <2> QED
    BY <1>1, <2>1
<1>4. PICK e \in 0 .. Z : /\ e = EndIn(bn, B, i) /\ (i > 1 => bn[i] <= e)
                          /\ \A j \in 2 .. N : bn[j] <= e <=> j <= i
  <2>1. /\ EndIn(bn, B, i) \in 0 .. Len(B)
        /\ i > 1 => bn[i] <= EndIn(bn, B, i)
        /\ \A j \in 2 .. Len(bn) : bn[j] <= EndIn(bn, B, i) <=> j <= i
    BY EndIs
  <2> QED
    BY <1>1, <2>1
<1>5. PICK h \in 0 .. Z : h = (IF i = 1 THEN 0 ELSE bn[i]) /\ e \in h .. Z
  <2>1. CASE i = 1
    BY <1>1, <1>4, <2>1
  <2>2. CASE i # 1
    <3>1. i \in 2 .. N /\ i > 1
      BY <1>1, <2>2
    <3>2. bn[i] \in 1 .. Z /\ bn[i] <= e
      BY <1>2, <1>4, <3>1
    <3> QED
      BY <1>1, <2>2, <3>2
  <2> QED
    BY <2>1, <2>2
<1>6. ASSUME NEW k \in h + 1 .. e PROVE v[k] <= 0
  <2>1. k \in 1 .. Z
    BY <1>1, <1>5
  <2>2. CASE v[k] > 0
    <3>1. PICK j \in 2 .. N : bn[j] = k
      BY <1>2, <1>3, <2>1, <2>2
    <3>2. j <= i
      BY <1>4, <3>1
    <3>3. i # 1 /\ i \in 2 .. N /\ bn[i] = h
      BY <1>1, <1>5, <3>1, <3>2
    <3>4. j = i \/ j < i
      BY <1>1, <3>2
    <3>5. bn[j] <= h
      <4>1. j < i => bn[j] < bn[i]
        BY <1>2, <3>3
      <4> QED
        BY <1>5, <3>1, <3>3, <3>4, <4>1
    <3> QED
      BY <1>5, <3>1, <3>5
  <2>3. v[k] \in Int
    BY <1>3, <2>1
  <2> QED
    BY <2>2, <2>3
<1>7. ASSUME e < Z PROVE v[e + 1] > 0
  <2>1. EndIn(bn, B, i) = IF i < N THEN bn[i + 1] - 1 ELSE Z
    BY <1>1 DEF EndIn
  <2>2. i < N /\ e = bn[i + 1] - 1
    BY <1>4, <1>7, <2>1
  <2>3. PICK j \in 2 .. N : j = i + 1
    BY <1>1, <2>2
  <2>4. bn[j] \in 1 .. Z /\ lv[j] > 0 /\ LevelIn(m, B[bn[j]]) = lv[j]
    BY <1>2
  <2>5. e + 1 = bn[j]
    BY <2>2, <2>3, <2>4
  <2>6. v[bn[j]] = LevelIn(m, B[bn[j]])
    BY <1>3, <2>4
  <2> QED
    BY <2>4, <2>5, <2>6
<1>8. IsBlock(v, Z, h, e)
  BY <1>1, <1>5, <1>6, <1>7 DEF IsBlock
<1> QED
  BY <1>1, <1>4, <1>5, <1>8

\* The lines of B have become those of B2, nodes keep theirs and their parents.
IsReordered(m, B, B2, P) ==
  /\ B \in Seq(LineType) /\ B2 \in Seq(LineType) /\ Len(B2) = Len(B)
  /\ IsReordering(P, LevelsAt(m, B), LevelsAt(m, B2), Len(B))
  /\ \A k \in 1 .. Len(B) : B2[P[k]] = B[k]

\* The last line of node i of a Body of L lines.
EndAt(bn, L, i) == IF i < Len(bn) THEN bn[i + 1] - 1 ELSE L

\* The first lines of the branches of the siblings s, and the line after the last.
Starts(bn, lv, L, s) ==
  [j \in 1 .. Len(s) + 1 |-> IF j <= Len(s) THEN bn[s[j]] ELSE EndAt(bn, L, BranchEnd(lv, s[Len(s)])) + 1]

\* The lines of siblings are branches of one level side by side.
LEMMA StartsAreSibs ==
  ASSUME NEW m, NEW bn, NEW lv, NEW B, Told(m, bn, lv, B), NEW s, IsSiblings(lv, s, Len(lv)), s # <<>>,
         NEW v, v = LevelsAt(m, B), NEW N, N = Len(B), lv \in Seq(Positive)
  PROVE  IsSibs(v, N, Starts(bn, lv, N, s), Len(s), lv[s[1]])
<1>1. PICK n \in Nat : /\ n = Len(bn) /\ n = Len(lv) /\ N \in Nat /\ B \in Seq(LineType)
  BY DEF Told
<1>2. /\ \A j \in 2 .. n : bn[j] \in 1 .. N /\ LevelIn(m, B[bn[j]]) = lv[j] /\ lv[j] > 0
      /\ \A j, k \in 2 .. n : j < k => bn[j] < bn[k]
      /\ \A k \in 1 .. N : LevelIn(m, B[k]) > 0 => \E j \in 2 .. n : bn[j] = k
  BY <1>1 DEF Told
<1>3. \A k \in 1 .. N : v[k] = LevelIn(m, B[k]) /\ v[k] \in Int
  <2>1. \A k \in 1 .. Len(B) : v[k] = LevelIn(m, B[k]) /\ v[k] \in Int
    BY <1>1, LevelsAtAre, Zenon
  <2> QED
    BY <2>1
<1>4. /\ \A j \in 2 .. n : lv[j] \in Int /\ v[bn[j]] = lv[j]
      /\ \A k \in 1 .. N : v[k] > 0 => \E j \in 2 .. n : bn[j] = k
  <2>1. \A j \in 2 .. n : lv[j] \in Int
    <3>1. \A j \in 2 .. n : j \in 1 .. Len(lv)
      BY <1>1
    <3> QED
      BY <3>1 DEF Positive
  <2> QED
    BY <1>2, <1>3, <2>1
<1>5. PICK z \in Nat : /\ z = Len(s) /\ z >= 1
                       /\ \A i \in 1 .. z : s[i] \in 2 .. n
                       /\ \A i, j \in 1 .. z : i < j => s[i] < s[j]
  <2>1. IsGroup(s, n)
    BY <1>1 DEF IsSiblings
  <2>2. s \in Seq(2 .. n) /\ \A i, j \in 1 .. Len(s) : i < j => s[i] < s[j]
    BY <2>1 DEF IsGroup
  <2>3. Len(s) \in Nat /\ Len(s) >= 1
    BY <2>2, EmptySeq
  <2>4. PICK z \in Nat : z = Len(s) /\ z >= 1
    BY <2>3
  <2>5. \A i \in 1 .. z : s[i] \in 2 .. n
    BY <2>2, <2>4, ElementOfSeq
  <2>6. \A i, j \in 1 .. z : i < j => s[i] < s[j]
    BY <2>2, <2>4
  <2> QED
    BY <2>4, <2>5, <2>6
<1>6. PICK L \in Int : /\ L = lv[s[1]] /\ L > 0 /\ \A i \in 1 .. z : lv[s[i]] = L
                       /\ \A k \in s[1] .. s[z] : lv[k] >= L /\ (lv[k] = L => \E x \in 1 .. z : s[x] = k)
  <2>1. 1 \in 1 .. z /\ z \in 1 .. z
    BY <1>5
  <2>2. lv[s[1]] \in Int /\ lv[s[1]] > 0
    <3>1. s[1] \in 2 .. n
      BY <1>5, <2>1
    <3> QED
      BY <1>2, <1>4, <3>1
  <2>3. /\ \A i, j \in 1 .. z : lv[s[i]] = lv[s[j]]
        /\ \A i, j \in 1 .. z : \A k \in s[i] .. s[j] :
             lv[k] >= lv[s[i]] /\ (lv[k] = lv[s[i]] => \E x \in 1 .. z : s[x] = k)
    BY <1>5 DEF IsSiblings
  <2>4. \A i \in 1 .. z : lv[s[i]] = lv[s[1]]
    BY <2>1, <2>3
  <2>5. \A k \in s[1] .. s[z] : lv[k] >= lv[s[1]] /\ (lv[k] = lv[s[1]] => \E x \in 1 .. z : s[x] = k)
    BY <2>1, <2>3
  <2> QED
    BY <2>2, <2>4, <2>5
<1>7. PICK w \in 2 .. n, e \in 2 .. n : /\ w = s[z] /\ e = BranchEnd(lv, w) /\ w <= e
                                        /\ \A t \in w + 1 .. n : t <= e <=> \A j \in w + 1 .. t : L < lv[j]
  <2>1. PICK w \in 2 .. n : w = s[z] /\ lv[w] = L
    <3>1. z \in 1 .. z
      BY <1>5
    <3> QED
      BY <1>5, <1>6, <3>1
  <2>2. w \in 1 .. Len(lv) /\ w # 1
    BY <1>1
  <2>3. /\ BranchEnd(lv, w) \in w .. Len(lv)
        /\ \A t \in w + 1 .. Len(lv) : t <= BranchEnd(lv, w) <=> \A j \in w + 1 .. t : lv[w] < lv[j]
    BY <2>2, BranchEndIs
  <2>4. BranchEnd(lv, w) \in 2 .. n /\ w <= BranchEnd(lv, w)
    BY <1>1, <2>3
  <2> QED
    BY <1>1, <2>1, <2>3, <2>4
<1>8. PICK x \in 0 .. N : /\ x = EndAt(bn, N, e) /\ bn[w] <= x
                          /\ \A j \in 2 .. n : bn[j] <= x <=> j <= e
                          /\ x < N => e < n /\ x = bn[e + 1] - 1
  <2>1. e \in 1 .. Len(bn)
    BY <1>1
  <2>2. /\ EndIn(bn, B, e) \in 0 .. Len(B)
        /\ \A j \in 2 .. Len(bn) : bn[j] <= EndIn(bn, B, e) <=> j <= e
    BY <2>1, EndIs
  <2>3. EndIn(bn, B, e) = EndAt(bn, N, e)
    BY DEF EndIn, EndAt
  <2>4. PICK x \in 0 .. N : x = EndAt(bn, N, e) /\ \A j \in 2 .. n : bn[j] <= x <=> j <= e
    BY <1>1, <2>2, <2>3
  <2>5. bn[w] <= x
    BY <1>7, <2>4
  <2>6. x < N => e < n /\ x = bn[e + 1] - 1
    <3>1. EndAt(bn, N, e) = IF e < n THEN bn[e + 1] - 1 ELSE N
      BY <1>1 DEF EndAt
    <3> QED
      BY <1>1, <2>4, <3>1
  <2> QED
    BY <2>4, <2>5, <2>6
<1>9. PICK c : c = Starts(bn, lv, N, s)
  OBVIOUS
<1>10. /\ \A j \in 1 .. z : c[j] = bn[s[j]] /\ c[j] \in 1 .. N
       /\ c[z + 1] = x + 1
  <2>1. \A j \in 1 .. z : j \in 1 .. Len(s) + 1 /\ j <= Len(s)
    BY <1>5
  <2>2. z + 1 \in 1 .. Len(s) + 1 /\ ~(z + 1 <= Len(s))
    BY <1>5
  <2>3. \A j \in 1 .. z : c[j] = bn[s[j]]
    BY <1>9, <2>1 DEF Starts
  <2>4. c[z + 1] = EndAt(bn, N, BranchEnd(lv, s[z])) + 1
    BY <1>5, <1>9, <2>2 DEF Starts
  <2>5. \A j \in 1 .. z : bn[s[j]] \in 1 .. N
    BY <1>2, <1>5
  <2> QED
    BY <1>7, <1>8, <2>3, <2>4, <2>5
<1>11. \A j \in 1 .. z + 1 : c[j] \in 1 .. N + 1
  <2>1. \A j \in 1 .. z + 1 : j \in 1 .. z \/ j = z + 1
    OBVIOUS
  <2>2. x + 1 \in 1 .. N + 1 /\ \A y \in 1 .. N : y \in 1 .. N + 1
    BY <1>1
  <2> QED
    BY <1>10, <2>1, <2>2
<1>12. ASSUME NEW j \in 1 .. z
       PROVE  c[j] < c[j + 1] /\ c[j] <= N /\ v[c[j]] = L
  <2>1. v[c[j]] = L /\ c[j] \in 1 .. N
    BY <1>4, <1>5, <1>6, <1>10
  <2>2. CASE j < z
    <3>1. j + 1 \in 1 .. z /\ j < j + 1
      BY <2>2
    <3>2. s[j] \in 2 .. n /\ s[j + 1] \in 2 .. n /\ s[j] < s[j + 1]
      BY <1>5, <3>1
    <3>3. bn[s[j]] < bn[s[j + 1]]
      BY <1>2, <3>2
    <3> QED
      BY <1>10, <2>1, <3>1, <3>3
  <2>3. CASE ~(j < z)
    <3>1. j = z
      BY <2>3
    <3>2. c[z] = bn[w] /\ c[z] \in 1 .. N
      BY <1>7, <1>10, <3>1
    <3>3. c[z] < x + 1
      BY <1>8, <3>2
    <3> QED
      BY <1>10, <2>1, <3>1, <3>3
  <2> QED
    BY <2>2, <2>3
<1>13. ASSUME NEW k \in 1 .. N, c[1] <= k, k < c[z + 1]
       PROVE  v[k] <= 0 \/ v[k] > L \/ \E j \in 1 .. z : k = c[j]
  <2>1. CASE v[k] > 0
    <3>1. PICK i \in 2 .. n : bn[i] = k
      BY <1>4, <2>1
    <3>2. PICK h \in 2 .. n : h = s[1] /\ c[1] = bn[h]
      <4>1. 1 \in 1 .. z
        BY <1>5
      <4> QED
        BY <1>5, <1>10, <4>1
    <3>3. h <= i
      <4>1. i < h => k < bn[h]
        BY <1>2, <3>1
      <4>2. bn[h] \in Int
        BY <1>2
      <4> QED
        BY <1>13, <3>2, <4>1, <4>2
    <3>4. i <= e
      <4>1. k <= x
        BY <1>10, <1>13
      <4> QED
        BY <1>8, <3>1, <4>1
    <3>5. v[k] = lv[i]
      BY <1>4, <3>1
    <3>6. CASE i <= w
      <4>1. i \in s[1] .. s[z]
        BY <1>7, <3>2, <3>3, <3>6
      <4>2. lv[i] >= L /\ (lv[i] = L => \E j \in 1 .. z : s[j] = i)
        BY <1>6, <4>1
      <4>3. lv[i] \in Int
        BY <1>4
      <4>4. CASE lv[i] = L
        <5>1. PICK j \in 1 .. z : s[j] = i
          BY <4>2, <4>4
        <5>2. k = c[j]
          BY <1>10, <3>1, <5>1
        <5> QED
          BY <5>2
      <4>5. CASE lv[i] # L
        BY <3>5, <4>2, <4>3, <4>5
      <4> QED
        BY <4>4, <4>5
    <3>7. CASE ~(i <= w)
      <4>1. i \in w + 1 .. n /\ i \in w + 1 .. i
        BY <3>7
      <4>2. L < lv[i] /\ lv[i] \in Int
        BY <1>4, <1>7, <3>4, <4>1
      <4> QED
        BY <3>5, <4>2
    <3> QED
      BY <3>6, <3>7
  <2>2. CASE ~(v[k] > 0)
    BY <1>3, <2>2
  <2> QED
    BY <2>1, <2>2
<1>14. ASSUME c[z + 1] <= N
       PROVE  v[c[z + 1]] > 0 /\ v[c[z + 1]] <= L
  <2>1. e < n /\ x = bn[e + 1] - 1
    BY <1>8, <1>10, <1>14
  <2>2. PICK i \in 2 .. n : i = e + 1 /\ bn[i] \in Int /\ x = bn[i] - 1
    <3>1. e + 1 \in 2 .. n
      BY <2>1
    <3>2. bn[e + 1] \in Int
      BY <1>2, <3>1
    <3> QED
      BY <2>1, <3>1, <3>2
  <2>3. c[z + 1] = bn[i]
    BY <1>10, <2>2
  <2>4. v[c[z + 1]] = lv[i] /\ lv[i] > 0 /\ lv[i] \in Int
    BY <1>2, <1>4, <2>3
  <2>5. lv[i] <= L
    <3>1. i \in w + 1 .. n /\ ~(i <= e)
      BY <1>7, <2>2
    <3>2. PICK j \in w + 1 .. i : ~(L < lv[j])
      BY <1>7, <3>1
    <3>3. CASE j = i
      BY <2>4, <3>2, <3>3
    <3>4. CASE j # i
      <4>1. e \in w + 1 .. n /\ e <= e /\ j \in w + 1 .. e
        BY <2>2, <3>2, <3>4
      <4>2. L < lv[j]
        BY <1>7, <4>1
      <4> QED
        BY <3>2, <4>2
    <3> QED
      BY <3>3, <3>4
  <2> QED
    BY <2>4, <2>5
<1>15. IsSibs(v, N, c, z, L)
  BY <1>1, <1>3, <1>5, <1>6, <1>11, <1>12, <1>13, <1>14 DEF IsSibs
<1> QED
  BY <1>5, <1>6, <1>9, <1>15

\* sortSiblings puts the branches of the siblings one behind the other in the order p.
LEMMA ArrangedParts ==
  ASSUME NEW B \in Seq(LineType), NEW bn, NEW lv, IsNumbered(bn, lv, Len(B)),
         NEW s, IsGroup(s, Len(lv)), Len(s) >= 1, NEW p \in Bijection(1 .. Len(s), 1 .. Len(s))
  PROVE  \E f : /\ IsParts(B, Starts(bn, lv, Len(B), s), p, f, Len(s), LineType)
                /\ Arranged(B, bn, lv, s, p) = Rejoined(B, Starts(bn, lv, Len(B), s), f, Len(s))
<1> DEFINE z == Len(s)
           L == Len(B)
           N == Len(lv)
           end == EndAt(bn, L, BranchEnd(lv, s[z]))
           c == Starts(bn, lv, L, s)
           f == [i \in 1 .. z |-> SubSeq(B, c[p[i]], c[p[i] + 1] - 1)]
           region(j) == nodesBodyRange(bn, Len(B), s[j],
                                       IF j < z THEN s[j + 1] - 1 ELSE BranchEnd(lv, s[z]))
<1>1. z \in Nat /\ z >= 1 /\ L \in Nat /\ N \in Nat /\ N = Len(bn)
  BY DEF IsNumbered, IsGroup
<1>2. /\ \A i \in 1 .. z : s[i] \in 2 .. N
      /\ \A i, j \in 1 .. z : i < j => s[i] < s[j]
  BY DEF IsGroup
<1>3. /\ \A i \in 2 .. N : bn[i] \in 1 .. L
      /\ \A i, j \in 2 .. N : i < j => bn[i] < bn[j]
  BY <1>1 DEF IsNumbered
<1>4. BranchEnd(lv, s[z]) \in s[z] .. N /\ s[z] \in 2 .. N
  <2>1. PICK w : w = s[z] /\ w \in 2 .. N
    BY <1>1, <1>2
  <2>2. w \in 1 .. Len(lv) /\ lv \in Seq(Positive)
    BY <1>1, <2>1 DEF IsNumbered
  <2>3. BranchEnd(lv, w) \in w .. Len(lv)
    BY <2>2, BranchEndIs
  <2> QED
    BY <2>1, <2>3
<1> HIDE DEF z, L, N
<1>5. end \in 1 .. L /\ bn[s[z]] <= end
  <2>1. PICK e : e = BranchEnd(lv, s[z])
    OBVIOUS
  <2>2. PICK w : w = s[z]
    OBVIOUS
  <2>3. e \in w .. N /\ w \in 2 .. N
    BY <1>4, <2>1, <2>2
  <2>4. end = IF e < N THEN bn[e + 1] - 1 ELSE L
    BY <1>1, <2>1 DEF EndAt
  <2>5. CASE e < N
    <3>1. e + 1 \in 2 .. N /\ w < e + 1
      BY <1>1, <2>3, <2>5
    <3>2. bn[w] < bn[e + 1] /\ bn[e + 1] \in 1 .. L /\ bn[w] \in 1 .. L
      BY <1>3, <2>3, <3>1
    <3>3. end = bn[e + 1] - 1
      BY <2>4, <2>5
    <3> HIDE DEF end
    <3> QED
      BY <1>1, <2>2, <3>2, <3>3, SMTT(30)
  <2>6. CASE ~(e < N)
    <3>1. end = L
      BY <2>4, <2>6
    <3>2. bn[w] \in 1 .. L
      BY <1>3, <2>3
    <3> HIDE DEF end
    <3> QED
      BY <1>1, <2>2, <3>1, <3>2
  <2> QED
    BY <2>5, <2>6
<1> HIDE DEF end
<1>6. /\ \A j \in 1 .. z : c[j] = bn[s[j]]
      /\ c[z + 1] = end + 1
  BY <1>1 DEF Starts, end, z
<1> HIDE DEF c
<1>7. \A j \in 1 .. z + 1 : c[j] \in 1 .. L + 1
  <2>1. ASSUME NEW j \in 1 .. z + 1 PROVE c[j] \in 1 .. L + 1
    <3>1. CASE j \in 1 .. z
      <4>1. bn[s[j]] \in 1 .. L
        BY <1>2, <1>3, <3>1
      <4> QED
        BY <1>1, <1>6, <3>1, <4>1, SMTT(30)
    <3>2. CASE j \notin 1 .. z
      <4>1. j = z + 1
        BY <1>1, <3>2
      <4> QED
        BY <1>1, <1>5, <1>6, <4>1
    <3> QED
      BY <3>1, <3>2
  <2> QED
    BY <2>1
<1>8. ASSUME NEW j \in 1 .. z
      PROVE  c[j] <= c[j + 1] /\ region(j) = <<c[j], c[j + 1] - 1>>
  <2>1. CASE j < z
    <3>1. j + 1 \in 1 .. z /\ j < j + 1
      BY <1>1, <2>1
    <3>2. PICK u \in 2 .. N, w \in 2 .. N : u = s[j] /\ w = s[j + 1] /\ u < w
      BY <1>2, <3>1
    <3>3. c[j] = bn[u] /\ c[j + 1] = bn[w] /\ bn[u] < bn[w] /\ bn[u] \in Int /\ bn[w] \in Int
      BY <1>3, <1>6, <3>1, <3>2
    <3>4. region(j) = nodesBodyRange(bn, Len(B), u, w - 1)
      BY <2>1, <3>2
    <3>5. w - 1 < Len(bn) /\ (w - 1) + 1 = w
      BY <1>1, <3>2
    <3>6. region(j) = <<bn[u], bn[w] - 1>>
      BY <3>4, <3>5 DEF nodesBodyRange
    <3> QED
      BY <3>3, <3>6
  <2>2. CASE ~(j < z)
    <3>1. j = z
      BY <1>1, <2>2
    <3>2. c[j] = bn[s[z]] /\ c[j + 1] = end + 1 /\ end \in Int /\ bn[s[z]] \in Int /\ bn[s[z]] <= end
      BY <1>2, <1>3, <1>4, <1>5, <1>6, <3>1
    <3>3. region(j) = <<bn[s[z]], end>>
      BY <2>2, <3>1 DEF nodesBodyRange, end, EndAt, L
    <3>4. c[j] <= c[j + 1] /\ end = c[j + 1] - 1
      BY <3>2, SMTT(30)
    <3> QED
      BY <3>2, <3>3, <3>4
  <2> QED
    BY <2>1, <2>2
<1>9. IsParts(B, c, p, f, z, LineType)
  BY <1>1, <1>7, <1>8 DEF IsParts, L, z
<1>10. Arranged(B, bn, lv, s, p) = Rejoined(B, c, f, z)
  <2>1. \A i \in 1 .. z : p[i] \in 1 .. z
    BY DEF Bijection, Injection, z
  <2>2. f = [i \in 1 .. z |-> Slice(B, region(p[i])[1], region(p[i])[2])]
    <3>1. ASSUME NEW i \in 1 .. z
          PROVE  SubSeq(B, c[p[i]], c[p[i] + 1] - 1) = Slice(B, region(p[i])[1], region(p[i])[2])
      <4>1. PICK j \in 1 .. z : j = p[i]
        BY <2>1
      <4>2. region(j) = <<c[j], c[j + 1] - 1>>
        BY <1>8
      <4> HIDE DEF region
      <4>3. PICK r : r = region(j)
        OBVIOUS
      <4>4. r[1] = c[j] /\ r[2] = c[j + 1] - 1
        BY <4>2, <4>3
      <4> QED
        BY <4>1, <4>3, <4>4, Zenon DEF Slice
    <3> HIDE DEF region
    <3> QED
      BY <3>1
  <2> DEFINE whole == nodesBodyRange(bn, Len(B), s[1], BranchEnd(lv, s[z]))
  <2>3. whole[1] = c[1] /\ whole[2] + 1 = c[z + 1]
    <3>1. 1 \in 1 .. z
      BY <1>1
    <3> QED
      BY <1>6, <3>1 DEF nodesBodyRange, end, EndAt, L
  <2>4. Arranged(B, bn, lv, s, p)
          = SubSeq(B, 1, whole[1] - 1)
              \o FlattenSeq([i \in 1 .. z |-> Slice(B, region(p[i])[1], region(p[i])[2])])
              \o SubSeq(B, whole[2] + 1, Len(B))
    BY Zenon DEF Arranged, z
  <2> HIDE DEF whole, region, f
  <2> QED
    BY <2>2, <2>3, <2>4 DEF Rejoined
<1> HIDE DEF f
<1> QED
  BY <1>9, <1>10 DEF c, L, z

\* P leads from lines to lines.
StaysIn(P, N) == \A k \in 1 .. N : P[k] \in 1 .. N

\* The places of lines are lines, since nothing comes to place 0 but itself.
LEMMA PlacingStays ==
  ASSUME NEW P, NEW a, NEW c, NEW p, NEW q, NEW z, NEW N, IsPlacing(P, a, c, p, q, z, N)
  PROVE  StaysIn(P, N)
<1>1. /\ N \in Nat
      /\ \A k \in 0 .. N : P[k] \in 0 .. N
      /\ \A k \in 0 .. N : Outside(c, z, k) => P[k] = k
      /\ \A j, k \in 0 .. N : P[j] = P[k] => j = k
  BY PlacingIs
<1>2. z \in Nat /\ z >= 1 /\ 1 <= c[1] /\ \A j \in 1 .. z + 1 : c[j] \in Int
  BY ShuffleIs DEF IsPlacing, Swaps
<1>3. PICK x \in Int, o \in 0 .. N : x = c[1] /\ o = 0 /\ 1 <= x
  <2>1. 1 \in 1 .. z + 1 /\ 0 \in 0 .. N
    BY <1>1, <1>2
  <2>2. c[1] \in Int
    BY <1>2, <2>1
  <2> QED
    BY <1>2, <2>1, <2>2
<1>4. P[0] = 0
  <2>1. o < x
    BY <1>3
  <2>2. Outside(c, z, o)
    BY <1>3, <2>1 DEF Outside
  <2>3. P[o] = o
    BY <1>1, <2>2
  <2> QED
    BY <1>3, <2>3
<1>5. ASSUME NEW k \in 1 .. N PROVE P[k] \in 1 .. N
  <2>1. k \in 0 .. N /\ 0 \in 0 .. N /\ k # 0
    BY <1>1
  <2>2. P[k] \in 0 .. N /\ P[k] # 0
    BY <1>1, <1>4, <2>1
  <2> QED
    BY <2>2
<1> QED
  BY <1>5 DEF StaysIn

\* The lines are where their branch is now.
LEMMA ShuffledMoves ==
  ASSUME NEW B, NEW B2, NEW P, NEW a, NEW c, NEW p, NEW q, NEW z, NEW N, N = Len(B),
         IsShuffled(B, B2, a, c, p, z), IsPlacing(P, a, c, p, q, z, N)
  PROVE  \A k \in 1 .. N : B2[P[k]] = B[k]
<1>1. /\ N \in Nat
      /\ \A k \in 0 .. N : Outside(c, z, k) => P[k] = k
      /\ \A j \in 1 .. z : \A k \in 0 .. N : c[j] <= k /\ k < c[j + 1] => P[k] = a[q[j]] + (k - c[j])
      /\ \A k \in 0 .. N : ~Outside(c, z, k) => \E j \in 1 .. z : c[j] <= k /\ k < c[j + 1]
  BY PlacingIs
<1>2. /\ IsShuffle(a, c, p, z) /\ IsShuffle(c, a, q, z)
      /\ \A i \in 1 .. z : p[q[i]] = i
  BY DEF IsPlacing, Swaps
<1>3. /\ z \in Nat /\ z >= 1
      /\ \A i \in 1 .. z + 1 : a[i] \in Int /\ c[i] \in Int
  BY <1>2, ShuffleIs
<1>4. \A i \in 1 .. z : q[i] \in 1 .. z
  BY <1>2, ShuffleIs
<1>5. /\ \A k \in 1 .. c[1] - 1 : B2[k] = B[k]
      /\ \A i \in 1 .. z : \A t \in 0 .. c[p[i] + 1] - c[p[i]] - 1 : B2[a[i] + t] = B[c[p[i]] + t]
      /\ \A k \in c[z + 1] .. N : B2[k] = B[k]
  BY DEF IsShuffled
<1>6. ASSUME NEW k \in 1 .. N
      PROVE  B2[P[k]] = B[k]
  <2>1. k \in 0 .. N
    OBVIOUS
  <2>2. CASE Outside(c, z, k)
    <3>1. PICK x \in Int, y \in Int : x = c[1] /\ y = c[z + 1]
      <4>1. 1 \in 1 .. z + 1 /\ z + 1 \in 1 .. z + 1
        BY <1>3
      <4>2. c[1] \in Int /\ c[z + 1] \in Int
        BY <1>3, <4>1
      <4> QED
        BY <4>2
    <3>2. k < x \/ k >= y
      BY <2>2, <3>1 DEF Outside
    <3>3. k \in 1 .. x - 1 \/ k \in y .. N
      BY <1>1, <3>2
    <3>4. B2[k] = B[k]
      BY <1>5, <3>1, <3>3
    <3> QED
      BY <1>1, <2>1, <2>2, <3>4
  <2>3. CASE ~Outside(c, z, k)
    <3>1. PICK j \in 1 .. z : c[j] <= k /\ k < c[j + 1]
      BY <1>1, <2>1, <2>3
    <3>2. P[k] = a[q[j]] + (k - c[j])
      BY <1>1, <2>1, <3>1
    <3>3. PICK x \in Int, y \in Int : x = c[j] /\ y = c[j + 1] /\ x <= k /\ k < y
      <4>1. j \in 1 .. z + 1 /\ j + 1 \in 1 .. z + 1
        BY <1>3
      <4>2. c[j] \in Int /\ c[j + 1] \in Int
        BY <1>3, <4>1
      <4> QED
        BY <3>1, <4>2
    <3>4. PICK i \in 1 .. z : i = q[j] /\ p[i] = j
      BY <1>2, <1>4
    <3>5. PICK t \in Int : t = k - x /\ t \in 0 .. y - x - 1 /\ x + t = k
      <4>1. k - x \in Int /\ k - x \in 0 .. y - x - 1 /\ x + (k - x) = k
        <5>1. k \in Int
          OBVIOUS
        <5> QED
          BY <3>3, <5>1
      <4> QED
        BY <4>1
    <3>6. B2[a[i] + t] = B[x + t]
      <4>1. c[p[i]] = x /\ c[p[i] + 1] = y
        BY <3>3, <3>4
      <4>2. \A u \in 0 .. y - x - 1 : B2[a[i] + u] = B[x + u]
        BY <1>5, <4>1
      <4> QED
        BY <3>5, <4>2
    <3> QED
      BY <3>2, <3>3, <3>4, <3>5, <3>6
  <2> QED
    BY <2>2, <2>3
<1> QED
  BY <1>6

\* Putting siblings in order p reorders the nodes; other siblings, of that level
\* or above, still are where they were.
LEMMA ArrangedReorders ==
  ASSUME NEW m, NEW B, NEW B2, NEW c, NEW p, NEW f, NEW z, NEW v, NEW N, NEW L,
         IsParts(B, c, p, f, z, LineType), B2 = Rejoined(B, c, f, z),
         v = LevelsAt(m, B), N = Len(B), IsSibs(v, N, c, z, L)
  PROVE  \E P, a, q : /\ IsReordered(m, B, B2, P)
                      /\ IsMovedBy(v, LevelsAt(m, B2), P, a, c, p, q, z, N, L)
<1>1. /\ z \in Nat /\ z >= 1 /\ N \in Nat
      /\ \A j \in 1 .. z + 1 : c[j] \in 1 .. N + 1
      /\ \A j \in 1 .. z : c[j] < c[j + 1]
  BY DEF IsSibs
<1>2. B \in Seq(LineType)
  BY DEF IsParts
<1>3. B2 \in Seq(LineType) /\ Len(B2) = N
  BY PartsPermuted
<1>4. PICK a : IsShuffle(a, c, p, z) /\ IsShuffled(B, B2, a, c, p, z)
  BY <1>1, RejoinedIs
<1>5. 1 <= c[1] /\ c[z + 1] <= N + 1
  <2>1. 1 \in 1 .. z + 1 /\ z + 1 \in 1 .. z + 1
    BY <1>1
  <2>2. c[1] \in 1 .. N + 1 /\ c[z + 1] \in 1 .. N + 1
    BY <1>1, <2>1
  <2> QED
    BY <2>2
<1>6. PICK P, q : IsPlacing(P, a, c, p, q, z, N)
  BY <1>1, <1>4, <1>5, PlacingExists
<1>7. \A k \in 1 .. N : B2[P[k]] = B[k]
  BY <1>4, <1>6, ShuffledMoves
<1>8. PICK v2 : v2 = LevelsAt(m, B2)
  OBVIOUS
<1>9. \A k \in 1 .. N : v2[P[k]] = v[k]
  <2>1. \A k \in 1 .. N : P[k] \in 1 .. N
    <3>1. StaysIn(P, N)
      BY <1>6, PlacingStays, Zenon
    <3> QED
      BY <3>1 DEF StaysIn
  <2>2. \A k \in 1 .. N : v[k] = LevelIn(m, B[k])
    BY DEF LevelsAt
  <2>3. \A k \in 1 .. N : v2[k] = LevelIn(m, B2[k])
    BY <1>3, <1>8 DEF LevelsAt
  <2> QED
    BY <1>7, <2>1, <2>2, <2>3
<1>10. IsMovedBy(v, v2, P, a, c, p, q, z, N, L)
  BY <1>6, <1>9 DEF IsMovedBy
<1>11. IsReordering(P, v, v2, N)
  BY <1>10, ShuffleReorders
<1>12. IsReordered(m, B, B2, P)
  BY <1>2, <1>3, <1>7, <1>8, <1>11 DEF IsReordered
<1> QED
  BY <1>8, <1>10, <1>12

\* The lines of the siblings after one group is put in order.
LEMMA ArrangedIs ==
  ASSUME NEW B \in Seq(LineType), NEW bn, NEW lv, IsNumbered(bn, lv, Len(B)),
         NEW s, IsGroup(s, Len(lv)), Len(s) >= 1, NEW p \in Bijection(1 .. Len(s), 1 .. Len(s))
  PROVE  /\ Arranged(B, bn, lv, s, p) \in Seq(LineType)
         /\ Len(Arranged(B, bn, lv, s, p)) = Len(B)
<1>1. PICK c, z : c = Starts(bn, lv, Len(B), s) /\ z = Len(s)
  OBVIOUS
<1>2. PICK f : IsParts(B, c, p, f, z, LineType) /\ Arranged(B, bn, lv, s, p) = Rejoined(B, c, f, z)
  BY <1>1, ArrangedParts
<1>3. Rejoined(B, c, f, z) \in Seq(LineType) /\ Len(Rejoined(B, c, f, z)) = Len(B)
  BY <1>2, PartsPermuted
<1> QED
  BY <1>2, <1>3, Zenon

\* The Bodies of L lines.
BodiesOf(L) == {B \in Seq(LineType) : Len(B) = L}

LEMMA SortedGroupIs ==
  ASSUME NEW bn, NEW lv, NEW L, IsNumbered(bn, lv, L), NEW heads \in Seq(Int), Len(heads) = Len(lv),
         NEW s, IsGroup(s, Len(lv)), NEW order \in Orders,
         NEW B \in BodiesOf(L), NEW B2 \in sortSiblings(B, bn, lv, heads, s, order, FALSE)
  PROVE  B2 \in BodiesOf(L)
<1>1. B \in Seq(LineType) /\ Len(B) = L
  BY DEF BodiesOf
<1> DEFINE h == [i \in 1 .. Len(s) |-> heads[s[i]]]
<1>2. CASE Len(s) < 2
  <2>1. sortSiblings(B, bn, lv, heads, s, order, FALSE) = {B}
    BY <1>2, Zenon DEF sortSiblings
  <2> QED
    BY <2>1
<1>3. CASE ~(Len(s) < 2)
  <2>1. PICK z \in Nat : z = Len(s) /\ z >= 1
    BY <1>3 DEF IsGroup
  <2>2. h \in Seq(Int) /\ Len(h) = Len(s)
    <3>1. \A i \in 1 .. z : heads[s[i]] \in Int
      <4>1. ASSUME NEW i \in 1 .. z PROVE heads[s[i]] \in Int
        <5>1. PICK j : j = s[i] /\ j \in 2 .. Len(lv)
          BY <2>1 DEF IsGroup
        <5>2. j \in 1 .. Len(heads)
          BY <5>1
        <5> QED
          BY <5>1, <5>2, ElementOfSeq
      <4> QED
        BY <4>1
    <3> QED
      BY <2>1, <3>1
  <2> HIDE DEF h
  <2>3. PICK p \in SortedIndices(h, order, FALSE) : B2 = Arranged(B, bn, lv, s, p)
    BY <1>3, Zenon DEF sortSiblings, h
  <2>4. p \in Bijection(1 .. Len(s), 1 .. Len(s))
    <3>1. p \in Bijection(1 .. Len(h), 1 .. Len(h))
      BY <2>2, IndicesPermute
    <3> QED
      BY <2>2, <3>1
  <2>5. IsNumbered(bn, lv, Len(B)) /\ Len(s) >= 1
    BY <1>1, <2>1
  <2>6. Arranged(B, bn, lv, s, p) \in Seq(LineType) /\ Len(Arranged(B, bn, lv, s, p)) = Len(B)
    BY <1>1, <2>4, <2>5, ArrangedIs
  <2> QED
    BY <1>1, <2>3, <2>6 DEF BodiesOf
<1> QED
  BY <1>2, <1>3

\* The Bodies X lead to when group k is sorted.
SortedBodies(X, bn, lv, heads, order, groups, k) ==
  UNION {sortSiblings(Y, bn, lv, heads, groups[k], order, FALSE) : Y \in X}

\* after[k] are the Bodies there may be after group k, result the last ones.
Sorts(after, bn, lv, heads, order, B, groups, result) ==
  /\ Len(groups) \in Nat /\ after[0] = {B} /\ result = after[Len(groups)]
  /\ \A k \in 1 .. Len(groups) : after[k] = SortedBodies(after[k - 1], bn, lv, heads, order, groups, k)

\* The groups of siblings an :Oop sort sorts.
GroupsOf(lv, s, deep) == IF deep THEN getSiblingsGroups(lv, s) ELSE <<s>>

\* The groups may be taken one after the other.
LEMMA SortRecurs ==
  ASSUME NEW bn, NEW lv, NEW L, IsNumbered(bn, lv, L), NEW heads \in Seq(Int), Len(heads) = Len(lv),
         NEW s, IsSiblings(lv, s, Len(lv)), NEW order \in Orders, NEW deep \in BOOLEAN,
         NEW B \in BodiesOf(L)
  PROVE  \E after : Sorts(after, bn, lv, heads, order, B, GroupsOf(lv, s, deep),
                         voom_OopSort(B, bn, lv, heads, s, deep, order, FALSE))
<1> DEFINE groups == IF deep THEN getSiblingsGroups(lv, s) ELSE <<s>>
           n == Len(groups)
           sorted(X, k) == UNION {sortSiblings(Y, bn, lv, heads, groups[k], order, FALSE) : Y \in X}
           D == SUBSET BodiesOf(L)
           g == [q \in (1 .. n) \X D |-> sorted(q[2], q[1])]
           IsAfter(w) == w = [k \in 0 .. n |-> IF k = 0 THEN {B} ELSE sorted(w[k - 1], k)]
           after == CHOOSE w : IsAfter(w)
<1>1. n \in Nat /\ \A k \in 1 .. n : IsGroup(groups[k], Len(lv))
  <2>1. PICK N \in Nat : N = Len(lv) /\ lv \in Seq(Positive)
    BY DEF IsNumbered
  <2>2. CASE deep
    BY <2>1, <2>2, GroupsAreSiblings DEF IsGroups, IsSiblings
  <2>3. CASE ~deep
    BY <2>3 DEF IsSiblings
  <2> QED
    BY <2>2, <2>3
<1>2. voom_OopSort(B, bn, lv, heads, s, deep, order, FALSE) = after[n]
  BY Zenon DEF voom_OopSort
<1> HIDE DEF groups, n
<1>3. ASSUME NEW X \in D, NEW k \in 1 .. n
      PROVE  sorted(X, k) \in D
  <2>1. ASSUME NEW Y \in X, NEW b \in sortSiblings(Y, bn, lv, heads, groups[k], order, FALSE)
        PROVE  b \in BodiesOf(L)
    <3>1. Y \in BodiesOf(L) /\ IsGroup(groups[k], Len(lv))
      BY <1>1
    <3> QED
      BY <2>1, <3>1, SortedGroupIs
  <2> QED
    BY <2>1
<1>4. PICK w : w \in [0 .. n -> D] /\ w[0] = {B} /\ \A k \in 1 .. n : w[k] = g[<<k, w[k - 1]>>]
  <2>1. IsStep(g, D, n)
    <3> HIDE DEF sorted, D
    <3>1. \A q \in (1 .. n) \X D : sorted(q[2], q[1]) \in D
      BY <1>3
    <3> QED
      BY <3>1 DEF IsStep
  <2>2. {B} \in D
    OBVIOUS
  <2> HIDE DEF g, D
  <2>3. PICK w : Recurs(w, D, {B}, n, g)
    BY <1>1, <2>1, <2>2, RecursionIs
  <2> QED
    BY <2>3 DEF Recurs
<1> HIDE DEF D
<1>5. ASSUME NEW k \in 0 .. n, k # 0
      PROVE  k \in 1 .. n /\ k - 1 \in 0 .. n
  BY <1>1, <1>5
<1>6. \A k \in 0 .. n : w[k] = IF k = 0 THEN {B} ELSE sorted(w[k - 1], k)
  <2>1. ASSUME NEW k \in 0 .. n, k # 0 PROVE w[k] = sorted(w[k - 1], k)
    <3>1. k \in 1 .. n /\ w[k - 1] \in D
      BY <1>4, <1>5, <2>1
    <3>2. g[<<k, w[k - 1]>>] = sorted(w[k - 1], k)
      <4> HIDE DEF sorted
      <4> QED
        BY <3>1
    <3> HIDE DEF g, sorted
    <3> QED
      BY <1>4, <3>1, <3>2
  <2> HIDE DEF g, sorted
  <2> QED
    BY <1>4, <2>1
<1> HIDE DEF sorted
<1>7. IsAfter(w)
  <2>1. w = [k \in 0 .. n |-> w[k]]
    BY <1>4
  <2> QED
    BY <1>6, <2>1
<1>8. IsAfter(after)
  <2> HIDE DEF IsAfter
  <2> QED
    BY <1>7, Zenon
<1> HIDE DEF after
<1>9. \A k \in 0 .. n : after[k] = IF k = 0 THEN {B} ELSE sorted(after[k - 1], k)
  BY <1>8, Zenon
<1>10. n \in 0 .. n /\ 0 \in 0 .. n /\ \A k \in 1 .. n : k \in 0 .. n /\ k # 0
  BY <1>1
<1>11. after[0] = {B} /\ \A k \in 1 .. n : after[k] = sorted(after[k - 1], k)
  BY <1>9, <1>10
<1> HIDE DEF IsAfter
<1>12. \A k \in 1 .. n : after[k] = SortedBodies(after[k - 1], bn, lv, heads, order, groups, k)
  BY <1>11, Zenon DEF SortedBodies, sorted
<1>13. Sorts(after, bn, lv, heads, order, B, groups, voom_OopSort(B, bn, lv, heads, s, deep, order, FALSE))
  BY <1>1, <1>2, <1>11, <1>12, Zenon DEF Sorts, n
<1>14. groups = GroupsOf(lv, s, deep)
  BY Zenon DEF GroupsOf, groups
<1> QED
  BY <1>13, <1>14, Zenon

\* Siblings, with their levels and numbers from before the sort, still are
\* siblings of the Body B.
IsPending(m, B, bn, lv, L, s) ==
  s # <<>> => IsSibs(LevelsAt(m, B), L, Starts(bn, lv, L, s), Len(s), lv[s[1]])

\* Siblings t may be sorted after siblings s.
SortedAfter(lv, s, t) ==
  \A i \in 1 .. Len(s) : \A j \in 1 .. Len(t) : s[i] # t[j] /\ lv[s[i]] >= lv[t[j]]

\* The siblings to be sorted after s still are siblings when s is sorted.
KeepsPending(m, B, B2, bn, lv, L, s) ==
  \A t : IsSiblings(lv, t, Len(lv)) /\ IsPending(m, B, bn, lv, L, t) /\ SortedAfter(lv, s, t)
        => IsPending(m, B2, bn, lv, L, t)

\* The numbers of siblings.
LEMMA SiblingsAre ==
  ASSUME NEW lv, NEW N, NEW s, IsSiblings(lv, s, N)
  PROVE  /\ Len(s) \in Nat
         /\ s # <<>> => Len(s) >= 1
         /\ \A i \in 1 .. Len(s) : s[i] \in 2 .. N
<1>1. s \in Seq(2 .. N)
  BY DEF IsSiblings, IsGroup
<1>2. s # <<>> => Len(s) >= 1
  BY <1>1, EmptySeq
<1>3. \A i \in 1 .. Len(s) : s[i] \in 2 .. N
  BY <1>1, ElementOfSeq
<1> QED
  BY <1>1, <1>2, <1>3

\* Sorting a group reorders the nodes and leaves the other groups their nodes.
LEMMA SortedGroupReorders ==
  ASSUME NEW m, NEW bn, NEW lv, NEW L, IsNumbered(bn, lv, L), NEW heads \in Seq(Int), Len(heads) = Len(lv),
         NEW s, IsSiblings(lv, s, Len(lv)), NEW order \in Orders,
         NEW B \in BodiesOf(L), NEW B2 \in sortSiblings(B, bn, lv, heads, s, order, FALSE),
         IsPending(m, B, bn, lv, L, s)
  PROVE  KeepsPending(m, B, B2, bn, lv, L, s) /\ \E P : IsReordered(m, B, B2, P)
<1>1. B \in Seq(LineType) /\ Len(B) = L /\ L \in Nat
  BY DEF BodiesOf
<1> DEFINE h == [i \in 1 .. Len(s) |-> heads[s[i]]]
<1>2. CASE Len(s) < 2
  <2>1. sortSiblings(B, bn, lv, heads, s, order, FALSE) = {B}
    BY <1>2, Zenon DEF sortSiblings
  <2>2. B2 = B
    BY <2>1
  <2>3. PICK P : P = [k \in 0 .. L |-> k]
    OBVIOUS
  <2>4. IsReordering(P, LevelsAt(m, B), LevelsAt(m, B), L)
    BY <1>1, <2>3, SameReordering
  <2>5. \A k \in 1 .. L : P[k] = k
    <3>1. \A k \in 1 .. L : k \in 0 .. L
      BY <1>1
    <3> QED
      BY <2>3, <3>1
  <2>6. IsReordered(m, B, B, P)
    BY <1>1, <2>4, <2>5 DEF IsReordered
  <2> QED
    BY <2>2, <2>6 DEF KeepsPending
<1>3. CASE ~(Len(s) < 2)
  <2>1. PICK z \in Nat : z = Len(s) /\ z >= 1 /\ s # <<>>
    <3>1. Len(s) \in Nat
      BY SiblingsAre
    <3>2. Len(s) >= 2 /\ s # <<>>
      BY <1>3, <3>1
    <3> QED
      BY <3>1, <3>2
  <2>2. h \in Seq(Int) /\ Len(h) = Len(s)
    <3>1. \A i \in 1 .. z : heads[s[i]] \in Int
      <4>1. ASSUME NEW i \in 1 .. z PROVE heads[s[i]] \in Int
        <5>1. PICK j : j = s[i] /\ j \in 2 .. Len(lv)
          BY <2>1, SiblingsAre
        <5>2. j \in 1 .. Len(heads)
          BY <5>1
        <5> QED
          BY <5>1, <5>2, ElementOfSeq
      <4> QED
        BY <4>1
    <3> QED
      BY <2>1, <3>1
  <2> HIDE DEF h
  <2>3. PICK p \in SortedIndices(h, order, FALSE) : B2 = Arranged(B, bn, lv, s, p)
    BY <1>3, Zenon DEF sortSiblings, h
  <2>4. p \in Bijection(1 .. Len(s), 1 .. Len(s))
    <3>1. p \in Bijection(1 .. Len(h), 1 .. Len(h))
      BY <2>2, IndicesPermute
    <3> QED
      BY <2>2, <3>1
  <2>5. IsNumbered(bn, lv, Len(B)) /\ Len(s) >= 1 /\ IsGroup(s, Len(lv))
    BY <1>1, <2>1 DEF IsSiblings
  <2>6. PICK f : /\ IsParts(B, Starts(bn, lv, Len(B), s), p, f, Len(s), LineType)
                 /\ Arranged(B, bn, lv, s, p) = Rejoined(B, Starts(bn, lv, Len(B), s), f, Len(s))
    BY <1>1, <2>4, <2>5, ArrangedParts
  <2>7. PICK c, v, M : c = Starts(bn, lv, L, s) /\ v = LevelsAt(m, B) /\ M = lv[s[1]]
    OBVIOUS
  <2>8. IsParts(B, c, p, f, z, LineType) /\ B2 = Rejoined(B, c, f, z) /\ L = Len(B)
    BY <1>1, <2>1, <2>3, <2>6, <2>7
  <2>9. IsSibs(v, L, c, z, M)
    BY <2>1, <2>7 DEF IsPending
  <2>10. PICK P, a, q : /\ IsReordered(m, B, B2, P)
                        /\ IsMovedBy(v, LevelsAt(m, B2), P, a, c, p, q, z, L, M)
    BY <2>7, <2>8, <2>9, ArrangedReorders
  <2>11. ASSUME NEW t, IsSiblings(lv, t, Len(lv)), IsPending(m, B, bn, lv, L, t), SortedAfter(lv, s, t), t # <<>>
         PROVE  IsSibs(LevelsAt(m, B2), L, Starts(bn, lv, L, t), Len(t), lv[t[1]])
    <3>1. PICK y \in Nat : y = Len(t) /\ y >= 1 /\ \A j \in 1 .. y : t[j] \in 2 .. Len(lv)
      BY <2>11, SiblingsAre
    <3>2. PICK d, v2, K : d = Starts(bn, lv, L, t) /\ v2 = LevelsAt(m, B2) /\ K = lv[t[1]]
      OBVIOUS
    <3>3. IsSibs(v, L, d, y, K)
      BY <2>7, <2>11, <3>1, <3>2 DEF IsPending
    <3>4. K <= M
      <4>1. 1 \in 1 .. Len(s) /\ 1 \in 1 .. Len(t)
        BY <2>1, <3>1
      <4>2. lv[s[1]] >= lv[t[1]]
        BY <2>11, <4>1 DEF SortedAfter
      <4>3. K \in Int /\ M \in Int
        BY <2>9, <3>3 DEF IsSibs
      <4> QED
        BY <2>7, <3>2, <4>2, <4>3
    <3>5. \A i \in 1 .. z, j \in 1 .. y : c[i] # d[j]
      <4>1. ASSUME NEW i \in 1 .. z, NEW j \in 1 .. y
            PROVE  c[i] # d[j]
        <5>1. i \in 1 .. Len(s) + 1 /\ i <= Len(s) /\ j \in 1 .. Len(t) + 1 /\ j <= Len(t)
          BY <2>1, <3>1
        <5>2. c[i] = bn[s[i]] /\ d[j] = bn[t[j]]
          BY <2>7, <3>2, <5>1 DEF Starts
        <5>3. s[i] \in 2 .. Len(lv) /\ t[j] \in 2 .. Len(lv) /\ s[i] # t[j]
          <6>1. i \in 1 .. Len(s) /\ j \in 1 .. Len(t)
            BY <2>1, <3>1
          <6> QED
            BY <2>11, <3>1, <6>1, SiblingsAre DEF SortedAfter
        <5>4. PICK x \in 2 .. Len(bn), w \in 2 .. Len(bn) : x = s[i] /\ w = t[j] /\ x # w
          BY <5>3 DEF IsNumbered
        <5>5. x < w \/ w < x
          BY <5>4
        <5>6. bn[x] \in Int /\ bn[w] \in Int
          <6>1. \A i2 \in 2 .. Len(bn) : bn[i2] \in 1 .. L
            BY DEF IsNumbered
          <6>2. \A e \in 1 .. L : e \in Int
            BY <1>1
          <6>3. bn[x] \in 1 .. L /\ bn[w] \in 1 .. L
            BY <6>1
          <6> QED
            BY <6>2, <6>3
        <5>7. bn[x] # bn[w]
          <6>1. x < w => bn[x] < bn[w]
            BY <5>4 DEF IsNumbered
          <6>2. w < x => bn[w] < bn[x]
            BY <5>4 DEF IsNumbered
          <6>3. PICK e \in Int, r \in Int : e = bn[x] /\ r = bn[w]
            BY <5>6
          <6> QED
            BY <5>5, <6>1, <6>2, <6>3
        <5> QED
          BY <5>2, <5>4, <5>7
      <4> QED
        BY <4>1
    <3>6. IsMovedBy(v, v2, P, a, c, p, q, z, L, M)
      BY <2>10, <3>2
    <3>7. IsSibs(v2, L, d, y, K)
      BY <3>3, <3>4, <3>5, <3>6, SibsStay
    <3> QED
      BY <3>1, <3>2, <3>7
  <2>12. \A t : IsSiblings(lv, t, Len(lv)) /\ IsPending(m, B, bn, lv, L, t) /\ SortedAfter(lv, s, t)
               => IsPending(m, B2, bn, lv, L, t)
    BY <2>11 DEF IsPending
  <2>13. KeepsPending(m, B, B2, bn, lv, L, s)
    BY <2>12 DEF KeepsPending
  <2> QED
    BY <2>10, <2>13
<1> QED
  BY <1>2, <1>3

\* A reordering of a reordered Body.
LEMMA ReorderedAgain ==
  ASSUME NEW m, NEW B, NEW Y, NEW Z, NEW P, NEW Q, IsReordered(m, B, Y, P), IsReordered(m, Y, Z, Q)
  PROVE  \E R : IsReordered(m, B, Z, R)
<1>1. PICK N \in Nat : N = Len(B)
  BY DEF IsReordered
<1>2. /\ B \in Seq(LineType) /\ Z \in Seq(LineType) /\ N = Len(Y) /\ N = Len(Z)
      /\ IsReordering(P, LevelsAt(m, B), LevelsAt(m, Y), N) /\ \A k \in 1 .. N : Y[P[k]] = B[k]
      /\ IsReordering(Q, LevelsAt(m, Y), LevelsAt(m, Z), N) /\ \A k \in 1 .. N : Z[Q[k]] = Y[k]
  BY <1>1 DEF IsReordered
<1>3. PICK R : R = [k \in 0 .. N |-> Q[P[k]]]
  OBVIOUS
<1>4. IsReordering(R, LevelsAt(m, B), LevelsAt(m, Z), N)
  BY <1>2, <1>3, ReorderingsCompose
<1>5. \A k \in 1 .. N : Z[R[k]] = B[k]
  <2>1. ASSUME NEW k \in 1 .. N PROVE Z[R[k]] = B[k]
    <3>1. k \in 0 .. N /\ 0 \in 0 .. N /\ k # 0
      OBVIOUS
    <3>2. P[k] \in 0 .. N /\ P[k] # 0
      <4>1. /\ P[0] = 0 /\ \A x \in 0 .. N : P[x] \in 0 .. N
            /\ \A x, y \in 0 .. N : P[x] = P[y] => x = y
        BY <1>2 DEF IsReordering
      <4> QED
        BY <3>1, <4>1
    <3>3. PICK y : y = P[k] /\ y \in 0 .. N /\ y # 0
      BY <3>2
    <3>4. y \in 1 .. N
      BY <3>3
    <3>5. R[k] = Q[y]
      BY <1>3, <3>1, <3>3
    <3> QED
      BY <1>2, <3>3, <3>4, <3>5
  <2> QED
    BY <2>1
<1>6. IsReordered(m, B, Z, R)
  BY <1>1, <1>2, <1>4, <1>5 DEF IsReordered
<1> QED
  BY <1>6

\* A Body there may be when the first k groups are sorted.
SortsTo(m, B, bn, lv, L, groups, k, Y) ==
  /\ Y \in BodiesOf(L) /\ \E P : IsReordered(m, B, Y, P)
  /\ \A l \in 1 .. Len(groups) : l > k => IsPending(m, Y, bn, lv, L, groups[l])

\* Before the first group is sorted.
LEMMA NothingSortedFollows ==
  ASSUME NEW m, NEW bn, NEW lv, NEW B, Told(m, bn, lv, B), NEW L, L = Len(B), IsNumbered(bn, lv, L),
         NEW groups, IsGroups(groups, lv, Len(lv))
  PROVE  SortsTo(m, B, bn, lv, L, groups, 0, B)
<1>1. PICK N \in Nat : N = Len(B) /\ N = L /\ B \in Seq(LineType)
  BY DEF Told
<1>2. B \in BodiesOf(L)
  BY <1>1 DEF BodiesOf
<1>3. PICK P : P = [k \in 0 .. N |-> k]
  OBVIOUS
<1>4. IsReordering(P, LevelsAt(m, B), LevelsAt(m, B), N)
  BY <1>1, <1>3, SameReordering
<1>5. \A k \in 1 .. N : P[k] = k
  <2>1. \A k \in 1 .. N : k \in 0 .. N
    OBVIOUS
  <2> QED
    BY <1>3, <2>1
<1>6. IsReordered(m, B, B, P)
  BY <1>1, <1>4, <1>5 DEF IsReordered
<1>7. ASSUME NEW l \in 1 .. Len(groups), groups[l] # <<>>
      PROVE  IsSibs(LevelsAt(m, B), L, Starts(bn, lv, L, groups[l]), Len(groups[l]), lv[groups[l][1]])
  <2>1. PICK s, v : s = groups[l] /\ v = LevelsAt(m, B)
    OBVIOUS
  <2>2. IsSiblings(lv, s, Len(lv)) /\ s # <<>> /\ lv \in Seq(Positive)
    BY <1>7, <2>1 DEF IsGroups, IsNumbered
  <2>3. IsSibs(v, L, Starts(bn, lv, L, s), Len(s), lv[s[1]])
    BY <2>1, <2>2, StartsAreSibs
  <2> QED
    BY <2>1, <2>3
<1>8. \A l \in 1 .. Len(groups) : IsPending(m, B, bn, lv, L, groups[l])
  BY <1>7 DEF IsPending
<1> QED
  BY <1>2, <1>6, <1>8 DEF SortsTo

\* And when one more is.
LEMMA NextGroupFollows ==
  ASSUME NEW m, NEW B, NEW bn, NEW lv, NEW L, IsNumbered(bn, lv, L), NEW heads \in Seq(Int), Len(heads) = Len(lv),
         NEW order \in Orders, NEW groups, IsGroups(groups, lv, Len(lv)), NEW k \in 1 .. Len(groups),
         NEW Y, SortsTo(m, B, bn, lv, L, groups, k - 1, Y),
         NEW Z \in sortSiblings(Y, bn, lv, heads, groups[k], order, FALSE)
  PROVE  SortsTo(m, B, bn, lv, L, groups, k, Z)
<1>1. PICK n \in Nat : n = Len(groups) /\ k \in 1 .. n
  BY DEF IsGroups
<1>2. PICK s : s = groups[k] /\ IsSiblings(lv, s, Len(lv)) /\ Z \in sortSiblings(Y, bn, lv, heads, s, order, FALSE)
  BY DEF IsGroups
<1>3. Y \in BodiesOf(L) /\ IsPending(m, Y, bn, lv, L, s)
  <2>1. k > k - 1
    BY <1>1
  <2> QED
    BY <1>2, <2>1 DEF SortsTo
<1>4. KeepsPending(m, Y, Z, bn, lv, L, s) /\ \E Q : IsReordered(m, Y, Z, Q)
  <2>1. IsNumbered(bn, lv, L) /\ heads \in Seq(Int) /\ Len(heads) = Len(lv) /\ order \in Orders
    OBVIOUS
  <2> QED
    BY <1>2, <1>3, <2>1, SortedGroupReorders, Zenon
<1>5. \E R : IsReordered(m, B, Z, R)
  <2>1. PICK P : IsReordered(m, B, Y, P)
    BY DEF SortsTo
  <2> QED
    BY <1>4, <2>1, ReorderedAgain
<1>6. Z \in BodiesOf(L)
  BY <1>3, <1>4 DEF BodiesOf, IsReordered
<1>7. ASSUME NEW l \in 1 .. n, l > k
      PROVE  IsPending(m, Z, bn, lv, L, groups[l])
  <2>1. l > k - 1 /\ l \in 1 .. Len(groups) /\ k < l
    BY <1>1, <1>7
  <2>2. IsSiblings(lv, groups[l], Len(lv)) /\ IsPending(m, Y, bn, lv, L, groups[l])
    BY <2>1 DEF SortsTo, IsGroups
  <2>3. SortedAfter(lv, s, groups[l])
    BY <1>2, <2>1 DEF SortedAfter, IsGroups
  <2> QED
    BY <1>4, <2>2, <2>3 DEF KeepsPending
<1> QED
  BY <1>1, <1>5, <1>6, <1>7 DEF SortsTo

\* An :Oop sort reorders the lines of the Body.
LEMMA SortedReorders ==
  ASSUME NEW m, NEW bn, NEW lv, NEW B, Told(m, bn, lv, B), NEW L, L = Len(B), IsNumbered(bn, lv, L),
         NEW heads \in Seq(Int), Len(heads) = Len(lv), NEW s, IsSiblings(lv, s, Len(lv)),
         NEW order \in Orders, NEW deep \in BOOLEAN,
         NEW B2 \in voom_OopSort(B, bn, lv, heads, s, deep, order, FALSE)
  PROVE  \E P : IsReordered(m, B, B2, P)
<1>1. PICK groups : groups = GroupsOf(lv, s, deep)
  OBVIOUS
<1>2. IsGroups(groups, lv, Len(lv))
  <2>1. PICK N \in Nat : N = Len(lv) /\ lv \in Seq(Positive)
    BY DEF IsNumbered
  <2>2. CASE deep
    BY <1>1, <2>1, <2>2, GroupsAreSiblings DEF GroupsOf
  <2>3. CASE ~deep
    <3>1. groups = <<s>>
      BY <1>1, <2>3 DEF GroupsOf
    <3>2. /\ Len(groups) = 1 /\ \A k \in 1 .. 1 : groups[k] = s
          /\ \A k, l \in 1 .. 1 : ~(k < l)
      BY <3>1
    <3> QED
      BY <3>2 DEF IsGroups
  <2> QED
    BY <2>2, <2>3
<1>3. B \in BodiesOf(L) /\ L \in Nat /\ IsGroup(s, Len(lv))
  BY DEF Told, BodiesOf, IsSiblings, IsNumbered
<1>4. PICK after : Sorts(after, bn, lv, heads, order, B, groups,
                         voom_OopSort(B, bn, lv, heads, s, deep, order, FALSE))
  BY <1>1, <1>3, SortRecurs
<1>5. PICK n \in Nat : n = Len(groups)
  BY <1>4 DEF Sorts
<1>6. /\ after[0] = {B} /\ B2 \in after[n]
      /\ \A k \in 1 .. n : after[k] = SortedBodies(after[k - 1], bn, lv, heads, order, groups, k)
  BY <1>4, <1>5 DEF Sorts
<1> DEFINE Fine(k) == \A Y \in after[k] : SortsTo(m, B, bn, lv, L, groups, k, Y)
           Bad == {k \in 0 .. n : ~Fine(k)}
<1>7. Fine(0)
  BY <1>2, <1>6, NothingSortedFollows
<1>8. ASSUME NEW k \in 1 .. n, Fine(k - 1)
      PROVE  Fine(k)
  <2>1. ASSUME NEW Z \in after[k] PROVE SortsTo(m, B, bn, lv, L, groups, k, Z)
    <3>1. PICK Y \in after[k - 1] : Z \in sortSiblings(Y, bn, lv, heads, groups[k], order, FALSE)
      <4>1. Z \in SortedBodies(after[k - 1], bn, lv, heads, order, groups, k)
        <5>1. after[k] = SortedBodies(after[k - 1], bn, lv, heads, order, groups, k)
          BY <1>6
        <5> QED
          BY <2>1, <5>1
      <4> QED
        BY <4>1 DEF SortedBodies
    <3>2. SortsTo(m, B, bn, lv, L, groups, k - 1, Y) /\ k \in 1 .. Len(groups)
      BY <1>5, <1>8, <3>1
    <3> QED
      BY <1>2, <3>1, <3>2, NextGroupFollows
  <2> QED
    BY <2>1
<1> HIDE DEF Fine
<1>9. Bad = {}
  <2> SUFFICES ASSUME Bad # {} PROVE FALSE
    OBVIOUS
  <2>1. PICK k \in Bad : \A j \in Bad : k <= j
    <3>1. Bad \in SUBSET Nat
      OBVIOUS
    <3> HIDE DEF Bad
    <3> QED
      BY <3>1, LeastElement
  <2>2. k \in 0 .. n /\ ~Fine(k)
    OBVIOUS
  <2>3. k # 0
    BY <1>7, <2>2
  <2>4. k \in 1 .. n /\ k - 1 \in 0 .. n /\ ~(k <= k - 1)
    BY <2>2, <2>3
  <2>5. k - 1 \notin Bad
    <3> HIDE DEF Bad
    <3> QED
      BY <2>1, <2>4
  <2>6. Fine(k - 1)
    BY <2>4, <2>5
  <2> QED
    BY <1>8, <2>2, <2>4, <2>6
<1>10. Fine(n)
  <2>1. n \in 0 .. n
    OBVIOUS
  <2> QED
    BY <1>9, <2>1
<1>11. SortsTo(m, B, bn, lv, L, groups, n, B2)
  BY <1>6, <1>10 DEF Fine
<1> QED
  BY <1>11 DEF SortsTo

-----------------------------------------------------------------------------
(* Headlines and parents after a reordering.                              *)

\* A node has one parent.
LEMMA ParentAtIsUnique ==
  ASSUME NEW v, NEW k, NEW q, NEW r, k \in Int, v[k] \in Int, IsParentAt(v, k, q), IsParentAt(v, k, r),
         \A x \in 1 .. k : v[x] \in Int
  PROVE  q = r
<1>1. /\ q \in 0 .. k - 1 /\ r \in 0 .. k - 1
      /\ q = 0 \/ (v[q] > 0 /\ v[q] < v[k])
      /\ r = 0 \/ (v[r] > 0 /\ v[r] < v[k])
      /\ \A x \in q + 1 .. k - 1 : v[x] <= 0 \/ v[x] >= v[k]
      /\ \A x \in r + 1 .. k - 1 : v[x] <= 0 \/ v[x] >= v[k]
  BY DEF IsParentAt
<1>2. ASSUME q < r PROVE FALSE
  <2>1. r \in q + 1 .. k - 1 /\ r # 0 /\ r \in 1 .. k
    BY <1>1, <1>2
  <2>2. v[r] \in Int /\ v[r] > 0 /\ v[r] < v[k]
    BY <1>1, <2>1
  <2>3. v[r] <= 0 \/ v[r] >= v[k]
    BY <1>1, <2>1
  <2> QED
    BY <2>2, <2>3
<1>3. ASSUME r < q PROVE FALSE
  <2>1. q \in r + 1 .. k - 1 /\ q # 0 /\ q \in 1 .. k
    BY <1>1, <1>3
  <2>2. v[q] \in Int /\ v[q] > 0 /\ v[q] < v[k]
    BY <1>1, <2>1
  <2>3. v[q] <= 0 \/ v[q] >= v[k]
    BY <1>1, <2>1
  <2> QED
    BY <2>2, <2>3
<1> QED
  BY <1>1, <1>2, <1>3

\* The headlines of the nodes 1..n are in the lines h, and in no other.
HeadsAt(h, v, N, n) ==
  /\ n \in Nat /\ N \in Nat
  /\ \A i \in 1 .. n : h[i] \in 1 .. N /\ v[h[i]] > 0
  /\ \A i, j \in 1 .. n : h[i] = h[j] => i = j
  /\ \A k \in 1 .. N : v[k] > 0 => \E i \in 1 .. n : h[i] = k

\* The lines where the nodes of an outline begin are its headlines.
LEMMA HeadsAtAre ==
  ASSUME NEW m, NEW bn, NEW lv, NEW B, Told(m, bn, lv, B), NEW v, v = LevelsAt(m, B)
  PROVE  \E n \in Nat : n = Len(bn) - 1 /\ HeadsAt([i \in 1 .. n |-> bn[i + 1]], v, Len(B), n)
<1>1. PICK N \in Nat, Z \in Nat : N = Len(bn) /\ Z = Len(B) /\ B \in Seq(LineType) /\ N >= 1
  <2>1. bn \in Seq(Int) /\ bn # <<>> /\ B \in Seq(LineType)
    BY DEF Told
  <2>2. Len(bn) >= 1 /\ Len(bn) \in Nat
    BY <2>1, EmptySeq
  <2> QED
    BY <2>1, <2>2
<1>2. /\ \A j \in 2 .. N : bn[j] \in 1 .. Z /\ LevelIn(m, B[bn[j]]) = lv[j] /\ lv[j] > 0
      /\ \A j, k \in 2 .. N : j < k => bn[j] < bn[k]
      /\ \A k \in 1 .. Z : LevelIn(m, B[k]) > 0 => \E j \in 2 .. N : bn[j] = k
  BY <1>1 DEF Told
<1>3. \A k \in 1 .. Z : v[k] = LevelIn(m, B[k])
  <2>1. \A k \in 1 .. Len(B) : v[k] = LevelIn(m, B[k]) /\ v[k] \in Int
    BY <1>1, LevelsAtAre, Zenon
  <2> QED
    BY <1>1, <2>1
<1>4. PICK n \in Nat : n = Len(bn) - 1 /\ n = N - 1
  BY <1>1
<1> DEFINE h == [i \in 1 .. n |-> bn[i + 1]]
<1>5. \A i \in 1 .. n : h[i] = bn[i + 1] /\ i + 1 \in 2 .. N
  BY <1>4
<1>6. \A j \in 2 .. N : j - 1 \in 1 .. n /\ (j - 1) + 1 = j
  BY <1>4
<1> HIDE DEF h
<1>7. \A i \in 1 .. n : h[i] \in 1 .. Z /\ v[h[i]] > 0
  BY <1>2, <1>3, <1>5
<1>8. ASSUME NEW i \in 1 .. n, NEW j \in 1 .. n, h[i] = h[j]
      PROVE  i = j
  <2>1. i + 1 \in 2 .. N /\ j + 1 \in 2 .. N /\ bn[i + 1] = bn[j + 1] /\ bn[i + 1] \in 1 .. Z
    BY <1>2, <1>5, <1>8
  <2>2. ~(i + 1 < j + 1) /\ ~(j + 1 < i + 1)
    BY <1>2, <2>1
  <2> QED
    BY <2>2
<1>9. ASSUME NEW k \in 1 .. Z, v[k] > 0
      PROVE  \E i \in 1 .. n : h[i] = k
  <2>1. PICK j \in 2 .. N : bn[j] = k
    BY <1>2, <1>3, <1>9
  <2>2. PICK i \in 1 .. n : i = j - 1 /\ i + 1 = j
    BY <1>6
  <2>3. h[i] = k
    BY <1>5, <2>1, <2>2
  <2> QED
    BY <2>3
<1>10. HeadsAt(h, v, Z, n)
  BY <1>1, <1>7, <1>8, <1>9 DEF HeadsAt
<1> QED
  BY <1>1, <1>4, <1>10 DEF h

\* Node i of 1..n, which has the headline h[i], has become node p[i] of 1..n2.
IsMatch(p, h, h2, P, n, n2) ==
  /\ p \in [1 .. n -> 1 .. n2]
  /\ \A i \in 1 .. n : h2[p[i]] = P[h[i]]
  /\ \A i, j \in 1 .. n : p[i] = p[j] => i = j
  /\ \A x \in 1 .. n2 : \E i \in 1 .. n : p[i] = x

\* When lines change places, each headline is where one was promised.
LEMMA HeadsMatch ==
  ASSUME NEW h, NEW v, NEW n, NEW h2, NEW v2, NEW n2, NEW P, NEW N,
         HeadsAt(h, v, N, n), HeadsAt(h2, v2, N, n2), IsReordering(P, v, v2, N)
  PROVE  \E p : IsMatch(p, h, h2, P, n, n2)
<1>1. /\ n \in Nat /\ N \in Nat /\ n2 \in Nat
      /\ \A i \in 1 .. n : h[i] \in 1 .. N /\ v[h[i]] > 0
      /\ \A i, j \in 1 .. n : h[i] = h[j] => i = j
      /\ \A k \in 1 .. N : v[k] > 0 => \E i \in 1 .. n : h[i] = k
  BY DEF HeadsAt
<1>2. /\ \A i \in 1 .. n2 : h2[i] \in 1 .. N /\ v2[h2[i]] > 0
      /\ \A i, j \in 1 .. n2 : h2[i] = h2[j] => i = j
      /\ \A k \in 1 .. N : v2[k] > 0 => \E i \in 1 .. n2 : h2[i] = k
  BY DEF HeadsAt
<1>3. /\ P[0] = 0
      /\ \A k \in 0 .. N : P[k] \in 0 .. N
      /\ \A j, k \in 0 .. N : P[j] = P[k] => j = k
      /\ \A y \in 0 .. N : \E k \in 0 .. N : P[k] = y
      /\ \A k \in 1 .. N : v2[P[k]] = v[k]
  BY DEF IsReordering
<1>4. 0 \in 0 .. N /\ \A k \in 1 .. N : k \in 0 .. N /\ k # 0
  BY <1>1
<1>5. \A k \in 0 .. N : k = 0 \/ k \in 1 .. N
  BY <1>1
<1>6. \A k \in 1 .. N : P[k] \in 1 .. N
  BY <1>3, <1>4, <1>5
<1>7. \A i \in 1 .. n : \E x \in 1 .. n2 : h2[x] = P[h[i]]
  <2>1. ASSUME NEW i \in 1 .. n
        PROVE  \E x \in 1 .. n2 : h2[x] = P[h[i]]
    <3>1. PICK k \in 1 .. N : k = h[i] /\ v[k] > 0
      BY <1>1
    <3>2. P[k] \in 1 .. N /\ v2[P[k]] > 0
      BY <1>3, <1>6, <3>1
    <3> QED
      BY <1>2, <3>1, <3>2
  <2> QED
    BY <2>1
<1> DEFINE p == [i \in 1 .. n |-> CHOOSE x \in 1 .. n2 : h2[x] = P[h[i]]]
<1>8. \A i \in 1 .. n : p[i] \in 1 .. n2 /\ h2[p[i]] = P[h[i]]
  BY <1>7
<1>9. p \in [1 .. n -> 1 .. n2]
  BY <1>8
<1> HIDE DEF p
<1>10. ASSUME NEW i \in 1 .. n, NEW j \in 1 .. n, p[i] = p[j]
       PROVE  i = j
  <2>1. P[h[i]] = P[h[j]]
    BY <1>8, <1>10
  <2>2. h[i] \in 0 .. N /\ h[j] \in 0 .. N
    BY <1>1, <1>4
  <2>3. h[i] = h[j]
    BY <1>3, <2>1, <2>2
  <2> QED
    BY <1>1, <2>3
<1>11. ASSUME NEW x \in 1 .. n2
       PROVE  \E i \in 1 .. n : p[i] = x
  <2>1. PICK y \in 1 .. N : y = h2[x] /\ v2[y] > 0
    BY <1>2
  <2>2. PICK k \in 0 .. N : P[k] = y
    BY <1>3, <1>4, <2>1
  <2>3. k \in 1 .. N
    BY <1>3, <1>4, <1>5, <2>1, <2>2
  <2>4. v[k] > 0
    BY <1>3, <2>1, <2>2, <2>3
  <2>5. PICK i \in 1 .. n : h[i] = k
    BY <1>1, <2>3, <2>4
  <2>6. p[i] \in 1 .. n2 /\ h2[p[i]] = h2[x]
    BY <1>8, <2>1, <2>2, <2>5
  <2>7. p[i] = x
    BY <1>2, <2>6
  <2> QED
    BY <2>7
<1>12. IsMatch(p, h, h2, P, n, n2)
  BY <1>8, <1>9, <1>10, <1>11 DEF IsMatch
<1> QED
  BY <1>12

\* Reordered outlines have as many nodes.
LEMMA SameCount ==
  ASSUME NEW n, NEW n2, n \in Nat, n2 \in Nat, NEW p, NEW h, NEW h2, NEW P, IsMatch(p, h, h2, P, n, n2)
  PROVE  n = n2
<1>1. p \in Bijection(1 .. n, 1 .. n2)
  BY DEF IsMatch, Bijection, Injection, Surjection, IsInjective
<1>2. ExistsBijection(1 .. n, 1 .. n2)
  BY <1>1 DEF ExistsBijection
<1>3. IsFiniteSet(1 .. n) /\ Cardinality(1 .. n) = n /\ Cardinality(1 .. n2) = n2
  BY IntervalIs
<1>4. PICK S, T : S = 1 .. n /\ T = 1 .. n2
  OBVIOUS
<1>5. IsFiniteSet(S) /\ ExistsBijection(S, T)
  BY <1>2, <1>3, <1>4
<1>6. Cardinality(T) = Cardinality(S)
  BY <1>5, FS_Bijection
<1> QED
  BY <1>3, <1>4, <1>6

=============================================================================
