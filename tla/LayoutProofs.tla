---------------------------- MODULE LayoutProofs ----------------------------
(***************************************************************************)
(* What PaneTree, Layout and LayoutManager promise, for all sessions,       *)
(* bounds and stored layouts, in six parts: numbers and finite trees; what  *)
(* each method of the layout makes of a layout that is whole; what is read  *)
(* back from the rows of a layout; the invariant WholeInv of the threads,   *)
(* step by step; what is stored and loaded; what a disposed session leaves. *)
(***************************************************************************)
EXTENDS LayoutManager, FiniteSetTheorems, SequenceTheorems, WellFoundedInduction, TLAPS

-----------------------------------------------------------------------------
\* Numbers.

LEMMA LeastExists ==
  ASSUME NEW S \in SUBSET Nat, S # {} PROVE \E m \in S : \A k \in S : m <= k
<1> DEFINE R == {ss \in Nat \X Nat : ss[1] < ss[2]}
<1>1. IsWellFoundedOn(R, Nat)
  <2>1. OpToRel(<, Nat) = R
    BY DEF OpToRel
  <2> QED
    BY <2>1, NatLessThanWellFounded
<1>2. \A k, m \in Nat : k < m => <<k, m>> \in R
  OBVIOUS
<1> HIDE DEF R
<1>3. PICK m \in S : \A k \in S : ~ (<<k, m>> \in R)
  BY <1>1, WFMin
<1>4. ASSUME NEW k \in S PROVE m <= k
  <2>1. k \in Nat /\ m \in Nat
    OBVIOUS
  <2>2. ~ (<<k, m>> \in R)
    BY <1>3
  <2>3. ~ (k < m)
    BY <1>2, <2>1, <2>2
  <2> QED
    BY <2>1, <2>3
<1> QED
  BY <1>4

\* How many of S come no later than i
Rank(S, i) == Cardinality({j \in S : j <= i})

LEMMA RankType ==
  ASSUME NEW S \in SUBSET Nat, IsFiniteSet(S), NEW i \in S
  PROVE  Rank(S, i) \in 1..Cardinality(S)
<1> DEFINE T == {j \in S : j <= i}
<1>1. IsFiniteSet(T) /\ Cardinality(T) <= Cardinality(S)
  BY FS_Subset
<1>2. Cardinality(T) # 0
  BY <1>1, FS_EmptySet
<1>3. Cardinality(T) \in Nat /\ Cardinality(S) \in Nat
  BY <1>1, FS_CardinalityType
<1> QED
  BY <1>1, <1>2, <1>3 DEF Rank

LEMMA RankLess ==
  ASSUME NEW S \in SUBSET Nat, IsFiniteSet(S), NEW i \in S, NEW j \in S, i < j
  PROVE  Rank(S, i) < Rank(S, j)
<1> DEFINE T == {k \in S : k <= i}
           U == {k \in S : k <= j}
<1>1. IsFiniteSet(U)
  BY FS_Subset
<1> i \in Nat /\ j \in Nat
  OBVIOUS
<1>2. T \subseteq U /\ j \in U /\ j \notin T
  <2>1. \A k \in Nat : k <= i => k <= j
    OBVIOUS
  <2>2. T \subseteq U
    BY <2>1
  <2> QED
    BY <2>2
<1> HIDE DEF T, U
<1>3. IsFiniteSet(T) /\ Cardinality(T) <= Cardinality(U) /\ Cardinality(T) # Cardinality(U)
  BY <1>1, <1>2, FS_Subset
<1>4. Cardinality(T) \in Nat /\ Cardinality(U) \in Nat
  BY <1>1, <1>3, FS_CardinalityType
<1> QED
  BY <1>3, <1>4 DEF Rank, T, U

LEMMA RankOnto ==
  ASSUME NEW S \in SUBSET Nat, IsFiniteSet(S), NEW k \in 1..Cardinality(S)
  PROVE  \E i \in S : Rank(S, i) = k
<1> DEFINE f == [i \in S |-> Rank(S, i)]
           T == 1..Cardinality(S)
<1>1. Cardinality(S) \in Nat
  BY FS_CardinalityType
<1>2. IsFiniteSet(T) /\ Cardinality(T) = Cardinality(S)
  BY <1>1, FS_Interval
<1>3. f \in [S -> T]
  BY RankType
<1>4. \A i, j \in S : f[i] = f[j] => i = j
  <2> SUFFICES ASSUME NEW i \in S, NEW j \in S, i # j PROVE f[i] # f[j]
    OBVIOUS
  <2>1. i < j \/ j < i
    OBVIOUS
  <2>2. Rank(S, i) \in Nat /\ Rank(S, j) \in Nat
    BY RankType
  <2> QED
    BY <2>1, <2>2, RankLess
<1> HIDE DEF f, T
<1>5. f \in Injection(S, T)
  BY <1>3, <1>4 DEF Injection, IsInjective
<1>6. f \in Surjection(S, T)
  BY <1>2, <1>5, FS_Injection
<1>7. PICK i \in S : f[i] = k
  BY <1>6 DEF Surjection, T
<1> QED
  BY <1>7 DEF f

LEMMA NthIn ==
  ASSUME NEW S \in SUBSET Nat, IsFiniteSet(S), NEW k \in 1..Cardinality(S)
  PROVE  Nth(S, k) \in S /\ Rank(S, Nth(S, k)) = k
<1>1. \E i \in S : Cardinality({j \in S : j <= i}) = k
  BY RankOnto DEF Rank
<1> QED
  BY <1>1 DEF Nth, Rank

LEMMA NthRank ==
  ASSUME NEW S \in SUBSET Nat, IsFiniteSet(S), NEW i \in S PROVE Nth(S, Rank(S, i)) = i
<1>1. Rank(S, i) \in 1..Cardinality(S)
  BY RankType
<1>2. Nth(S, Rank(S, i)) \in S /\ Rank(S, Nth(S, Rank(S, i))) = Rank(S, i)
  BY <1>1, NthIn
<1> DEFINE j == Nth(S, Rank(S, i))
<1> HIDE DEF j
<1>3. j \in S /\ Rank(S, j) = Rank(S, i) /\ Rank(S, i) \in Nat
  BY <1>1, <1>2 DEF j
<1>4. i \in Nat /\ j \in Nat
  BY <1>3
<1>5. j = i
  BY <1>3, <1>4, RankLess
<1> QED
  BY <1>5 DEF j

LEMMA NthLess ==
  ASSUME NEW S \in SUBSET Nat, IsFiniteSet(S),
         NEW k \in 1..Cardinality(S), NEW l \in 1..Cardinality(S), k < l
  PROVE  Nth(S, k) < Nth(S, l)
<1> DEFINE i == Nth(S, k)
           j == Nth(S, l)
<1>1. i \in S /\ j \in S /\ Rank(S, i) = k /\ Rank(S, j) = l
  BY NthIn
<1> HIDE DEF i, j
<1>2. i \in Nat /\ j \in Nat /\ k \in Nat /\ l \in Nat
  BY <1>1, FS_CardinalityType
<1>3. i < j
  BY <1>1, <1>2, RankLess
<1> QED
  BY <1>3 DEF i, j

LEMMA NthOfAll ==
  ASSUME NEW n \in Nat, NEW k \in 1..n PROVE Cardinality(1..n) = n /\ Nth(1..n, k) = k
<1>1. IsFiniteSet(1..n) /\ Cardinality(1..n) = n
  BY FS_Interval
<1>2. {j \in 1..n : j <= k} = 1..k
  OBVIOUS
<1>3. Rank(1..n, k) = k
  <2>1. Cardinality(1..k) = k
    BY FS_Interval
  <2> QED
    BY <1>2, <2>1 DEF Rank
<1> QED
  BY <1>1, <1>3, NthRank

-----------------------------------------------------------------------------
(***************************************************************************)
(* Trees. The ways of a tree part from each other, and each of their steps  *)
(* is a side of a split with two sides.                                     *)
(***************************************************************************)

LEMMA WayFacts ==
  ASSUME NEW p \in Ways
  PROVE  /\ Len(p) \in Nat /\ DOMAIN p = 1..Len(p)
         /\ \A i \in DOMAIN p : i \in Nat /\ i > 0 /\ p[i] \in {0, 1}
BY DEF Ways

\* Two ways that part at i
PartAt(p, q, i) ==
  i \in DOMAIN p \cap DOMAIN q /\ p[i] # q[i] /\ \A j \in 1..i - 1 : p[j] = q[j]

LEMMA BeforeParts ==
  ASSUME NEW p \in Ways, NEW q \in Ways
  PROVE  (Before(p, q) \/ Before(q, p)) <=> \E i \in Nat : PartAt(p, q, i)
<1>1. ASSUME Before(p, q) \/ Before(q, p) PROVE \E i \in Nat : PartAt(p, q, i)
  <2>1. PICK i \in DOMAIN p \cap DOMAIN q : (p[i] < q[i] \/ q[i] < p[i]) /\ \A j \in 1..i - 1 : p[j] = q[j]
    BY <1>1 DEF Before
  <2>2. i \in Nat /\ p[i] \in {0, 1} /\ q[i] \in {0, 1}
    BY <2>1, WayFacts
  <2> QED
    BY <2>1, <2>2 DEF PartAt
<1>2. ASSUME NEW i \in Nat, PartAt(p, q, i) PROVE Before(p, q) \/ Before(q, p)
  <2>1. p[i] \in {0, 1} /\ q[i] \in {0, 1}
    BY <1>2, WayFacts DEF PartAt
  <2>2. p[i] < q[i] \/ q[i] < p[i]
    BY <1>2, <2>1 DEF PartAt
  <2> QED
    BY <1>2, <2>2 DEF PartAt, Before
<1> QED
  BY <1>1, <1>2

LEMMA BeforeTransitive ==
  ASSUME NEW p \in Ways, NEW q \in Ways, NEW r \in Ways, Before(p, q), Before(q, r)
  PROVE  Before(p, r)
<1>1. PICK i \in DOMAIN p \cap DOMAIN q : p[i] < q[i] /\ \A j \in 1..i - 1 : p[j] = q[j]
  BY DEF Before
<1>2. PICK k \in DOMAIN q \cap DOMAIN r : q[k] < r[k] /\ \A j \in 1..k - 1 : q[j] = r[j]
  BY DEF Before
<1>3. /\ Len(p) \in Nat /\ DOMAIN p = 1..Len(p)
      /\ Len(q) \in Nat /\ DOMAIN q = 1..Len(q)
      /\ Len(r) \in Nat /\ DOMAIN r = 1..Len(r)
  BY WayFacts
<1>4. i \in Nat /\ k \in Nat /\ p[i] \in {0, 1} /\ q[i] \in {0, 1} /\ q[k] \in {0, 1} /\ r[k] \in {0, 1}
  BY <1>1, <1>2, WayFacts
<1>5. CASE i < k
  <2>1. i \in DOMAIN r /\ p[i] < r[i]
    BY <1>1, <1>2, <1>3, <1>4, <1>5
  <2>2. \A j \in 1..i - 1 : p[j] = r[j]
    BY <1>1, <1>2, <1>4, <1>5
  <2> QED
    BY <1>1, <2>1, <2>2 DEF Before
<1>6. CASE k <= i
  <2>1. k \in DOMAIN p
    BY <1>1, <1>2, <1>3, <1>4, <1>6
  <2>2. p[k] < r[k]
    <3>1. CASE k = i
      BY <1>1, <1>2, <1>4, <3>1
    <3>2. CASE k < i
      BY <1>1, <1>2, <1>3, <1>4, <3>2
    <3> QED
      BY <1>4, <1>6, <3>1, <3>2
  <2>3. \A j \in 1..k - 1 : p[j] = r[j]
    BY <1>1, <1>2, <1>4, <1>6
  <2> QED
    BY <1>2, <2>1, <2>2, <2>3 DEF Before
<1> QED
  BY <1>4, <1>5, <1>6

LEMMA NotBeforeItself ==
  ASSUME NEW p \in Ways PROVE ~ Before(p, p)
BY WayFacts DEF Before

LEMMA FirstIsIn ==
  ASSUME NEW D \in SUBSET Ways, IsFiniteSet(D), D # {} PROVE FirstOf(D) \in D
<1> DEFINE Ahead(p) == {r \in D : Before(r, p)}
           S == {Cardinality(Ahead(p)) : p \in D}
<1>1. \A p \in D : IsFiniteSet(Ahead(p)) /\ Cardinality(Ahead(p)) \in Nat
  BY FS_Subset, FS_CardinalityType
<1>2. S \in SUBSET Nat /\ S # {}
  BY <1>1
<1>5. \A m \in S : \E p \in D : m = Cardinality(Ahead(p))
  OBVIOUS
<1>6. \A q \in D : Cardinality(Ahead(q)) \in S
  OBVIOUS
<1>7. PICK m \in S : \A k \in S : m <= k
  <2> HIDE DEF S
  <2> QED
    BY <1>2, LeastExists
<1>3. PICK p \in D : \A q \in D : Cardinality(Ahead(p)) <= Cardinality(Ahead(q))
  <2> HIDE DEF S, Ahead
  <2> QED
    BY <1>5, <1>6, <1>7
<1>4. ASSUME NEW q \in D, Before(q, p) PROVE FALSE
  <2>1. Ahead(q) \subseteq Ahead(p)
    <3>1. ASSUME NEW r \in D, Before(r, q) PROVE Before(r, p)
      BY <1>4, <3>1, BeforeTransitive
    <3> QED
      BY <3>1
  <2>2. q \in Ahead(p) /\ q \notin Ahead(q)
    BY <1>4, NotBeforeItself
  <2> HIDE DEF Ahead, S
  <2>3. Cardinality(Ahead(q)) <= Cardinality(Ahead(p)) /\ Cardinality(Ahead(q)) # Cardinality(Ahead(p))
    BY <1>1, <2>1, <2>2, FS_Subset
  <2> QED
    BY <1>1, <1>3, <2>3
<1> QED
  BY <1>4 DEF FirstOf

LEMMA FirstPane ==
  ASSUME NEW t, IsTree(t), DOMAIN t # {} PROVE First(t) \in PaneSet(t)
BY FirstIsIn DEF IsTree, IsPlan, First, PaneSet, Range

LEMMA PartsAreWays ==
  ASSUME NEW D \in SUBSET Ways, NEW p \in D, NEW i \in DOMAIN p
  PROVE  Parts(p, i, D) <=> \E q \in D : PartAt(p, q, i)
BY DEF Parts, PartAt

\* A plan, by where its ways part
LEMMA PlanIs ==
  ASSUME NEW D \in SUBSET Ways
  PROVE  IsPlan(D) <=> /\ IsFiniteSet(D)
                       /\ \A p, q \in D : p # q => \E i \in Nat : PartAt(p, q, i)
                       /\ \A p \in D : \A i \in DOMAIN p : \E q \in D : PartAt(p, q, i)
<1>1. \A p, q \in D : (Before(p, q) \/ Before(q, p)) <=> \E i \in Nat : PartAt(p, q, i)
  BY BeforeParts
<1>2. \A p \in D : \A i \in DOMAIN p : Parts(p, i, D) <=> \E q \in D : PartAt(p, q, i)
  BY PartsAreWays
<1> QED
  BY <1>1, <1>2 DEF IsPlan

LEMMA Longer ==
  ASSUME NEW p \in Ways, NEW k \in {0, 1}
  PROVE  /\ Append(p, k) \in Ways
         /\ DOMAIN Append(p, k) = DOMAIN p \cup {Len(p) + 1} /\ Len(p) + 1 \notin DOMAIN p
         /\ Append(p, k)[Len(p) + 1] = k /\ \A i \in DOMAIN p : Append(p, k)[i] = p[i]
         /\ Len(p) + 1 \in Nat /\ 1..(Len(p) + 1) - 1 = DOMAIN p
BY DEF Ways

\* A way that parts from another parts from what comes below it.
LEMMA PartsBelow ==
  ASSUME NEW p \in Ways, NEW q \in Ways, NEW k \in {0, 1}, NEW i \in Nat
  PROVE  /\ PartAt(p, q, i) => PartAt(q, p, i) /\ PartAt(Append(p, k), q, i) /\ PartAt(q, Append(p, k), i)
         /\ PartAt(Append(p, 0), Append(p, 1), Len(p) + 1)
         /\ PartAt(Append(p, 1), Append(p, 0), Len(p) + 1)
<1>1. ASSUME PartAt(p, q, i)
      PROVE  PartAt(q, p, i) /\ PartAt(Append(p, k), q, i) /\ PartAt(q, Append(p, k), i)
  <2>1. i \in DOMAIN p /\ i \in DOMAIN q /\ p[i] # q[i] /\ \A j \in 1..i - 1 : p[j] = q[j]
    BY <1>1 DEF PartAt
  <2>2. \A j \in 1..i - 1 : j \in DOMAIN p
    BY <2>1, WayFacts
  <2> QED
    BY <2>1, <2>2, Longer DEF PartAt
<1>2. PartAt(Append(p, 0), Append(p, 1), Len(p) + 1) /\ PartAt(Append(p, 1), Append(p, 0), Len(p) + 1)
  <2>1. \A x \in {0, 1} : /\ Len(p) + 1 \in DOMAIN Append(p, x) /\ Append(p, x)[Len(p) + 1] = x
                          /\ \A j \in 1..(Len(p) + 1) - 1 : Append(p, x)[j] = p[j]
    BY Longer
  <2> QED
    BY <2>1 DEF PartAt
<1> QED
  BY <1>1, <1>2

\* A plan with one of its ways split
LEMMA SplitPlan ==
  ASSUME NEW D, IsPlan(D), NEW at \in D
  PROVE  /\ IsPlan((D \ {at}) \cup {Append(at, 0), Append(at, 1)})
         /\ Append(at, 0) \notin D /\ Append(at, 1) \notin D /\ Append(at, 0) # Append(at, 1)
<1> DEFINE a == Append(at, 0)
           b == Append(at, 1)
           E == (D \ {at}) \cup {a, b}
           n == Len(at) + 1
<1>0. D \in SUBSET Ways /\ at \in Ways /\ E \in SUBSET Ways /\ a \in Ways /\ b \in Ways
  BY Longer DEF IsPlan
<1>1. /\ IsFiniteSet(D)
      /\ \A p, q \in D : p # q => \E i \in Nat : PartAt(p, q, i)
      /\ \A p \in D : \A i \in DOMAIN p : \E q \in D : PartAt(p, q, i)
  BY <1>0, PlanIs
<1>2. IsFiniteSet(E)
  <2>1. IsFiniteSet(D \ {at}) /\ IsFiniteSet({a}) /\ {a, b} = {a} \cup {b}
    BY <1>1, FS_Subset, FS_Singleton
  <2>2. IsFiniteSet({a, b})
    BY <2>1, FS_AddElement
  <2> QED
    BY <2>1, <2>2, FS_Union
<1>3. \A q \in Ways : \A i \in Nat : PartAt(at, q, i) =>
        /\ PartAt(q, at, i) /\ PartAt(a, q, i) /\ PartAt(q, a, i)
        /\ PartAt(b, q, i) /\ PartAt(q, b, i)
  BY <1>0, PartsBelow
<1>4. \A p, q \in Ways : \A i \in Nat : PartAt(p, q, i) => PartAt(q, p, i) /\ p # q
  BY PartsBelow DEF PartAt
<1>5. PartAt(a, b, n) /\ PartAt(b, a, n) /\ n \in Nat
  BY <1>0, PartsBelow, Longer
<1>6. DOMAIN a = DOMAIN at \cup {n} /\ DOMAIN b = DOMAIN at \cup {n}
  BY <1>0, Longer
<1>7. \A p \in D : DOMAIN p \subseteq Nat
  BY <1>0, WayFacts
<1> HIDE DEF a, b, n
<1>8. \A p, q \in E : p # q => \E i \in Nat : PartAt(p, q, i)
  <2> SUFFICES ASSUME NEW p \in E, NEW q \in E, p # q PROVE \E i \in Nat : PartAt(p, q, i)
    OBVIOUS
  <2>1. CASE p \in D \ {at} /\ q \in D \ {at}
    BY <1>1, <2>1
  <2>2. CASE p \in {a, b} /\ q \in {a, b}
    BY <1>5, <2>2
  <2>3. ASSUME NEW x \in D \ {at} PROVE \E i \in Nat : PartAt(a, x, i) /\ PartAt(x, a, i) /\ PartAt(b, x, i) /\ PartAt(x, b, i)
    <3>1. PICK i \in Nat : PartAt(at, x, i)
      BY <1>1
    <3>2. x \in Ways
      BY <1>0
    <3> QED
      BY <1>3, <3>1, <3>2
  <2> QED
    BY <2>1, <2>2, <2>3
<1>9. \A p \in E : \A i \in DOMAIN p : \E q \in E : PartAt(p, q, i)
  <2> SUFFICES ASSUME NEW p \in E, NEW i \in DOMAIN p PROVE \E q \in E : PartAt(p, q, i)
    OBVIOUS
  <2>1. ASSUME p \in D \ {at} PROVE \E q \in E : PartAt(p, q, i)
    <3>1. PICK q \in D : PartAt(p, q, i)
      BY <1>1, <2>1
    <3>2. i \in Nat /\ p \in Ways /\ q \in Ways
      BY <1>0, <1>7, <2>1
    <3>3. CASE q = at
      <4>1. PartAt(at, p, i)
        BY <1>4, <3>1, <3>2, <3>3
      <4> QED
        BY <1>3, <3>2, <4>1
    <3> QED
      BY <3>1, <3>3
  <2>2. ASSUME p \in {a, b} PROVE \E q \in E : PartAt(p, q, i)
    <3>1. CASE i = n
      BY <1>5, <2>2, <3>1
    <3>2. CASE i \in DOMAIN at
      <4>1. PICK q \in D : PartAt(at, q, i)
        BY <1>1, <3>2
      <4>2. i \in Nat /\ q \in Ways /\ q # at
        BY <1>0, <1>4, <1>7, <3>2, <4>1
      <4> QED
        BY <1>3, <2>2, <4>1, <4>2
    <3> QED
      BY <1>6, <2>2, <3>1, <3>2
  <2> QED
    BY <2>1, <2>2
<1>10. a \notin D /\ b \notin D /\ a # b
  <2>1. a # b
    BY <1>0, <1>4, <1>5
  <2>2. ASSUME NEW x \in {a, b}, x \in D PROVE FALSE
    <3>1. x # at
      BY <1>0, Longer, <2>2 DEF a, b
    <3>2. PICK i \in Nat : PartAt(at, x, i)
      BY <1>1, <2>2, <3>1
    <3>3. PartAt(x, x, i)
      BY <1>0, <1>3, <2>2, <3>2
    <3> QED
      BY <3>3 DEF PartAt
  <2> QED
    BY <2>1, <2>2
<1>11. IsPlan(E)
  <2> HIDE DEF E
  <2> QED
    BY <1>0, <1>2, <1>8, <1>9, PlanIs
<1> QED
  BY <1>10, <1>11 DEF a, b


LEMMA SplitAtTree ==
  ASSUME NEW t, IsTree(t), IsInjective(t), NEW leaf \in PaneSet(t), NEW new, new \notin PaneSet(t)
  PROVE  /\ IsTree(SplitAt(t, leaf, new)) /\ IsInjective(SplitAt(t, leaf, new))
         /\ PaneSet(SplitAt(t, leaf, new)) = PaneSet(t) \cup {new}
<1> DEFINE found == {p \in DOMAIN t : t[p] = leaf}
           at == FirstOf(found)
           a == Append(at, 0)
           b == Append(at, 1)
           E == (DOMAIN t \ {at}) \cup {a, b}
           u == SplitAt(t, leaf, new)
<1>1. found # {}
  BY DEF PaneSet, Range
<1>2. at \in DOMAIN t /\ t[at] = leaf
  <2>1. found \in SUBSET Ways /\ IsFiniteSet(found)
    BY FS_Subset DEF IsTree, IsPlan
  <2> HIDE DEF found
  <2>2. at \in found
    BY <1>1, <2>1, FirstIsIn
  <2> QED
    BY <2>2 DEF found
<1>3. IsPlan(E) /\ a \notin DOMAIN t /\ b \notin DOMAIN t /\ a # b
  BY <1>2, SplitPlan DEF IsTree
<1>4. u = [p \in E |-> IF p = a THEN leaf ELSE IF p = b THEN new ELSE t[p]]
  BY <1>1 DEF SplitAt
<1> HIDE DEF u, found, at, a, b
<1>5. DOMAIN u = E /\ u[a] = leaf /\ u[b] = new /\ \A p \in DOMAIN t \ {at} : u[p] = t[p]
  BY <1>3, <1>4
<1>6. IsTree(u)
  BY <1>3, <1>4, <1>5 DEF IsTree
<1>7. \A p, q \in DOMAIN t : t[p] = t[q] => p = q
  BY DEF IsInjective
<1>8. \A p \in DOMAIN t : t[p] # new
  BY DEF PaneSet, Range
<1>9. IsInjective(u)
  BY <1>2, <1>5, <1>7, <1>8 DEF IsInjective
<1>10. PaneSet(u) = PaneSet(t) \cup {new}
  <2>1. \A x \in PaneSet(u) : x \in PaneSet(t) \cup {new}
    BY <1>2, <1>5 DEF PaneSet, Range
  <2>2. ASSUME NEW x \in PaneSet(t) PROVE x \in PaneSet(u)
    <3>1. PICK p \in DOMAIN t : t[p] = x
      BY DEF PaneSet, Range
    <3> QED
      BY <1>2, <1>5, <3>1 DEF PaneSet, Range
  <2>3. new \in PaneSet(u)
    BY <1>5 DEF PaneSet, Range
  <2> QED
    BY <2>1, <2>2, <2>3
<1> QED
  BY <1>6, <1>9, <1>10 DEF u

-----------------------------------------------------------------------------
\* What is left of a way: its steps that part from another.

StepsOf(p, D) == {i \in DOMAIN p : Parts(p, i, D)}

LEMMA StepsOfFacts ==
  ASSUME NEW p \in Ways, NEW D
  PROVE  /\ StepsOf(p, D) \in SUBSET Nat /\ IsFiniteSet(StepsOf(p, D)) /\ StepsOf(p, D) \subseteq DOMAIN p
         /\ Cardinality(StepsOf(p, D)) \in Nat
         /\ Shortened(p, D) = [k \in 1..Cardinality(StepsOf(p, D)) |-> p[Nth(StepsOf(p, D), k)]]
<1>1. Len(p) \in Nat /\ DOMAIN p = 1..Len(p)
  BY WayFacts
<1>2. IsFiniteSet(DOMAIN p) /\ DOMAIN p \in SUBSET Nat
  BY <1>1, FS_Interval
<1>3. StepsOf(p, D) \subseteq DOMAIN p
  BY DEF StepsOf
<1>4. IsFiniteSet(StepsOf(p, D))
  BY <1>2, <1>3, FS_Subset
<1>5. Cardinality(StepsOf(p, D)) \in Nat
  BY <1>4, FS_CardinalityType
<1> QED
  BY <1>2, <1>3, <1>4, <1>5 DEF Shortened, StepsOf

LEMMA ShortenedWay ==
  ASSUME NEW p \in Ways, NEW D
  PROVE  Shortened(p, D) \in Ways /\ DOMAIN Shortened(p, D) = 1..Cardinality(StepsOf(p, D))
<1> DEFINE S == StepsOf(p, D)
           n == Cardinality(S)
<1>1. S \in SUBSET Nat /\ IsFiniteSet(S) /\ S \subseteq DOMAIN p /\ n \in Nat
      /\ Shortened(p, D) = [k \in 1..n |-> p[Nth(S, k)]]
  BY StepsOfFacts
<1> HIDE DEF S
<1>2. \A k \in 1..n : Nth(S, k) \in S
  BY <1>1, NthIn
<1> HIDE DEF n
<1>3. \A k \in 1..n : p[Nth(S, k)] \in {0, 1}
  BY <1>1, <1>2, WayFacts
<1>4. [k \in 1..n |-> p[Nth(S, k)]] \in [1..n -> {0, 1}]
  BY <1>3
<1>5. [k \in 1..n |-> p[Nth(S, k)]] \in Seq({0, 1})
  BY <1>1, <1>4
<1> QED
  BY <1>1, <1>5 DEF Ways, n, S

\* Two ways that part still do when they are shortened.
LEMMA ShortenedParts ==
  ASSUME NEW D \in SUBSET Ways, NEW p \in D, NEW q \in D, NEW i \in Nat, PartAt(p, q, i)
  PROVE  /\ i \in StepsOf(p, D)
         /\ PartAt(Shortened(p, D), Shortened(q, D), Rank(StepsOf(p, D), i))
<1> DEFINE S == StepsOf(p, D)
           T == StepsOf(q, D)
           r == Rank(S, i)
<1>1. p \in Ways /\ q \in Ways
  OBVIOUS
<1>2. /\ S \in SUBSET Nat /\ IsFiniteSet(S) /\ S \subseteq DOMAIN p /\ Cardinality(S) \in Nat
      /\ T \in SUBSET Nat /\ IsFiniteSet(T) /\ T \subseteq DOMAIN q /\ Cardinality(T) \in Nat
      /\ Shortened(p, D) = [k \in 1..Cardinality(S) |-> p[Nth(S, k)]]
      /\ Shortened(q, D) = [k \in 1..Cardinality(T) |-> q[Nth(T, k)]]
  BY <1>1, StepsOfFacts
<1>3. i \in DOMAIN p /\ i \in DOMAIN q /\ p[i] # q[i] /\ \A j \in 1..i - 1 : p[j] = q[j]
  BY DEF PartAt
<1>4. /\ Len(p) \in Nat /\ DOMAIN p = 1..Len(p)
      /\ Len(q) \in Nat /\ DOMAIN q = 1..Len(q)
  BY <1>1, WayFacts
<1>5. i \in S /\ i \in T
  <2>1. PartAt(q, p, i)
    BY <1>1, PartsBelow
  <2> QED
    BY <1>3, <2>1, PartsAreWays DEF StepsOf
<1>6. ASSUME NEW j \in Nat, j < i PROVE j \in S <=> j \in T
  <2>1. CASE j = 0
    BY <1>2, <1>4, <2>1
  <2>2. CASE j # 0
    <3>1. j \in DOMAIN p /\ j \in DOMAIN q /\ p[j] = q[j]
      BY <1>3, <1>4, <1>6, <2>2
    <3>2. \A k \in 1..j - 1 : p[k] = q[k]
      BY <1>3, <1>6
    <3> QED
      BY <3>1, <3>2 DEF StepsOf, Parts
  <2> QED
    BY <2>1, <2>2
<1> HIDE DEF S, T
<1>7. ASSUME NEW j \in Nat, j <= i PROVE Rank(S, j) = Rank(T, j)
  <2>1. \A x \in Nat : x <= j => (x \in S <=> x \in T)
    <3> SUFFICES ASSUME NEW x \in Nat, x <= j PROVE x \in S <=> x \in T
      OBVIOUS
    <3>1. x < i \/ x = i
      BY <1>7
    <3> QED
      BY <1>5, <1>6, <3>1
  <2>2. {x \in S : x <= j} = {x \in T : x <= j}
    BY <1>2, <2>1
  <2> QED
    BY <2>2 DEF Rank
<1>8. r \in 1..Cardinality(S) /\ r \in 1..Cardinality(T) /\ Nth(S, r) = i /\ Nth(T, r) = i
  <2>1. Rank(T, i) = r
    BY <1>7
  <2> QED
    BY <1>2, <1>5, <2>1, RankType, NthRank
<1>9. ASSUME NEW k \in 1..r - 1 PROVE p[Nth(S, k)] = q[Nth(T, k)] /\ k \in 1..Cardinality(S) /\ k \in 1..Cardinality(T)
  <2>1. k \in 1..Cardinality(S) /\ k \in 1..Cardinality(T) /\ k < r
    BY <1>2, <1>8
  <2>2. Nth(S, k) \in S /\ Nth(S, k) < i /\ Rank(S, Nth(S, k)) = k
    <3>1. Nth(S, k) \in S /\ Rank(S, Nth(S, k)) = k
      BY <1>2, <2>1, NthIn
    <3>2. Nth(S, k) < Nth(S, r)
      BY <1>2, <1>8, <2>1, NthLess
    <3> QED
      BY <1>8, <3>1, <3>2
  <2> DEFINE j == Nth(S, k)
  <2> HIDE DEF j
  <2>3. j \in S /\ j \in Nat /\ j < i /\ Rank(S, j) = k
    BY <1>2, <2>2 DEF j
  <2>4. j \in T /\ Rank(T, j) = k
    BY <1>6, <1>7, <2>3
  <2>5. Nth(T, k) = j
    BY <1>2, <2>4, NthRank
  <2>6. j \in 1..i - 1
    BY <1>2, <1>4, <2>3
  <2> QED
    BY <1>3, <2>1, <2>5, <2>6 DEF j
<1>10. PartAt(Shortened(p, D), Shortened(q, D), r)
  <2> DEFINE x == Shortened(p, D)
             y == Shortened(q, D)
  <2>1. DOMAIN x = 1..Cardinality(S) /\ DOMAIN y = 1..Cardinality(T)
    BY <1>2
  <2>2. r \in DOMAIN x /\ r \in DOMAIN y /\ x[r] = p[i] /\ y[r] = q[i]
    BY <1>2, <1>8
  <2>3. \A k \in 1..r - 1 : x[k] = y[k]
    <3> SUFFICES ASSUME NEW k \in 1..r - 1 PROVE x[k] = y[k]
      OBVIOUS
    <3> HIDE DEF r
    <3> QED
      BY <1>2, <1>9
  <2> HIDE DEF x, y, r
  <2> QED
    BY <1>3, <2>2, <2>3 DEF PartAt, x, y
<1> QED
  BY <1>5, <1>10 DEF S

\* A way is as long as it was when all of its steps part from another.
LEMMA ShortenedWhole ==
  ASSUME NEW D, IsPlan(D), NEW p \in D PROVE Shortened(p, D) = p
<1>1. p \in Ways
  BY DEF IsPlan
<1>2. Len(p) \in Nat /\ DOMAIN p = 1..Len(p)
  BY <1>1, WayFacts
<1>3. StepsOf(p, D) = 1..Len(p)
  BY <1>2 DEF StepsOf, IsPlan
<1>4. Cardinality(1..Len(p)) = Len(p) /\ \A k \in 1..Len(p) : Nth(1..Len(p), k) = k
  <2> DEFINE n == Len(p)
  <2> HIDE DEF n
  <2>1. n \in Nat
    BY <1>2 DEF n
  <2>2. Cardinality(1..n) = n
    BY <2>1, FS_Interval
  <2>3. \A k \in 1..n : Nth(1..n, k) = k
    BY <2>1, NthOfAll
  <2> QED
    BY <2>2, <2>3 DEF n
<1>5. Shortened(p, D) = [k \in 1..Len(p) |-> p[k]]
  BY <1>1, <1>3, <1>4, StepsOfFacts
<1> QED
  BY <1>1, <1>2, <1>5 DEF Ways

-----------------------------------------------------------------------------
\* Some panes of a tree are kept.

Kept(t, keep) == {p \in DOMAIN t : t[p] \in keep}

LEMMA KeepPlaces ==
  ASSUME NEW t, IsTree(t), NEW keep
  PROVE  LET K == Kept(t, keep)
             u == Keep(t, keep)
         IN  /\ K \in SUBSET Ways /\ IsFiniteSet(K)
             /\ DOMAIN u = {Shortened(p, K) : p \in K}
             /\ u = [x \in DOMAIN u |-> u[x]]
             /\ \A p, q \in K : p # q => Shortened(p, K) # Shortened(q, K)
             /\ \A p \in K : u[Shortened(p, K)] = t[p]
<1> DEFINE K == Kept(t, keep)
           u == Keep(t, keep)
<1>1. K \in SUBSET Ways /\ K \subseteq DOMAIN t /\ IsFiniteSet(K) /\ DOMAIN t \in SUBSET Ways
  BY FS_Subset DEF IsTree, IsPlan, Kept
<1>2. u = [x \in {Shortened(p, K) : p \in K} |-> t[CHOOSE p \in K : Shortened(p, K) = x]]
  BY DEF Keep, Kept
<1> HIDE DEF K, u
<1>3. ASSUME NEW p \in K, NEW q \in K, p # q PROVE Shortened(p, K) # Shortened(q, K)
  <2>1. PICK i \in Nat : PartAt(p, q, i)
    BY <1>1, <1>3, PlanIs DEF IsTree
  <2>2. PartAt(Shortened(p, K), Shortened(q, K), Rank(StepsOf(p, K), i))
    BY <1>1, <2>1, ShortenedParts
  <2> QED
    BY <2>2 DEF PartAt
<1>4. ASSUME NEW p \in K PROVE u[Shortened(p, K)] = t[p]
  <2>1. (CHOOSE q \in K : Shortened(q, K) = Shortened(p, K)) = p
    BY <1>3
  <2> QED
    BY <1>2, <2>1
<1> QED
  BY <1>1, <1>2, <1>3, <1>4 DEF K, u

LEMMA KeepTree ==
  ASSUME NEW t, IsTree(t), IsInjective(t), NEW keep
  PROVE  /\ IsTree(Keep(t, keep)) /\ IsInjective(Keep(t, keep))
         /\ PaneSet(Keep(t, keep)) = PaneSet(t) \cap keep
<1> DEFINE K == Kept(t, keep)
           u == Keep(t, keep)
           E == {Shortened(p, K) : p \in K}
<1>1. /\ K \in SUBSET Ways /\ IsFiniteSet(K) /\ DOMAIN u = E /\ u = [x \in DOMAIN u |-> u[x]]
      /\ \A p, q \in K : p # q => Shortened(p, K) # Shortened(q, K)
      /\ \A p \in K : u[Shortened(p, K)] = t[p]
  BY KeepPlaces
<1>2. \A p \in K : Shortened(p, K) \in Ways /\ DOMAIN Shortened(p, K) = 1..Cardinality(StepsOf(p, K))
  BY <1>1, ShortenedWay
<1>3. E \in SUBSET Ways
  BY <1>2
<1>4. IsFiniteSet(E)
  <2> DEFINE f == [p \in K |-> Shortened(p, K)]
  <2>1. f \in [K -> E] /\ \A x \in E : \E p \in K : f[p] = x
    OBVIOUS
  <2> HIDE DEF K, E, f
  <2>2. f \in Surjection(K, E)
    BY <2>1 DEF Surjection
  <2> QED
    BY <1>1, <2>2, FS_Surjection
<1>5. \A x \in E : \E p \in K : x = Shortened(p, K)
  OBVIOUS
<1>6. \A p \in K : Shortened(p, K) \in E
  OBVIOUS
<1>7. \A p \in K : p \in DOMAIN t /\ t[p] \in keep
  BY DEF Kept
<1>8. \A p \in DOMAIN t : t[p] \in keep => p \in K
  BY DEF Kept
<1> HIDE DEF K, u, E
<1>9. \A x, y \in E : x # y => \E i \in Nat : PartAt(x, y, i)
  <2> SUFFICES ASSUME NEW x \in E, NEW y \in E, x # y PROVE \E i \in Nat : PartAt(x, y, i)
    OBVIOUS
  <2>1. PICK p \in K : x = Shortened(p, K)
    BY <1>5
  <2>2. PICK q \in K : y = Shortened(q, K)
    BY <1>5
  <2>3. PICK i \in Nat : PartAt(p, q, i)
    BY <1>7, <2>1, <2>2, PlanIs DEF IsTree, IsPlan
  <2>4. i \in StepsOf(p, K) /\ PartAt(x, y, Rank(StepsOf(p, K), i))
    BY <1>1, <2>1, <2>2, <2>3, ShortenedParts
  <2>5. Rank(StepsOf(p, K), i) \in Nat
    <3>1. StepsOf(p, K) \in SUBSET Nat /\ IsFiniteSet(StepsOf(p, K)) /\ Cardinality(StepsOf(p, K)) \in Nat
      BY <1>1, StepsOfFacts
    <3>2. Rank(StepsOf(p, K), i) \in 1..Cardinality(StepsOf(p, K))
      BY <2>4, <3>1, RankType
    <3> QED
      BY <3>1, <3>2
  <2> QED
    BY <2>4, <2>5
<1>10. \A x \in E : \A k \in DOMAIN x : \E y \in E : PartAt(x, y, k)
  <2> SUFFICES ASSUME NEW x \in E, NEW k \in DOMAIN x PROVE \E y \in E : PartAt(x, y, k)
    OBVIOUS
  <2>1. PICK p \in K : x = Shortened(p, K)
    BY <1>5
  <2> DEFINE S == StepsOf(p, K)
  <2>2. S \in SUBSET Nat /\ IsFiniteSet(S) /\ p \in Ways /\ k \in 1..Cardinality(S)
    BY <1>1, <1>2, <2>1, StepsOfFacts
  <2>3. Nth(S, k) \in S /\ Rank(S, Nth(S, k)) = k
    <3> HIDE DEF S
    <3> QED
      BY <2>2, NthIn
  <2> DEFINE i == Nth(S, k)
  <2> HIDE DEF i
  <2>4. i \in S /\ Rank(S, i) = k
    BY <2>3 DEF i
  <2>5. i \in DOMAIN p /\ Parts(p, i, K) /\ i \in Nat
    BY <2>2, <2>4 DEF StepsOf
  <2>6. PICK q \in K : PartAt(p, q, i)
    BY <1>1, <2>5, PartsAreWays
  <2>7. PartAt(x, Shortened(q, K), k)
    BY <1>1, <2>1, <2>4, <2>5, <2>6, ShortenedParts
  <2> QED
    BY <1>6, <2>7
<1>11. IsPlan(E)
  BY <1>3, <1>4, <1>9, <1>10, PlanIs
<1>12. IsInjective(u)
  <2> SUFFICES ASSUME NEW x \in E, NEW y \in E, u[x] = u[y] PROVE x = y
    BY <1>1 DEF IsInjective
  <2>1. PICK p \in K : x = Shortened(p, K)
    BY <1>5
  <2>2. PICK q \in K : y = Shortened(q, K)
    BY <1>5
  <2>3. t[p] = t[q]
    BY <1>1, <2>1, <2>2
  <2> QED
    BY <1>7, <2>1, <2>2, <2>3 DEF IsInjective
<1>13. PaneSet(u) = PaneSet(t) \cap keep
  <2>1. ASSUME NEW x \in E PROVE u[x] \in PaneSet(t) \cap keep
    <3>1. PICK p \in K : x = Shortened(p, K)
      BY <1>5
    <3> QED
      BY <1>1, <1>7, <3>1 DEF PaneSet, Range
  <2>2. ASSUME NEW p \in DOMAIN t, t[p] \in keep PROVE t[p] \in PaneSet(u)
    <3>1. p \in K /\ Shortened(p, K) \in DOMAIN u /\ u[Shortened(p, K)] = t[p]
      BY <1>1, <1>6, <1>8, <2>2
    <3> QED
      BY <3>1 DEF PaneSet, Range
  <2> QED
    BY <1>1, <2>1, <2>2 DEF PaneSet, Range
<1> QED
  BY <1>1, <1>11, <1>12, <1>13 DEF u, IsTree

\* A tree all of whose panes are kept is the same.
LEMMA KeepWhole ==
  ASSUME NEW t, IsTree(t), NEW keep, PaneSet(t) \subseteq keep PROVE Keep(t, keep) = t
<1> DEFINE K == Kept(t, keep)
           u == Keep(t, keep)
<1>1. K = DOMAIN t
  BY DEF Kept, PaneSet, Range
<1>2. /\ DOMAIN u = {Shortened(p, K) : p \in K} /\ u = [x \in DOMAIN u |-> u[x]]
      /\ \A p \in K : u[Shortened(p, K)] = t[p]
  BY KeepPlaces
<1>3. \A p \in K : Shortened(p, K) = p
  BY <1>1, ShortenedWhole DEF IsTree
<1> HIDE DEF K, u
<1>4. DOMAIN u = DOMAIN t /\ \A p \in DOMAIN t : u[p] = t[p]
  BY <1>1, <1>2, <1>3
<1>5. u = t
  BY <1>2, <1>4 DEF IsTree
<1> QED
  BY <1>5 DEF u

-----------------------------------------------------------------------------
\* The nodes of a tree.

\* x is on the way p
Above(x, p) == Len(x) <= Len(p) /\ \A i \in 1..Len(x) : x[i] = p[i]

LEMMA WaysEqual ==
  ASSUME NEW x \in Ways, NEW y \in Ways, Len(x) = Len(y), \A i \in 1..Len(x) : x[i] = y[i]
  PROVE  x = y
BY DEF Ways

LEMMA StartOf ==
  ASSUME NEW p \in Ways, NEW i \in 0..Len(p)
  PROVE  SubSeq(p, 1, i) \in Ways /\ Len(SubSeq(p, 1, i)) = i /\ \A j \in 1..i : SubSeq(p, 1, i)[j] = p[j]
<1> DEFINE m == 1
<1>1. Len(p) \in Nat /\ \A j \in 1..Len(p) : p[j] \in {0, 1}
  BY WayFacts
<1>2. i \in Int /\ m \in Int /\ \A j \in m..i : p[j] \in {0, 1}
  BY <1>1
<1> HIDE DEF m
<1>3. /\ SubSeq(p, m, i) \in Seq({0, 1})
      /\ Len(SubSeq(p, m, i)) = IF m <= i THEN i - m + 1 ELSE 0
      /\ \A j \in 1..i - m + 1 : SubSeq(p, m, i)[j] = p[m + j - 1]
  BY <1>2, SubSeqProperties
<1> QED
  BY <1>1, <1>3 DEF m, Ways

LEMMA NodeIs ==
  ASSUME NEW t, DOMAIN t \in SUBSET Ways, NEW x
  PROVE  x \in Nodes(t) <=> x \in Ways /\ \E p \in DOMAIN t : Above(x, p)
<1>1. ASSUME x \in Nodes(t) PROVE x \in Ways /\ \E p \in DOMAIN t : Above(x, p)
  <2>1. PICK p \in DOMAIN t : \E i \in 0..Len(p) : x = SubSeq(p, 1, i)
    BY <1>1 DEF Nodes
  <2>2. PICK i \in 0..Len(p) : x = SubSeq(p, 1, i)
    BY <2>1
  <2>3. x \in Ways /\ Len(x) = i /\ (\A j \in 1..i : x[j] = p[j]) /\ Len(p) \in Nat
    BY <2>2, StartOf, WayFacts
  <2> QED
    BY <2>3 DEF Above
<1>2. ASSUME x \in Ways, NEW p \in DOMAIN t, Above(x, p) PROVE x \in Nodes(t)
  <2>1. Len(x) \in 0..Len(p)
    BY <1>2, WayFacts DEF Above
  <2>2. x = SubSeq(p, 1, Len(x))
    <3> DEFINE y == SubSeq(p, 1, Len(x))
    <3>1. y \in Ways /\ Len(y) = Len(x) /\ \A j \in 1..Len(x) : y[j] = p[j]
      BY <1>2, <2>1, StartOf
    <3> HIDE DEF y
    <3>2. x = y
      BY <1>2, <3>1, WaysEqual DEF Above
    <3> QED
      BY <3>2 DEF y
  <2> DEFINE A == {SubSeq(p, 1, i) : i \in 0..Len(p)}
  <2>3. x \in A
    BY <2>1, <2>2
  <2>4. A \subseteq Nodes(t)
    BY DEF Nodes
  <2> QED
    BY <2>3, <2>4
<1> QED
  BY <1>1, <1>2

LEMMA Grown ==
  ASSUME NEW x \in Ways, NEW k \in {0, 1}
  PROVE  /\ Append(x, k) \in Ways /\ Append(x, k) # <<>> /\ Len(Append(x, k)) = Len(x) + 1
         /\ Front(Append(x, k)) = x /\ Last(Append(x, k)) = k
<1> DEFINE y == Append(x, k)
<1>1. y \in Ways /\ y # <<>> /\ Len(y) = Len(x) + 1 /\ (\A i \in 1..Len(x) : y[i] = x[i]) /\ y[Len(x) + 1] = k
  BY AppendProperties DEF Ways
<1>2. Len(x) \in Nat /\ Len(x) \in 0..Len(y)
  BY <1>1, WayFacts
<1> HIDE DEF y
<1>3. /\ SubSeq(y, 1, Len(x)) \in Ways /\ Len(SubSeq(y, 1, Len(x))) = Len(x)
      /\ \A j \in 1..Len(x) : SubSeq(y, 1, Len(x))[j] = y[j]
  BY <1>1, <1>2, StartOf
<1>4. SubSeq(y, 1, Len(x)) = x
  BY <1>1, <1>3, WaysEqual
<1>5. Front(y) = x /\ Last(y) = k
  <2>1. Len(y) - 1 = Len(x)
    BY <1>1, <1>2
  <2> QED
    BY <1>1, <1>4, <2>1 DEF Front, Last
<1> QED
  BY <1>1, <1>5 DEF y

LEMMA Shrunk ==
  ASSUME NEW y \in Ways, y # <<>>
  PROVE  Front(y) \in Ways /\ Last(y) \in {0, 1} /\ y = Append(Front(y), Last(y))
<1> DEFINE x == Front(y)
           k == Last(y)
<1>1. Len(y) \in Nat /\ Len(y) # 0 /\ Len(y) - 1 \in 0..Len(y) /\ \A j \in 1..Len(y) : y[j] \in {0, 1}
  <2>1. Len(y) # 0
    BY EmptySeq DEF Ways
  <2> QED
    BY <2>1, WayFacts
<1>2. x \in Ways /\ Len(x) = Len(y) - 1 /\ \A j \in 1..Len(y) - 1 : x[j] = y[j]
  BY <1>1, StartOf DEF Front
<1>3. k \in {0, 1} /\ k = y[Len(y)]
  BY <1>1 DEF Last
<1> HIDE DEF x, k
<1>4. y = Append(x, k)
  <2> DEFINE z == Append(x, k)
  <2>1. z \in Ways /\ Len(z) = Len(y) /\ (\A j \in 1..Len(y) - 1 : z[j] = x[j]) /\ z[Len(y)] = k
    BY <1>1, <1>2, <1>3, AppendProperties DEF Ways
  <2> HIDE DEF z
  <2>2. \A j \in 1..Len(y) : z[j] = y[j]
    BY <1>1, <1>2, <1>3, <2>1
  <2>3. z = y
    BY <2>1, <2>2, WaysEqual
  <2> QED
    BY <2>3 DEF z
<1> QED
  BY <1>2, <1>3, <1>4 DEF x, k

LEMMA NodesOfTree ==
  ASSUME NEW t, IsTree(t)
  PROVE  /\ Nodes(t) \in SUBSET Ways /\ DOMAIN t \subseteq Nodes(t)
         /\ DOMAIN t # {} => <<>> \in Nodes(t)
         /\ \A x \in Ways, k \in {0, 1} : Append(x, k) \in Nodes(t) => x \in Nodes(t) \ DOMAIN t
         /\ \A x \in Nodes(t) \ DOMAIN t : \A k \in {0, 1} : Append(x, k) \in Nodes(t)
<1>0. /\ DOMAIN t \in SUBSET Ways
      /\ \A p, q \in DOMAIN t : p # q => \E i \in Nat : PartAt(p, q, i)
      /\ \A p \in DOMAIN t : \A i \in DOMAIN p : \E q \in DOMAIN t : PartAt(p, q, i)
  <2>1. DOMAIN t \in SUBSET Ways
    BY DEF IsTree, IsPlan
  <2> QED
    BY <2>1, PlanIs DEF IsTree
<1>1. Nodes(t) \in SUBSET Ways /\ DOMAIN t \subseteq Nodes(t)
  <2>1. \A p \in DOMAIN t : Above(p, p)
    BY <1>0, WayFacts DEF Above
  <2> QED
    BY <1>0, <2>1, NodeIs
<1>2. ASSUME DOMAIN t # {} PROVE <<>> \in Nodes(t)
  <2>1. PICK p \in DOMAIN t : TRUE
    BY <1>2
  <2>2. <<>> \in Ways /\ Len(<<>>) = 0
    BY DEF Ways
  <2>3. Above(<<>>, p)
    BY <1>0, <2>2, WayFacts DEF Above
  <2> QED
    BY <1>0, <2>2, <2>3, NodeIs
<1>3. ASSUME NEW x \in Ways, NEW k \in {0, 1}, Append(x, k) \in Nodes(t) PROVE x \in Nodes(t) \ DOMAIN t
  <2>1. PICK p \in DOMAIN t : Above(Append(x, k), p)
    BY <1>0, <1>3, NodeIs
  <2>2. Len(Append(x, k)) = Len(x) + 1 /\ (\A i \in 1..Len(x) : Append(x, k)[i] = x[i]) /\ Len(x) \in Nat
    BY AppendProperties, WayFacts DEF Ways
  <2>3. Above(x, p) /\ Len(x) + 1 <= Len(p) /\ p \in Ways /\ Len(p) \in Nat
    <3> DEFINE z == Append(x, k)
    <3>1. Len(z) <= Len(p) /\ \A i \in 1..Len(z) : z[i] = p[i]
      BY <2>1 DEF Above
    <3>2. p \in Ways /\ Len(p) \in Nat
      BY <1>0, WayFacts
    <3>3. Len(z) = Len(x) + 1 /\ \A i \in 1..Len(x) : z[i] = x[i]
      BY <2>2
    <3> HIDE DEF z
    <3> QED
      BY <2>2, <3>1, <3>2, <3>3 DEF Above
  <2>4. ASSUME x \in DOMAIN t PROVE FALSE
    <3>1. x # p
      BY <2>2, <2>3
    <3>2. PICK i \in Nat : PartAt(x, p, i)
      BY <1>0, <2>4, <3>1
    <3>3. i \in 1..Len(x) /\ x[i] # p[i]
      BY <3>2, WayFacts DEF PartAt
    <3> QED
      BY <2>3, <3>3 DEF Above
  <2> QED
    BY <1>0, <2>3, <2>4, NodeIs
<1>4. ASSUME NEW x \in Nodes(t) \ DOMAIN t, NEW k \in {0, 1} PROVE Append(x, k) \in Nodes(t)
  <2>1. x \in Ways
    BY <1>1
  <2>2. PICK p \in DOMAIN t : Above(x, p)
    BY <1>0, NodeIs
  <2>3. Len(x) \in Nat /\ Len(p) \in Nat /\ DOMAIN p = 1..Len(p) /\ Len(x) <= Len(p) /\ p \in Ways
        /\ \A i \in 1..Len(x) : x[i] = p[i]
    BY <1>0, <2>1, <2>2, WayFacts DEF Above
  <2>4. Len(x) # Len(p)
    BY <2>1, <2>3, WaysEqual
  <2> DEFINE n == Len(x) + 1
  <2>5. n \in DOMAIN p /\ n \in Nat /\ 1..n - 1 = 1..Len(x)
    BY <2>3, <2>4
  <2>6. PICK q \in DOMAIN t : PartAt(p, q, n)
    BY <1>0, <2>5
  <2>7. p[n] \in {0, 1} /\ q[n] \in {0, 1} /\ q \in Ways /\ n \in DOMAIN q /\ p[n] # q[n]
        /\ \A i \in 1..Len(x) : p[i] = q[i]
    BY <1>0, <2>3, <2>5, <2>6, WayFacts DEF PartAt
  <2>8. PICK r \in {p, q} : r[n] = k
    BY <2>7
  <2>9. r \in DOMAIN t /\ r \in Ways /\ n \in DOMAIN r /\ (\A i \in 1..Len(x) : r[i] = x[i])
        /\ Len(r) \in Nat /\ DOMAIN r = 1..Len(r)
    BY <2>3, <2>5, <2>7, WayFacts
  <2>10. /\ Append(x, k) \in Ways /\ Len(Append(x, k)) = n /\ Append(x, k)[n] = k
         /\ \A i \in 1..Len(x) : Append(x, k)[i] = x[i]
    BY <2>1, AppendProperties DEF Ways
  <2>11. Above(Append(x, k), r)
    <3>1. n <= Len(r)
      BY <2>9
    <3>2. ASSUME NEW i \in 1..n PROVE Append(x, k)[i] = r[i]
      <4>1. i = n \/ i \in 1..Len(x)
        BY <2>3
      <4> QED
        BY <2>8, <2>9, <2>10, <4>1
    <3> HIDE DEF n
    <3> QED
      BY <2>10, <3>1, <3>2 DEF Above
  <2> QED
    BY <1>0, <2>9, <2>10, <2>11, NodeIs
<1> QED
  BY <1>1, <1>2, <1>3, <1>4

LEMMA NodesFinite ==
  ASSUME NEW t, IsTree(t) PROVE IsFiniteSet(Nodes(t))
<1> DEFINE f == [p \in DOMAIN t |-> {SubSeq(p, 1, i) : i \in 0..Len(p)}]
           T == {f[p] : p \in DOMAIN t}
<1>1. IsFiniteSet(DOMAIN t) /\ DOMAIN t \in SUBSET Ways
  BY DEF IsTree, IsPlan
<1>2. IsFiniteSet(T)
  <2>1. f \in [DOMAIN t -> T] /\ \A x \in T : \E p \in DOMAIN t : f[p] = x
    OBVIOUS
  <2> HIDE DEF f, T
  <2>2. f \in Surjection(DOMAIN t, T)
    BY <2>1 DEF Surjection
  <2> QED
    BY <1>1, <2>2, FS_Surjection
<1>3. ASSUME NEW p \in DOMAIN t PROVE IsFiniteSet(f[p])
  <2> DEFINE A == 0..Len(p)
             g == [i \in A |-> SubSeq(p, 1, i)]
             B == {g[i] : i \in A}
  <2>1. IsFiniteSet(A)
    <3>1. Len(p) \in Nat
      BY <1>1, WayFacts
    <3> QED
      BY <3>1, FS_Interval
  <2>2. g \in [A -> B] /\ \A x \in B : \E i \in A : g[i] = x
    OBVIOUS
  <2>3. f[p] = B
    OBVIOUS
  <2> HIDE DEF A, B, g, f
  <2>4. g \in Surjection(A, B)
    BY <2>2 DEF Surjection
  <2>5. IsFiniteSet(B)
    BY <2>1, <2>4, FS_Surjection
  <2> QED
    BY <2>3, <2>5
<1>4. \A x \in T : IsFiniteSet(x)
  BY <1>3
<1>5. Nodes(t) = UNION T
  BY DEF Nodes
<1> HIDE DEF T
<1> QED
  BY <1>2, <1>4, <1>5, FS_UNION

-----------------------------------------------------------------------------
(***************************************************************************)
(* The rows of a tree make the tree: every row is found below that of the   *)
(* root, at its place.                                                      *)
(***************************************************************************)

\* Rows among which those of tab `tab` are those of t
Holds(rows, t, tab) ==
  /\ IsFiniteSet(rows)
  /\ \A r \in rows : r.tab = tab <=> r \in PaneRows(t, tab)
  /\ PaneRows(t, tab) \subseteq rows
  /\ \A r \in rows : r.parent = {} \/ \E x : r.parent = {<<r.tab, x>>}

LEMMA NodeRowName ==
  ASSUME NEW t, NEW tab, NEW x
  PROVE  NodeRow(t, tab, x).name = <<tab, x>> /\ NodeRow(t, tab, x).tab = tab
BY DEF NodeRow, Row

LEMMA NodeRowParent ==
  ASSUME NEW t, NEW tab, NEW x
  PROVE  NodeRow(t, tab, x).parent = IF x = <<>> THEN {} ELSE {<<tab, Front(x)>>}
BY DEF NodeRow, Row

LEMMA NodeRowPosition ==
  ASSUME NEW t, NEW tab, NEW x
  PROVE  NodeRow(t, tab, x).position = IF x = <<>> THEN Nothing ELSE Last(x)
BY DEF NodeRow, Row

LEMMA NodeRowPane ==
  ASSUME NEW t, NEW tab, NEW x
  PROVE  /\ x \in DOMAIN t => /\ NodeRow(t, tab, x).split = t[x].kind
                              /\ NodeRow(t, tab, x).session = t[x].session
         /\ x \notin DOMAIN t => /\ NodeRow(t, tab, x).split = "split"
                                 /\ NodeRow(t, tab, x).session = Nothing
BY DEF NodeRow, Row

LEMMA SidesRow ==
  ASSUME NEW t, NEW tab, NEW x \in Ways, NEW k \in {0, 1}
  PROVE  /\ NodeRow(t, tab, Append(x, k)).parent = {<<tab, x>>}
         /\ NodeRow(t, tab, Append(x, k)).position = k
<1>1. Append(x, k) # <<>> /\ Front(Append(x, k)) = x /\ Last(Append(x, k)) = k
  BY Grown
<1> DEFINE y == Append(x, k)
<1> HIDE DEF y
<1>2. NodeRow(t, tab, y).parent = IF y = <<>> THEN {} ELSE {<<tab, Front(y)>>}
  BY NodeRowParent
<1>3. NodeRow(t, tab, y).position = IF y = <<>> THEN Nothing ELSE Last(y)
  BY NodeRowPosition
<1> QED
  BY <1>1, <1>2, <1>3 DEF y

LEMMA SamePair ==
  ASSUME NEW a, NEW b, NEW c, NEW d, {<<a, b>>} = {<<c, d>>} PROVE a = c /\ b = d
<1>1. <<a, b>> \in {<<c, d>>}
  OBVIOUS
<1>2. <<a, b>> = <<c, d>>
  BY <1>1
<1> QED
  BY <1>2

LEMMA InRows ==
  ASSUME NEW t, NEW tab, NEW rows, Holds(rows, t, tab), NEW x \in Nodes(t)
  PROVE  NodeRow(t, tab, x) \in rows
<1>1. NodeRow(t, tab, x) \in PaneRows(t, tab)
  BY DEF PaneRows
<1> QED
  BY <1>1 DEF Holds

LEMMA SidesAre ==
  ASSUME NEW t, IsTree(t), NEW tab, NEW rows, Holds(rows, t, tab), NEW x \in Nodes(t)
  PROVE  {r \in rows : r.parent = {<<tab, x>>}} =
           IF x \in DOMAIN t THEN {} ELSE {NodeRow(t, tab, Append(x, 0)), NodeRow(t, tab, Append(x, 1))}
<1>0. x \in Ways
  BY NodesOfTree
<1>1. ASSUME NEW r \in rows, r.parent = {<<tab, x>>}
      PROVE  x \notin DOMAIN t /\ \E k \in {0, 1} : r = NodeRow(t, tab, Append(x, k))
  <2>1. PICK z : r.parent = {<<r.tab, z>>}
    BY <1>1 DEF Holds
  <2>2. r.tab = tab
    <3> DEFINE c == r.tab
    <3>1. {<<tab, x>>} = {<<c, z>>}
      BY <1>1, <2>1
    <3> HIDE DEF c
    <3>2. tab = c
      BY <3>1, SamePair
    <3> QED
      BY <3>2 DEF c
  <2>3. PICK y \in Nodes(t) : r = NodeRow(t, tab, y)
    BY <2>2 DEF Holds, PaneRows
  <2>4. y # <<>> /\ Front(y) = x
    <3>0. NodeRow(t, tab, y).parent = IF y = <<>> THEN {} ELSE {<<tab, Front(y)>>}
      BY NodeRowParent
    <3>1. {<<tab, x>>} = IF y = <<>> THEN {} ELSE {<<tab, Front(y)>>}
      BY <1>1, <2>3, <3>0
    <3>2. y # <<>>
      BY <3>1
    <3> DEFINE z1 == Front(y)
    <3>3. {<<tab, x>>} = {<<tab, z1>>}
      BY <3>1, <3>2
    <3> HIDE DEF z1
    <3>4. x = z1
      BY <3>3, SamePair
    <3> QED
      BY <3>2, <3>4 DEF z1
  <2>5. y \in Ways /\ Last(y) \in {0, 1} /\ y = Append(x, Last(y))
    BY <2>4, NodesOfTree, Shrunk
  <2>6. x \notin DOMAIN t
    BY <1>0, <2>5, NodesOfTree
  <2> QED
    BY <2>3, <2>5, <2>6
<1>2. ASSUME x \notin DOMAIN t, NEW k \in {0, 1}
      PROVE  NodeRow(t, tab, Append(x, k)) \in rows /\ NodeRow(t, tab, Append(x, k)).parent = {<<tab, x>>}
  <2>1. Append(x, k) \in Nodes(t)
    BY <1>2, NodesOfTree
  <2> QED
    BY <1>0, <2>1, InRows, SidesRow
<1> DEFINE S == {r \in rows : r.parent = {<<tab, x>>}}
           a == NodeRow(t, tab, Append(x, 0))
           b == NodeRow(t, tab, Append(x, 1))
<1>3. \A r \in S : r \in rows /\ r.parent = {<<tab, x>>}
  OBVIOUS
<1>4. \A r \in rows : r.parent = {<<tab, x>>} => r \in S
  OBVIOUS
<1>5. \A r \in S : x \notin DOMAIN t /\ r \in {a, b}
  BY <1>1, <1>3
<1>6. x \notin DOMAIN t => a \in S /\ b \in S
  BY <1>2, <1>4
<1> HIDE DEF S, a, b
<1>7. S = IF x \in DOMAIN t THEN {} ELSE {a, b}
  BY <1>5, <1>6
<1> QED
  BY <1>7 DEF S, a, b

LEMMA Two ==
  ASSUME NEW a, NEW b, a # b PROVE IsFiniteSet({a, b}) /\ Cardinality({a, b}) = 2
<1>1. IsFiniteSet({a}) /\ Cardinality({a}) = 1 /\ b \notin {a} /\ {a, b} = {a} \cup {b}
  BY FS_Singleton
<1>2. IsFiniteSet({a} \cup {b}) /\ Cardinality({a} \cup {b}) = 1 + 1
  BY <1>1, FS_AddElement
<1> QED
  BY <1>1, <1>2

LEMMA SideOfIs ==
  ASSUME NEW t, IsTree(t), NEW tab, NEW rows, Holds(rows, t, tab),
         NEW x \in Nodes(t) \ DOMAIN t, NEW k \in {0, 1}
  PROVE  SideOf(NodeRow(t, tab, Append(x, k)), rows) = k
<1> DEFINE a == NodeRow(t, tab, Append(x, 0))
           b == NodeRow(t, tab, Append(x, 1))
           r == NodeRow(t, tab, Append(x, k))
           S == {s \in rows : s.parent = {<<tab, x>>}}
           T == {s \in rows : s.parent = r.parent /\ s.position < r.position}
<1>0. x \in Ways
  BY NodesOfTree
<1>1. /\ a.position = 0 /\ a.parent = {<<tab, x>>}
      /\ b.position = 1 /\ b.parent = {<<tab, x>>}
      /\ r.position = k /\ r.parent = {<<tab, x>>}
  BY <1>0, SidesRow
<1>2. S = {a, b}
  BY SidesAre
<1>3. \A s \in T : s \in S /\ s.position < k
  BY <1>1
<1>4. \A s \in S : s.position < k => s \in T
  BY <1>1
<1>5. SideOf(r, rows) = Cardinality(T)
  BY DEF SideOf
<1> HIDE DEF a, b, r, S, T
<1>6. CASE k = 0
  <2>1. T = {}
    BY <1>1, <1>2, <1>3, <1>6
  <2> QED
    BY <1>5, <1>6, <2>1, FS_EmptySet DEF r
<1>7. CASE k = 1
  <2>1. T = {a}
    BY <1>1, <1>2, <1>3, <1>4, <1>7
  <2> QED
    BY <1>5, <1>7, <2>1, FS_Singleton DEF r
<1> QED
  BY <1>6, <1>7

\* A node of a tree with its row
At(t, tab, x) == [row |-> NodeRow(t, tab, x), at |-> x]

LEMMA SidesOfIs ==
  ASSUME NEW t, IsTree(t), NEW tab, NEW rows, Holds(rows, t, tab), NEW x \in Nodes(t)
  PROVE  SidesOf(At(t, tab, x), rows) =
           IF x \in DOMAIN t THEN {} ELSE {At(t, tab, Append(x, 0)), At(t, tab, Append(x, 1))}
<1> DEFINE up == At(t, tab, x)
           a == NodeRow(t, tab, Append(x, 0))
           b == NodeRow(t, tab, Append(x, 1))
<1>1. Sides(up.row, rows) = IF x \in DOMAIN t THEN {} ELSE {a, b}
  <2>1. up.row.name = <<tab, x>>
    BY NodeRowName DEF At
  <2>2. Sides(up.row, rows) = {r \in rows : r.parent = {<<tab, x>>}}
    BY <2>1 DEF Sides
  <2> HIDE DEF up
  <2> QED
    BY <2>2, SidesAre
<1>2. SidesOf(up, rows) = {[row |-> r, at |-> Append(x, SideOf(r, rows))] : r \in Sides(up.row, rows)}
  BY DEF SidesOf, At
<1>3. CASE x \in DOMAIN t
  <2> HIDE DEF up
  <2> QED
    BY <1>1, <1>2, <1>3 DEF up
<1>4. CASE x \notin DOMAIN t
  <2>1. SideOf(a, rows) = 0 /\ SideOf(b, rows) = 1
    BY <1>4, SideOfIs
  <2> HIDE DEF up, a, b
  <2>2. SidesOf(up, rows) = {[row |-> r, at |-> Append(x, SideOf(r, rows))] : r \in {a, b}}
    BY <1>1, <1>2, <1>4
  <2>3. SidesOf(up, rows) = {[row |-> a, at |-> Append(x, 0)], [row |-> b, at |-> Append(x, 1)]}
    BY <2>1, <2>2
  <2> QED
    BY <1>4, <2>3 DEF up, a, b, At
<1> QED
  BY <1>3, <1>4

\* No way is longer than there are rows.
LEMMA NodesShort ==
  ASSUME NEW t, IsTree(t), NEW tab, NEW rows, Holds(rows, t, tab), NEW x \in Nodes(t)
  PROVE  Len(x) \in 0..Cardinality(rows)
<1> DEFINE n == Len(x)
           f == [i \in 1..n |-> NodeRow(t, tab, SubSeq(x, 1, i))]
<1>0. x \in Ways /\ n \in Nat /\ IsFiniteSet(rows) /\ Cardinality(rows) \in Nat
  BY NodesOfTree, WayFacts, FS_CardinalityType DEF Holds
<1>1. \A i \in 1..n : SubSeq(x, 1, i) \in Ways /\ Len(SubSeq(x, 1, i)) = i /\ SubSeq(x, 1, i) \in Nodes(t)
  <2> SUFFICES ASSUME NEW i \in 1..n
               PROVE  SubSeq(x, 1, i) \in Ways /\ Len(SubSeq(x, 1, i)) = i /\ SubSeq(x, 1, i) \in Nodes(t)
    OBVIOUS
  <2> DEFINE y == SubSeq(x, 1, i)
  <2>1. y \in Ways /\ Len(y) = i /\ \A j \in 1..i : y[j] = x[j]
    BY <1>0, StartOf
  <2>2. DOMAIN t \in SUBSET Ways
    BY DEF IsTree, IsPlan
  <2>3. PICK p \in DOMAIN t : Above(x, p)
    BY <2>2, NodeIs
  <2>4. Len(p) \in Nat /\ i <= n
    BY <2>2, WayFacts
  <2> HIDE DEF y
  <2>5. Above(y, p)
    BY <1>0, <2>1, <2>3, <2>4 DEF Above
  <2>6. y \in Nodes(t)
    BY <2>1, <2>2, <2>5, NodeIs
  <2> QED
    BY <2>1, <2>6 DEF y
<1>2. \A i \in 1..n : f[i] \in rows /\ f[i].name = <<tab, SubSeq(x, 1, i)>>
  <2> SUFFICES ASSUME NEW i \in 1..n PROVE f[i] \in rows /\ f[i].name = <<tab, SubSeq(x, 1, i)>>
    OBVIOUS
  <2> DEFINE y == SubSeq(x, 1, i)
  <2>1. y \in Nodes(t)
    BY <1>1
  <2>2. f[i] = NodeRow(t, tab, y)
    OBVIOUS
  <2> HIDE DEF y, f
  <2>3. f[i] \in rows /\ f[i].name = <<tab, y>>
    BY <2>1, <2>2, InRows, NodeRowName
  <2> QED
    BY <2>3 DEF y
<1>3. ASSUME NEW i \in 1..n, NEW j \in 1..n, f[i] = f[j] PROVE i = j
  <2>1. SubSeq(x, 1, i) = SubSeq(x, 1, j)
    BY <1>2, <1>3
  <2> QED
    BY <1>1, <2>1
<1>4. f \in [1..n -> rows]
  BY <1>2
<1> HIDE DEF f
<1>5. f \in Injection(1..n, rows)
  BY <1>3, <1>4 DEF Injection, IsInjective
<1>6. n <= Cardinality(rows)
  <2> HIDE DEF n
  <2>1. IsFiniteSet(1..n) /\ Cardinality(1..n) = n
    BY <1>0, FS_Interval
  <2>2. Cardinality(1..n) <= Cardinality(rows)
    BY <1>0, <1>5, <2>1, FS_Injection
  <2> QED
    BY <2>1, <2>2
<1> QED
  BY <1>0, <1>6

LEMMA EmptyWay ==
  ASSUME NEW x \in Ways PROVE (Len(x) = 0 <=> x = <<>>) /\ Len(x) \in Nat
BY EmptySeq, WayFacts DEF Ways

LEMMA BelowIs ==
  ASSUME NEW t, IsTree(t), DOMAIN t # {}, NEW tab, NEW rows, Holds(rows, t, tab)
  PROVE  Below(NodeRow(t, tab, <<>>), rows) = {At(t, tab, x) : x \in Nodes(t)}
<1> DEFINE root == NodeRow(t, tab, <<>>)
           C == Cardinality(rows)
           F(h) == [n \in 0..C |-> IF n = 0 THEN {[row |-> root, at |-> <<>>]}
                                   ELSE UNION {SidesOf(up, rows) : up \in h[n - 1]}]
           level == CHOOSE h : h = F(h)
           Of(n) == {x \in Nodes(t) : Len(x) = n}
           g == [n \in 0..C |-> {At(t, tab, x) : x \in Of(n)}]
<1>1. Below(root, rows) = UNION {level[n] : n \in 0..C}
  BY DEF Below
<1>0. /\ Nodes(t) \in SUBSET Ways /\ <<>> \in Nodes(t) /\ C \in Nat
      /\ \A x \in Nodes(t) : Len(x) \in 0..C
      /\ \A x \in Ways, k \in {0, 1} : Append(x, k) \in Nodes(t) => x \in Nodes(t) \ DOMAIN t
      /\ \A x \in Nodes(t) \ DOMAIN t : \A k \in {0, 1} : Append(x, k) \in Nodes(t)
  <2>1. C \in Nat
    BY FS_CardinalityType DEF Holds
  <2>2. \A x \in Nodes(t) : Len(x) \in 0..C
    BY NodesShort
  <2> QED
    BY <2>1, <2>2, NodesOfTree
<1>2. \A n \in 0..C : g[n] = IF n = 0 THEN {[row |-> root, at |-> <<>>]}
                                 ELSE UNION {SidesOf(up, rows) : up \in g[n - 1]}
  <2>1. g[0] = {[row |-> root, at |-> <<>>]}
    <3>1. Of(0) = {<<>>}
      BY <1>0, EmptyWay
    <3> HIDE DEF Of
    <3>2. 0 \in 0..C
      BY <1>0
    <3>3. g[0] = {At(t, tab, <<>>)}
      BY <3>1, <3>2
    <3> QED
      BY <3>3 DEF At
  <2>2. ASSUME NEW n \in 0..C, n # 0
        PROVE  g[n] = UNION {SidesOf(up, rows) : up \in g[n - 1]}
    <3> DEFINE up == g[n - 1]
    <3>1. n - 1 \in 0..C /\ n \in Nat
      BY <1>0, <2>2
    <3>2. up = {At(t, tab, x) : x \in Of(n - 1)} /\ g[n] = {At(t, tab, x) : x \in Of(n)}
      BY <3>1
    <3>3. ASSUME NEW z \in g[n] PROVE \E u \in up : z \in SidesOf(u, rows)
      <4>1. PICK y \in Of(n) : z = At(t, tab, y)
        BY <3>2
      <4>2. y \in Ways /\ y \in Nodes(t) /\ Len(y) = n /\ y # <<>>
        BY <1>0, <2>2, <4>1, EmptyWay
      <4>3. PICK x \in Ways, k \in {0, 1} : y = Append(x, k)
        BY <4>2, Shrunk
      <4>4. x \in Nodes(t) \ DOMAIN t
        BY <1>0, <4>2, <4>3
      <4>5. Len(x) = n - 1
        BY <3>1, <4>2, <4>3, Grown, WayFacts
      <4>6. At(t, tab, x) \in up
        BY <3>2, <4>4, <4>5
      <4>7. z \in SidesOf(At(t, tab, x), rows)
        BY <4>1, <4>3, <4>4, SidesOfIs
      <4> QED
        BY <4>6, <4>7
    <3>4. ASSUME NEW u \in up, NEW z \in SidesOf(u, rows) PROVE z \in g[n]
      <4>1. PICK x \in Of(n - 1) : u = At(t, tab, x)
        BY <3>2
      <4>2. x \in Nodes(t) /\ x \in Ways /\ Len(x) = n - 1
        BY <1>0
      <4>3. x \notin DOMAIN t /\ \E k \in {0, 1} : z = At(t, tab, Append(x, k))
        BY <3>4, <4>1, <4>2, SidesOfIs
      <4>4. PICK k \in {0, 1} : z = At(t, tab, Append(x, k))
        BY <4>3
      <4>5. Append(x, k) \in Nodes(t) /\ Len(Append(x, k)) = n
        BY <1>0, <3>1, <4>2, <4>3, Grown
      <4> QED
        BY <3>2, <4>4, <4>5
    <3> HIDE DEF g, up
    <3>5. g[n] = UNION {SidesOf(u, rows) : u \in up}
      BY <3>3, <3>4
    <3> QED
      BY <3>5 DEF up
  <2> HIDE DEF g
  <2> QED
    BY <2>1, <2>2
<1>3. g = F(g)
  BY <1>2
<1>4. level = F(level)
  <2> HIDE DEF F, g
  <2> QED
    BY <1>3
<1>5. \A n \in 0..C : level[n] = IF n = 0 THEN {[row |-> root, at |-> <<>>]}
                                 ELSE UNION {SidesOf(up, rows) : up \in level[n - 1]}
  <2> HIDE DEF level, root
  <2> QED
    BY <1>4
<1> HIDE DEF level, g, F, root
<1>6. \A n \in 0..C : level[n] = g[n]
  <2> DEFINE S == {n \in 0..C : level[n] # g[n]}
  <2> SUFFICES ASSUME S # {} PROVE FALSE
    OBVIOUS
  <2>1. S \in SUBSET Nat
    BY <1>0
  <2>2. PICK m \in S : \A k \in S : m <= k
    <3> HIDE DEF S
    <3> QED
      BY <2>1, LeastExists
  <2>3. m \in 0..C /\ level[m] # g[m] /\ m \in Nat
    BY <1>0
  <2>4. m # 0
    BY <1>2, <1>5, <2>3
  <2>5. m - 1 \in 0..C /\ level[m - 1] = g[m - 1]
    BY <1>0, <2>2, <2>3, <2>4
  <2> QED
    BY <1>2, <1>5, <2>3, <2>4, <2>5
<1>7. UNION {level[n] : n \in 0..C} = {At(t, tab, x) : x \in Nodes(t)}
  <2>1. ASSUME NEW n \in 0..C, NEW z \in level[n] PROVE z \in {At(t, tab, x) : x \in Nodes(t)}
    BY <1>6, <2>1 DEF g
  <2>2. ASSUME NEW x \in Nodes(t) PROVE \E n \in 0..C : At(t, tab, x) \in level[n]
    <3>1. Len(x) \in 0..C /\ x \in Of(Len(x))
      BY <1>0
    <3>2. At(t, tab, x) \in g[Len(x)]
      BY <3>1 DEF g
    <3> QED
      BY <1>6, <3>1, <3>2
  <2> QED
    BY <2>1, <2>2
<1> QED
  BY <1>1, <1>7 DEF root

LEMMA BuildNodeIs ==
  ASSUME NEW t, IsTree(t), DOMAIN t # {}, NEW tab, NEW rows, Holds(rows, t, tab),
         NEW S, Nothing \notin S, PaneSet(t) \subseteq Panes(S)
  PROVE  BuildNode(NodeRow(t, tab, <<>>), rows) = t
<1> DEFINE root == NodeRow(t, tab, <<>>)
           below == Below(root, rows)
           panes == {b \in below : b.row.split # "split"}
<1>0. \A x \in DOMAIN t : t[x] = [kind |-> t[x].kind, session |-> t[x].session]
                          /\ t[x].kind # "split" /\ t[x].session # Nothing
  <2>1. \A x \in DOMAIN t : t[x] \in Panes(S)
    BY DEF PaneSet, Range
  <2> QED
    BY <2>1 DEF Panes
<1>1. below = {At(t, tab, x) : x \in Nodes(t)}
  BY BelowIs
<1>2. DOMAIN t \subseteq Nodes(t)
  BY NodesOfTree
<1>3. \A x : At(t, tab, x).row = NodeRow(t, tab, x) /\ At(t, tab, x).at = x
  BY DEF At
<1>4. \A x \in Nodes(t) : x \in DOMAIN t <=> NodeRow(t, tab, x).split # "split"
  BY <1>0, NodeRowPane
<1>5. ASSUME NEW x \in Nodes(t) PROVE Builds(NodeRow(t, tab, x), rows)
  <2>1. CASE x \in DOMAIN t
    <3>1. NodeRow(t, tab, x).split # "split" /\ NodeRow(t, tab, x).session # Nothing
      BY <1>0, <2>1, NodeRowPane
    <3> QED
      BY <3>1 DEF Builds
  <2>2. CASE x \notin DOMAIN t
    <3> DEFINE a == NodeRow(t, tab, Append(x, 0))
               b == NodeRow(t, tab, Append(x, 1))
    <3>1. Sides(NodeRow(t, tab, x), rows) = {r \in rows : r.parent = {<<tab, x>>}}
      <4> DEFINE up == NodeRow(t, tab, x)
      <4>1. up.name = <<tab, x>>
        BY NodeRowName
      <4> HIDE DEF up
      <4>2. Sides(up, rows) = {r \in rows : r.parent = {<<tab, x>>}}
        BY <4>1 DEF Sides
      <4> QED
        BY <4>2 DEF up
    <3>2. Sides(NodeRow(t, tab, x), rows) = {a, b}
      BY <2>2, <3>1, SidesAre
    <3>3. a # b
      <4>1. x \in Ways
        BY NodesOfTree
      <4>2. a.position = 0 /\ b.position = 1
        BY <4>1, SidesRow
      <4> QED
        BY <4>2
    <3> HIDE DEF a, b
    <3>4. Cardinality(Sides(NodeRow(t, tab, x), rows)) = 2
      BY <3>2, <3>3, Two
    <3> QED
      BY <1>4, <2>2, <3>4 DEF Builds
  <2> QED
    BY <2>1, <2>2
<1> HIDE DEF root, below
<1>6. ~ \E b \in below : ~ Builds(b.row, rows)
  BY <1>1, <1>3, <1>5
<1>7. \A x \in DOMAIN t : At(t, tab, x) \in panes
  BY <1>1, <1>2, <1>3, <1>4
<1>8. \A b \in panes : \E x \in DOMAIN t : b = At(t, tab, x)
  BY <1>1, <1>3, <1>4
<1>9. BuildNode(root, rows) = [x \in {b.at : b \in panes} |-> PaneOf((CHOOSE b \in panes : b.at = x).row)]
  BY <1>6 DEF BuildNode, below
<1> HIDE DEF panes
<1>10. {b.at : b \in panes} = DOMAIN t
  <2>1. ASSUME NEW b \in panes PROVE b.at \in DOMAIN t
    BY <1>3, <1>8
  <2>2. ASSUME NEW x \in DOMAIN t PROVE \E b \in panes : b.at = x
    BY <1>3, <1>7
  <2> QED
    BY <2>1, <2>2
<1>11. ASSUME NEW x \in DOMAIN t PROVE PaneOf((CHOOSE b \in panes : b.at = x).row) = t[x]
  <2>1. (CHOOSE b \in panes : b.at = x) = At(t, tab, x)
    BY <1>3, <1>7, <1>8
  <2>2. PaneOf(NodeRow(t, tab, x)) = t[x]
    BY <1>0, NodeRowPane DEF PaneOf
  <2> QED
    BY <1>3, <2>1, <2>2
<1>12. BuildNode(root, rows) = [x \in DOMAIN t |-> t[x]]
  BY <1>9, <1>10, <1>11
<1> QED
  BY <1>12 DEF root, IsTree

-----------------------------------------------------------------------------
\* Sequences.

LEMMA SeqFacts ==
  ASSUME NEW S, NEW s \in Seq(S)
  PROVE  Len(s) \in Nat /\ DOMAIN s = 1..Len(s) /\ \A i \in DOMAIN s : i \in Nat /\ s[i] \in S
OBVIOUS

LEMMA RemoveAtFacts ==
  ASSUME NEW S, NEW s \in Seq(S), NEW i \in DOMAIN s
  PROVE  /\ RemoveAt(s, i) \in Seq(S) /\ Len(RemoveAt(s, i)) = Len(s) - 1
         /\ \A j \in 1..Len(s) - 1 : RemoveAt(s, i)[j] = IF j < i THEN s[j] ELSE s[j + 1]
<1> DEFINE a == SubSeq(s, 1, i - 1)
           n == i + 1
           b == SubSeq(s, n, Len(s))
           m == i - 1
           one == 1
<1>1. Len(s) \in Nat /\ i \in Nat /\ 1 <= i /\ i <= Len(s) /\ \A j \in 1..Len(s) : s[j] \in S
  OBVIOUS
<1>2. a \in Seq(S) /\ Len(a) = i - 1 /\ \A j \in 1..i - 1 : a[j] = s[j]
  <2>1. one \in Int /\ m \in Int /\ \A j \in one..m : s[j] \in S
    BY <1>1
  <2> HIDE DEF one, m
  <2>2. /\ SubSeq(s, one, m) \in Seq(S)
        /\ Len(SubSeq(s, one, m)) = IF one <= m THEN m - one + 1 ELSE 0
        /\ \A j \in 1..m - one + 1 : SubSeq(s, one, m)[j] = s[one + j - 1]
    BY <2>1, SubSeqProperties
  <2> QED
    BY <1>1, <2>2 DEF one, m
<1>3. b \in Seq(S) /\ Len(b) = Len(s) - i /\ \A j \in 1..Len(s) - i : b[j] = s[i + j]
  <2> DEFINE e == Len(s)
  <2>1. n \in Int /\ e \in Int /\ \A j \in n..e : s[j] \in S
    BY <1>1
  <2> HIDE DEF n, e
  <2>2. /\ SubSeq(s, n, e) \in Seq(S)
        /\ Len(SubSeq(s, n, e)) = IF n <= e THEN e - n + 1 ELSE 0
        /\ \A j \in 1..e - n + 1 : SubSeq(s, n, e)[j] = s[n + j - 1]
    BY <2>1, SubSeqProperties
  <2> QED
    BY <1>1, <2>2 DEF n, e
<1> DEFINE r == a \o b
<1>4. RemoveAt(s, i) = r
  BY DEF RemoveAt
<1> HIDE DEF a, b
<1>5. r \in Seq(S) /\ Len(r) = Len(a) + Len(b)
      /\ \A j \in 1..Len(a) + Len(b) : r[j] = IF j <= Len(a) THEN a[j] ELSE b[j - Len(a)]
  BY <1>2, <1>3, ConcatProperties
<1> HIDE DEF r
<1>6. ASSUME NEW j \in 1..Len(s) - 1 PROVE r[j] = IF j < i THEN s[j] ELSE s[j + 1]
  <2>0. j \in Nat /\ j \in 1..Len(a) + Len(b)
    BY <1>1, <1>2, <1>3
  <2>1. CASE j < i
    <3>1. j \in 1..i - 1 /\ j <= Len(a)
      BY <1>1, <1>2, <2>0, <2>1
    <3> QED
      BY <1>2, <1>5, <2>0, <2>1, <3>1
  <2>2. CASE i <= j
    <3>1. r[j] = b[j - Len(a)]
      BY <1>1, <1>2, <1>5, <2>0, <2>2
    <3>2. j - Len(a) \in 1..Len(s) - i /\ i + (j - Len(a)) = j + 1
      BY <1>1, <1>2, <2>0, <2>2
    <3>3. b[j - Len(a)] = s[i + (j - Len(a))]
      BY <1>3, <3>2
    <3> QED
      BY <1>1, <2>0, <2>2, <3>1, <3>2, <3>3
  <2> QED
    BY <1>1, <2>0, <2>1, <2>2
<1> QED
  BY <1>1, <1>2, <1>3, <1>4, <1>5, <1>6

LEMMA InsertAtFacts ==
  ASSUME NEW S, NEW s \in Seq(S), NEW i \in 1..Len(s) + 1, NEW e \in S
  PROVE  /\ InsertAt(s, i, e) \in Seq(S) /\ Len(InsertAt(s, i, e)) = Len(s) + 1
         /\ \A j \in 1..Len(s) + 1 :
              InsertAt(s, i, e)[j] = IF j < i THEN s[j] ELSE IF j = i THEN e ELSE s[j - 1]
<1> DEFINE a == SubSeq(s, 1, i - 1)
           b == SubSeq(s, i, Len(s))
           m == i - 1
           one == 1
<1>1. Len(s) \in Nat /\ i \in Nat /\ 1 <= i /\ i <= Len(s) + 1 /\ \A j \in 1..Len(s) : s[j] \in S
  OBVIOUS
<1>2. a \in Seq(S) /\ Len(a) = i - 1 /\ \A j \in 1..i - 1 : a[j] = s[j]
  <2>1. one \in Int /\ m \in Int /\ \A j \in one..m : s[j] \in S
    BY <1>1
  <2> HIDE DEF one, m
  <2>2. /\ SubSeq(s, one, m) \in Seq(S)
        /\ Len(SubSeq(s, one, m)) = IF one <= m THEN m - one + 1 ELSE 0
        /\ \A j \in 1..m - one + 1 : SubSeq(s, one, m)[j] = s[one + j - 1]
    BY <2>1, SubSeqProperties
  <2> QED
    BY <1>1, <2>2 DEF one, m
<1>3. b \in Seq(S) /\ Len(b) = Len(s) - i + 1 /\ \A j \in 1..Len(s) - i + 1 : b[j] = s[i + j - 1]
  <2> DEFINE z == Len(s)
  <2>1. i \in Int /\ z \in Int /\ \A j \in i..z : s[j] \in S
    BY <1>1
  <2> HIDE DEF z
  <2>2. /\ SubSeq(s, i, z) \in Seq(S)
        /\ Len(SubSeq(s, i, z)) = IF i <= z THEN z - i + 1 ELSE 0
        /\ \A j \in 1..z - i + 1 : SubSeq(s, i, z)[j] = s[i + j - 1]
    BY <2>1, SubSeqProperties
  <2> QED
    BY <1>1, <2>2 DEF z
<1> DEFINE c == Append(a, e)
<1>4. InsertAt(s, i, e) = c \o b
  <2>1. InsertAt(s, i, e) = (a \o <<e>>) \o b
    BY DEF InsertAt
  <2>2. a \o <<e>> = c
    BY <1>2, AppendIsConcat
  <2> QED
    BY <2>1, <2>2
<1>5. c \in Seq(S) /\ Len(c) = i /\ (\A j \in 1..i - 1 : c[j] = s[j]) /\ c[i] = e
  <2> HIDE DEF a
  <2> QED
    BY <1>1, <1>2
<1> HIDE DEF a, b, c
<1> DEFINE r == c \o b
<1>6. r \in Seq(S) /\ Len(r) = Len(c) + Len(b)
      /\ \A j \in 1..Len(c) + Len(b) : r[j] = IF j <= Len(c) THEN c[j] ELSE b[j - Len(c)]
  BY <1>3, <1>5, ConcatProperties
<1> HIDE DEF r
<1>7. ASSUME NEW j \in 1..Len(s) + 1
      PROVE  r[j] = IF j < i THEN s[j] ELSE IF j = i THEN e ELSE s[j - 1]
  <2>0. j \in Nat /\ j \in 1..Len(c) + Len(b)
    BY <1>1, <1>3, <1>5
  <2>1. CASE j <= i
    <3>1. r[j] = c[j]
      BY <1>5, <1>6, <2>0, <2>1
    <3> QED
      BY <1>1, <1>5, <2>0, <2>1, <3>1
  <2>2. CASE i < j
    <3>1. r[j] = b[j - Len(c)]
      BY <1>1, <1>5, <1>6, <2>0, <2>2
    <3>2. j - Len(c) \in 1..Len(s) - i + 1 /\ i + (j - Len(c)) - 1 = j - 1
      BY <1>1, <1>5, <2>0, <2>2
    <3>3. b[j - Len(c)] = s[i + (j - Len(c)) - 1]
      BY <1>3, <3>2
    <3> QED
      BY <1>1, <2>0, <2>2, <3>1, <3>2, <3>3
  <2> QED
    BY <1>1, <2>0, <2>1, <2>2
<1> QED
  BY <1>1, <1>3, <1>4, <1>5, <1>6, <1>7 DEF r

LEMMA PrependFacts ==
  ASSUME NEW S, NEW s \in Seq(S), NEW e \in S
  PROVE  /\ <<e>> \o s \in Seq(S) /\ Len(<<e>> \o s) = Len(s) + 1
         /\ \A j \in 1..Len(s) + 1 : (<<e>> \o s)[j] = IF j = 1 THEN e ELSE s[j - 1]
<1> DEFINE a == <<e>>
           r == a \o s
<1>1. a \in Seq(S) /\ Len(a) = 1 /\ a[1] = e
  OBVIOUS
<1> HIDE DEF a
<1>2. Len(s) \in Nat
  OBVIOUS
<1>3. r \in Seq(S) /\ Len(r) = Len(a) + Len(s)
      /\ \A j \in 1..Len(a) + Len(s) : r[j] = IF j <= Len(a) THEN a[j] ELSE s[j - Len(a)]
  BY <1>1, ConcatProperties
<1> HIDE DEF r
<1>4. \A j \in 1..Len(s) + 1 : r[j] = IF j = 1 THEN e ELSE s[j - 1]
  BY <1>1, <1>2, <1>3
<1> QED
  BY <1>1, <1>2, <1>3, <1>4 DEF a, r

LEMMA FirstInFacts ==
  ASSUME NEW S \in SUBSET Nat
  PROVE  S # {} => FirstIn(S) \in S
<1> SUFFICES ASSUME S # {} PROVE FirstIn(S) \in S
  OBVIOUS
<1>1. \E m \in S : \A k \in S : m <= k
  BY LeastExists
<1> QED
  BY <1>1 DEF FirstIn

-----------------------------------------------------------------------------
(***************************************************************************)
(* Sound layouts: each name is held once, and so is each pane.              *)
(***************************************************************************)

Trees == {t \in UNION {[D -> Panes(Sessions)] : D \in SUBSET Ways} : IsPlan(DOMAIN t) /\ IsInjective(t)}
Names == Nat \cup {Nothing}
Pages == Views \cup {ContainersView}
SideKinds == {"diff", "files", "agents", "tunnels", "queue"}
SidePanels == [kind : SideKinds, session : Sessions \cup {Nothing}] \cup {Nothing}

TabFields == [id : Nat, view : Pages \cup {Nothing}, root : Trees, pane : Panes(Sessions) \cup {Nothing}]
Tabs == {tab \in TabFields : IF tab.view = Nothing THEN DOMAIN tab.root # {} /\ tab.pane \in Panes(Sessions)
                             ELSE tab.root = NoPanes}
Spaces == [id : Nat, docker : BOOLEAN, tabs : Seq(Tabs), tab : Names, side : SidePanels, expanded : BOOLEAN]

Typed(L) == L = [ws |-> L.ws, active |-> L.active] /\ L.ws \in Seq(Spaces) /\ L.active \in Names

Apart(L) ==
  /\ \A i, k \in DOMAIN L.ws : L.ws[i].id = L.ws[k].id => i = k
  /\ \A p, q \in Places(L) : p # q =>
       /\ TabAt(L, p).id # TabAt(L, q).id
       /\ PaneSet(TabAt(L, p).root) \cap PaneSet(TabAt(L, q).root) = {}

Sound(L) == Typed(L) /\ Apart(L)

LEMMA TreeFacts ==
  ASSUME NEW t
  PROVE  t \in Trees <=> IsTree(t) /\ IsInjective(t) /\ PaneSet(t) \subseteq Panes(Sessions)
<1>1. ASSUME t \in Trees PROVE IsTree(t) /\ IsInjective(t) /\ PaneSet(t) \subseteq Panes(Sessions)
  <2>1. PICK D \in SUBSET Ways : t \in [D -> Panes(Sessions)]
    BY <1>1 DEF Trees
  <2>2. IsPlan(DOMAIN t) /\ IsInjective(t)
    BY <1>1 DEF Trees
  <2> QED
    BY <2>1, <2>2 DEF IsTree, PaneSet, Range
<1>2. ASSUME IsTree(t), IsInjective(t), PaneSet(t) \subseteq Panes(Sessions) PROVE t \in Trees
  <2>1. DOMAIN t \in SUBSET Ways /\ IsPlan(DOMAIN t) /\ t = [p \in DOMAIN t |-> t[p]]
    BY <1>2 DEF IsTree, IsPlan
  <2>2. \A p \in DOMAIN t : t[p] \in Panes(Sessions)
    BY <1>2 DEF PaneSet, Range
  <2> DEFINE D == DOMAIN t
  <2>3. t \in [D -> Panes(Sessions)]
    BY <2>1, <2>2
  <2>4. t \in UNION {[E -> Panes(Sessions)] : E \in SUBSET Ways}
    <3> HIDE DEF D
    <3>1. D \in SUBSET Ways
      BY <2>1 DEF D
    <3> QED
      BY <2>3, <3>1
  <2> QED
    BY <1>2, <2>1, <2>4 DEF Trees
<1> QED
  BY <1>1, <1>2

LEMMA NoPanesTree == NoPanes \in Trees /\ PaneSet(NoPanes) = {} /\ DOMAIN NoPanes = {}
<1>1. DOMAIN NoPanes = {} /\ NoPanes = [p \in DOMAIN NoPanes |-> NoPanes[p]]
  BY DEF NoPanes
<1>2. PaneSet(NoPanes) = {}
  BY <1>1 DEF PaneSet, Range
<1>3. IsPlan({})
  BY FS_EmptySet DEF IsPlan
<1>4. IsTree(NoPanes) /\ IsInjective(NoPanes)
  BY <1>1, <1>3 DEF IsTree, IsInjective
<1> QED
  BY <1>1, <1>2, <1>4, TreeFacts

LEMMA LoneTree ==
  ASSUME NEW pane \in Panes(Sessions)
  PROVE  Lone(pane) \in Trees /\ PaneSet(Lone(pane)) = {pane} /\ DOMAIN Lone(pane) # {}
<1> DEFINE t == Lone(pane)
<1>1. DOMAIN t = {<<>>} /\ t = [p \in DOMAIN t |-> t[p]] /\ t[<<>>] = pane
  BY DEF Lone
<1> HIDE DEF t
<1>2. PaneSet(t) = {pane}
  BY <1>1 DEF PaneSet, Range
<1>3. IsPlan({<<>>})
  <2>1. <<>> \in Ways /\ DOMAIN <<>> = {}
    BY DEF Ways
  <2>2. IsFiniteSet({<<>>})
    BY FS_Singleton
  <2> QED
    BY <2>1, <2>2 DEF IsPlan
<1>4. IsTree(t) /\ IsInjective(t)
  BY <1>1, <1>3 DEF IsTree, IsInjective
<1>5. t \in Trees
  BY <1>2, <1>4, TreeFacts
<1> QED
  BY <1>1, <1>2, <1>5 DEF t

LEMMA TabFacts ==
  ASSUME NEW tab \in Tabs
  PROVE  /\ tab = [id |-> tab.id, view |-> tab.view, root |-> tab.root, pane |-> tab.pane]
         /\ tab.id \in Nat /\ tab.view \in Pages \cup {Nothing} /\ tab.root \in Trees
         /\ tab.pane \in Panes(Sessions) \cup {Nothing}
         /\ tab.view = Nothing => DOMAIN tab.root # {} /\ tab.pane \in Panes(Sessions)
         /\ tab.view # Nothing => tab.root = NoPanes
BY DEF Tabs, TabFields

LEMMA SpaceFacts ==
  ASSUME NEW w \in Spaces
  PROVE  /\ w = [id |-> w.id, docker |-> w.docker, tabs |-> w.tabs, tab |-> w.tab,
                 side |-> w.side, expanded |-> w.expanded]
         /\ w.id \in Nat /\ w.docker \in BOOLEAN /\ w.tabs \in Seq(Tabs) /\ w.tab \in Names
         /\ w.side \in SidePanels /\ w.expanded \in BOOLEAN
         /\ Len(w.tabs) \in Nat /\ DOMAIN w.tabs = 1..Len(w.tabs)
         /\ \A j \in DOMAIN w.tabs : w.tabs[j] \in Tabs
BY DEF Spaces

LEMMA LayoutFacts ==
  ASSUME NEW L, Typed(L)
  PROVE  /\ L.ws \in Seq(Spaces) /\ Len(L.ws) \in Nat /\ DOMAIN L.ws = 1..Len(L.ws)
         /\ \A i \in DOMAIN L.ws : i \in Nat /\ L.ws[i] \in Spaces
BY DEF Typed

LEMMA PlaceFacts ==
  ASSUME NEW L
  PROVE  /\ \A i \in DOMAIN L.ws : \A j \in DOMAIN L.ws[i].tabs : <<i, j>> \in Places(L)
         /\ \A p \in Places(L) : /\ p = <<p[1], p[2]>>
                                 /\ p[1] \in DOMAIN L.ws /\ p[2] \in DOMAIN L.ws[p[1]].tabs
<1>1. \A i \in DOMAIN L.ws : \A j \in DOMAIN L.ws[i].tabs : <<i, j>> \in Places(L)
  <2> SUFFICES ASSUME NEW i \in DOMAIN L.ws, NEW j \in DOMAIN L.ws[i].tabs PROVE <<i, j>> \in Places(L)
    OBVIOUS
  <2>1. <<i, j>> \in {<<i, k>> : k \in DOMAIN L.ws[i].tabs}
    OBVIOUS
  <2> QED
    BY <2>1 DEF Places
<1>2. ASSUME NEW p \in Places(L)
      PROVE  p = <<p[1], p[2]>> /\ p[1] \in DOMAIN L.ws /\ p[2] \in DOMAIN L.ws[p[1]].tabs
  <2>1. PICK i \in DOMAIN L.ws : p \in {<<i, k>> : k \in DOMAIN L.ws[i].tabs}
    BY DEF Places
  <2>2. PICK k \in DOMAIN L.ws[i].tabs : p = <<i, k>>
    BY <2>1
  <2> QED
    BY <2>2
<1> QED
  BY <1>1, <1>2

LEMMA TabAtFacts ==
  ASSUME NEW L, Typed(L), NEW p \in Places(L)
  PROVE  /\ TabAt(L, p) = L.ws[p[1]].tabs[p[2]] /\ TabAt(L, p) \in Tabs
         /\ p[1] \in DOMAIN L.ws /\ p[2] \in DOMAIN L.ws[p[1]].tabs
         /\ p[1] \in Nat /\ p[2] \in Nat
<1>1. p[1] \in DOMAIN L.ws /\ p[2] \in DOMAIN L.ws[p[1]].tabs
  BY PlaceFacts
<1>2. L.ws[p[1]] \in Spaces /\ p[1] \in Nat
  BY <1>1, LayoutFacts
<1>3. L.ws[p[1]].tabs[p[2]] \in Tabs /\ p[2] \in Nat
  BY <1>1, <1>2, SpaceFacts
<1> QED
  BY <1>1, <1>2, <1>3 DEF TabAt

LEMMA PanesFacts ==
  ASSUME NEW L, NEW pane
  PROVE  pane \in PanesOf(L) <=> \E p \in Places(L) : pane \in PaneSet(TabAt(L, p).root)
BY DEF PanesOf

Nowhere == <<0, 0>>

LEMMA NowhereFacts ==
  ASSUME NEW L, Typed(L) PROVE Nowhere \notin Places(L)
<1> SUFFICES ASSUME Nowhere \in Places(L) PROVE FALSE
  OBVIOUS
<1>1. Nowhere[1] \in DOMAIN L.ws
  BY PlaceFacts
<1>2. 0 \in DOMAIN L.ws
  BY <1>1 DEF Nowhere
<1> QED
  BY <1>2, LayoutFacts

\* M comes from L: each of its workspaces and tabs is one of L, or is new; each pane of a
\* tab was in it, or is new and at `at`.
Comes(L, M, f, g, at) ==
  /\ \A i, k \in DOMAIN M.ws : g[i] = g[k] => i = k
  /\ \A i \in DOMAIN M.ws :
       \/ g[i] \in DOMAIN L.ws /\ M.ws[i].id = L.ws[g[i]].id
       \/ g[i] = 0 /\ M.ws[i].id \notin WsIds(L)
  /\ \A p, q \in Places(M) : f[p] = f[q] => p = q
  /\ \A p \in Places(M) :
       \/ f[p] \in Places(L) /\ TabAt(M, p).id = TabAt(L, f[p]).id
       \/ f[p] = Nowhere /\ TabAt(M, p).id \notin TabIds(L)
  /\ \A p \in Places(M) : \A x \in PaneSet(TabAt(M, p).root) :
       \/ f[p] \in Places(L) /\ x \in PaneSet(TabAt(L, f[p]).root)
       \/ p = at /\ x \notin PanesOf(L)

LEMMA Derived ==
  ASSUME NEW L, Sound(L), NEW M, Typed(M), NEW f, NEW g, NEW at, Comes(L, M, f, g, at)
  PROVE  Sound(M)
<1>1. ASSUME NEW i \in DOMAIN M.ws, NEW k \in DOMAIN M.ws, M.ws[i].id = M.ws[k].id PROVE i = k
  <2>1. \A m \in DOMAIN L.ws : L.ws[m].id \in WsIds(L)
    BY DEF WsIds
  <2>2. g[i] = g[k]
    BY <1>1, <2>1 DEF Sound, Apart, Comes
  <2> QED
    BY <2>2 DEF Comes
<1>2. ASSUME NEW p \in Places(M), NEW q \in Places(M), p # q
      PROVE  /\ TabAt(M, p).id # TabAt(M, q).id
             /\ PaneSet(TabAt(M, p).root) \cap PaneSet(TabAt(M, q).root) = {}
  <2>0. f[p] # f[q]
    BY <1>2 DEF Comes
  <2>1. \A r \in Places(L) : TabAt(L, r).id \in TabIds(L)
    <3> SUFFICES ASSUME NEW r \in Places(L) PROVE TabAt(L, r).id \in TabIds(L)
      OBVIOUS
    <3>1. r[1] \in DOMAIN L.ws /\ r[2] \in DOMAIN L.ws[r[1]].tabs
      BY PlaceFacts
    <3>2. TabAt(L, r).id \in {L.ws[r[1]].tabs[j].id : j \in DOMAIN L.ws[r[1]].tabs}
      BY <3>1 DEF TabAt
    <3> QED
      BY <3>1, <3>2 DEF TabIds
  <2>2. TabAt(M, p).id # TabAt(M, q).id
    BY <2>0, <2>1 DEF Sound, Apart, Comes
  <2>3. ASSUME NEW x \in PaneSet(TabAt(M, p).root), x \in PaneSet(TabAt(M, q).root) PROVE FALSE
    <3>1. \A r \in Places(L) : x \in PaneSet(TabAt(L, r).root) => x \in PanesOf(L)
      BY PanesFacts
    <3>2. p # at \/ q # at
      BY <1>2
    <3>3. f[p] \in Places(L) /\ f[q] \in Places(L)
          /\ x \in PaneSet(TabAt(L, f[p]).root) /\ x \in PaneSet(TabAt(L, f[q]).root)
      BY <2>3, <3>1, <3>2 DEF Comes
    <3> QED
      BY <2>0, <3>3 DEF Sound, Apart
  <2> QED
    BY <2>2, <2>3
<1> QED
  BY <1>1, <1>2 DEF Sound, Apart

\* The panes that come to it
LEMMA DerivedPanes ==
  ASSUME NEW L, NEW M, NEW f, NEW S,
         \A p \in Places(M) : \A x \in PaneSet(TabAt(M, p).root) :
           (f[p] \in Places(L) /\ x \in PaneSet(TabAt(L, f[p]).root)) \/ x \in S
  PROVE  PanesOf(M) \subseteq PanesOf(L) \cup S
BY PanesFacts

-----------------------------------------------------------------------------
\* What is active exists.

TabFocused(tab) == IF DOMAIN tab.root = {} THEN tab.pane = Nothing ELSE tab.pane \in PaneSet(tab.root)
SpaceFocused(w) ==
  /\ IF w.tabs = <<>> THEN w.tab = Nothing ELSE \E j \in DOMAIN w.tabs : w.tabs[j].id = w.tab
  /\ \A j \in DOMAIN w.tabs : TabFocused(w.tabs[j])
Focused(L) == L.active \in WsIds(L) \cup {Nothing} /\ \A i \in DOMAIN L.ws : SpaceFocused(L.ws[i])

\* A method makes a sound layout of a sound one, with the panes S at most in addition; what
\* is active is there afterwards if it was.
Becomes(L, M, S) ==
  Sound(M) /\ PanesOf(M) \subseteq PanesOf(L) \cup S /\ (Focused(L) => Focused(M))

LEMMA BecomesTwice ==
  ASSUME NEW L, NEW M, NEW N, NEW S, Becomes(L, M, S), Becomes(M, N, {}) PROVE Becomes(L, N, S)
BY DEF Becomes

LEMMA BecomesItself ==
  ASSUME NEW L, Sound(L), NEW S PROVE Becomes(L, L, S)
BY DEF Becomes

-----------------------------------------------------------------------------
\* Methods that leave the tabs and their trees as they are.

SameTabs(v, w) ==
  /\ w.id = v.id /\ DOMAIN w.tabs = DOMAIN v.tabs
  /\ \A j \in DOMAIN v.tabs : w.tabs[j].id = v.tabs[j].id /\ w.tabs[j].root = v.tabs[j].root

Alike(L, M) == DOMAIN M.ws = DOMAIN L.ws /\ \A i \in DOMAIN L.ws : SameTabs(L.ws[i], M.ws[i])

LEMMA TabIdsFacts ==
  ASSUME NEW L, NEW x
  PROVE  x \in TabIds(L) <=> \E p \in Places(L) : x = TabAt(L, p).id
<1>1. ASSUME NEW i \in DOMAIN L.ws, NEW j \in DOMAIN L.ws[i].tabs, x = L.ws[i].tabs[j].id
      PROVE  \E p \in Places(L) : x = TabAt(L, p).id
  <2>1. <<i, j>> \in Places(L) /\ TabAt(L, <<i, j>>) = L.ws[i].tabs[j]
    BY PlaceFacts DEF TabAt
  <2> QED
    BY <1>1, <2>1
<1>2. ASSUME NEW p \in Places(L), x = TabAt(L, p).id
      PROVE  \E i \in DOMAIN L.ws : \E j \in DOMAIN L.ws[i].tabs : x = L.ws[i].tabs[j].id
  BY <1>2, PlaceFacts DEF TabAt
<1>3. x \in TabIds(L) <=> \E i \in DOMAIN L.ws : x \in {L.ws[i].tabs[j].id : j \in DOMAIN L.ws[i].tabs}
  BY DEF TabIds
<1>4. \A i \in DOMAIN L.ws : x \in {L.ws[i].tabs[j].id : j \in DOMAIN L.ws[i].tabs}
                             <=> \E j \in DOMAIN L.ws[i].tabs : x = L.ws[i].tabs[j].id
  OBVIOUS
<1> QED
  BY <1>1, <1>2, <1>3, <1>4

LEMMA AlikeFacts ==
  ASSUME NEW L, NEW M, Alike(L, M)
  PROVE  /\ Places(M) = Places(L) /\ WsIds(M) = WsIds(L) /\ TabIds(M) = TabIds(L) /\ PanesOf(M) = PanesOf(L)
         /\ \A p \in Places(L) : TabAt(M, p).id = TabAt(L, p).id /\ TabAt(M, p).root = TabAt(L, p).root
<1>1. Places(M) = Places(L)
  <2>1. \A i \in DOMAIN L.ws : DOMAIN M.ws[i].tabs = DOMAIN L.ws[i].tabs
    BY DEF Alike, SameTabs
  <2> QED
    BY <2>1 DEF Alike, Places
<1>2. WsIds(M) = WsIds(L)
  BY DEF Alike, SameTabs, WsIds
<1>3. ASSUME NEW p \in Places(L)
      PROVE  TabAt(M, p).id = TabAt(L, p).id /\ TabAt(M, p).root = TabAt(L, p).root
  <2>1. p[1] \in DOMAIN L.ws /\ p[2] \in DOMAIN L.ws[p[1]].tabs
    BY PlaceFacts
  <2> QED
    BY <2>1 DEF Alike, SameTabs, TabAt
<1>4. TabIds(M) = TabIds(L)
  <2>1. \A x : x \in TabIds(M) <=> x \in TabIds(L)
    BY <1>1, <1>3, TabIdsFacts
  <2> QED
    BY <2>1
<1>5. PanesOf(M) = PanesOf(L)
  <2>1. \A x : x \in PanesOf(M) <=> x \in PanesOf(L)
    BY <1>1, <1>3, PanesFacts
  <2> QED
    BY <2>1
<1> QED
  BY <1>1, <1>2, <1>3, <1>4, <1>5

LEMMA AlikeSound ==
  ASSUME NEW L, NEW M, Sound(L), Typed(M), Alike(L, M) PROVE Sound(M) /\ PanesOf(M) = PanesOf(L)
<1>1. \A i, k \in DOMAIN M.ws : M.ws[i].id = M.ws[k].id => i = k
  BY DEF Sound, Apart, Alike, SameTabs
<1>2. \A p, q \in Places(M) : p # q =>
        /\ TabAt(M, p).id # TabAt(M, q).id
        /\ PaneSet(TabAt(M, p).root) \cap PaneSet(TabAt(M, q).root) = {}
  BY AlikeFacts DEF Sound, Apart
<1> QED
  BY <1>1, <1>2, AlikeFacts DEF Sound, Apart

\* The two together.
LEMMA AlikeBecomes ==
  ASSUME NEW L, NEW M, Sound(L), Typed(M), Alike(L, M), NEW S,
         Focused(L) => M.active \in WsIds(L) \cup {Nothing} /\ \A i \in DOMAIN L.ws : SpaceFocused(M.ws[i])
  PROVE  Becomes(L, M, S)
<1>1. Focused(L) => Focused(M)
  BY AlikeFacts DEF Alike, Focused
<1> QED
  BY <1>1, AlikeSound DEF Becomes

-----------------------------------------------------------------------------
\* One workspace changes.

LEMMA WithSpaceFacts ==
  ASSUME NEW L, Typed(L), NEW i \in DOMAIN L.ws, NEW w \in Spaces
  PROVE  LET M == WithSpace(L, i, w)
         IN  /\ Typed(M) /\ M.active = L.active /\ DOMAIN M.ws = DOMAIN L.ws
             /\ \A k \in DOMAIN L.ws : M.ws[k] = IF k = i THEN w ELSE L.ws[k]
<1> DEFINE M == WithSpace(L, i, w)
           seq == [L.ws EXCEPT ![i] = w]
<1>1. M.ws = seq /\ M.active = L.active /\ M = [ws |-> M.ws, active |-> M.active]
  BY DEF WithSpace
<1>2. seq \in Seq(Spaces) /\ DOMAIN seq = DOMAIN L.ws
      /\ \A k \in DOMAIN L.ws : seq[k] = IF k = i THEN w ELSE L.ws[k]
  <2>1. L.ws \in Seq(Spaces)
    BY LayoutFacts
  <2> QED
    BY <2>1
<1> HIDE DEF seq, M
<1>3. Typed(M)
  BY <1>1, <1>2 DEF Typed
<1> QED
  BY <1>1, <1>2, <1>3 DEF M

\* Without a change of the tabs.
LEMMA WithSpaceAlike ==
  ASSUME NEW L, Sound(L), NEW i \in DOMAIN L.ws, NEW w \in Spaces, SameTabs(L.ws[i], w), NEW S,
         SpaceFocused(L.ws[i]) => SpaceFocused(w)
  PROVE  Becomes(L, WithSpace(L, i, w), S)
<1> DEFINE M == WithSpace(L, i, w)
<1>0. Typed(L)
  BY DEF Sound
<1>1. /\ Typed(M) /\ M.active = L.active /\ DOMAIN M.ws = DOMAIN L.ws
      /\ \A k \in DOMAIN L.ws : M.ws[k] = IF k = i THEN w ELSE L.ws[k]
  BY <1>0, WithSpaceFacts
<1> HIDE DEF M
<1>2. Alike(L, M)
  BY <1>1 DEF Alike, SameTabs
<1>3. Focused(L) => M.active \in WsIds(L) \cup {Nothing} /\ \A k \in DOMAIN L.ws : SpaceFocused(M.ws[k])
  BY <1>1 DEF Focused
<1>4. Becomes(L, M, S)
  BY <1>1, <1>2, <1>3, AlikeBecomes
<1> QED
  BY <1>4 DEF M

\* Its tabs change: tab j was h[j], or is new and at h[j] = 0; a pane was in the tab, or is
\* new and in tab `at`.
TabsCome(L, i, w, h, at, S) ==
  /\ h \in [DOMAIN w.tabs -> Nat]
  /\ \A j, k \in DOMAIN w.tabs : h[j] = h[k] => j = k
  /\ \A j \in DOMAIN w.tabs :
       \/ h[j] \in DOMAIN L.ws[i].tabs /\ w.tabs[j].id = L.ws[i].tabs[h[j]].id
       \/ h[j] = 0 /\ w.tabs[j].id \notin TabIds(L)
  /\ \A j \in DOMAIN w.tabs : \A x \in PaneSet(w.tabs[j].root) :
       \/ h[j] \in DOMAIN L.ws[i].tabs /\ x \in PaneSet(L.ws[i].tabs[h[j]].root)
       \/ j = at /\ x \in S /\ x \notin PanesOf(L)

LEMMA WithSpaceDerived ==
  ASSUME NEW L, Sound(L), NEW i \in DOMAIN L.ws, NEW w \in Spaces, w.id = L.ws[i].id,
         NEW h, NEW at, NEW S, TabsCome(L, i, w, h, at, S)
  PROVE  /\ Sound(WithSpace(L, i, w)) /\ PanesOf(WithSpace(L, i, w)) \subseteq PanesOf(L) \cup S
         /\ Focused(L) /\ SpaceFocused(w) => Focused(WithSpace(L, i, w))
<1> USE DEF TabsCome
<1> DEFINE M == WithSpace(L, i, w)
           g == [k \in DOMAIN L.ws |-> k]
           f == [p \in Places(M) |-> IF p[1] # i THEN p
                                     ELSE IF h[p[2]] = 0 THEN Nowhere ELSE <<i, h[p[2]]>>]
<1>0. Typed(L)
  BY DEF Sound
<1>1. /\ Typed(M) /\ M.active = L.active /\ DOMAIN M.ws = DOMAIN L.ws
      /\ \A k \in DOMAIN L.ws : M.ws[k] = IF k = i THEN w ELSE L.ws[k]
  BY <1>0, WithSpaceFacts
<1> HIDE DEF M
<1>2. \A p \in Places(M) :
        /\ p = <<p[1], p[2]>> /\ p[1] \in DOMAIN L.ws
        /\ p[1] # i => p \in Places(L) /\ TabAt(M, p) = TabAt(L, p)
        /\ p[1] = i => p[2] \in DOMAIN w.tabs /\ TabAt(M, p) = w.tabs[p[2]]
  <2> SUFFICES ASSUME NEW p \in Places(M)
               PROVE  /\ p = <<p[1], p[2]>> /\ p[1] \in DOMAIN L.ws
                      /\ p[1] # i => p \in Places(L) /\ TabAt(M, p) = TabAt(L, p)
                      /\ p[1] = i => p[2] \in DOMAIN w.tabs /\ TabAt(M, p) = w.tabs[p[2]]
    OBVIOUS
  <2>1. p = <<p[1], p[2]>> /\ p[1] \in DOMAIN M.ws /\ p[2] \in DOMAIN M.ws[p[1]].tabs
    BY PlaceFacts
  <2>2. ASSUME p[1] # i PROVE p \in Places(L) /\ TabAt(M, p) = TabAt(L, p)
    <3>1. M.ws[p[1]] = L.ws[p[1]]
      BY <1>1, <2>1, <2>2
    <3>2. <<p[1], p[2]>> \in Places(L)
      BY <1>1, <2>1, <3>1, PlaceFacts
    <3> QED
      BY <2>1, <3>1, <3>2 DEF TabAt
  <2>3. ASSUME p[1] = i PROVE p[2] \in DOMAIN w.tabs /\ TabAt(M, p) = w.tabs[p[2]]
    BY <1>1, <2>1, <2>3 DEF TabAt
  <2> QED
    BY <1>1, <2>1, <2>2, <2>3
<1>3. \A j \in DOMAIN w.tabs :
        h[j] # 0 => <<i, h[j]>> \in Places(L) /\ TabAt(L, <<i, h[j]>>) = L.ws[i].tabs[h[j]]
  BY PlaceFacts DEF TabAt
<1>4. Nowhere \notin Places(L)
  BY <1>0, NowhereFacts
<1>5. \A j \in DOMAIN w.tabs : h[j] = 0 <=> h[j] \notin DOMAIN L.ws[i].tabs
  <2>1. L.ws[i].tabs \in Seq(Tabs)
    BY <1>0, LayoutFacts, SpaceFacts
  <2>2. 0 \notin DOMAIN L.ws[i].tabs
    BY <2>1
  <2> QED
    BY <2>2
<1>6. ASSUME NEW p \in Places(M), p[1] # i
      PROVE  f[p] = p /\ p \in Places(L) /\ TabAt(M, p) = TabAt(L, p)
  <2>1. f[p] = p
    BY <1>6
  <2> QED
    BY <1>2, <1>6, <2>1
<1>6a. ASSUME NEW p \in Places(M), p[1] = i
       PROVE  /\ p = <<i, p[2]>> /\ p[2] \in DOMAIN w.tabs /\ TabAt(M, p) = w.tabs[p[2]]
              /\ h[p[2]] \in Nat
  BY <1>2, <1>6a
<1>6b. ASSUME NEW p \in Places(M), p[1] = i, h[p[2]] = 0 PROVE f[p] = Nowhere
  BY <1>6b
<1>6c. ASSUME NEW p \in Places(M), p[1] = i, h[p[2]] # 0
       PROVE  /\ f[p] = <<i, h[p[2]]>> /\ f[p] \in Places(L) /\ f[p][1] = i /\ f[p][2] = h[p[2]]
              /\ TabAt(L, f[p]) = L.ws[i].tabs[h[p[2]]]
  <2>1. f[p] = <<i, h[p[2]]>>
    BY <1>6c
  <2> HIDE DEF f
  <2>2. <<i, h[p[2]]>> \in Places(L) /\ TabAt(L, <<i, h[p[2]]>>) = L.ws[i].tabs[h[p[2]]]
    BY <1>3, <1>6a, <1>6c
  <2> QED
    BY <2>1, <2>2
<1> HIDE DEF f
<1>7. ASSUME NEW p \in Places(M), NEW q \in Places(M), f[p] = f[q] PROVE p = q
  <2>1. ASSUME NEW r \in Places(M), NEW s \in Places(M), r[1] = i, s[1] # i, f[r] = f[s] PROVE FALSE
    <3>1. f[s] = s /\ f[s] \in Places(L) /\ s[1] # i
      BY <1>6, <2>1
    <3>2. CASE h[r[2]] = 0
      <4>1. f[r] = Nowhere
        BY <1>6b, <2>1, <3>2
      <4> QED
        BY <1>4, <2>1, <3>1, <4>1
    <3>3. CASE h[r[2]] # 0
      <4>1. f[r][1] = i
        BY <1>6c, <2>1, <3>3
      <4> QED
        BY <2>1, <3>1, <4>1
    <3> QED
      BY <3>2, <3>3
  <2>2. CASE p[1] # i /\ q[1] # i
    <3>1. f[p] = p /\ f[q] = q
      BY <1>6, <2>2
    <3> QED
      BY <1>7, <3>1
  <2>3. CASE p[1] = i /\ q[1] = i
    <3>1. p = <<i, p[2]>> /\ q = <<i, q[2]>> /\ p[2] \in DOMAIN w.tabs /\ q[2] \in DOMAIN w.tabs
      BY <1>6a, <2>3
    <3>2. h[p[2]] = h[q[2]]
      <4>1. CASE h[p[2]] = 0
        <5>1. f[p] = Nowhere
          BY <1>6b, <2>3, <4>1
        <5>2. h[q[2]] # 0 => f[q] \in Places(L)
          BY <1>6c, <2>3
        <5> QED
          BY <1>4, <1>7, <4>1, <5>1, <5>2
      <4>2. CASE h[q[2]] = 0
        <5>1. f[q] = Nowhere
          BY <1>6b, <2>3, <4>2
        <5>2. h[p[2]] # 0 => f[p] \in Places(L)
          BY <1>6c, <2>3
        <5> QED
          BY <1>4, <1>7, <4>2, <5>1, <5>2
      <4>3. CASE h[p[2]] # 0 /\ h[q[2]] # 0
        <5>1. f[p][2] = h[p[2]]
          BY <1>6c, <2>3, <4>3
        <5>2. f[q][2] = h[q[2]]
          BY <1>6c, <2>3, <4>3
        <5> QED
          BY <1>7, <5>1, <5>2
      <4> QED
        BY <4>1, <4>2, <4>3
    <3>3. p[2] = q[2]
      BY <3>1, <3>2
    <3> QED
      BY <3>1, <3>3
  <2> QED
    BY <1>7, <2>1, <2>2, <2>3
<1>8. ASSUME NEW p \in Places(M)
      PROVE  \/ f[p] \in Places(L) /\ TabAt(M, p).id = TabAt(L, f[p]).id
             \/ f[p] = Nowhere /\ TabAt(M, p).id \notin TabIds(L)
  <2>1. CASE p[1] # i
    BY <1>6, <2>1
  <2>2. CASE p[1] = i /\ h[p[2]] = 0
    <3>1. f[p] = Nowhere
      BY <1>6b, <2>2
    <3>2. p[2] \in DOMAIN w.tabs /\ TabAt(M, p) = w.tabs[p[2]]
      BY <1>6a, <2>2
    <3>3. TabAt(M, p).id \notin TabIds(L)
      BY <1>5, <2>2, <3>2
    <3> QED
      BY <3>1, <3>3
  <2>3. CASE p[1] = i /\ h[p[2]] # 0
    <3>1. f[p] \in Places(L) /\ TabAt(L, f[p]) = L.ws[i].tabs[h[p[2]]]
      BY <1>6c, <2>3
    <3>2. p[2] \in DOMAIN w.tabs /\ TabAt(M, p) = w.tabs[p[2]]
      BY <1>6a, <2>3
    <3>3. w.tabs[p[2]].id = L.ws[i].tabs[h[p[2]]].id
      BY <2>3, <3>2
    <3> QED
      BY <3>1, <3>2, <3>3
  <2> QED
    BY <2>1, <2>2, <2>3
<1>9. ASSUME NEW p \in Places(M), NEW x \in PaneSet(TabAt(M, p).root)
      PROVE  \/ f[p] \in Places(L) /\ x \in PaneSet(TabAt(L, f[p]).root)
             \/ p = <<i, at>> /\ x \notin PanesOf(L) /\ x \in S
  <2>1. CASE p[1] # i
    <3>1. f[p] = p /\ p \in Places(L) /\ TabAt(M, p) = TabAt(L, p)
      BY <1>6, <2>1
    <3> QED
      BY <3>1
  <2>2. CASE p[1] = i /\ h[p[2]] = 0
    <3>1. p = <<i, p[2]>> /\ p[2] \in DOMAIN w.tabs /\ TabAt(M, p) = w.tabs[p[2]]
      BY <1>6a, <2>2
    <3>2. h[p[2]] \notin DOMAIN L.ws[i].tabs
      BY <1>5, <2>2, <3>1
    <3>3. p[2] = at /\ x \in S /\ x \notin PanesOf(L)
      BY <3>1, <3>2
    <3> QED
      BY <3>1, <3>3
  <2>3. CASE p[1] = i /\ h[p[2]] # 0
    <3>1. f[p] \in Places(L) /\ TabAt(L, f[p]) = L.ws[i].tabs[h[p[2]]]
      BY <1>6c, <2>3
    <3>2. p = <<i, p[2]>> /\ p[2] \in DOMAIN w.tabs /\ TabAt(M, p) = w.tabs[p[2]]
      BY <1>6a, <2>3
    <3>3. x \in PaneSet(L.ws[i].tabs[h[p[2]]].root) \/ (p[2] = at /\ x \in S /\ x \notin PanesOf(L))
      BY <3>2
    <3>4. p[2] = at => p = <<i, at>>
      BY <3>2
    <3> QED
      BY <3>1, <3>3, <3>4
  <2> QED
    BY <2>1, <2>2, <2>3
<1>10. /\ \A k, l \in DOMAIN M.ws : g[k] = g[l] => k = l
       /\ \A k \in DOMAIN M.ws : 
            \/ g[k] \in DOMAIN L.ws /\ M.ws[k].id = L.ws[g[k]].id
            \/ g[k] = 0 /\ M.ws[k].id \notin WsIds(L)
  BY <1>1
<1> HIDE DEF g
<1>11. Sound(M)
  <2> DEFINE where == <<i, at>>
  <2>1. \A p \in Places(M) : \A x \in PaneSet(TabAt(M, p).root) :
          \/ f[p] \in Places(L) /\ x \in PaneSet(TabAt(L, f[p]).root)
          \/ p = where /\ x \notin PanesOf(L)
    BY <1>9
  <2>2. \A p, q \in Places(M) : f[p] = f[q] => p = q
    BY <1>7
  <2>3. \A p \in Places(M) :
          \/ f[p] \in Places(L) /\ TabAt(M, p).id = TabAt(L, f[p]).id
          \/ f[p] = Nowhere /\ TabAt(M, p).id \notin TabIds(L)
    BY <1>8
  <2>4. Typed(M)
    BY <1>1
  <2>5. \A k, l \in DOMAIN M.ws : g[k] = g[l] => k = l
    BY <1>10
  <2>6. \A k \in DOMAIN M.ws :
          \/ g[k] \in DOMAIN L.ws /\ M.ws[k].id = L.ws[g[k]].id
          \/ g[k] = 0 /\ M.ws[k].id \notin WsIds(L)
    BY <1>10
  <2> HIDE DEF where
  <2> QED
    <3>1. Comes(L, M, f, g, where)
      BY <2>1, <2>2, <2>3, <2>5, <2>6 DEF Comes
    <3> QED
      BY <2>4, <3>1, Derived
<1>12. PanesOf(M) \subseteq PanesOf(L) \cup S
  BY <1>9, DerivedPanes
<1>13. Focused(L) /\ SpaceFocused(w) => Focused(M)
  <2>1. WsIds(M) = WsIds(L)
    BY <1>1 DEF WsIds
  <2> QED
    BY <1>1, <2>1 DEF Focused
<1> QED
  BY <1>11, <1>12, <1>13 DEF M

-----------------------------------------------------------------------------
\* Records with one or two fields changed.

LEMMA SpaceWith ==
  ASSUME NEW w \in Spaces, NEW tabs \in Seq(Tabs), NEW tab \in Names, NEW side \in SidePanels, NEW expanded \in BOOLEAN
  PROVE  LET r == [id |-> w.id, docker |-> w.docker, tabs |-> tabs, tab |-> tab, side |-> side, expanded |-> expanded]
         IN  r \in Spaces /\ r.id = w.id /\ r.tabs = tabs /\ r.tab = tab /\ r.side = side
BY SpaceFacts DEF Spaces

\* Two fields at a time.
TabsOver(w, tabs, tab)    == [w EXCEPT !.tabs = tabs, !.tab = tab]
SideOver(w, side, expanded) == [w EXCEPT !.side = side, !.expanded = expanded]
RootOver(tab, root, pane) == [tab EXCEPT !.root = root, !.pane = pane]

LEMMA SpaceTabs ==
  ASSUME NEW w \in Spaces, NEW tabs \in Seq(Tabs), NEW tab \in Names
  PROVE  LET r == TabsOver(w, tabs, tab)
         IN  r \in Spaces /\ r.id = w.id /\ r.tabs = tabs /\ r.tab = tab /\ r.side = w.side
<1>1. [w EXCEPT !.tabs = tabs, !.tab = tab] =
        [id |-> w.id, docker |-> w.docker, tabs |-> tabs, tab |-> tab, side |-> w.side, expanded |-> w.expanded]
  <2> DEFINE v == [id |-> w.id, docker |-> w.docker, tabs |-> tabs, tab |-> w.tab, side |-> w.side, expanded |-> w.expanded]
  <2>1. [w EXCEPT !.tabs = tabs, !.tab = tab] = [[w EXCEPT !.tabs = tabs] EXCEPT !.tab = tab]
    OBVIOUS
  <2>2. [w EXCEPT !.tabs = tabs] = v
    BY SpaceFacts
  <2>3. [v EXCEPT !.tab = tab] =
          [id |-> w.id, docker |-> w.docker, tabs |-> tabs, tab |-> tab, side |-> w.side, expanded |-> w.expanded]
    OBVIOUS
  <2> HIDE DEF v
  <2> QED
    BY <2>1, <2>2, <2>3
<1>2. w.side \in SidePanels /\ w.expanded \in BOOLEAN
  BY SpaceFacts
<1> QED
  BY <1>1, <1>2, SpaceWith DEF TabsOver

LEMMA SpaceSide ==
  ASSUME NEW w \in Spaces, NEW side \in SidePanels, NEW expanded \in BOOLEAN
  PROVE  LET r == SideOver(w, side, expanded)
         IN  r \in Spaces /\ r.id = w.id /\ r.tabs = w.tabs /\ r.tab = w.tab /\ r.side = side
<1>1. [w EXCEPT !.side = side, !.expanded = expanded] =
        [id |-> w.id, docker |-> w.docker, tabs |-> w.tabs, tab |-> w.tab, side |-> side, expanded |-> expanded]
  <2> DEFINE v == [id |-> w.id, docker |-> w.docker, tabs |-> w.tabs, tab |-> w.tab, side |-> side, expanded |-> w.expanded]
  <2>1. [w EXCEPT !.side = side, !.expanded = expanded] = [[w EXCEPT !.side = side] EXCEPT !.expanded = expanded]
    OBVIOUS
  <2>2. [w EXCEPT !.side = side] = v
    BY SpaceFacts
  <2>3. [v EXCEPT !.expanded = expanded] =
          [id |-> w.id, docker |-> w.docker, tabs |-> w.tabs, tab |-> w.tab, side |-> side, expanded |-> expanded]
    OBVIOUS
  <2> HIDE DEF v
  <2> QED
    BY <2>1, <2>2, <2>3
<1>2. w.tabs \in Seq(Tabs) /\ w.tab \in Names
  BY SpaceFacts
<1> QED
  BY <1>1, <1>2, SpaceWith DEF SideOver

\* One field changes.
LEMMA SpaceTab ==
  ASSUME NEW w \in Spaces, NEW tab \in Names
  PROVE  LET r == [w EXCEPT !.tab = tab]
         IN  r \in Spaces /\ r.id = w.id /\ r.tabs = w.tabs /\ r.tab = tab /\ r.side = w.side
<1>1. [w EXCEPT !.tab = tab] =
        [id |-> w.id, docker |-> w.docker, tabs |-> w.tabs, tab |-> tab, side |-> w.side, expanded |-> w.expanded]
  BY SpaceFacts
<1>2. w.side \in SidePanels /\ w.expanded \in BOOLEAN /\ w.tabs \in Seq(Tabs)
  BY SpaceFacts
<1>3. [id |-> w.id, docker |-> w.docker, tabs |-> w.tabs, tab |-> tab, side |-> w.side, expanded |-> w.expanded] \in Spaces
  BY <1>2, SpaceFacts DEF Spaces
<1> QED
  BY <1>1, <1>3

LEMMA SpaceNewTabs ==
  ASSUME NEW w \in Spaces, NEW tabs \in Seq(Tabs)
  PROVE  LET r == [w EXCEPT !.tabs = tabs]
         IN  r \in Spaces /\ r.id = w.id /\ r.tabs = tabs /\ r.tab = w.tab /\ r.side = w.side
<1>1. [w EXCEPT !.tabs = tabs] =
        [id |-> w.id, docker |-> w.docker, tabs |-> tabs, tab |-> w.tab, side |-> w.side, expanded |-> w.expanded]
  BY SpaceFacts
<1>2. w.side \in SidePanels /\ w.expanded \in BOOLEAN /\ w.tab \in Names
  BY SpaceFacts
<1>3. [id |-> w.id, docker |-> w.docker, tabs |-> tabs, tab |-> w.tab, side |-> w.side, expanded |-> w.expanded] \in Spaces
  BY <1>2, SpaceFacts DEF Spaces
<1> QED
  BY <1>1, <1>3

\* Or what is beside the tabs.
LEMMA SpaceBeside ==
  ASSUME NEW w \in Spaces, NEW side \in SidePanels, NEW expanded \in BOOLEAN,
         NEW r \in {[w EXCEPT !.side = side], [w EXCEPT !.expanded = expanded]}
  PROVE  r \in Spaces /\ SameTabs(w, r) /\ (SpaceFocused(w) => SpaceFocused(r))
<1>1. /\ [w EXCEPT !.side = side] =
           [id |-> w.id, docker |-> w.docker, tabs |-> w.tabs, tab |-> w.tab, side |-> side, expanded |-> w.expanded]
      /\ [w EXCEPT !.expanded = expanded] =
           [id |-> w.id, docker |-> w.docker, tabs |-> w.tabs, tab |-> w.tab, side |-> w.side, expanded |-> expanded]
  BY SpaceFacts
<1>2. w.side \in SidePanels /\ w.expanded \in BOOLEAN /\ w.tab \in Names /\ w.tabs \in Seq(Tabs)
  BY SpaceFacts
<1>3. r \in Spaces /\ r.id = w.id /\ r.tabs = w.tabs /\ r.tab = w.tab
  <2>1. CASE r = [w EXCEPT !.side = side]
    <3>1. [id |-> w.id, docker |-> w.docker, tabs |-> w.tabs, tab |-> w.tab, side |-> side, expanded |-> w.expanded] \in Spaces
      BY <1>2, SpaceFacts DEF Spaces
    <3> QED
      BY <1>1, <2>1, <3>1
  <2>2. CASE r = [w EXCEPT !.expanded = expanded]
    <3>1. [id |-> w.id, docker |-> w.docker, tabs |-> w.tabs, tab |-> w.tab, side |-> w.side, expanded |-> expanded] \in Spaces
      BY <1>2, SpaceFacts DEF Spaces
    <3> QED
      BY <1>1, <2>2, <3>1
  <2> QED
    BY <2>1, <2>2
<1> QED
  BY <1>3 DEF SameTabs, SpaceFocused

LEMMA TabRoot ==
  ASSUME NEW tab \in Tabs, tab.view = Nothing, NEW root \in Trees, DOMAIN root # {}, NEW pane \in Panes(Sessions)
  PROVE  LET r == RootOver(tab, root, pane)
         IN  r \in Tabs /\ r.id = tab.id /\ r.view = tab.view /\ r.root = root /\ r.pane = pane
<1>1. [tab EXCEPT !.root = root, !.pane = pane] = [id |-> tab.id, view |-> tab.view, root |-> root, pane |-> pane]
  <2> DEFINE v == [id |-> tab.id, view |-> tab.view, root |-> root, pane |-> tab.pane]
  <2>1. [tab EXCEPT !.root = root, !.pane = pane] = [[tab EXCEPT !.root = root] EXCEPT !.pane = pane]
    OBVIOUS
  <2>2. [tab EXCEPT !.root = root] = v
    BY TabFacts
  <2>3. [v EXCEPT !.pane = pane] = [id |-> tab.id, view |-> tab.view, root |-> root, pane |-> pane]
    OBVIOUS
  <2> HIDE DEF v
  <2> QED
    BY <2>1, <2>2, <2>3
<1>2. [id |-> tab.id, view |-> tab.view, root |-> root, pane |-> pane] \in Tabs
  BY TabFacts DEF Tabs, TabFields
<1> QED
  BY <1>1, <1>2 DEF RootOver

\* The root changes, or the pane.
LEMMA TabField ==
  ASSUME NEW tab \in Tabs
  PROVE  /\ \A root \in Trees : tab.view = Nothing /\ DOMAIN root # {} =>
              LET r == [tab EXCEPT !.root = root]
              IN  r \in Tabs /\ r.id = tab.id /\ r.view = tab.view /\ r.root = root /\ r.pane = tab.pane
         /\ \A pane \in Panes(Sessions) :
              LET r == [tab EXCEPT !.pane = pane]
              IN  r \in Tabs /\ r.id = tab.id /\ r.view = tab.view /\ r.root = tab.root /\ r.pane = pane
<1>1. ASSUME NEW root \in Trees, tab.view = Nothing, DOMAIN root # {}
      PROVE  LET r == [tab EXCEPT !.root = root]
             IN  r \in Tabs /\ r.id = tab.id /\ r.view = tab.view /\ r.root = root /\ r.pane = tab.pane
  <2>1. [tab EXCEPT !.root = root] = [id |-> tab.id, view |-> tab.view, root |-> root, pane |-> tab.pane]
    BY TabFacts
  <2>2. [id |-> tab.id, view |-> tab.view, root |-> root, pane |-> tab.pane] \in Tabs
    BY <1>1, TabFacts DEF Tabs, TabFields
  <2> QED
    BY <2>1, <2>2
<1>2. ASSUME NEW pane \in Panes(Sessions)
      PROVE  LET r == [tab EXCEPT !.pane = pane]
             IN  r \in Tabs /\ r.id = tab.id /\ r.view = tab.view /\ r.root = tab.root /\ r.pane = pane
  <2>1. [tab EXCEPT !.pane = pane] = [id |-> tab.id, view |-> tab.view, root |-> tab.root, pane |-> pane]
    BY TabFacts
  <2>2. [id |-> tab.id, view |-> tab.view, root |-> tab.root, pane |-> pane] \in Tabs
    BY <1>2, TabFacts DEF Tabs, TabFields
  <2> QED
    BY <2>1, <2>2
<1> QED
  BY <1>1, <1>2

\* A tab with a pane shows terminals, and is no page.
LEMMA TabWithPanes ==
  ASSUME NEW tab \in Tabs, PaneSet(tab.root) # {} \/ DOMAIN tab.root # {} \/ tab.view = Nothing
  PROVE  tab.view = Nothing /\ DOMAIN tab.root # {} /\ IsTree(tab.root) /\ IsInjective(tab.root)
         /\ PaneSet(tab.root) \subseteq Panes(Sessions) /\ tab.pane \in Panes(Sessions)
<1>1. tab.view = Nothing
  BY TabFacts, NoPanesTree
<1> QED
  BY <1>1, TabFacts, TreeFacts

LEMMA SessionTabIs ==
  ASSUME NEW id \in Nat, NEW s \in Sessions
  PROVE  LET tab == SessionTab(id, s)
         IN  tab \in Tabs /\ tab.id = id /\ PaneSet(tab.root) = {Leaf(s)} /\ TabFocused(tab) /\ tab.view = Nothing
<1>1. Leaf(s) \in Panes(Sessions)
  BY DEF Leaf, Panes
<1> DEFINE tab == SessionTab(id, s)
<1>2. tab = [id |-> id, view |-> Nothing, root |-> Lone(Leaf(s)), pane |-> Leaf(s)]
  BY DEF SessionTab
<1> HIDE DEF tab
<1>3. tab \in Tabs
  BY <1>1, <1>2, LoneTree DEF Tabs, TabFields
<1> QED
  BY <1>1, <1>2, <1>3, LoneTree DEF TabFocused, tab

LEMMA ViewTabIs ==
  ASSUME NEW id \in Nat, NEW view \in Pages
  PROVE  LET tab == ViewTab(id, view)
         IN  tab \in Tabs /\ tab.id = id /\ PaneSet(tab.root) = {} /\ TabFocused(tab) /\ tab.view = view
<1>0. view # Nothing
  BY LayoutAssumption DEF Pages
<1> DEFINE tab == ViewTab(id, view)
<1>2. tab = [id |-> id, view |-> view, root |-> NoPanes, pane |-> Nothing]
  BY DEF ViewTab
<1> HIDE DEF tab
<1>3. tab \in Tabs
  BY <1>0, <1>2, NoPanesTree DEF Tabs, TabFields
<1> QED
  BY <1>2, <1>3, NoPanesTree DEF TabFocused, tab

LEMMA NeighbourFacts ==
  ASSUME NEW S, NEW seq \in Seq(S), NEW i \in 1..Len(seq) + 1
  PROVE  /\ seq = <<>> => Neighbour(seq, i) = Nothing
         /\ seq # <<>> => \E j \in DOMAIN seq : Neighbour(seq, i) = seq[j].id
<1>1. ASSUME seq # <<>> PROVE \E j \in DOMAIN seq : Neighbour(seq, i) = seq[j].id
  <2>1. Len(seq) \in Nat /\ Len(seq) > 0 /\ DOMAIN seq = 1..Len(seq)
    BY <1>1
  <2> DEFINE j == IF i <= Len(seq) THEN i ELSE Len(seq)
  <2>2. j \in DOMAIN seq
    BY <2>1
  <2>3. Neighbour(seq, i) = seq[j].id
    BY <1>1 DEF Neighbour
  <2> HIDE DEF j
  <2> QED
    BY <2>2, <2>3
<1> QED
  BY <1>1 DEF Neighbour

-----------------------------------------------------------------------------
\* What is active changes.

LEMMA WithActive ==
  ASSUME NEW L, Sound(L), NEW a \in Names
  PROVE  LET M == [L EXCEPT !.active = a]
         IN  /\ Sound(M) /\ PanesOf(M) = PanesOf(L) /\ M.ws = L.ws /\ M.active = a
             /\ Focused(L) /\ a \in WsIds(L) \cup {Nothing} => Focused(M)
<1> DEFINE M == [L EXCEPT !.active = a]
<1>1. M = [ws |-> L.ws, active |-> a]
  BY DEF Sound, Typed
<1> HIDE DEF M
<1>2. Typed(M) /\ M.ws = L.ws /\ M.active = a
  BY <1>1 DEF Sound, Typed
<1>3. Alike(L, M)
  BY <1>2 DEF Alike, SameTabs
<1>4. Sound(M) /\ PanesOf(M) = PanesOf(L) /\ WsIds(M) = WsIds(L)
  BY <1>2, <1>3, AlikeSound, AlikeFacts
<1>5. Focused(L) /\ a \in WsIds(L) \cup {Nothing} => Focused(M)
  BY <1>2, <1>4 DEF Focused
<1> QED
  BY <1>2, <1>4, <1>5 DEF M

LEMMA SweptSpace ==
  ASSUME NEW w \in Spaces
  PROVE  CloseSide(w) \in Spaces /\ SameTabs(w, CloseSide(w)) /\ (SpaceFocused(w) => SpaceFocused(CloseSide(w)))
<1>1. Nothing \in SidePanels
  BY DEF SidePanels
<1> DEFINE r == CloseSide(w)
<1>2. r \in Spaces /\ r.id = w.id /\ r.tabs = w.tabs /\ r.tab = w.tab
  BY <1>1, SpaceSide DEF CloseSide, SideOver
<1> HIDE DEF r
<1>3. SameTabs(w, r) /\ (SpaceFocused(w) => SpaceFocused(r))
  BY <1>2 DEF SameTabs, SpaceFocused
<1> QED
  BY <1>2, <1>3 DEF r

\* Panels are closed in some of the workspaces.
LEMMA SidesClosed ==
  ASSUME NEW L, Sound(L), NEW M, NEW S, M = [L EXCEPT !.ws = M.ws], DOMAIN M.ws = DOMAIN L.ws,
         M.ws = [i \in DOMAIN L.ws |-> M.ws[i]],
         \A i \in DOMAIN L.ws : M.ws[i] \in {L.ws[i], CloseSide(L.ws[i])}
  PROVE  Becomes(L, M, S)
<1>1. /\ L = [ws |-> L.ws, active |-> L.active] /\ L.ws \in Seq(Spaces) /\ L.active \in Names
      /\ Len(L.ws) \in Nat /\ DOMAIN L.ws = 1..Len(L.ws) /\ \A i \in DOMAIN L.ws : L.ws[i] \in Spaces
  BY LayoutFacts DEF Sound, Typed
<1>2. M = [ws |-> M.ws, active |-> L.active]
  BY <1>1
<1>3. \A i \in DOMAIN L.ws : /\ M.ws[i] \in Spaces /\ SameTabs(L.ws[i], M.ws[i])
                             /\ SpaceFocused(L.ws[i]) => SpaceFocused(M.ws[i])
  BY <1>1, SweptSpace DEF SameTabs
<1>4. M.ws \in Seq(Spaces)
  <2> DEFINE ws == M.ws
             n == Len(L.ws)
  <2>1. ws = [i \in 1..n |-> ws[i]] /\ n \in Nat /\ \A i \in 1..n : ws[i] \in Spaces
    BY <1>1, <1>3
  <2> HIDE DEF ws, n
  <2>2. ws \in Seq(Spaces)
    BY <2>1
  <2> QED
    BY <2>2 DEF ws
<1>5. Typed(M) /\ M.active = L.active
  BY <1>1, <1>2, <1>4 DEF Typed
<1>6. Alike(L, M)
  BY <1>3 DEF Alike
<1>7. Focused(L) => M.active \in WsIds(L) \cup {Nothing} /\ \A i \in DOMAIN L.ws : SpaceFocused(M.ws[i])
  BY <1>3, <1>5 DEF Focused
<1> QED
  BY <1>5, <1>6, <1>7, AlikeBecomes

LEMMA SweptBecomes ==
  ASSUME NEW L, Sound(L) PROVE Becomes(L, Swept(L), {})
<1> DEFINE ws == [i \in DOMAIN L.ws |-> IF IsStale(L.ws[i]) THEN CloseSide(L.ws[i]) ELSE L.ws[i]]
           M == Swept(L)
<1>1. M = [ws |-> ws, active |-> L.active] /\ M = [L EXCEPT !.ws = ws]
  BY DEF Swept, Sound, Typed
<1>2. DOMAIN ws = DOMAIN L.ws /\ ws = [i \in DOMAIN L.ws |-> ws[i]]
      /\ \A i \in DOMAIN L.ws : ws[i] \in {L.ws[i], CloseSide(L.ws[i])}
  OBVIOUS
<1> HIDE DEF ws, M
<1>3. M.ws = ws /\ M = [L EXCEPT !.ws = M.ws]
  BY <1>1
<1>4. Becomes(L, M, {})
  BY <1>2, <1>3, SidesClosed
<1> QED
  BY <1>4 DEF M

LEMMA ThenSwept ==
  ASSUME NEW L, NEW M, NEW S, Becomes(L, M, S) PROVE Becomes(L, Swept(M), S)
BY SweptBecomes, BecomesTwice DEF Becomes

LEMMA DisposedSideBecomes ==
  ASSUME NEW L, Sound(L), NEW s PROVE Becomes(L, DisposedSide(L, s), {})
<1> DEFINE of == {Side(k, s) : k \in {"diff", "files", "agents"}}
           ws == [i \in DOMAIN L.ws |-> IF L.ws[i].side \in of THEN CloseSide(L.ws[i]) ELSE L.ws[i]]
           M == DisposedSide(L, s)
<1>1. M = [ws |-> ws, active |-> L.active] /\ M = [L EXCEPT !.ws = ws]
  <2>1. M = [L EXCEPT !.ws = ws]
    BY DEF DisposedSide
  <2> HIDE DEF ws, M
  <2> QED
    BY <2>1 DEF Sound, Typed
<1>2. DOMAIN ws = DOMAIN L.ws /\ ws = [i \in DOMAIN L.ws |-> ws[i]]
      /\ \A i \in DOMAIN L.ws : ws[i] \in {L.ws[i], CloseSide(L.ws[i])}
  OBVIOUS
<1> HIDE DEF ws, M
<1>3. M.ws = ws /\ M = [L EXCEPT !.ws = M.ws]
  BY <1>1
<1>4. Becomes(L, M, {})
  BY <1>2, <1>3, SidesClosed
<1> QED
  BY <1>4 DEF M

LEMMA PlaceOfPaneFacts ==
  ASSUME NEW L, NEW pane \in PanesOf(L)
  PROVE  PlaceOfPane(L, pane) \in Places(L) /\ pane \in PaneSet(TabAt(L, PlaceOfPane(L, pane)).root)
BY PanesFacts DEF PlaceOfPane

\* A tab keeps its place and its name; its panes are among those it had and the new ones.
LEMMA WithTabFacts ==
  ASSUME NEW L, Sound(L), NEW p \in Places(L), NEW tab \in Tabs, tab.id = TabAt(L, p).id, NEW S,
         S \cap PanesOf(L) = {}, PaneSet(tab.root) \subseteq PaneSet(TabAt(L, p).root) \cup S
  PROVE  LET M == WithTab(L, p, tab)
         IN  /\ Sound(M) /\ PanesOf(M) \subseteq PanesOf(L) \cup S
             /\ Focused(L) /\ TabFocused(tab) => Focused(M)
             /\ p \in Places(M) /\ TabAt(M, p) = tab
             /\ M.ws[p[1]].id = L.ws[p[1]].id
<1> DEFINE i == p[1]
           j == p[2]
           w == L.ws[i]
           tabs == [w.tabs EXCEPT ![j] = tab]
           v == [w EXCEPT !.tabs = tabs]
           M == WithSpace(L, i, v)
           h == [k \in DOMAIN v.tabs |-> k]
<1>1. WithTab(L, p, tab) = M
  BY DEF WithTab
<1>2. Typed(L) /\ i \in DOMAIN L.ws /\ j \in DOMAIN w.tabs /\ TabAt(L, p) = w.tabs[j] /\ p = <<i, j>>
  BY PlaceFacts, TabAtFacts DEF Sound
<1>3. w \in Spaces
  BY <1>2, LayoutFacts
<1>4. w.tabs \in Seq(Tabs) /\ DOMAIN w.tabs \subseteq Nat
  BY <1>3, SpaceFacts
<1>5. tabs \in Seq(Tabs) /\ DOMAIN tabs = DOMAIN w.tabs
      /\ \A k \in DOMAIN w.tabs : tabs[k] = IF k = j THEN tab ELSE w.tabs[k]
  <2> DEFINE u == w.tabs
  <2>1. u \in Seq(Tabs) /\ j \in DOMAIN u
    BY <1>2, <1>4
  <2> HIDE DEF u
  <2>2. [u EXCEPT ![j] = tab] \in Seq(Tabs) /\ DOMAIN [u EXCEPT ![j] = tab] = DOMAIN u
        /\ \A k \in DOMAIN u : [u EXCEPT ![j] = tab][k] = IF k = j THEN tab ELSE u[k]
    BY <2>1
  <2> QED
    BY <2>2 DEF u
<1> HIDE DEF tabs, i, j
<1>6. v \in Spaces /\ v.id = w.id /\ v.tabs = tabs /\ v.tab = w.tab
  BY <1>3, <1>5, SpaceNewTabs
<1> HIDE DEF v, w
<1>7. /\ Sound(M) /\ PanesOf(M) \subseteq PanesOf(L) \cup S
      /\ Focused(L) /\ SpaceFocused(v) => Focused(M)
  <2>1. h \in [DOMAIN v.tabs -> Nat] /\ \A k \in DOMAIN v.tabs : h[k] = k
    BY <1>4, <1>5, <1>6
  <2> HIDE DEF h
  <2>2. \A k, l \in DOMAIN v.tabs : h[k] = h[l] => k = l
    BY <2>1
  <2>3. \A k \in DOMAIN v.tabs : h[k] \in DOMAIN w.tabs /\ v.tabs[k].id = w.tabs[h[k]].id
    BY <1>2, <1>5, <1>6, <2>1
  <2>4. \A k \in DOMAIN v.tabs : \A x \in PaneSet(v.tabs[k].root) :
          \/ h[k] \in DOMAIN w.tabs /\ x \in PaneSet(w.tabs[h[k]].root)
          \/ k = j /\ x \in S /\ x \notin PanesOf(L)
    BY <1>2, <1>5, <1>6, <2>1
  <2> QED
    <3>1. TabsCome(L, i, v, h, j, S)
      BY <2>1, <2>2, <2>3, <2>4 DEF TabsCome, w
    <3> QED
      BY <1>2, <1>6, <3>1, WithSpaceDerived DEF w
<1>8. Focused(L) /\ TabFocused(tab) => SpaceFocused(v)
  <2>1. Focused(L) => SpaceFocused(w)
    BY <1>2 DEF Focused, w
  <2>2. v.tabs = <<>> <=> w.tabs = <<>>
    BY <1>4, <1>5, <1>6
  <2>3. \A k \in DOMAIN w.tabs : v.tabs[k].id = w.tabs[k].id
    BY <1>2, <1>5, <1>6
  <2>4. DOMAIN v.tabs = DOMAIN w.tabs /\ \A k \in DOMAIN w.tabs : v.tabs[k] = IF k = j THEN tab ELSE w.tabs[k]
    BY <1>5, <1>6
  <2> QED
    BY <1>6, <2>1, <2>2, <2>3, <2>4 DEF SpaceFocused
<1>9. M.ws[i] = v /\ DOMAIN M.ws = DOMAIN L.ws
  BY <1>2, <1>6, WithSpaceFacts
<1>10. p \in Places(M) /\ TabAt(M, p) = tab
  BY <1>2, <1>5, <1>6, <1>9, PlaceFacts DEF TabAt
<1>11. M.ws[p[1]].id = L.ws[p[1]].id
  BY <1>6, <1>9 DEF w, i
<1> HIDE DEF M
<1> QED
  BY <1>1, <1>7, <1>8, <1>10, <1>11

LEMMA ActivateBecomes ==
  ASSUME NEW L, Sound(L), NEW p \in Places(L), NEW S PROVE Becomes(L, Activate(L, p), S)
<1> DEFINE i == p[1]
           w == L.ws[i]
           id == TabAt(L, p).id
           v == [w EXCEPT !.tab = id]
           M == WithSpace(L, i, v)
           N == [M EXCEPT !.active = w.id]
<1>1. Activate(L, p) = N
  BY DEF Activate
<1>2. Typed(L) /\ i \in DOMAIN L.ws /\ p[2] \in DOMAIN w.tabs /\ TabAt(L, p) = w.tabs[p[2]] /\ TabAt(L, p) \in Tabs
  BY TabAtFacts DEF Sound
<1>3. w \in Spaces /\ id \in Names /\ w.id \in Names
  BY <1>2, LayoutFacts, SpaceFacts, TabFacts DEF Names
<1> HIDE DEF i, id
<1>4. v \in Spaces /\ v.id = w.id /\ v.tabs = w.tabs /\ v.tab = id
  BY <1>3, SpaceTab
<1> HIDE DEF v, w
<1>5. SameTabs(w, v)
  BY <1>4 DEF SameTabs
<1>6. SpaceFocused(w) => SpaceFocused(v)
  <2>1. v.tabs # <<>>
    BY <1>2, <1>4
  <2> QED
    BY <1>2, <1>4, <2>1 DEF SpaceFocused, id
<1>7. Becomes(L, M, S)
  BY <1>2, <1>4, <1>5, <1>6, WithSpaceAlike DEF w
<1>8. M.ws[i] = v /\ i \in DOMAIN M.ws
  BY <1>2, <1>4, WithSpaceFacts
<1> HIDE DEF M
<1>9. w.id \in WsIds(M)
  BY <1>4, <1>8 DEF WsIds
<1>10. Sound(N) /\ PanesOf(N) = PanesOf(M) /\ (Focused(M) => Focused(N))
  BY <1>3, <1>7, <1>9, WithActive DEF Becomes
<1> QED
  BY <1>1, <1>7, <1>10 DEF Becomes

\* The pane is in the tab, or what is active is not there any more.
LEMMA FocusBecomes ==
  ASSUME NEW L, Sound(L), NEW p \in Places(L), NEW pane \in Panes(Sessions)
  PROVE  /\ Sound(Focus(L, p, pane)) /\ PanesOf(Focus(L, p, pane)) \subseteq PanesOf(L)
         /\ pane \in PaneSet(TabAt(L, p).root) => Becomes(L, Focus(L, p, pane), {})
<1> DEFINE tab == [TabAt(L, p) EXCEPT !.pane = pane]
           M == WithTab(L, p, tab)
<1>1. Focus(L, p, pane) = Activate(M, p)
  BY DEF Focus
<1>2. TabAt(L, p) \in Tabs
  BY TabAtFacts DEF Sound
<1>3. tab \in Tabs /\ tab.id = TabAt(L, p).id /\ tab.root = TabAt(L, p).root /\ tab.pane = pane
  BY <1>2, TabField
<1> HIDE DEF tab
<1>4. /\ Sound(M) /\ PanesOf(M) \subseteq PanesOf(L)
      /\ Focused(L) /\ TabFocused(tab) => Focused(M)
      /\ p \in Places(M)
  <2>1. {} \cap PanesOf(L) = {} /\ PaneSet(tab.root) \subseteq PaneSet(TabAt(L, p).root) \cup {}
    BY <1>3
  <2> QED
    BY <1>3, <2>1, WithTabFacts
<1> HIDE DEF M
<1>5. pane \in PaneSet(TabAt(L, p).root) => TabFocused(tab)
  <2>1. pane \in PaneSet(TabAt(L, p).root) => DOMAIN TabAt(L, p).root # {}
    BY DEF PaneSet, Range
  <2> QED
    BY <1>3, <2>1 DEF TabFocused
<1>6. Becomes(M, Activate(M, p), {})
  BY <1>4, ActivateBecomes
<1> QED
  BY <1>1, <1>4, <1>5, <1>6 DEF Becomes

\* A workspace is added, with one tab.
LEMMA AppendBecomes ==
  ASSUME NEW L, Sound(L), NEW tab \in Tabs, tab.id \notin WsIds(L) \cup TabIds(L), NEW docker \in BOOLEAN,
         PaneSet(tab.root) \cap PanesOf(L) = {}, TabFocused(tab), NEW a \in {L.active, tab.id}
  PROVE  LET M == [ws |-> Append(L.ws, Workspace(tab.id, docker, tab)), active |-> a]
         IN  Becomes(L, M, PaneSet(tab.root)) /\ <<Len(L.ws) + 1, 1>> \in Places(M)
<1> DEFINE n == Len(L.ws)
           m == n + 1
           w == Workspace(tab.id, docker, tab)
           ws == Append(L.ws, w)
           M == [ws |-> ws, active |-> a]
           f == [p \in Places(M) |-> IF p[1] = m THEN Nowhere ELSE p]
           g == [i \in DOMAIN ws |-> IF i = m THEN 0 ELSE i]
           at == <<m, 1>>
<1>1. Typed(L) /\ L.ws \in Seq(Spaces) /\ n \in Nat /\ DOMAIN L.ws = 1..n /\ L.active \in Names
  BY LayoutFacts DEF Sound, Typed
<1>2. w \in Spaces /\ w.id = tab.id /\ w.tabs = <<tab>> /\ w.tab = tab.id
  <2>1. <<tab>> \in Seq(Tabs)
    OBVIOUS
  <2> QED
    BY <2>1, TabFacts DEF Workspace, Spaces, SidePanels, Names
<1>3. ws \in Seq(Spaces) /\ DOMAIN ws = 1..m /\ m \in Nat /\ ws[m] = w
      /\ \A i \in 1..n : ws[i] = L.ws[i]
  <2> HIDE DEF w
  <2> QED
    BY <1>1, <1>2
<1>3a. m \notin 1..n /\ m # 0 /\ \A i \in 1..m : i = m \/ i \in 1..n
  BY <1>1
<1> HIDE DEF n, m, w, ws
<1>4. M.ws = ws /\ M.active = a /\ M = [ws |-> M.ws, active |-> M.active]
  OBVIOUS
<1> HIDE DEF M
<1>5. Typed(M)
  BY <1>1, <1>3, <1>4, TabFacts DEF Typed, Names
<1>6. at \in Places(M) /\ \A p \in Places(M) : p[1] = m => p = at /\ TabAt(M, p) = tab
  <2>1. DOMAIN <<tab>> = {1} /\ <<tab>>[1] = tab
    OBVIOUS
  <2>2. 1 \in DOMAIN M.ws[m].tabs /\ m \in DOMAIN M.ws
    BY <1>2, <1>3, <1>3a, <1>4, <2>1
  <2>3. at \in Places(M)
    BY <2>2, PlaceFacts
  <2>4. ASSUME NEW p \in Places(M), p[1] = m PROVE p = at /\ TabAt(M, p) = tab
    <3>1. p = <<p[1], p[2]>> /\ p[2] \in DOMAIN M.ws[p[1]].tabs
      BY PlaceFacts
    <3>2. p[2] = 1
      BY <1>2, <1>3, <1>4, <2>1, <2>4, <3>1
    <3> QED
      BY <1>2, <1>3, <1>4, <2>1, <2>4, <3>1, <3>2 DEF TabAt
  <2> QED
    BY <2>3, <2>4
<1>7. ASSUME NEW p \in Places(M), p[1] # m PROVE p \in Places(L) /\ TabAt(M, p) = TabAt(L, p)
  <2>1. p = <<p[1], p[2]>> /\ p[1] \in DOMAIN M.ws /\ p[2] \in DOMAIN M.ws[p[1]].tabs
    BY PlaceFacts
  <2>2. p[1] \in 1..n
    BY <1>3, <1>3a, <1>4, <1>7, <2>1
  <2>3. M.ws[p[1]] = L.ws[p[1]] /\ p[1] \in DOMAIN L.ws
    BY <1>1, <1>3, <1>4, <2>2
  <2>4. <<p[1], p[2]>> \in Places(L)
    BY <2>1, <2>3, PlaceFacts
  <2> QED
    BY <2>1, <2>3, <2>4 DEF TabAt
<1>8. \A p \in Places(M) : (p[1] # m => f[p] = p) /\ (p[1] = m => f[p] = Nowhere)
  OBVIOUS
<1> HIDE DEF f
<1>9. Nowhere \notin Places(L)
  BY <1>1, NowhereFacts
<1>10. Comes(L, M, f, g, at)
  <2>1. \A i \in DOMAIN M.ws : (i = m => g[i] = 0) /\ (i # m => g[i] = i /\ i \in 1..n)
    BY <1>3, <1>3a, <1>4
  <2>2. 0 \notin 1..n
    BY <1>1
  <2> HIDE DEF g, at
  <2>3. \A i, k \in DOMAIN M.ws : g[i] = g[k] => i = k
    BY <2>1, <2>2
  <2>4. \A i \in DOMAIN M.ws :
          \/ g[i] \in DOMAIN L.ws /\ M.ws[i].id = L.ws[g[i]].id
          \/ g[i] = 0 /\ M.ws[i].id \notin WsIds(L)
    BY <1>1, <1>2, <1>3, <1>4, <2>1
  <2>5. \A p, q \in Places(M) : f[p] = f[q] => p = q
    <3> SUFFICES ASSUME NEW p \in Places(M), NEW q \in Places(M), f[p] = f[q] PROVE p = q
      OBVIOUS
    <3>1. CASE p[1] = m /\ q[1] = m
      BY <1>6, <3>1
    <3>2. CASE p[1] # m /\ q[1] # m
      BY <1>8, <3>2
    <3>3. CASE p[1] # m /\ q[1] = m
      BY <1>7, <1>8, <1>9, <3>3
    <3>4. CASE p[1] = m /\ q[1] # m
      BY <1>7, <1>8, <1>9, <3>4
    <3> QED
      BY <3>1, <3>2, <3>3, <3>4
  <2>6. ASSUME NEW p \in Places(M)
        PROVE  \/ f[p] \in Places(L) /\ TabAt(M, p).id = TabAt(L, f[p]).id
               \/ f[p] = Nowhere /\ TabAt(M, p).id \notin TabIds(L)
    <3>1. CASE p[1] = m
      BY <1>6, <1>8, <3>1
    <3>2. CASE p[1] # m
      BY <1>7, <1>8, <3>2
    <3> QED
      BY <3>1, <3>2
  <2>7. ASSUME NEW p \in Places(M), NEW x \in PaneSet(TabAt(M, p).root)
        PROVE  \/ f[p] \in Places(L) /\ x \in PaneSet(TabAt(L, f[p]).root)
               \/ p = at /\ x \notin PanesOf(L)
    <3>1. CASE p[1] = m
      BY <1>6, <3>1
    <3>2. CASE p[1] # m
      BY <1>7, <1>8, <3>2
    <3> QED
      BY <3>1, <3>2
  <2> QED
    BY <2>3, <2>4, <2>5, <2>6, <2>7 DEF Comes
<1>11. Sound(M)
  BY <1>5, <1>10, Derived
<1>12. PanesOf(M) \subseteq PanesOf(L) \cup PaneSet(tab.root)
  <2>1. \A p \in Places(M) : \A x \in PaneSet(TabAt(M, p).root) :
          (f[p] \in Places(L) /\ x \in PaneSet(TabAt(L, f[p]).root)) \/ x \in PaneSet(tab.root)
    BY <1>6, <1>7, <1>8
  <2> QED
    BY <2>1, DerivedPanes
<1>13. Focused(L) => Focused(M)
  <2> SUFFICES ASSUME Focused(L) PROVE Focused(M)
    OBVIOUS
  <2>1. SpaceFocused(w)
    <3>1. DOMAIN <<tab>> = {1} /\ <<tab>>[1] = tab /\ <<tab>> # <<>>
      OBVIOUS
    <3> QED
      BY <1>2, <3>1 DEF SpaceFocused
  <2>2. M.active \in WsIds(M) \cup {Nothing}
    <3>1. tab.id \in WsIds(M)
      BY <1>2, <1>3, <1>3a, <1>4 DEF WsIds
    <3>2. \A id \in WsIds(L) : id \in WsIds(M)
      BY <1>1, <1>3, <1>3a, <1>4 DEF WsIds
    <3> QED
      BY <1>4, <3>1, <3>2 DEF Focused
  <2> QED
    BY <1>1, <1>3, <1>3a, <1>4, <2>1, <2>2 DEF Focused
<1>14. Becomes(L, M, PaneSet(tab.root)) /\ at \in Places(M)
  BY <1>6, <1>11, <1>12, <1>13 DEF Becomes
<1> QED
  BY <1>14 DEF M, ws, w, at, m, n

\* A name nobody holds.
IsNew(L, new) == new \in Nat /\ new \notin WsIds(L) \cup TabIds(L)

LEMMA WithWorkspaceBecomes ==
  ASSUME NEW L, Sound(L), NEW tab \in Tabs, tab.id \notin WsIds(L) \cup TabIds(L),
         PaneSet(tab.root) \cap PanesOf(L) = {}, TabFocused(tab)
  PROVE  Becomes(L, WithWorkspace(L, tab), PaneSet(tab.root))
BY AppendBecomes DEF WithWorkspace

LEMMA CreateWorkspaceBecomes ==
  ASSUME NEW L, Sound(L), NEW new, IsNew(L, new), NEW s \in Sessions, ~IsPlaced(L, s)
  PROVE  Becomes(L, CreateWorkspace(L, new, s), {Leaf(s)})
<1> DEFINE tab == SessionTab(new, s)
<1>1. tab \in Tabs /\ tab.id = new /\ PaneSet(tab.root) = {Leaf(s)} /\ TabFocused(tab)
  BY SessionTabIs DEF IsNew
<1>2. CreateWorkspace(L, new, s) = WithWorkspace(L, tab)
  BY DEF CreateWorkspace
<1> HIDE DEF tab
<1> QED
  BY <1>1, <1>2, WithWorkspaceBecomes DEF IsNew, IsPlaced

LEMMA OpenViewTabBecomes ==
  ASSUME NEW L, Sound(L), NEW new, IsNew(L, new), NEW view \in Views
  PROVE  Becomes(L, OpenViewTab(L, new, view), {})
<1> DEFINE at == {p \in Places(L) : TabAt(L, p).view = view}
           tab == ViewTab(new, view)
<1>1. CASE at = {}
  <2>1. tab \in Tabs /\ tab.id = new /\ PaneSet(tab.root) = {} /\ TabFocused(tab)
    BY ViewTabIs DEF IsNew, Pages
  <2>2. OpenViewTab(L, new, view) = WithWorkspace(L, tab)
    BY <1>1 DEF OpenViewTab
  <2> HIDE DEF tab
  <2>3. Becomes(L, WithWorkspace(L, tab), PaneSet(tab.root))
    BY <2>1, WithWorkspaceBecomes DEF IsNew
  <2> QED
    BY <2>1, <2>2, <2>3
<1>2. CASE at # {}
  <2> DEFINE p == CHOOSE q \in at : TRUE
  <2>1. p \in Places(L)
    BY <1>2
  <2>2. OpenViewTab(L, new, view) = Activate(L, p)
    BY <1>2 DEF OpenViewTab
  <2> HIDE DEF p
  <2> QED
    BY <2>1, <2>2, ActivateBecomes
<1> QED
  BY <1>1, <1>2

\* A tab at the end of a workspace, or at its start.
LEMMA CreateTabBecomes ==
  ASSUME NEW L, Sound(L), NEW new, IsNew(L, new), NEW s \in Sessions, ~IsPlaced(L, s), NEW i \in DOMAIN L.ws
  PROVE  Becomes(L, CreateTab(L, new, s, i), {Leaf(s)})
<1> DEFINE tab == SessionTab(new, s)
           w == L.ws[i]
           n == Len(w.tabs)
           tabs == Append(w.tabs, tab)
           v == TabsOver(w, tabs, new)
           M == WithSpace(L, i, v)
           N == [M EXCEPT !.active = w.id]
           h == [j \in DOMAIN tabs |-> IF j = n + 1 THEN 0 ELSE j]
<1>1. CreateTab(L, new, s, i) = Swept(N)
  BY DEF CreateTab, TabsOver
<1>2. tab \in Tabs /\ tab.id = new /\ PaneSet(tab.root) = {Leaf(s)} /\ TabFocused(tab)
  BY SessionTabIs DEF IsNew
<1>3. w \in Spaces /\ Typed(L) /\ new \in Names
  BY LayoutFacts DEF Sound, IsNew, Names
<1>4. w.tabs \in Seq(Tabs) /\ n \in Nat /\ DOMAIN w.tabs = 1..n /\ w.id \in Names
  BY <1>3, SpaceFacts DEF Names
<1>5. tabs \in Seq(Tabs) /\ DOMAIN tabs = 1..n + 1 /\ tabs[n + 1] = tab /\ \A j \in 1..n : tabs[j] = w.tabs[j]
  <2> DEFINE u == w.tabs
  <2> HIDE DEF u, tab
  <2>1. u \in Seq(Tabs) /\ n = Len(u)
    BY <1>4 DEF u
  <2>2. Append(u, tab) \in Seq(Tabs) /\ DOMAIN Append(u, tab) = 1..Len(u) + 1 /\ Append(u, tab)[Len(u) + 1] = tab
        /\ \A j \in 1..Len(u) : Append(u, tab)[j] = u[j]
    BY <1>2, <2>1
  <2> QED
    BY <2>2 DEF u
<1> HIDE DEF n, tab, tabs
<1>6. v \in Spaces /\ v.id = w.id /\ v.tabs = tabs /\ v.tab = new
  BY <1>3, <1>5, SpaceTabs
<1>7. \A j \in DOMAIN tabs : (j = n + 1 /\ h[j] = 0) \/ (j \in 1..n /\ h[j] = j)
  BY <1>4, <1>5
<1>8. h \in [DOMAIN tabs -> Nat]
  BY <1>5
<1> HIDE DEF v, w, h
<1>9. TabsCome(L, i, v, h, n + 1, {Leaf(s)})
  <2>0. n + 1 \notin 1..n /\ 0 \notin 1..n
    BY <1>4
  <2>1. \A j, k \in DOMAIN v.tabs : h[j] = h[k] => j = k
    BY <1>6, <1>7, <2>0
  <2>2. \A j \in DOMAIN v.tabs :
          \/ h[j] \in DOMAIN w.tabs /\ v.tabs[j].id = w.tabs[h[j]].id
          \/ h[j] = 0 /\ v.tabs[j].id \notin TabIds(L)
    BY <1>2, <1>4, <1>5, <1>6, <1>7 DEF IsNew
  <2>3. \A j \in DOMAIN v.tabs : \A x \in PaneSet(v.tabs[j].root) :
          \/ h[j] \in DOMAIN w.tabs /\ x \in PaneSet(w.tabs[h[j]].root)
          \/ j = n + 1 /\ x \in {Leaf(s)} /\ x \notin PanesOf(L)
    BY <1>2, <1>4, <1>5, <1>6, <1>7 DEF IsPlaced
  <2> QED
    BY <1>6, <1>8, <2>1, <2>2, <2>3 DEF TabsCome, w
<1>10. Sound(M) /\ PanesOf(M) \subseteq PanesOf(L) \cup {Leaf(s)} /\ (Focused(L) /\ SpaceFocused(v) => Focused(M))
  BY <1>6, <1>9, WithSpaceDerived DEF w
<1>11. Focused(L) => SpaceFocused(v)
  <2>1. Focused(L) => SpaceFocused(w)
    BY DEF Focused, w
  <2>2. v.tabs # <<>> /\ n + 1 \in DOMAIN v.tabs /\ v.tabs[n + 1].id = v.tab
    BY <1>2, <1>4, <1>5, <1>6
  <2>3. \A j \in DOMAIN v.tabs : v.tabs[j] = tab \/ (j \in DOMAIN w.tabs /\ v.tabs[j] = w.tabs[j])
    BY <1>4, <1>5, <1>6, <1>7
  <2> QED
    BY <1>2, <2>1, <2>2, <2>3 DEF SpaceFocused
<1>12. w.id \in WsIds(M)
  BY <1>3, <1>6, WithSpaceFacts DEF WsIds
<1> HIDE DEF M
<1>13. Becomes(L, N, {Leaf(s)})
  BY <1>4, <1>10, <1>11, <1>12, WithActive DEF Becomes
<1> HIDE DEF N
<1> QED
  BY <1>1, <1>13, ThenSwept

LEMMA IndexFacts ==
  ASSUME NEW L, Typed(L)
  PROVE  /\ \A id : WsIndex(L, id) # 0 => WsIndex(L, id) \in DOMAIN L.ws /\ L.ws[WsIndex(L, id)].id = id
         /\ \A id : id \in WsIds(L) => WsIndex(L, id) # 0
         /\ DockerIndex(L) # 0 => DockerIndex(L) \in DOMAIN L.ws
         /\ (\E i \in DOMAIN L.ws : L.ws[i].docker) => DockerIndex(L) # 0 /\ L.ws[DockerIndex(L)].docker
<1>1. \A i \in DOMAIN L.ws : i \in Nat /\ i # 0
  BY LayoutFacts
<1>2. ASSUME NEW S \in SUBSET DOMAIN L.ws
      PROVE  (S = {} => FirstIn(S) = 0) /\ (S # {} => FirstIn(S) \in S /\ FirstIn(S) # 0)
  <2>1. S \in SUBSET Nat
    BY <1>1
  <2> QED
    BY <1>1, <2>1, FirstInFacts DEF FirstIn
<1>3. ASSUME NEW id
      PROVE  /\ WsIndex(L, id) # 0 => WsIndex(L, id) \in DOMAIN L.ws /\ L.ws[WsIndex(L, id)].id = id
             /\ id \in WsIds(L) => WsIndex(L, id) # 0
  <2> DEFINE S == {i \in DOMAIN L.ws : L.ws[i].id = id}
  <2>1. S \in SUBSET DOMAIN L.ws /\ WsIndex(L, id) = FirstIn(S)
    BY DEF WsIndex
  <2>2. WsIndex(L, id) # 0 => WsIndex(L, id) \in S
    BY <1>2, <2>1
  <2>3. id \in WsIds(L) => S # {}
    BY DEF WsIds
  <2> QED
    BY <1>2, <2>1, <2>2, <2>3
<1>4. /\ DockerIndex(L) # 0 => DockerIndex(L) \in DOMAIN L.ws
      /\ (\E i \in DOMAIN L.ws : L.ws[i].docker) => DockerIndex(L) # 0 /\ L.ws[DockerIndex(L)].docker
  <2> DEFINE S == {i \in DOMAIN L.ws : L.ws[i].docker}
  <2>1. S \in SUBSET DOMAIN L.ws /\ DockerIndex(L) = FirstIn(S)
    BY DEF DockerIndex
  <2>2. DockerIndex(L) # 0 => DockerIndex(L) \in S
    BY <1>2, <2>1
  <2> QED
    BY <1>2, <2>1, <2>2
<1> QED
  BY <1>3, <1>4

LEMMA EnsureDockerBecomes ==
  ASSUME NEW L, Sound(L), NEW new, IsNew(L, new)
  PROVE  /\ Becomes(L, EnsureDocker(L, new), {})
         /\ LET M == EnsureDocker(L, new)
                i == DockerIndex(M)
            IN  i \in DOMAIN M.ws /\ \E j \in DOMAIN M.ws[i].tabs : M.ws[i].tabs[j].view = ContainersView
<1> DEFINE tab == ViewTab(new, ContainersView)
           i == DockerIndex(L)
           w == L.ws[i]
           M == EnsureDocker(L, new)
<1>0. Typed(L)
  BY DEF Sound
<1>1. tab \in Tabs /\ tab.id = new /\ PaneSet(tab.root) = {} /\ TabFocused(tab) /\ tab.view = ContainersView
  BY ViewTabIs DEF IsNew, Pages
<1> HIDE DEF tab
<1>2. CASE i = 0
  <2> DEFINE v == Workspace(new, TRUE, tab)
             N == [ws |-> Append(L.ws, v), active |-> L.active]
             m == Len(L.ws) + 1
  <2>1. M = N
    BY <1>2 DEF EnsureDocker, Sound, Typed, tab
  <2>2. Becomes(L, N, {}) /\ <<m, 1>> \in Places(N)
    BY <1>1, AppendBecomes DEF IsNew
  <2>3. N.ws = Append(L.ws, v) /\ L.ws \in Seq(Spaces)
    BY <1>0, LayoutFacts
  <2>4. N.ws[m] = v /\ m \in DOMAIN N.ws /\ \A k \in DOMAIN N.ws : k = m \/ (k \in DOMAIN L.ws /\ N.ws[k] = L.ws[k])
    <3> HIDE DEF v, N
    <3> DEFINE seq == L.ws
    <3>1. seq \in Seq(Spaces) /\ N.ws = Append(seq, v) /\ m = Len(seq) + 1
      BY <2>3
    <3> HIDE DEF seq, m
    <3>2. N.ws[m] = v /\ m \in DOMAIN N.ws /\ \A k \in DOMAIN N.ws : k = m \/ (k \in DOMAIN seq /\ N.ws[k] = seq[k])
      BY <3>1
    <3> QED
      BY <3>2 DEF seq
  <2>5. v.docker /\ v.tabs = <<tab>>
    BY DEF Workspace
  <2> HIDE DEF v, N, m
  <2>6. Typed(N)
    BY <2>2 DEF Becomes, Sound
  <2>7. DockerIndex(N) # 0 /\ DockerIndex(N) \in DOMAIN N.ws /\ N.ws[DockerIndex(N)].docker
    BY <2>4, <2>5, <2>6, IndexFacts
  <2>8. DockerIndex(N) = m
    <3> SUFFICES ASSUME DockerIndex(N) # m PROVE FALSE
      OBVIOUS
    <3>1. DockerIndex(N) \in DOMAIN L.ws /\ L.ws[DockerIndex(N)].docker
      BY <2>4, <2>7
    <3> QED
      BY <1>0, <1>2, <3>1, IndexFacts
  <2>9. DOMAIN v.tabs = {1} /\ v.tabs[1].view = ContainersView
    BY <1>1, <2>5
  <2> HIDE DEF M
  <2>10. DockerIndex(M) \in DOMAIN M.ws
         /\ \E j \in DOMAIN M.ws[DockerIndex(M)].tabs : M.ws[DockerIndex(M)].tabs[j].view = ContainersView
    BY <2>1, <2>4, <2>7, <2>8, <2>9
  <2> QED
    BY <2>1, <2>2, <2>10 DEF M
<1>3. CASE i # 0 /\ \E j \in DOMAIN w.tabs : w.tabs[j].view = ContainersView
  <2>1. M = L /\ i \in DOMAIN L.ws
    BY <1>0, <1>3, IndexFacts DEF EnsureDocker
  <2> HIDE DEF M
  <2>2. Becomes(L, M, {})
    BY <2>1, BecomesItself
  <2> QED
    BY <1>3, <2>1, <2>2 DEF M
<1>4. CASE i # 0 /\ ~ \E j \in DOMAIN w.tabs : w.tabs[j].view = ContainersView
  <2> DEFINE n == Len(w.tabs)
             tabs == <<tab>> \o w.tabs
             t == IF w.tab = Nothing THEN new ELSE w.tab
             v == TabsOver(w, tabs, t)
             N == WithSpace(L, i, v)
             h == [j \in DOMAIN tabs |-> j - 1]
  <2>1. M = N
    BY <1>4 DEF EnsureDocker, TabsOver, tab
  <2>2. i \in DOMAIN L.ws /\ w \in Spaces /\ w.docker
    <3>1. i \in DOMAIN L.ws
      BY <1>0, <1>4, IndexFacts
    <3>2. {k \in DOMAIN L.ws : L.ws[k].docker} # {}
      BY <1>4 DEF DockerIndex, FirstIn
    <3>3. L.ws[i].docker
      BY <1>0, <3>2, IndexFacts
    <3> QED
      BY <1>0, <3>1, <3>3, LayoutFacts
  <2>3. w.tabs \in Seq(Tabs) /\ n \in Nat /\ DOMAIN w.tabs = 1..n /\ w.tab \in Names
    BY <2>2, SpaceFacts
  <2>4. tabs \in Seq(Tabs) /\ Len(tabs) = n + 1 /\ \A j \in 1..n + 1 : tabs[j] = IF j = 1 THEN tab ELSE w.tabs[j - 1]
    BY <1>1, <2>3, PrependFacts
  <2>5. DOMAIN tabs = 1..n + 1
    <3> HIDE DEF tabs
    <3> QED
      BY <2>4
  <2>6. t \in Names
    BY <2>3 DEF IsNew, Names
  <2> HIDE DEF n, tabs, t
  <2>7. v \in Spaces /\ v.id = w.id /\ v.tabs = tabs /\ v.tab = t
    BY <2>2, <2>4, <2>6, SpaceTabs
  <2>8. v.docker
    <3>1. [w EXCEPT !.tabs = tabs, !.tab = t] = [[w EXCEPT !.tabs = tabs] EXCEPT !.tab = t]
      OBVIOUS
    <3>2. w = [id |-> w.id, docker |-> w.docker, tabs |-> w.tabs, tab |-> w.tab, side |-> w.side, expanded |-> w.expanded]
      BY <2>2, SpaceFacts
    <3>3. [w EXCEPT !.tabs = tabs, !.tab = t].docker = w.docker
      BY <3>1, <3>2
    <3> QED
      BY <2>2, <3>3 DEF TabsOver
  <2> HIDE DEF v
  <2>9. \A j \in DOMAIN tabs : (j = 1 /\ h[j] = 0 /\ tabs[j] = tab)
                               \/ (j # 1 /\ h[j] = j - 1 /\ j - 1 \in 1..n /\ tabs[j] = w.tabs[j - 1])
    BY <2>3, <2>4, <2>5
  <2>10. h \in [DOMAIN tabs -> Nat]
    BY <2>3, <2>5
  <2>11. \A j, k \in DOMAIN tabs : h[j] = h[k] => j = k
    BY <2>3, <2>5
  <2> HIDE DEF h
  <2>12. TabsCome(L, i, v, h, 1, {})
    <3>1. \A j \in DOMAIN v.tabs :
            \/ h[j] \in DOMAIN w.tabs /\ v.tabs[j].id = w.tabs[h[j]].id
            \/ h[j] = 0 /\ v.tabs[j].id \notin TabIds(L)
      BY <1>1, <2>3, <2>7, <2>9 DEF IsNew
    <3>2. \A j \in DOMAIN v.tabs : \A x \in PaneSet(v.tabs[j].root) :
            \/ h[j] \in DOMAIN w.tabs /\ x \in PaneSet(w.tabs[h[j]].root)
            \/ j = 1 /\ x \in {} /\ x \notin PanesOf(L)
      BY <1>1, <2>3, <2>7, <2>9
    <3> QED
      BY <2>7, <2>10, <2>11, <3>1, <3>2 DEF TabsCome
  <2>13. Sound(N) /\ PanesOf(N) \subseteq PanesOf(L) /\ (Focused(L) /\ SpaceFocused(v) => Focused(N))
    BY <2>2, <2>7, <2>12, WithSpaceDerived
  <2>14. Focused(L) => SpaceFocused(v)
    <3> SUFFICES ASSUME Focused(L) PROVE SpaceFocused(v)
      OBVIOUS
    <3>1. SpaceFocused(w)
      BY <2>2 DEF Focused
    <3>2. \A j \in DOMAIN v.tabs : v.tabs[j] = tab \/ (j - 1 \in DOMAIN w.tabs /\ v.tabs[j] = w.tabs[j - 1])
      BY <2>3, <2>7, <2>9
    <3>3. v.tabs # <<>> /\ 1 \in DOMAIN v.tabs /\ v.tabs[1] = tab
      BY <2>3, <2>4, <2>5, <2>7
    <3>4. \E j \in DOMAIN v.tabs : v.tabs[j].id = v.tab
      <4>1. CASE w.tab = Nothing
        BY <1>1, <2>7, <3>3, <4>1 DEF t
      <4>2. CASE w.tab # Nothing
        <5>1. PICK k \in DOMAIN w.tabs : w.tabs[k].id = w.tab
          BY <3>1, <4>2 DEF SpaceFocused
        <5>2. k + 1 \in DOMAIN tabs /\ k + 1 # 1 /\ (k + 1) - 1 = k
          BY <2>3, <2>5
        <5>3. tabs[k + 1] = w.tabs[k]
          BY <2>9, <5>2
        <5> QED
          BY <2>7, <4>2, <5>1, <5>2, <5>3 DEF t
      <4> QED
        BY <4>1, <4>2
    <3> QED
      BY <1>1, <3>1, <3>2, <3>3, <3>4 DEF SpaceFocused
  <2>15. /\ DOMAIN N.ws = DOMAIN L.ws /\ N.ws[i] = v
         /\ \A k \in DOMAIN L.ws : N.ws[k].docker = L.ws[k].docker
    <3>1. /\ DOMAIN N.ws = DOMAIN L.ws
          /\ \A k \in DOMAIN L.ws : N.ws[k] = IF k = i THEN v ELSE L.ws[k]
      BY <1>0, <2>2, <2>7, WithSpaceFacts
    <3>2. v.docker = w.docker
      BY <2>2, <2>8, SpaceFacts, <2>7
    <3> HIDE DEF i
    <3> QED
      BY <2>2, <3>1, <3>2 DEF i
  <2>16. DockerIndex(N) = i
    BY <2>15 DEF DockerIndex
  <2>17. 1 \in DOMAIN v.tabs /\ v.tabs[1].view = ContainersView
    BY <1>1, <2>3, <2>4, <2>5, <2>7
  <2> HIDE DEF M, N
  <2>18. DockerIndex(M) \in DOMAIN M.ws
         /\ \E j \in DOMAIN M.ws[DockerIndex(M)].tabs : M.ws[DockerIndex(M)].tabs[j].view = ContainersView
    BY <2>1, <2>2, <2>15, <2>16, <2>17
  <2>19. Becomes(L, M, {})
    BY <2>1, <2>13, <2>14 DEF Becomes
  <2> QED
    BY <2>18, <2>19 DEF M
<1> QED
  BY <1>2, <1>3, <1>4

LEMMA OpenDockerDashboardBecomes ==
  ASSUME NEW L, Sound(L), NEW new, IsNew(L, new)
  PROVE  Becomes(L, OpenDockerDashboard(L, new), {})
<1> DEFINE M == EnsureDocker(L, new)
           i == DockerIndex(M)
           S == {k \in DOMAIN M.ws[i].tabs : M.ws[i].tabs[k].view = ContainersView}
           j == FirstIn(S)
           p == <<i, j>>
<1>1. OpenDockerDashboard(L, new) = Activate(M, p)
  BY DEF OpenDockerDashboard
<1>2. Becomes(L, M, {}) /\ i \in DOMAIN M.ws /\ S # {}
  BY EnsureDockerBecomes
<1> HIDE DEF M
<1>3. Sound(M)
  BY <1>2 DEF Becomes
<1>4. DOMAIN M.ws[i].tabs \in SUBSET Nat
  <2>1. M.ws[i] \in Spaces
    BY <1>2, <1>3, LayoutFacts DEF Sound
  <2> QED
    BY <2>1, SpaceFacts
<1>5. j \in S
  <2>1. S \in SUBSET Nat
    BY <1>4
  <2> HIDE DEF S
  <2> QED
    BY <1>2, <2>1, FirstInFacts
<1>6. j \in DOMAIN M.ws[i].tabs
  BY <1>5
<1> HIDE DEF i, j
<1>7. p \in Places(M)
  BY <1>2, <1>6, PlaceFacts
<1> HIDE DEF p
<1>8. Becomes(M, Activate(M, p), {})
  BY <1>3, <1>7, ActivateBecomes
<1> QED
  BY <1>1, <1>2, <1>8, BecomesTwice

\* Where the elements of a sequence were before one was removed.
Before1(i, k) == IF k < i THEN k ELSE k + 1

LEMMA WithoutWorkspaceBecomes ==
  ASSUME NEW L, Sound(L), NEW i \in DOMAIN L.ws PROVE Becomes(L, WithoutWorkspace(L, i), {})
<1> DEFINE n == Len(L.ws)
           rest == RemoveAt(L.ws, i)
           a == IF L.active = L.ws[i].id THEN Neighbour(rest, i) ELSE L.active
           M == [ws |-> rest, active |-> a]
           g == [k \in DOMAIN rest |-> Before1(i, k)]
           f == [p \in Places(M) |-> <<Before1(i, p[1]), p[2]>>]
<1>1. WithoutWorkspace(L, i) = M
  BY DEF WithoutWorkspace
<1>2. Typed(L) /\ L.ws \in Seq(Spaces) /\ n \in Nat /\ DOMAIN L.ws = 1..n /\ i \in 1..n /\ L.active \in Names
  BY LayoutFacts DEF Sound, Typed
<1>3. /\ rest \in Seq(Spaces) /\ Len(rest) = n - 1 /\ DOMAIN rest = 1..n - 1
      /\ \A k \in 1..n - 1 : rest[k] = L.ws[Before1(i, k)] /\ Before1(i, k) \in 1..n /\ Before1(i, k) # i
  <2>1. /\ rest \in Seq(Spaces) /\ Len(rest) = n - 1
        /\ \A k \in 1..n - 1 : rest[k] = IF k < i THEN L.ws[k] ELSE L.ws[k + 1]
    BY <1>2, RemoveAtFacts
  <2> HIDE DEF rest, n
  <2>2. DOMAIN rest = 1..n - 1
    BY <1>2, <2>1
  <2>3. \A k \in 1..n - 1 : Before1(i, k) \in 1..n /\ Before1(i, k) # i
    BY <1>2 DEF Before1
  <2>4. \A k \in 1..n - 1 : rest[k] = L.ws[Before1(i, k)]
    BY <2>1 DEF Before1
  <2> QED
    BY <2>1, <2>2, <2>3, <2>4
<1>3a. \A k, l \in 1..n - 1 : Before1(i, k) = Before1(i, l) => k = l
  BY <1>2 DEF Before1
<1>3b. \A k \in 1..n : k # i => \E l \in 1..n - 1 : Before1(i, l) = k
  <2> SUFFICES ASSUME NEW k \in 1..n, k # i PROVE \E l \in 1..n - 1 : Before1(i, l) = k
    OBVIOUS
  <2>1. CASE k < i
    <3>1. k \in 1..n - 1 /\ Before1(i, k) = k
      BY <1>2, <2>1 DEF Before1
    <3> QED
      BY <3>1
  <2>2. CASE k > i
    <3>1. k - 1 \in 1..n - 1 /\ Before1(i, k - 1) = k
      BY <1>2, <2>2 DEF Before1
    <3> QED
      BY <3>1
  <2> QED
    BY <1>2, <2>1, <2>2
<1> HIDE DEF rest, n
<1>4. rest = <<>> \/ \E k \in DOMAIN rest : Neighbour(rest, i) = rest[k].id
  <2>1. i \in 1..Len(rest) + 1
    BY <1>2, <1>3
  <2> QED
    BY <1>3, <2>1, NeighbourFacts
<1>4a. rest = <<>> => Neighbour(rest, i) = Nothing
  BY DEF Neighbour
<1>5. a \in Names
  <2>1. \A k \in DOMAIN rest : rest[k].id \in Nat
    BY <1>3, SpaceFacts
  <2> QED
    BY <1>2, <1>4, <1>4a, <2>1 DEF Names
<1>6. Typed(M) /\ M.ws = rest /\ M.active = a
  BY <1>3, <1>5 DEF Typed
<1> HIDE DEF M
<1>7. ASSUME NEW p \in Places(M)
      PROVE  /\ p = <<p[1], p[2]>> /\ p[1] \in 1..n - 1
             /\ f[p] = <<Before1(i, p[1]), p[2]>> /\ f[p] \in Places(L) /\ TabAt(M, p) = TabAt(L, f[p])
             /\ f[p][1] = Before1(i, p[1]) /\ f[p][2] = p[2]
  <2>1. p = <<p[1], p[2]>> /\ p[1] \in 1..n - 1 /\ p[2] \in DOMAIN rest[p[1]].tabs
    BY <1>3, <1>6, PlaceFacts
  <2>2. f[p] = <<Before1(i, p[1]), p[2]>>
    OBVIOUS
  <2> HIDE DEF f
  <2>3. rest[p[1]] = L.ws[Before1(i, p[1])] /\ Before1(i, p[1]) \in DOMAIN L.ws
    BY <1>2, <1>3, <2>1
  <2>4. f[p] \in Places(L)
    BY <2>1, <2>2, <2>3, PlaceFacts
  <2>5. TabAt(M, p) = TabAt(L, f[p])
    BY <1>6, <2>1, <2>2, <2>3 DEF TabAt
  <2> QED
    BY <2>1, <2>2, <2>4, <2>5
<1>8. \A k \in DOMAIN rest : g[k] = Before1(i, k)
  OBVIOUS
<1> HIDE DEF f, g
<1>9. Comes(L, M, f, g, Nowhere)
  <2>1. \A k, l \in DOMAIN M.ws : g[k] = g[l] => k = l
    BY <1>3, <1>3a, <1>6, <1>8
  <2>2. \A k \in DOMAIN M.ws : g[k] \in DOMAIN L.ws /\ M.ws[k].id = L.ws[g[k]].id
    BY <1>2, <1>3, <1>6, <1>8
  <2>3. \A p, q \in Places(M) : f[p] = f[q] => p = q
    <3> SUFFICES ASSUME NEW p \in Places(M), NEW q \in Places(M), f[p] = f[q] PROVE p = q
      OBVIOUS
    <3>1. p = <<p[1], p[2]>> /\ p[1] \in 1..n - 1 /\ f[p][1] = Before1(i, p[1]) /\ f[p][2] = p[2]
      BY <1>7
    <3>2. q = <<q[1], q[2]>> /\ q[1] \in 1..n - 1 /\ f[q][1] = Before1(i, q[1]) /\ f[q][2] = q[2]
      BY <1>7
    <3>3. p[1] = q[1] /\ p[2] = q[2]
      BY <1>3a, <3>1, <3>2
    <3> QED
      BY <3>1, <3>2, <3>3
  <2>4. \A p \in Places(M) : f[p] \in Places(L) /\ TabAt(M, p).id = TabAt(L, f[p]).id
    BY <1>7
  <2>5. \A p \in Places(M) : \A x \in PaneSet(TabAt(M, p).root) :
          f[p] \in Places(L) /\ x \in PaneSet(TabAt(L, f[p]).root)
    BY <1>7
  <2> QED
    BY <2>1, <2>2, <2>3, <2>4, <2>5 DEF Comes
<1>10. Sound(M)
  BY <1>6, <1>9, Derived
<1>11. PanesOf(M) \subseteq PanesOf(L)
  <2>1. \A p \in Places(M) : \A x \in PaneSet(TabAt(M, p).root) :
          (f[p] \in Places(L) /\ x \in PaneSet(TabAt(L, f[p]).root)) \/ x \in {}
    BY <1>7
  <2> QED
    BY <2>1, DerivedPanes
<1>12. Focused(L) => Focused(M)
  <2> SUFFICES ASSUME Focused(L) PROVE Focused(M)
    OBVIOUS
  <2>1. \A k \in DOMAIN M.ws : SpaceFocused(M.ws[k])
    BY <1>2, <1>3, <1>6 DEF Focused
  <2>2. a \in WsIds(M) \cup {Nothing}
    <3>1. CASE L.active = L.ws[i].id
      BY <1>4, <1>4a, <1>6, <3>1 DEF WsIds
    <3>2. CASE L.active # L.ws[i].id /\ L.active # Nothing
      <4>1. PICK k \in DOMAIN L.ws : L.active = L.ws[k].id
        BY <3>2 DEF Focused, WsIds
      <4>2. PICK l \in 1..n - 1 : Before1(i, l) = k
        BY <1>2, <1>3b, <3>2, <4>1
      <4>3. rest[l].id = L.active /\ l \in DOMAIN rest
        BY <1>3, <4>1, <4>2
      <4> QED
        BY <1>6, <3>2, <4>3 DEF WsIds
    <3>3. CASE L.active # L.ws[i].id /\ L.active = Nothing
      BY <3>3
    <3> QED
      BY <3>1, <3>2, <3>3
  <2> QED
    BY <1>6, <2>1, <2>2 DEF Focused
<1> HIDE DEF a
<1> QED
  BY <1>1, <1>10, <1>11, <1>12 DEF Becomes, M

LEMMA WithoutTabBecomes ==
  ASSUME NEW L, Sound(L), NEW p \in Places(L) PROVE Becomes(L, WithoutTab(L, p), {})
<1> DEFINE i == p[1]
           j == p[2]
           w == L.ws[i]
           n == Len(w.tabs)
           rest == RemoveAt(w.tabs, j)
           t == IF w.tab = w.tabs[j].id THEN Neighbour(rest, j) ELSE w.tab
           v == TabsOver(w, rest, t)
           M == WithSpace(L, i, v)
           h == [k \in DOMAIN rest |-> Before1(j, k)]
<1>1. WithoutTab(L, p) = IF rest = <<>> THEN WithoutWorkspace(M, i) ELSE M
  BY DEF WithoutTab, TabsOver
<1>2. Typed(L) /\ i \in DOMAIN L.ws /\ j \in DOMAIN w.tabs
  BY PlaceFacts DEF Sound
<1>3. w \in Spaces
  BY <1>2, LayoutFacts
<1>4. w.tabs \in Seq(Tabs) /\ n \in Nat /\ DOMAIN w.tabs = 1..n /\ w.tab \in Names
  BY <1>3, SpaceFacts
<1>5. /\ rest \in Seq(Tabs) /\ Len(rest) = n - 1 /\ DOMAIN rest = 1..n - 1
      /\ \A k \in 1..n - 1 : rest[k] = w.tabs[Before1(j, k)] /\ Before1(j, k) \in 1..n /\ Before1(j, k) # j
  <2>1. /\ rest \in Seq(Tabs) /\ Len(rest) = n - 1
        /\ \A k \in 1..n - 1 : rest[k] = IF k < j THEN w.tabs[k] ELSE w.tabs[k + 1]
    BY <1>2, <1>4, RemoveAtFacts
  <2> HIDE DEF rest, n
  <2>2. DOMAIN rest = 1..n - 1
    BY <1>4, <2>1
  <2>3. \A k \in 1..n - 1 : Before1(j, k) \in 1..n /\ Before1(j, k) # j
    BY <1>2, <1>4 DEF Before1
  <2>4. \A k \in 1..n - 1 : rest[k] = w.tabs[Before1(j, k)]
    BY <2>1 DEF Before1
  <2> QED
    BY <2>1, <2>2, <2>3, <2>4
<1>6. \A k, l \in 1..n - 1 : Before1(j, k) = Before1(j, l) => k = l
  BY <1>2, <1>4 DEF Before1
<1>7. \A k \in 1..n : k # j => \E l \in 1..n - 1 : Before1(j, l) = k
  <2> SUFFICES ASSUME NEW k \in 1..n, k # j PROVE \E l \in 1..n - 1 : Before1(j, l) = k
    OBVIOUS
  <2>1. CASE k < j
    <3>1. k \in 1..n - 1 /\ Before1(j, k) = k
      BY <1>2, <1>4, <2>1 DEF Before1
    <3> QED
      BY <3>1
  <2>2. CASE k > j
    <3>1. k - 1 \in 1..n - 1 /\ Before1(j, k - 1) = k
      BY <1>2, <1>4, <2>2 DEF Before1
    <3> QED
      BY <3>1
  <2> QED
    BY <1>2, <1>4, <2>1, <2>2
<1> HIDE DEF rest, n, i, j
<1>8. rest = <<>> \/ \E k \in DOMAIN rest : Neighbour(rest, j) = rest[k].id
  <2>1. j \in 1..Len(rest) + 1
    BY <1>2, <1>4, <1>5
  <2> QED
    BY <1>5, <2>1, NeighbourFacts
<1>8a. rest = <<>> => Neighbour(rest, j) = Nothing
  BY DEF Neighbour
<1>9. t \in Names
  <2>1. \A k \in DOMAIN rest : rest[k].id \in Nat
    BY <1>5, TabFacts
  <2> QED
    BY <1>4, <1>8, <1>8a, <2>1 DEF Names
<1> HIDE DEF t, w
<1>10. v \in Spaces /\ v.id = w.id /\ v.tabs = rest /\ v.tab = t
  BY <1>3, <1>5, <1>9, SpaceTabs
<1> HIDE DEF v
<1>11. h \in [DOMAIN rest -> Nat] /\ \A k \in DOMAIN rest : h[k] = Before1(j, k)
  BY <1>5
<1> HIDE DEF h
<1>12. TabsCome(L, i, v, h, 0, {})
  <2>1. \A k, l \in DOMAIN v.tabs : h[k] = h[l] => k = l
    BY <1>5, <1>6, <1>10, <1>11
  <2>2. \A k \in DOMAIN v.tabs : h[k] \in DOMAIN w.tabs /\ v.tabs[k] = w.tabs[h[k]]
    BY <1>4, <1>5, <1>10, <1>11
  <2> QED
    BY <1>10, <1>11, <2>1, <2>2 DEF TabsCome, w
<1>13. Sound(M) /\ PanesOf(M) \subseteq PanesOf(L) /\ (Focused(L) /\ SpaceFocused(v) => Focused(M))
  BY <1>2, <1>10, <1>12, WithSpaceDerived DEF w
<1>14. Focused(L) => SpaceFocused(v)
  <2> SUFFICES ASSUME Focused(L) PROVE SpaceFocused(v)
    OBVIOUS
  <2>1. SpaceFocused(w)
    BY <1>2 DEF Focused, w
  <2>2. \A k \in DOMAIN rest : TabFocused(rest[k])
    BY <1>4, <1>5, <2>1 DEF SpaceFocused
  <2>3. w.tabs # <<>>
    BY <1>2, <1>4
  <2>4. PICK k \in 1..n : w.tabs[k].id = w.tab
    BY <1>4, <2>1, <2>3 DEF SpaceFocused
  <2>5. CASE w.tab = w.tabs[j].id
    <3>1. t = Neighbour(rest, j)
      BY <2>5 DEF t
    <3> QED
      BY <1>8, <1>8a, <1>10, <2>2, <3>1 DEF SpaceFocused
  <2>6. CASE w.tab # w.tabs[j].id
    <3>1. t = w.tab /\ k # j
      BY <2>4, <2>6 DEF t
    <3>2. PICK l \in 1..n - 1 : Before1(j, l) = k
      BY <1>7, <3>1
    <3>3. l \in DOMAIN rest /\ rest[l].id = t
      BY <1>5, <2>4, <3>1, <3>2
    <3>4. rest # <<>>
      BY <3>3
    <3> QED
      BY <1>10, <2>2, <3>3, <3>4 DEF SpaceFocused
  <2> QED
    BY <2>5, <2>6
<1>15. Becomes(L, M, {})
  BY <1>13, <1>14 DEF Becomes
<1>16. i \in DOMAIN M.ws
  BY <1>2, <1>10, WithSpaceFacts
<1> HIDE DEF M
<1>17. Becomes(M, WithoutWorkspace(M, i), {})
  BY <1>15, <1>16, WithoutWorkspaceBecomes DEF Becomes
<1> QED
  BY <1>1, <1>15, <1>17, BecomesTwice

LEMMA InsertAtThere ==
  ASSUME NEW S, NEW s \in Seq(S), NEW i \in DOMAIN s \cup {Len(s) + 1}, NEW e \in S
  PROVE  /\ InsertAt(s, i, e) \in Seq(S) /\ Len(InsertAt(s, i, e)) = Len(s) + 1
         /\ \A j \in 1..Len(s) + 1 :
              InsertAt(s, i, e)[j] = IF j < i THEN s[j] ELSE IF j = i THEN e ELSE s[j - 1]
<1> DEFINE n == Len(s) + 1
<1>1. i \in 1..n /\ n \in Nat
  OBVIOUS
<1>2. PICK k \in 1..n : k = i
  BY <1>1
<1>3. /\ InsertAt(s, k, e) \in Seq(S) /\ Len(InsertAt(s, k, e)) = Len(s) + 1
      /\ \A j \in 1..Len(s) + 1 :
           InsertAt(s, k, e)[j] = IF j < k THEN s[j] ELSE IF j = k THEN e ELSE s[j - 1]
  BY InsertAtFacts
<1> QED
  BY <1>2, <1>3

LEMMA MoveTabBecomes ==
  ASSUME NEW L, Sound(L), NEW p \in Places(L), NEW to \in DOMAIN L.ws[p[1]].tabs
  PROVE  Becomes(L, MoveTab(L, p, to), {})
<1> DEFINE i == p[1]
           j == p[2]
           w == L.ws[i]
           n == Len(w.tabs)
           tab == TabAt(L, p)
           rest == RemoveAt(w.tabs, j)
           tabs == InsertAt(rest, to, tab)
           v == [w EXCEPT !.tabs = tabs]
           M == WithSpace(L, i, v)
           h == [k \in DOMAIN tabs |-> IF k = to THEN j ELSE IF k < to THEN Before1(j, k) ELSE Before1(j, k - 1)]
<1>1. MoveTab(L, p, to) = M
  BY DEF MoveTab
<1>2. Typed(L) /\ i \in DOMAIN L.ws /\ j \in DOMAIN w.tabs /\ tab = w.tabs[j] /\ tab \in Tabs
  BY TabAtFacts DEF Sound
<1>3. w \in Spaces
  BY <1>2, LayoutFacts
<1>4. w.tabs \in Seq(Tabs) /\ n \in Nat /\ DOMAIN w.tabs = 1..n /\ j \in 1..n /\ to \in 1..n
  BY <1>2, <1>3, SpaceFacts
<1>5. /\ rest \in Seq(Tabs) /\ Len(rest) = n - 1
      /\ \A k \in 1..n - 1 : rest[k] = w.tabs[Before1(j, k)]
  <2>1. /\ rest \in Seq(Tabs) /\ Len(rest) = n - 1
        /\ \A k \in 1..n - 1 : rest[k] = IF k < j THEN w.tabs[k] ELSE w.tabs[k + 1]
    BY <1>2, <1>4, RemoveAtFacts
  <2> QED
    BY <2>1 DEF Before1
<1> HIDE DEF rest, n, i, j, tab
<1>6. /\ tabs \in Seq(Tabs) /\ DOMAIN tabs = 1..n
      /\ \A k \in 1..n : tabs[k] = IF k < to THEN rest[k] ELSE IF k = to THEN tab ELSE rest[k - 1]
  <2>1. to \in 1..Len(rest) + 1 /\ Len(rest) + 1 = n
    BY <1>4, <1>5
  <2>2. /\ tabs \in Seq(Tabs) /\ Len(tabs) = Len(rest) + 1
        /\ \A k \in 1..Len(rest) + 1 : tabs[k] = IF k < to THEN rest[k] ELSE IF k = to THEN tab ELSE rest[k - 1]
    <3>1. tab \in Tabs /\ rest \in Seq(Tabs) /\ to \in DOMAIN rest \cup {Len(rest) + 1}
      BY <1>2, <1>5, <2>1
    <3> HIDE DEF h, v, M, tabs
    <3>2. InsertAt(rest, to, tab) \in Seq(Tabs) /\ Len(InsertAt(rest, to, tab)) = Len(rest) + 1
      BY ONLY <3>1, InsertAtThere
    <3>3. \A k \in 1..Len(rest) + 1 :
            InsertAt(rest, to, tab)[k] = IF k < to THEN rest[k] ELSE IF k = to THEN tab ELSE rest[k - 1]
      BY ONLY <3>1, InsertAtThere
    <3> QED
      BY <3>2, <3>3 DEF tabs
  <2> HIDE DEF tabs
  <2>3. DOMAIN tabs = 1..n
    BY <2>1, <2>2
  <2> QED
    BY <2>1, <2>2, <2>3
<1> HIDE DEF w, tabs
<1>7. v \in Spaces /\ v.id = w.id /\ v.tabs = tabs /\ v.tab = w.tab
  BY <1>3, <1>6, SpaceNewTabs
<1> HIDE DEF v
<1>8. \A k \in 1..n : h[k] = IF k = to THEN j ELSE IF k < to THEN Before1(j, k) ELSE Before1(j, k - 1)
  BY <1>6
<1>9. \A k \in 1..n : h[k] \in 1..n /\ tabs[k] = w.tabs[h[k]]
  <2> SUFFICES ASSUME NEW k \in 1..n PROVE h[k] \in 1..n /\ tabs[k] = w.tabs[h[k]]
    OBVIOUS
  <2>1. CASE k = to
    BY <1>2, <1>4, <1>6, <1>8, <2>1
  <2>2. CASE k < to
    <3>1. k \in 1..n - 1 /\ h[k] = Before1(j, k) /\ tabs[k] = rest[k]
      BY <1>4, <1>6, <1>8, <2>2
    <3>2. Before1(j, k) \in 1..n
      BY <1>4, <3>1 DEF Before1
    <3> QED
      BY <1>5, <3>1, <3>2
  <2>3. CASE k > to
    <3>1. k - 1 \in 1..n - 1 /\ h[k] = Before1(j, k - 1) /\ tabs[k] = rest[k - 1]
      BY <1>4, <1>6, <1>8, <2>3
    <3>2. Before1(j, k - 1) \in 1..n
      BY <1>4, <3>1 DEF Before1
    <3> QED
      BY <1>5, <3>1, <3>2
  <2> QED
    BY <1>4, <2>1, <2>2, <2>3
<1>10. \A k, l \in 1..n : h[k] = h[l] => k = l
  BY <1>4, <1>8 DEF Before1
<1>11. \A l \in 1..n : \E k \in 1..n : h[k] = l
  <2> SUFFICES ASSUME NEW l \in 1..n PROVE \E k \in 1..n : h[k] = l
    OBVIOUS
  <2>1. CASE l = j
    BY <1>4, <1>8, <2>1
  <2> DEFINE m == IF l < j THEN l ELSE l - 1
             k == IF m < to THEN m ELSE m + 1
  <2>2. CASE l # j
    <3>1. k \in 1..n /\ k # to /\ m \in 1..n - 1 /\ Before1(j, m) = l
      BY <1>4, <2>2 DEF Before1
    <3>2. h[k] = Before1(j, m)
      BY <1>4, <1>8, <3>1
    <3> QED
      BY <3>1, <3>2
  <2> QED
    BY <2>1, <2>2
<1>12. h \in [DOMAIN tabs -> Nat]
  <2>1. \A k \in DOMAIN tabs : h[k] \in Nat
    BY <1>4, <1>6, <1>9
  <2>2. h = [k \in DOMAIN tabs |-> h[k]]
    OBVIOUS
  <2> HIDE DEF h
  <2> QED
    BY <2>1, <2>2
<1> HIDE DEF h
<1>13. TabsCome(L, i, v, h, 0, {})
  <2>1. \A k, l \in DOMAIN v.tabs : h[k] = h[l] => k = l
    BY <1>6, <1>7, <1>10
  <2>2. \A k \in DOMAIN v.tabs : h[k] \in DOMAIN w.tabs /\ v.tabs[k] = w.tabs[h[k]]
    BY <1>4, <1>6, <1>7, <1>9
  <2> QED
    BY <1>7, <1>12, <2>1, <2>2 DEF TabsCome, w
<1>14. Sound(M) /\ PanesOf(M) \subseteq PanesOf(L) /\ (Focused(L) /\ SpaceFocused(v) => Focused(M))
  BY <1>2, <1>7, <1>13, WithSpaceDerived DEF w
<1>15. Focused(L) => SpaceFocused(v)
  <2> SUFFICES ASSUME Focused(L) PROVE SpaceFocused(v)
    OBVIOUS
  <2>1. SpaceFocused(w)
    BY <1>2 DEF Focused, w
  <2>2. \A k \in DOMAIN tabs : TabFocused(tabs[k])
    BY <1>4, <1>6, <1>9, <2>1 DEF SpaceFocused
  <2>3. w.tabs # <<>> /\ tabs # <<>>
    BY <1>4, <1>6
  <2>4. PICK l \in 1..n : w.tabs[l].id = w.tab
    BY <1>4, <2>1, <2>3 DEF SpaceFocused
  <2>5. PICK k \in 1..n : h[k] = l
    BY <1>11
  <2>6. k \in DOMAIN tabs /\ tabs[k].id = w.tab
    BY <1>6, <1>9, <2>4, <2>5
  <2> QED
    BY <1>7, <2>2, <2>3, <2>6 DEF SpaceFocused
<1>16. Becomes(L, M, {})
  BY <1>14, <1>15 DEF Becomes
<1> HIDE DEF M
<1> QED
  BY <1>1, <1>16

LEMMA RootPanes ==
  ASSUME NEW t PROVE PaneSet(t) = {} <=> DOMAIN t = {}
BY DEF PaneSet, Range

\* A pane of a tab is split.
SplitTab(L, p, leaf, new) == WithTab(L, p, [TabAt(L, p) EXCEPT !.root = SplitAt(TabAt(L, p).root, leaf, new)])

LEMMA SplitTabFacts ==
  ASSUME NEW L, Sound(L), NEW p \in Places(L), NEW leaf \in PaneSet(TabAt(L, p).root),
         NEW new \in Panes(Sessions), new \notin PanesOf(L)
  PROVE  LET M == SplitTab(L, p, leaf, new)
         IN  /\ Becomes(L, M, {new}) /\ p \in Places(M) /\ TabAt(M, p).view = Nothing
             /\ new \in PaneSet(TabAt(M, p).root) /\ M.ws[p[1]].id = L.ws[p[1]].id
             /\ TabAt(M, p).id = TabAt(L, p).id
<1> DEFINE tab == TabAt(L, p)
           root == SplitAt(tab.root, leaf, new)
           next == [tab EXCEPT !.root = root]
           M == WithTab(L, p, next)
<1>1. SplitTab(L, p, leaf, new) = M
  BY DEF SplitTab
<1>2. tab \in Tabs
  BY TabAtFacts DEF Sound
<1>3. /\ tab.view = Nothing /\ DOMAIN tab.root # {} /\ IsTree(tab.root) /\ IsInjective(tab.root)
      /\ PaneSet(tab.root) \subseteq Panes(Sessions)
  BY <1>2, TabWithPanes
<1>4. new \notin PaneSet(tab.root)
  BY PanesFacts
<1>5. IsTree(root) /\ IsInjective(root) /\ PaneSet(root) = PaneSet(tab.root) \cup {new}
  BY <1>3, <1>4, SplitAtTree
<1> HIDE DEF root, tab
<1>6. root \in Trees /\ DOMAIN root # {}
  BY <1>3, <1>5, TreeFacts, RootPanes
<1>7. next \in Tabs /\ next.id = tab.id /\ next.view = tab.view /\ next.root = root /\ next.pane = tab.pane
  BY <1>2, <1>3, <1>6, TabField
<1> HIDE DEF next
<1>8. /\ Sound(M) /\ PanesOf(M) \subseteq PanesOf(L) \cup {new}
      /\ Focused(L) /\ TabFocused(next) => Focused(M)
      /\ p \in Places(M) /\ TabAt(M, p) = next
      /\ M.ws[p[1]].id = L.ws[p[1]].id
  <2>1. {new} \cap PanesOf(L) = {}
    OBVIOUS
  <2>2. PaneSet(next.root) \subseteq PaneSet(TabAt(L, p).root) \cup {new} /\ next.id = TabAt(L, p).id
    BY <1>5, <1>7 DEF tab
  <2> QED
    BY <1>7, <2>1, <2>2, WithTabFacts
<1>9. Focused(L) => TabFocused(next)
  <2>1. Focused(L) => TabFocused(tab)
    BY PlaceFacts DEF Focused, SpaceFocused, tab, TabAt
  <2> QED
    BY <1>3, <1>5, <1>6, <1>7, <2>1 DEF TabFocused
<1> HIDE DEF M
<1> QED
  BY <1>1, <1>3, <1>5, <1>7, <1>8, <1>9 DEF Becomes, tab

LEMMA SplitPaneBecomes ==
  ASSUME NEW L, Sound(L), NEW leaf \in PanesOf(L), NEW s \in Sessions, ~IsPlaced(L, s)
  PROVE  Becomes(L, SplitPane(L, leaf, s), {Leaf(s)})
<1> DEFINE p == PlaceOfPane(L, leaf)
           M == SplitTab(L, p, leaf, Leaf(s))
           N == Focus(M, p, Leaf(s))
<1>1. SplitPane(L, leaf, s) = Swept(N)
  BY DEF SplitPane, SplitTab
<1>2. p \in Places(L) /\ leaf \in PaneSet(TabAt(L, p).root)
  BY PlaceOfPaneFacts
<1>3. Leaf(s) \in Panes(Sessions) /\ Leaf(s) \notin PanesOf(L)
  BY DEF Leaf, Panes, IsPlaced
<1> HIDE DEF p
<1>4. Becomes(L, M, {Leaf(s)}) /\ p \in Places(M) /\ TabAt(M, p).view = Nothing /\ Leaf(s) \in PaneSet(TabAt(M, p).root)
  BY <1>2, <1>3, SplitTabFacts
<1> HIDE DEF M
<1>5. Becomes(M, N, {})
  BY <1>3, <1>4, FocusBecomes DEF Becomes
<1> HIDE DEF N
<1> QED
  BY <1>1, <1>4, <1>5, BecomesTwice, ThenSwept

LEMMA ClosePaneBecomes ==
  ASSUME NEW L, Sound(L), NEW pane \in PanesOf(L)
  PROVE  Becomes(L, ClosePane(L, pane), {})
<1> DEFINE p == PlaceOfPane(L, pane)
           tab == TabAt(L, p)
           root == Keep(tab.root, PaneSet(tab.root) \ {pane})
           active == IF tab.pane \in PaneSet(root) THEN tab.pane ELSE First(root)
           next == RootOver(tab, root, active)
           N == IF DOMAIN root = {} THEN WithoutTab(L, p) ELSE WithTab(L, p, next)
<1>1. ClosePane(L, pane) = Swept(N)
  BY DEF ClosePane, RootOver
<1>2. p \in Places(L) /\ pane \in PaneSet(tab.root)
  BY PlaceOfPaneFacts
<1> HIDE DEF p
<1>3. tab \in Tabs
  BY <1>2, TabAtFacts DEF Sound
<1>4. tab.view = Nothing /\ IsTree(tab.root) /\ IsInjective(tab.root)
      /\ PaneSet(tab.root) \subseteq Panes(Sessions)
  BY <1>2, <1>3, TabWithPanes
<1>5. IsTree(root) /\ IsInjective(root) /\ PaneSet(root) \subseteq PaneSet(tab.root)
  <2> DEFINE keep == PaneSet(tab.root) \ {pane}
  <2>1. IsTree(Keep(tab.root, keep)) /\ IsInjective(Keep(tab.root, keep))
        /\ PaneSet(Keep(tab.root, keep)) = PaneSet(tab.root) \cap keep
    BY <1>4, KeepTree
  <2> QED
    BY <2>1
<1>6. CASE DOMAIN root = {}
  BY <1>1, <1>2, <1>6, WithoutTabBecomes, ThenSwept
<1>7. CASE DOMAIN root # {}
  <2> HIDE DEF root, tab
  <2>1. root \in Trees
    BY <1>4, <1>5, TreeFacts
  <2>2. active \in PaneSet(root) /\ active \in Panes(Sessions)
    BY <1>4, <1>5, <1>7, FirstPane
  <2> HIDE DEF active
  <2>3. next \in Tabs /\ next.id = tab.id /\ next.root = root /\ next.pane = active
    BY <1>3, <1>4, <1>7, <2>1, <2>2, TabRoot
  <2> HIDE DEF next
  <2>4. Sound(WithTab(L, p, next)) /\ PanesOf(WithTab(L, p, next)) \subseteq PanesOf(L)
        /\ (Focused(L) /\ TabFocused(next) => Focused(WithTab(L, p, next)))
    <3>1. {} \cap PanesOf(L) = {}
      OBVIOUS
    <3>2. PaneSet(next.root) \subseteq PaneSet(TabAt(L, p).root) \cup {} /\ next.id = TabAt(L, p).id
      BY <1>5, <2>3 DEF tab
    <3> QED
      BY <1>2, <2>3, <3>1, <3>2, WithTabFacts
  <2>5. TabFocused(next)
    BY <1>7, <2>2, <2>3 DEF TabFocused
  <2>6. Becomes(L, WithTab(L, p, next), {})
    BY <2>4, <2>5 DEF Becomes
  <2>7. N = WithTab(L, p, next)
    BY <1>7
  <2> HIDE DEF N
  <2> QED
    BY <1>1, <2>6, <2>7, ThenSwept
<1> QED
  BY <1>6, <1>7

LEMMA FocusPaneBecomes ==
  ASSUME NEW L, Sound(L), NEW pane \in PanesOf(L)
  PROVE  Becomes(L, Swept(Focus(L, PlaceOfPane(L, pane), pane)), {})
<1> DEFINE p == PlaceOfPane(L, pane)
<1>1. p \in Places(L) /\ pane \in PaneSet(TabAt(L, p).root)
  BY PlaceOfPaneFacts
<1> HIDE DEF p
<1>2. TabAt(L, p).view = Nothing /\ PaneSet(TabAt(L, p).root) \subseteq Panes(Sessions)
  BY <1>1, TabAtFacts, TabWithPanes DEF Sound
<1>3. Becomes(L, Focus(L, p, pane), {})
  BY <1>1, <1>2, FocusBecomes
<1>4. Becomes(L, Swept(Focus(L, p, pane)), {})
  BY <1>3, ThenSwept
<1> QED
  BY <1>4 DEF p

LEMMA ActivateTabBecomes ==
  ASSUME NEW L, Sound(L), NEW p \in Places(L) PROVE Becomes(L, ActivateTab(L, p), {})
BY ActivateBecomes, ThenSwept DEF ActivateTab

LEMMA ActivateWorkspaceBecomes ==
  ASSUME NEW L, Sound(L), NEW id \in WsIds(L) PROVE Becomes(L, [L EXCEPT !.active = id], {})
<1>1. id \in Names
  BY LayoutFacts, SpaceFacts DEF WsIds, Sound, Names
<1>2. Sound([L EXCEPT !.active = id]) /\ PanesOf([L EXCEPT !.active = id]) = PanesOf(L)
      /\ (Focused(L) /\ id \in WsIds(L) \cup {Nothing} => Focused([L EXCEPT !.active = id]))
  BY <1>1, WithActive
<1> QED
  BY <1>2 DEF Becomes

-----------------------------------------------------------------------------
\* Panels.

LEMMA SideIs ==
  ASSUME NEW s \in Sessions, NEW kind \in SideKinds PROVE Side(kind, s) \in SidePanels
BY DEF Side, SidePanels

LEMMA SidePanelBecomes ==
  ASSUME NEW L, Sound(L), NEW i \in DOMAIN L.ws
  PROVE  /\ Becomes(L, ToggleQueue(L, i), {})
         /\ Becomes(L, WithSpace(L, i, CloseSide(L.ws[i])), {})
         /\ Becomes(L, WithSpace(L, i, Expand(L.ws[i])), {})
         /\ \A s \in Sessions, kind \in SideKinds : 
              Becomes(L, WithSpace(L, i, [L.ws[i] EXCEPT !.side = Side(kind, s)]), {})
<1> DEFINE w == L.ws[i]
<1>1. w \in Spaces
  BY LayoutFacts DEF Sound
<1>2. AgentQueue \in SidePanels
  BY DEF AgentQueue, Side, SidePanels, SideKinds
<1>3. CloseSide(w) \in Spaces /\ SameTabs(w, CloseSide(w)) /\ (SpaceFocused(w) => SpaceFocused(CloseSide(w)))
  BY <1>1, SweptSpace
<1>4. ASSUME NEW side \in SidePanels PROVE Becomes(L, WithSpace(L, i, [w EXCEPT !.side = side]), {})
  <2> DEFINE r == [w EXCEPT !.side = side]
  <2>1. r \in {[w EXCEPT !.side = side], [w EXCEPT !.expanded = TRUE]}
    OBVIOUS
  <2> HIDE DEF r
  <2>2. r \in Spaces /\ SameTabs(w, r) /\ (SpaceFocused(w) => SpaceFocused(r))
    BY <1>1, <2>1, SpaceBeside
  <2>3. Becomes(L, WithSpace(L, i, r), {})
    BY <2>2, WithSpaceAlike
  <2> QED
    BY <2>3 DEF r
<1>5. Becomes(L, WithSpace(L, i, CloseSide(w)), {})
  BY <1>3, WithSpaceAlike
<1>6. Becomes(L, WithSpace(L, i, Expand(w)), {})
  <2> DEFINE r == [w EXCEPT !.expanded = TRUE]
  <2>1. r \in {[w EXCEPT !.side = AgentQueue], [w EXCEPT !.expanded = TRUE]}
    OBVIOUS
  <2> HIDE DEF r
  <2>2. r \in Spaces /\ SameTabs(w, r) /\ (SpaceFocused(w) => SpaceFocused(r))
    BY <1>1, <1>2, <2>1, SpaceBeside
  <2>3. Becomes(L, WithSpace(L, i, r), {})
    BY <2>2, WithSpaceAlike
  <2> QED
    BY <2>3 DEF r, Expand
<1>7. Becomes(L, ToggleQueue(L, i), {})
  BY <1>2, <1>4, <1>5 DEF ToggleQueue
<1> QED
  BY <1>4, <1>5, <1>6, <1>7, SideIs

LEMMA OpenSideBecomes ==
  ASSUME NEW L, Sound(L), NEW s \in Sessions, IsPlaced(L, s), NEW kind \in SideKinds
  PROVE  Becomes(L, OpenSide(L, s, kind), {})
<1> DEFINE p == PlaceOfPane(L, Leaf(s))
           v == [L.ws[p[1]] EXCEPT !.side = Side(kind, s)]
           M == WithSpace(L, p[1], v)
<1>1. OpenSide(L, s, kind) = Focus(M, p, Leaf(s))
  BY DEF OpenSide
<1>2. p \in Places(L) /\ Leaf(s) \in PaneSet(TabAt(L, p).root)
  BY PlaceOfPaneFacts DEF IsPlaced
<1> HIDE DEF p
<1>3. Typed(L) /\ p[1] \in DOMAIN L.ws /\ TabAt(L, p) \in Tabs
  BY <1>2, TabAtFacts DEF Sound
<1>4. Becomes(L, M, {})
  BY <1>3, SidePanelBecomes
<1>5. Side(kind, s) \in SidePanels /\ L.ws[p[1]] \in Spaces
  BY <1>3, SideIs, LayoutFacts
<1>6. v \in Spaces /\ SameTabs(L.ws[p[1]], v)
  <2>1. v \in {v, [L.ws[p[1]] EXCEPT !.expanded = TRUE]}
    OBVIOUS
  <2> QED
    BY <1>5, SpaceBeside
<1>7. Alike(L, M)
  <2> HIDE DEF v
  <2>1. DOMAIN M.ws = DOMAIN L.ws /\ \A k \in DOMAIN L.ws : M.ws[k] = IF k = p[1] THEN v ELSE L.ws[k]
    BY <1>3, <1>6, WithSpaceFacts
  <2> HIDE DEF M
  <2> QED
    BY <1>6, <2>1 DEF Alike, SameTabs
<1> HIDE DEF M
<1>8. p \in Places(M) /\ TabAt(M, p).root = TabAt(L, p).root
  BY <1>2, <1>7, AlikeFacts
<1>9. TabAt(M, p).view = Nothing /\ Leaf(s) \in Panes(Sessions)
  <2>1. TabAt(M, p) \in Tabs
    BY <1>4, <1>8, TabAtFacts DEF Becomes, Sound
  <2> QED
    BY <1>2, <1>8, <2>1, TabWithPanes DEF Leaf, Panes
<1>10. Becomes(M, Focus(M, p, Leaf(s)), {})
  BY <1>2, <1>4, <1>8, <1>9, FocusBecomes DEF Becomes
<1> QED
  BY <1>1, <1>4, <1>10, BecomesTwice

-----------------------------------------------------------------------------
\* Subagents.

LEMMA BesideLeafIs ==
  ASSUME NEW L, NEW p, NEW s PROVE BesideLeaf(L, p, s) = SplitTab(L, p, Leaf(s), Viewer(s))
BY DEF BesideLeaf, SplitTab

LEMMA BesideLeafBecomes ==
  ASSUME NEW L, Sound(L), NEW s \in Sessions, NEW p \in Places(L), Leaf(s) \in PaneSet(TabAt(L, p).root),
         Viewer(s) \notin PanesOf(L)
  PROVE  /\ Becomes(L, BesideLeaf(L, p, s), {Viewer(s)}) /\ p \in Places(BesideLeaf(L, p, s))
         /\ BesideLeaf(L, p, s).ws[p[1]].id = L.ws[p[1]].id
         /\ TabAt(BesideLeaf(L, p, s), p).id = TabAt(L, p).id
<1>1. Viewer(s) \in Panes(Sessions)
  BY DEF Viewer, Panes
<1> QED
  BY <1>1, SplitTabFacts, BesideLeafIs

LEMMA EnsureViewerBecomes ==
  ASSUME NEW L, Sound(L), NEW s \in Sessions PROVE Becomes(L, EnsureViewer(L, s), {Viewer(s)})
<1>1. CASE Viewer(s) \in PanesOf(L) \/ InActiveTab(L, s) = {}
  <2>1. EnsureViewer(L, s) = L
    BY <1>1 DEF EnsureViewer
  <2> QED
    BY <2>1, BecomesItself
<1>2. CASE ~(Viewer(s) \in PanesOf(L) \/ InActiveTab(L, s) = {})
  <2> DEFINE p == CHOOSE q \in InActiveTab(L, s) : TRUE
  <2>1. EnsureViewer(L, s) = BesideLeaf(L, p, s)
    BY <1>2 DEF EnsureViewer
  <2>2. p \in InActiveTab(L, s)
    BY <1>2
  <2> HIDE DEF p
  <2>3. p \in Places(L) /\ Leaf(s) \in PaneSet(TabAt(L, p).root)
    BY <2>2 DEF InActiveTab
  <2> QED
    BY <1>2, <2>1, <2>3, BesideLeafBecomes
<1> QED
  BY <1>1, <1>2

LEMMA EnsurePanelBecomes ==
  ASSUME NEW L, Sound(L), NEW s \in Sessions PROVE Becomes(L, EnsurePanel(L, s), {})
<1> DEFINE i == WsIndex(L, L.active)
           at == InActiveWorkspace(L, s)
<1>1. CASE at = {} \/ L.ws[i].side # Nothing
  <2>1. EnsurePanel(L, s) = L
    BY <1>1 DEF EnsurePanel
  <2> QED
    BY <2>1, BecomesItself
<1>2. CASE ~(at = {} \/ L.ws[i].side # Nothing)
  <2>1. EnsurePanel(L, s) = WithSpace(L, i, [L.ws[i] EXCEPT !.side = Side("agents", s)])
    BY <1>2 DEF EnsurePanel
  <2>2. PICK p \in Places(L) : L.ws[p[1]].id = L.active
    BY <1>2 DEF InActiveWorkspace
  <2>3. L.active \in WsIds(L)
    BY <2>2, PlaceFacts DEF WsIds
  <2>4. i \in DOMAIN L.ws
    BY <2>3, IndexFacts DEF Sound
  <2>5. "agents" \in SideKinds
    BY DEF SideKinds
  <2> HIDE DEF i
  <2> QED
    BY <2>1, <2>4, <2>5, SidePanelBecomes
<1> QED
  BY <1>1, <1>2

LEMMA OpenAgentViewerBecomes ==
  ASSUME NEW L, Sound(L), NEW s \in Sessions, InActiveWorkspace(L, s) # {}
  PROVE  Becomes(L, OpenAgentViewer(L, s), {Viewer(s)})
<1> DEFINE p == CHOOSE q \in InActiveWorkspace(L, s) : TRUE
           M == IF Viewer(s) \in PanesOf(L) THEN L ELSE BesideLeaf(L, p, s)
           w == M.ws[p[1]]
           id == TabAt(L, p).id
           v == [w EXCEPT !.tab = id]
<1>1. OpenAgentViewer(L, s) = WithSpace(M, p[1], v)
  BY DEF OpenAgentViewer
<1>2. p \in InActiveWorkspace(L, s)
  OBVIOUS
<1> HIDE DEF p
<1>3. p \in Places(L) /\ Leaf(s) \in PaneSet(TabAt(L, p).root)
  BY <1>2 DEF InActiveWorkspace
<1>4. Becomes(L, M, {Viewer(s)}) /\ p \in Places(M) /\ TabAt(M, p).id = id
  <2>1. CASE Viewer(s) \in PanesOf(L)
    BY <1>3, <2>1, BecomesItself
  <2>2. CASE Viewer(s) \notin PanesOf(L)
    BY <1>3, <2>2, BesideLeafBecomes
  <2> QED
    BY <2>1, <2>2
<1> HIDE DEF M
<1>5. Typed(M) /\ p[1] \in DOMAIN M.ws /\ TabAt(M, p) \in Tabs /\ p[2] \in DOMAIN w.tabs /\ TabAt(M, p) = w.tabs[p[2]]
  BY <1>4, TabAtFacts DEF Becomes, Sound
<1>6. w \in Spaces /\ id \in Names
  BY <1>4, <1>5, LayoutFacts, TabFacts DEF Names
<1>7. v \in Spaces /\ v.id = w.id /\ v.tabs = w.tabs /\ v.tab = id
  <2> HIDE DEF w, id
  <2> QED
    BY <1>6, SpaceTab
<1> HIDE DEF v
<1>8. SameTabs(w, v) /\ (SpaceFocused(w) => SpaceFocused(v))
  <2>1. w.tabs # <<>>
    <3>1. w.tabs = <<>> => DOMAIN w.tabs = {}
      OBVIOUS
    <3> QED
      BY <1>5, <3>1
  <2> QED
    BY <1>4, <1>5, <1>7, <2>1 DEF SameTabs, SpaceFocused
<1>9. Becomes(M, WithSpace(M, p[1], v), {})
  <2>1. Sound(M) /\ p[1] \in DOMAIN M.ws /\ w = M.ws[p[1]]
    BY <1>4, <1>5 DEF Becomes
  <2> QED
    BY <1>7, <1>8, <2>1, WithSpaceAlike
<1> QED
  BY <1>1, <1>4, <1>9, BecomesTwice

-----------------------------------------------------------------------------
\* What may have been stored is sound.

LEMMA StoredTab ==
  ASSUME NEW tab, IsTab(tab, Sessions) PROVE tab \in Tabs
<1>1. tab = [id |-> tab.id, view |-> tab.view, root |-> tab.root, pane |-> tab.pane] /\ tab.id \in Nat
  BY DEF IsTab
<1>2. CASE tab.view = Nothing
  <2>1. /\ IsTree(tab.root) /\ IsInjective(tab.root)
        /\ DOMAIN tab.root # {} /\ PaneSet(tab.root) \subseteq Panes(Sessions)
        /\ tab.pane \in Panes(Sessions)
    BY <1>2, LayoutAssumption DEF IsTab
  <2>2. tab.root \in Trees
    BY <2>1, TreeFacts
  <2>3. [id |-> tab.id, view |-> tab.view, root |-> tab.root, pane |-> tab.pane] \in TabFields
    BY <1>1, <1>2, <2>1, <2>2 DEF TabFields
  <2> QED
    BY <1>1, <1>2, <2>1, <2>3 DEF Tabs
<1>3. CASE tab.view # Nothing
  <2>1. tab.view \in Pages /\ tab.root = NoPanes /\ tab.pane \in Panes(Sessions) \cup {Nothing}
    BY <1>3 DEF IsTab, Pages
  <2>2. [id |-> tab.id, view |-> tab.view, root |-> tab.root, pane |-> tab.pane] \in TabFields
    BY <1>1, <2>1, NoPanesTree DEF TabFields
  <2> QED
    BY <1>1, <1>3, <2>1, <2>2 DEF Tabs
<1> QED
  BY <1>2, <1>3

LEMMA StoredSpace ==
  ASSUME NEW w, IsWorkspace(w, Sessions) PROVE w \in Spaces
<1>1. /\ w = [id |-> w.id, docker |-> w.docker, tabs |-> w.tabs, tab |-> w.tab,
              side |-> w.side, expanded |-> w.expanded]
      /\ w.id \in Nat /\ w.docker \in BOOLEAN /\ w.tab \in Names /\ w.expanded \in BOOLEAN
  BY DEF IsWorkspace, Names
<1>2. w.tabs \in Seq(Tabs)
  <2> DEFINE s == w.tabs
  <2>1. s \in Seq(Range(s)) /\ \A j \in DOMAIN s : s[j] \in Tabs
    BY StoredTab DEF IsWorkspace
  <2> HIDE DEF s
  <2>2. s \in Seq(Tabs)
    BY <2>1
  <2> QED
    BY <2>2 DEF s
<1>3. w.side \in SidePanels
  BY DEF IsWorkspace, IsSide, SidePanels, AgentQueue, Side, SideKinds
<1>4. [id |-> w.id, docker |-> w.docker, tabs |-> w.tabs, tab |-> w.tab,
       side |-> w.side, expanded |-> w.expanded] \in Spaces
  BY <1>1, <1>2, <1>3 DEF Spaces
<1> QED
  BY <1>1, <1>4

LEMMA StoredSound ==
  ASSUME NEW L, IsStored(L, Sessions) PROVE Sound(L)
<1>1. L.ws \in Seq(Spaces)
  <2> DEFINE s == L.ws
  <2>1. s \in Seq(Range(s)) /\ \A j \in DOMAIN s : s[j] \in Spaces
    BY StoredSpace DEF IsStored
  <2> HIDE DEF s
  <2>2. s \in Seq(Spaces)
    BY <2>1
  <2> QED
    BY <2>2 DEF s
<1>2. Typed(L)
  BY <1>1 DEF Typed, IsStored, Names
<1>3. Apart(L)
  BY DEF IsStored, Apart
<1> QED
  BY <1>2, <1>3 DEF Sound

LEMMA EmptySound == Sound(Empty) /\ Focused(Empty) /\ PanesOf(Empty) = {} /\ WsIds(Empty) = {} /\ Places(Empty) = {}
<1>1. Empty.ws = <<>> /\ Empty.active = Nothing /\ DOMAIN Empty.ws = {} /\ Empty = [ws |-> Empty.ws, active |-> Empty.active]
  BY DEF Empty
<1>2. <<>> \in Seq(Spaces)
  OBVIOUS
<1>3. Places(Empty) = {}
  BY <1>1, PlaceFacts
<1>4. Typed(Empty) /\ Apart(Empty)
  BY <1>1, <1>2, <1>3 DEF Typed, Apart, Names
<1>5. PanesOf(Empty) = {}
  BY <1>3, PanesFacts
<1> QED
  BY <1>1, <1>3, <1>4, <1>5 DEF Sound, Focused, WsIds

-----------------------------------------------------------------------------
\* There is a name nobody holds.

LEMMA ImageFinite ==
  ASSUME NEW S, IsFiniteSet(S), NEW f, NEW T, \A y \in T : \E x \in S : y = f[x]
  PROVE  IsFiniteSet(T)
<1> DEFINE R == {f[x] : x \in S}
           g == [x \in S |-> f[x]]
<1>1. g \in Surjection(S, R)
  BY DEF Surjection
<1>2. IsFiniteSet(R)
  <2> HIDE DEF g, R
  <2> QED
    BY <1>1, FS_Surjection
<1>3. T \in SUBSET R
  OBVIOUS
<1> HIDE DEF R
<1> QED
  BY <1>2, <1>3, FS_Subset

LEMMA SeqFinite ==
  ASSUME NEW S, NEW s \in Seq(S) PROVE IsFiniteSet(DOMAIN s)
<1>1. DOMAIN s = 1..Len(s) /\ Len(s) \in Nat
  OBVIOUS
<1> DEFINE n == Len(s)
<1>2. n \in Nat
  BY <1>1
<1> HIDE DEF n
<1>3. IsFiniteSet(1..n)
  BY <1>2, FS_Interval
<1> QED
  BY <1>1, <1>3 DEF n

LEMMA HeldFinite ==
  ASSUME NEW L, Typed(L) PROVE IsFiniteSet(Held(L))
<1>1. IsFiniteSet(DOMAIN L.ws) /\ L.ws \in Seq(Spaces)
  BY LayoutFacts, SeqFinite
<1>2. IsFiniteSet(WsIds(L))
  <2> DEFINE f == [i \in DOMAIN L.ws |-> L.ws[i].id]
  <2>1. \A y \in WsIds(L) : \E x \in DOMAIN L.ws : y = f[x]
    BY DEF WsIds
  <2> HIDE DEF f
  <2> QED
    BY <1>1, <2>1, ImageFinite
<1>3. IsFiniteSet({L.ws[i].tab : i \in DOMAIN L.ws})
  <2> DEFINE f == [i \in DOMAIN L.ws |-> L.ws[i].tab]
             T == {L.ws[i].tab : i \in DOMAIN L.ws}
  <2>1. \A y \in T : \E x \in DOMAIN L.ws : y = f[x]
    OBVIOUS
  <2> HIDE DEF f, T
  <2>2. IsFiniteSet(T)
    BY <1>1, <2>1, ImageFinite
  <2> QED
    BY <2>2 DEF T
<1>4. IsFiniteSet(TabIds(L))
  <2> DEFINE f == [i \in DOMAIN L.ws |-> {L.ws[i].tabs[j].id : j \in DOMAIN L.ws[i].tabs}]
             T == {f[i] : i \in DOMAIN L.ws}
  <2>1. TabIds(L) = UNION T
    <3> DEFINE g(i) == {L.ws[i].tabs[j].id : j \in DOMAIN L.ws[i].tabs}
    <3>1. \A i \in DOMAIN L.ws : f[i] = g(i)
      OBVIOUS
    <3>2. \A y : y \in TabIds(L) <=> \E i \in DOMAIN L.ws : y \in g(i)
      BY DEF TabIds
    <3> HIDE DEF f, g
    <3>3. \A y : y \in UNION T <=> \E i \in DOMAIN L.ws : y \in f[i]
      OBVIOUS
    <3> HIDE DEF T
    <3>4. \A y : y \in TabIds(L) <=> y \in UNION T
      BY <3>1, <3>2, <3>3
    <3> QED
      BY <3>4
  <2>2. \A y \in T : \E x \in DOMAIN L.ws : y = f[x]
    OBVIOUS
  <2>3. \A y \in T : IsFiniteSet(y)
    <3> SUFFICES ASSUME NEW i \in DOMAIN L.ws PROVE IsFiniteSet({L.ws[i].tabs[j].id : j \in DOMAIN L.ws[i].tabs})
      OBVIOUS
    <3> DEFINE u == L.ws[i].tabs
               h == [j \in DOMAIN u |-> u[j].id]
               R == {u[j].id : j \in DOMAIN u}
    <3>1. u \in Seq(Tabs)
      BY LayoutFacts, SpaceFacts
    <3>2. \A y \in R : \E x \in DOMAIN u : y = h[x]
      OBVIOUS
    <3> HIDE DEF h, R, u
    <3>3. IsFiniteSet(DOMAIN u)
      BY <3>1, SeqFinite
    <3>4. IsFiniteSet(R)
      BY <3>2, <3>3, ImageFinite
    <3> QED
      BY <3>4 DEF R, u
  <2> HIDE DEF f, T
  <2>4. IsFiniteSet(T)
    BY <1>1, <2>2, ImageFinite
  <2> QED
    BY <2>1, <2>3, <2>4, FS_UNION
<1>5. IsFiniteSet({L.active})
  BY FS_Singleton
<1> QED
  BY <1>2, <1>3, <1>4, <1>5, FS_Union DEF Held

LEMMA FreshName ==
  ASSUME NEW H, IsFiniteSet(H)
  PROVE  \E n \in 1..Cardinality(H) + 1 : n \notin H
<1> DEFINE c == Cardinality(H)
           m == c + 1
           S == 1..m
<1>1. c \in Nat
  BY FS_CardinalityType
<1> HIDE DEF c
<1> SUFFICES ASSUME S \subseteq H PROVE FALSE
  BY DEF c
<1>2. m \in Nat /\ m > 0
  BY <1>1
<1> HIDE DEF m
<1>3. Cardinality(1..m) = m
  BY <1>2, NthOfAll
<1>4. Cardinality(S) <= Cardinality(H)
  BY FS_Subset
<1> QED
  BY <1>1, <1>3, <1>4 DEF c, m

-----------------------------------------------------------------------------
(***************************************************************************)
(* Rows, and what is read back from them.                                   *)
(***************************************************************************)

\* Rows r[i] at positions i.
LEMMA InOrderIs ==
  ASSUME NEW S \in SUBSET Nat, IsFiniteSet(S), NEW r, \A i \in S : r[i].position = i,
         NEW rows, rows = {r[i] : i \in S}
  PROVE  InOrder(rows) = [k \in 1..Cardinality(S) |-> r[Nth(S, k)]]
<1> DEFINE at == {x.position : x \in rows}
<1>1. at = S
  <2>1. \A x : x \in at <=> \E y \in rows : x = y.position
    OBVIOUS
  <2>2. \A y : y \in rows <=> \E i \in S : y = r[i]
    OBVIOUS
  <2> HIDE DEF at
  <2>3. ASSUME NEW x \in at PROVE x \in S
    <3>1. PICK y \in rows : x = y.position
      BY <2>1
    <3>2. PICK i \in S : y = r[i]
      BY <2>2
    <3> QED
      BY <3>1, <3>2
  <2>4. ASSUME NEW x \in S PROVE x \in at
    <3>1. r[x] \in rows /\ x = r[x].position
      BY <2>2
    <3> QED
      BY <2>1, <3>1
  <2> QED
    BY <2>3, <2>4
<1>2. InOrder(rows) = [k \in 1..Cardinality(at) |-> CHOOSE x \in rows : x.position = Nth(at, k)]
  BY DEF InOrder
<1> HIDE DEF at
<1>3. ASSUME NEW k \in 1..Cardinality(S)
      PROVE  (CHOOSE x \in rows : x.position = Nth(S, k)) = r[Nth(S, k)]
  <2>1. Nth(S, k) \in S
    BY NthIn
  <2>2. r[Nth(S, k)] \in rows /\ r[Nth(S, k)].position = Nth(S, k)
    BY <2>1
  <2>3. \A x \in rows : x.position = Nth(S, k) => x = r[Nth(S, k)]
    OBVIOUS
  <2> QED
    BY <2>2, <2>3
<1> DEFINE first(k) == CHOOSE x \in rows : x.position = Nth(S, k)
<1>4. InOrder(rows) = [k \in 1..Cardinality(S) |-> first(k)]
  BY <1>1, <1>2
<1>5. \A k \in 1..Cardinality(S) : first(k) = r[Nth(S, k)]
  BY <1>3
<1> HIDE DEF first
<1> QED
  BY <1>4, <1>5

SpaceRow(w, i) == [id |-> w.id, docker |-> w.docker, position |-> i, tab |-> w.tab, side |-> w.side, expanded |-> w.expanded]
TabRow(tab, id, j) == [id |-> tab.id, workspace |-> id, position |-> j, view |-> tab.view, pane |-> tab.pane]

LEMMA RowsAre ==
  ASSUME NEW L
  PROVE  /\ Rows(L.ws).workspaces = {SpaceRow(L.ws[i], i) : i \in DOMAIN L.ws}
         /\ Rows(L.ws).tabs = {TabRow(TabAt(L, p), L.ws[p[1]].id, p[2]) : p \in Places(L)}
         /\ Rows(L.ws).panes = UNION {PaneRows(TabAt(L, p).root, TabAt(L, p).id) : p \in Places(L)}
         /\ Rows(L.ws) = [workspaces |-> Rows(L.ws).workspaces, tabs |-> Rows(L.ws).tabs, panes |-> Rows(L.ws).panes]
<1>1. Places([ws |-> L.ws]) = Places(L)
  BY DEF Places
<1> QED
  BY <1>1 DEF Rows, SpaceRow, TabRow, TabAt

LEMMA PlacesFinite ==
  ASSUME NEW L, Typed(L) PROVE IsFiniteSet(Places(L))
<1> DEFINE g(i) == {<<i, j>> : j \in DOMAIN L.ws[i].tabs}
           f == [i \in DOMAIN L.ws |-> g(i)]
           T == {f[i] : i \in DOMAIN L.ws}
<1>1. IsFiniteSet(DOMAIN L.ws)
  BY LayoutFacts, SeqFinite
<1>2. Places(L) = UNION T
  <2>1. \A i \in DOMAIN L.ws : f[i] = g(i)
    OBVIOUS
  <2>2. \A y : y \in Places(L) <=> \E i \in DOMAIN L.ws : y \in g(i)
    BY DEF Places
  <2> HIDE DEF f, g
  <2>3. \A y : y \in UNION T <=> \E i \in DOMAIN L.ws : y \in f[i]
    OBVIOUS
  <2> HIDE DEF T
  <2>4. \A y : y \in Places(L) <=> y \in UNION T
    BY <2>1, <2>2, <2>3
  <2> QED
    BY <2>4
<1>3. \A y \in T : \E x \in DOMAIN L.ws : y = f[x]
  OBVIOUS
<1>4. \A y \in T : IsFiniteSet(y)
  <2> SUFFICES ASSUME NEW i \in DOMAIN L.ws PROVE IsFiniteSet(g(i))
    OBVIOUS
  <2> DEFINE D == DOMAIN L.ws[i].tabs
             h == [j \in D |-> <<i, j>>]
             R == g(i)
  <2>1. L.ws[i].tabs \in Seq(Tabs)
    BY LayoutFacts, SpaceFacts
  <2>2. IsFiniteSet(D)
    BY <2>1, SeqFinite
  <2>3. \A y \in R : \E x \in D : y = h[x]
    OBVIOUS
  <2> HIDE DEF h, R, D, g
  <2>4. IsFiniteSet(R)
    BY <2>2, <2>3, ImageFinite
  <2> QED
    BY <2>4 DEF R
<1> HIDE DEF f, T
<1>5. IsFiniteSet(T)
  BY <1>1, <1>3, ImageFinite
<1> QED
  BY <1>2, <1>4, <1>5, FS_UNION

LEMMA PaneRowsFinite ==
  ASSUME NEW t, IsTree(t), NEW tab PROVE IsFiniteSet(PaneRows(t, tab))
<1> DEFINE f == [x \in Nodes(t) |-> NodeRow(t, tab, x)]
<1>1. \A y \in PaneRows(t, tab) : \E x \in Nodes(t) : y = f[x]
  BY DEF PaneRows
<1>2. IsFiniteSet(Nodes(t))
  BY NodesFinite
<1> HIDE DEF f
<1> QED
  BY <1>1, <1>2, ImageFinite

LEMMA PanesFinite ==
  ASSUME NEW L, Typed(L) PROVE IsFiniteSet(Rows(L.ws).panes)
<1> DEFINE g(p) == PaneRows(TabAt(L, p).root, TabAt(L, p).id)
           f == [p \in Places(L) |-> g(p)]
           T == {g(p) : p \in Places(L)}
<1>1. \A y \in T : \E x \in Places(L) : y = f[x]
  OBVIOUS
<1>2. \A y \in T : IsFiniteSet(y)
  BY TabAtFacts, TabFacts, TreeFacts, PaneRowsFinite
<1>3. Rows(L.ws).panes = UNION T
  BY RowsAre
<1> HIDE DEF f, g, T
<1>4. IsFiniteSet(T)
  BY <1>1, PlacesFinite, ImageFinite
<1> QED
  BY <1>2, <1>3, <1>4, FS_UNION

LEMMA PaneRowOf ==
  ASSUME NEW L, NEW r
  PROVE  r \in Rows(L.ws).panes <=>
           \E p \in Places(L) : r \in PaneRows(TabAt(L, p).root, TabAt(L, p).id)
<1> DEFINE g(p) == PaneRows(TabAt(L, p).root, TabAt(L, p).id)
<1>1. Rows(L.ws).panes = UNION {g(p) : p \in Places(L)}
  BY RowsAre
<1> HIDE DEF g
<1>2. r \in Rows(L.ws).panes <=> \E p \in Places(L) : r \in g(p)
  BY <1>1
<1> QED
  BY <1>2 DEF g

LEMMA NodeRowUp ==
  ASSUME NEW t, NEW tab, NEW x
  PROVE  /\ x = <<>> => NodeRow(t, tab, x).parent = {}
         /\ x # <<>> => NodeRow(t, tab, x).parent = {<<tab, Front(x)>>}
<1> DEFINE r == NodeRow(t, tab, x)
<1>1. r.parent = IF x = <<>> THEN {} ELSE {<<tab, Front(x)>>}
  BY NodeRowParent
<1> HIDE DEF r
<1>2. CASE x = <<>>
  <2>1. r.parent = {}
    BY <1>1, <1>2
  <2> QED
    BY <2>1, <1>2 DEF r
<1>3. CASE x # <<>>
  <2>1. r.parent = {<<tab, Front(x)>>}
    BY <1>1, <1>3
  <2> QED
    BY <2>1, <1>3 DEF r
<1> QED
  BY <1>2, <1>3

LEMMA RowsHold ==
  ASSUME NEW L, Sound(L), NEW p \in Places(L)
  PROVE  Holds(Rows(L.ws).panes, TabAt(L, p).root, TabAt(L, p).id)
<1> DEFINE rows == Rows(L.ws).panes
           t == TabAt(L, p).root
           tab == TabAt(L, p).id
<1>0. Typed(L)
  BY DEF Sound
<1>1. IsFiniteSet(rows)
  BY <1>0, PanesFinite
<1>2. PaneRows(t, tab) \subseteq rows
  BY PaneRowOf
<1>3. ASSUME NEW r \in rows PROVE r.tab = tab <=> r \in PaneRows(t, tab)
  <2>1. PICK q \in Places(L) : r \in PaneRows(TabAt(L, q).root, TabAt(L, q).id)
    BY PaneRowOf
  <2>2. r.tab = TabAt(L, q).id
    BY <2>1, NodeRowName DEF PaneRows
  <2>3. r \in PaneRows(t, tab) => r.tab = tab
    BY NodeRowName DEF PaneRows
  <2>4. r.tab = tab => p = q
    BY <2>2 DEF Sound, Apart
  <2> QED
    BY <2>1, <2>3, <2>4
<1>4. ASSUME NEW r \in rows PROVE r.parent = {} \/ \E x : r.parent = {<<r.tab, x>>}
  <2>1. PICK q \in Places(L) : r \in PaneRows(TabAt(L, q).root, TabAt(L, q).id)
    BY PaneRowOf
  <2>2. PICK x : r = NodeRow(TabAt(L, q).root, TabAt(L, q).id, x)
    BY <2>1 DEF PaneRows
  <2>3. r.tab = TabAt(L, q).id
    BY <2>2, NodeRowName
  <2>5. r.parent = {} \/ r.parent = {<<TabAt(L, q).id, Front(x)>>}
    BY <2>2, NodeRowUp
  <2> QED
    BY <2>3, <2>5
<1> QED
  BY <1>1, <1>2, <1>3, <1>4 DEF Holds

\* The tree of a tab is built again.
LEMMA TreeIs ==
  ASSUME NEW L, Sound(L), NEW p \in Places(L), NEW row, row.id = TabAt(L, p).id
  PROVE  Tree(row, Rows(L.ws).panes) = TabAt(L, p).root
<1> DEFINE rows == Rows(L.ws).panes
           t == TabAt(L, p).root
           tab == TabAt(L, p).id
           roots == {r \in rows : r.tab = row.id /\ r.parent = {}}
           top == NodeRow(t, tab, <<>>)
<1>1. Holds(rows, t, tab)
  BY RowsHold
<1>2. TabAt(L, p) \in Tabs
  BY TabAtFacts DEF Sound
<1>3. IsTree(t) /\ PaneSet(t) \subseteq Panes(Sessions)
  BY <1>2, TabFacts, TreeFacts
<1>4. \A r : r \in roots <=> r \in PaneRows(t, tab) /\ r.parent = {}
  BY <1>1 DEF Holds
<1>5. \A r \in roots : r = top
  <2> SUFFICES ASSUME NEW r \in roots PROVE r = top
    OBVIOUS
  <2>1. PICK x \in Nodes(t) : r = NodeRow(t, tab, x)
    BY <1>4 DEF PaneRows
  <2>2. x # <<>> => r.parent = {<<tab, Front(x)>>}
    BY <2>1, NodeRowUp
  <2>4. r.parent = {}
    BY <1>4
  <2>3. x = <<>>
    BY <2>2, <2>4
  <2> QED
    BY <2>1, <2>3
<1>6. CASE DOMAIN t = {}
  <2>1. Nodes(t) = {}
    BY <1>6 DEF Nodes
  <2>2. roots = {}
    BY <1>4, <2>1 DEF PaneRows
  <2>3. t = NoPanes
    BY <1>3, <1>6 DEF IsTree, NoPanes
  <2> QED
    BY <2>2, <2>3 DEF Tree
<1>7. CASE DOMAIN t # {}
  <2>1. <<>> \in Nodes(t)
    BY <1>3, <1>7, NodesOfTree
  <2>2. top \in PaneRows(t, tab)
    BY <2>1 DEF PaneRows
  <2>3. top.parent = {}
    BY NodeRowUp
  <2>4. top \in roots
    BY <1>4, <2>2, <2>3
  <2>5. (CHOOSE r \in roots : TRUE) = top /\ roots # {}
    BY <1>5, <2>4
  <2>6. Nothing \notin Sessions
    BY LayoutAssumption
  <2>7. BuildNode(top, rows) = t
    BY <1>1, <1>3, <1>7, <2>6, BuildNodeIs
  <2> QED
    BY <2>5, <2>7 DEF Tree
<1> QED
  BY <1>6, <1>7

-----------------------------------------------------------------------------
(***************************************************************************)
(* The layout that is loaded, workspace by workspace and tab by tab.        *)
(***************************************************************************)

\* What is left of a tab, and the tabs of a workspace that stay.
LeftOf(tab, valid) == Keep(tab.root, {p \in PaneSet(tab.root) : p.session \in valid})
Stay(w, valid) == {j \in DOMAIN w.tabs : w.tabs[j].view # Nothing \/ DOMAIN LeftOf(w.tabs[j], valid) # {}}
Built(tab, valid) == BuildTab(tab, LeftOf(tab, valid))
NewTabs(w, valid) == [k \in 1..Cardinality(Stay(w, valid)) |-> Built(w.tabs[Nth(Stay(w, valid), k)], valid)]
NewSpace(w, valid) == WorkspaceOf(w, NewTabs(w, valid), valid)

LEMMA StoredSpaces ==
  ASSUME NEW L, Sound(L)
  PROVE  InOrder(Rows(L.ws).workspaces) = [i \in DOMAIN L.ws |-> SpaceRow(L.ws[i], i)]
<1> DEFINE n == Len(L.ws)
           r == [i \in 1..n |-> SpaceRow(L.ws[i], i)]
           rows == Rows(L.ws).workspaces
<1>1. n \in Nat /\ DOMAIN L.ws = 1..n
  BY LayoutFacts DEF Sound
<1>2. \A i \in 1..n : r[i].position = i
  BY DEF SpaceRow
<1>3. rows = {r[i] : i \in 1..n}
  <2>1. rows = {SpaceRow(L.ws[i], i) : i \in 1..n}
    BY <1>1, RowsAre
  <2>2. \A i \in 1..n : r[i] = SpaceRow(L.ws[i], i)
    OBVIOUS
  <2> HIDE DEF r, rows
  <2> QED
    BY <2>1, <2>2
<1>4. r = [i \in DOMAIN L.ws |-> SpaceRow(L.ws[i], i)]
  BY <1>1
<1>5. r = [k \in 1..n |-> r[k]]
  OBVIOUS
<1> HIDE DEF r, rows, n
<1>6. IsFiniteSet(1..n) /\ 1..n \in SUBSET Nat /\ Cardinality(1..n) = n
  BY <1>1, FS_Interval
<1>7. InOrder(rows) = [k \in 1..n |-> r[Nth(1..n, k)]]
  <2>1. InOrder(rows) = [k \in 1..Cardinality(1..n) |-> r[Nth(1..n, k)]]
    BY <1>2, <1>3, <1>6, InOrderIs
  <2> QED
    BY <2>1, <1>6
<1>8. \A k \in 1..n : Nth(1..n, k) = k
  BY <1>1, NthOfAll
<1>9. InOrder(rows) = r
  BY <1>5, <1>7, <1>8
<1> QED
  BY <1>4, <1>9 DEF rows

LEMMA TabRowFacts ==
  ASSUME NEW tab, NEW id, NEW j
  PROVE  LET r == TabRow(tab, id, j)
         IN  r.id = tab.id /\ r.workspace = id /\ r.position = j /\ r.view = tab.view /\ r.pane = tab.pane
BY DEF TabRow

LEMMA TabRowOf ==
  ASSUME NEW L, NEW t
  PROVE  t \in Rows(L.ws).tabs <=> \E p \in Places(L) : t = TabRow(TabAt(L, p), L.ws[p[1]].id, p[2])
<1> DEFINE g(p) == TabRow(TabAt(L, p), L.ws[p[1]].id, p[2])
<1>1. Rows(L.ws).tabs = {g(p) : p \in Places(L)}
  BY RowsAre
<1> HIDE DEF g
<1>2. t \in Rows(L.ws).tabs <=> \E p \in Places(L) : t = g(p)
  BY <1>1
<1> QED
  BY <1>2 DEF g

LEMMA TabsOfSpace ==
  ASSUME NEW L, Sound(L), NEW i \in DOMAIN L.ws
  PROVE  {t \in Rows(L.ws).tabs : t.workspace = L.ws[i].id}
           = {TabRow(L.ws[i].tabs[j], L.ws[i].id, j) : j \in DOMAIN L.ws[i].tabs}
<1> DEFINE A == {t \in Rows(L.ws).tabs : t.workspace = L.ws[i].id}
           B == {TabRow(L.ws[i].tabs[j], L.ws[i].id, j) : j \in DOMAIN L.ws[i].tabs}
<1>1. ASSUME NEW t \in A PROVE t \in B
  <2>1. PICK p \in Places(L) : t = TabRow(TabAt(L, p), L.ws[p[1]].id, p[2])
    BY TabRowOf
  <2>2. t.workspace = L.ws[p[1]].id
    BY <2>1, TabRowFacts
  <2>3. p[1] \in DOMAIN L.ws /\ p[2] \in DOMAIN L.ws[p[1]].tabs
    BY PlaceFacts
  <2>4. p[1] = i
    BY <2>2, <2>3 DEF Sound, Apart
  <2>5. t = TabRow(L.ws[i].tabs[p[2]], L.ws[i].id, p[2])
    BY <2>1, <2>4 DEF TabAt
  <2> QED
    BY <2>3, <2>4, <2>5
<1>2. ASSUME NEW t \in B PROVE t \in A
  <2>1. PICK j \in DOMAIN L.ws[i].tabs : t = TabRow(L.ws[i].tabs[j], L.ws[i].id, j)
    OBVIOUS
  <2> DEFINE p == <<i, j>>
  <2>2. p \in Places(L) /\ p[1] = i /\ p[2] = j
    BY PlaceFacts
  <2> HIDE DEF p
  <2>3. t = TabRow(TabAt(L, p), L.ws[p[1]].id, p[2])
    BY <2>1, <2>2 DEF TabAt
  <2>4. t \in Rows(L.ws).tabs
    BY <2>2, <2>3, TabRowOf
  <2>5. t.workspace = L.ws[i].id
    BY <2>1, TabRowFacts
  <2> QED
    BY <2>4, <2>5
<1> QED
  BY <1>1, <1>2

LEMMA RetainedIs ==
  ASSUME NEW L, Sound(L), NEW i \in DOMAIN L.ws, NEW j \in DOMAIN L.ws[i].tabs, NEW valid
  PROVE  Retained(TabRow(L.ws[i].tabs[j], L.ws[i].id, j), Rows(L.ws).panes, valid) = LeftOf(L.ws[i].tabs[j], valid)
<1> DEFINE p == <<i, j>>
           row == TabRow(L.ws[i].tabs[j], L.ws[i].id, j)
           rows == Rows(L.ws).panes
<1>1. p \in Places(L) /\ TabAt(L, p) = L.ws[i].tabs[j]
  BY PlaceFacts DEF TabAt
<1> HIDE DEF p
<1>2. row.id = TabAt(L, p).id
  BY <1>1, TabRowFacts
<1> HIDE DEF row, rows
<1>3. Tree(row, rows) = L.ws[i].tabs[j].root
  BY <1>1, <1>2, TreeIs DEF rows
<1>4. Retained(row, rows, valid) = LeftOf(L.ws[i].tabs[j], valid)
  BY <1>3 DEF Retained, LeftOf
<1> QED
  BY <1>4 DEF row, rows

LEMMA StayFinite ==
  ASSUME NEW w \in Spaces, NEW valid
  PROVE  /\ Stay(w, valid) \in SUBSET Nat /\ IsFiniteSet(Stay(w, valid)) /\ Stay(w, valid) \subseteq DOMAIN w.tabs
         /\ Cardinality(Stay(w, valid)) \in Nat
<1>1. w.tabs \in Seq(Tabs) /\ DOMAIN w.tabs = 1..Len(w.tabs) /\ Len(w.tabs) \in Nat
  BY SpaceFacts
<1>2. IsFiniteSet(DOMAIN w.tabs)
  BY <1>1, SeqFinite
<1>3. Stay(w, valid) \subseteq DOMAIN w.tabs
  BY DEF Stay
<1>4. DOMAIN w.tabs \in SUBSET Nat
  BY <1>1
<1>5. IsFiniteSet(Stay(w, valid)) /\ Cardinality(Stay(w, valid)) \in Nat
  BY <1>2, <1>3, FS_Subset, FS_CardinalityType
<1> QED
  BY <1>3, <1>4, <1>5

LEMMA TabsOfIs ==
  ASSUME NEW L, Sound(L), NEW i \in DOMAIN L.ws, NEW valid
  PROVE  TabsOf({t \in Rows(L.ws).tabs : t.workspace = L.ws[i].id}, Rows(L.ws).panes, valid)
           = NewTabs(L.ws[i], valid)
<1> DEFINE w == L.ws[i]
           panes == Rows(L.ws).panes
           own == {t \in Rows(L.ws).tabs : t.workspace = w.id}
           row(j) == TabRow(w.tabs[j], w.id, j)
           J == Stay(w, valid)
           r == [j \in DOMAIN w.tabs |-> row(j)]
           stays == {t \in own : t.view # Nothing \/ DOMAIN Retained(t, panes, valid) # {}}
           built == InOrder(stays)
<1>0. w \in Spaces
  BY LayoutFacts DEF Sound
<1>1. J \in SUBSET Nat /\ IsFiniteSet(J) /\ J \subseteq DOMAIN w.tabs /\ Cardinality(J) \in Nat
  BY <1>0, StayFinite
<1>2. own = {row(j) : j \in DOMAIN w.tabs}
  BY TabsOfSpace
<1>3. \A j \in DOMAIN w.tabs : row(j).view = w.tabs[j].view /\ row(j).position = j
  BY TabRowFacts
<1>4. \A j \in DOMAIN w.tabs : Retained(row(j), panes, valid) = LeftOf(w.tabs[j], valid)
  BY RetainedIs
<1>5. \A j \in DOMAIN w.tabs : r[j] = row(j)
  OBVIOUS
<1>6. \A j \in DOMAIN w.tabs : j \in J <=> w.tabs[j].view # Nothing \/ DOMAIN LeftOf(w.tabs[j], valid) # {}
  BY DEF Stay
<1>7. \A j \in DOMAIN w.tabs : \A root : BuildTab(row(j), root) = BuildTab(w.tabs[j], root)
  BY TabRowFacts DEF BuildTab
<1>8. \A t : t \in stays <=> t \in own /\ (t.view # Nothing \/ DOMAIN Retained(t, panes, valid) # {})
  OBVIOUS
<1>9. \A t : t \in own <=> \E j \in DOMAIN w.tabs : t = row(j)
  BY <1>2
<1>10. NewTabs(w, valid) = [k \in 1..Cardinality(J) |-> Built(w.tabs[Nth(J, k)], valid)]
  BY DEF NewTabs
<1>11. TabsOf(own, panes, valid) = [k \in DOMAIN built |-> BuildTab(built[k], Retained(built[k], panes, valid))]
  BY DEF TabsOf
<1> HIDE DEF w, panes, own, row, J, r, stays
<1>12. stays = {r[j] : j \in J}
  <2>1. ASSUME NEW t \in stays PROVE \E j \in J : t = r[j]
    <3>1. PICK j \in DOMAIN w.tabs : t = row(j)
      BY <1>8, <1>9
    <3>2. w.tabs[j].view # Nothing \/ DOMAIN LeftOf(w.tabs[j], valid) # {}
      BY <3>1, <1>3, <1>4, <1>8
    <3> QED
      BY <3>1, <3>2, <1>5, <1>6
  <2>2. ASSUME NEW j \in J PROVE r[j] \in stays
    BY <1>1, <1>3, <1>4, <1>5, <1>6, <1>8, <1>9
  <2> QED
    BY <2>1, <2>2
<1>13. \A j \in J : r[j].position = j
  BY <1>1, <1>3, <1>5
<1>14. InOrder(stays) = [k \in 1..Cardinality(J) |-> r[Nth(J, k)]]
  BY <1>1, <1>12, <1>13, InOrderIs
<1>15. DOMAIN built = 1..Cardinality(J) /\ \A k \in 1..Cardinality(J) : built[k] = r[Nth(J, k)]
  BY <1>14
<1> HIDE DEF built
<1>16. ASSUME NEW k \in 1..Cardinality(J)
       PROVE  BuildTab(built[k], Retained(built[k], panes, valid)) = Built(w.tabs[Nth(J, k)], valid)
  <2> DEFINE j == Nth(J, k)
  <2>1. j \in J
    BY <1>1, NthIn
  <2> HIDE DEF j
  <2>2. built[k] = row(j) /\ j \in DOMAIN w.tabs
    BY <2>1, <1>1, <1>5, <1>15 DEF j
  <2>3. Retained(built[k], panes, valid) = LeftOf(w.tabs[j], valid)
    BY <2>2, <1>4
  <2>4. BuildTab(row(j), LeftOf(w.tabs[j], valid)) = BuildTab(w.tabs[j], LeftOf(w.tabs[j], valid))
    BY <2>2, <1>7
  <2>5. BuildTab(built[k], Retained(built[k], panes, valid)) = Built(w.tabs[j], valid)
    BY <2>2, <2>3, <2>4 DEF Built
  <2> QED
    BY <2>5 DEF j
<1>17. TabsOf(own, panes, valid) = NewTabs(w, valid)
  <2> DEFINE a(k) == BuildTab(built[k], Retained(built[k], panes, valid))
             b(k) == Built(w.tabs[Nth(J, k)], valid)
  <2>1. TabsOf(own, panes, valid) = [k \in 1..Cardinality(J) |-> a(k)]
    BY <1>11, <1>15
  <2>2. NewTabs(w, valid) = [k \in 1..Cardinality(J) |-> b(k)]
    BY <1>10
  <2>3. \A k \in 1..Cardinality(J) : a(k) = b(k)
    BY <1>16
  <2> HIDE DEF a, b
  <2> QED
    BY <2>1, <2>2, <2>3
<1> QED
  BY <1>17 DEF w, panes, own

LEMMA WorkspacesAre ==
  ASSUME NEW L, Sound(L), NEW valid
  PROVE  Workspaces(Rows(L.ws), valid) = [i \in DOMAIN L.ws |-> NewSpace(L.ws[i], valid)]
<1> DEFINE rows == Rows(L.ws)
           stored == InOrder(rows.workspaces)
           own(i) == {t \in rows.tabs : t.workspace = stored[i].id}
           a(i) == WorkspaceOf(stored[i], TabsOf(own(i), rows.panes, valid), valid)
           b(i) == NewSpace(L.ws[i], valid)
<1>1. Workspaces(rows, valid) = [i \in DOMAIN stored |-> a(i)]
  BY DEF Workspaces
<1>2. stored = [i \in DOMAIN L.ws |-> SpaceRow(L.ws[i], i)]
  BY StoredSpaces
<1>3. DOMAIN stored = DOMAIN L.ws /\ \A i \in DOMAIN L.ws : stored[i] = SpaceRow(L.ws[i], i)
  BY <1>2
<1> HIDE DEF stored
<1>4. ASSUME NEW i \in DOMAIN L.ws PROVE a(i) = b(i)
  <2>0. SpaceRow(L.ws[i], i).id = L.ws[i].id
    BY DEF SpaceRow
  <2>1. stored[i].id = L.ws[i].id
    BY <1>3, <2>0
  <2>2. TabsOf(own(i), rows.panes, valid) = NewTabs(L.ws[i], valid)
    BY <2>1, TabsOfIs
  <2>3. \A tabs : WorkspaceOf(SpaceRow(L.ws[i], i), tabs, valid) = WorkspaceOf(L.ws[i], tabs, valid)
    BY DEF WorkspaceOf, SpaceRow
  <2> HIDE DEF own, rows
  <2> QED
    BY <2>2, <2>3, <1>3 DEF NewSpace
<1> HIDE DEF a, b
<1>5. [i \in DOMAIN stored |-> a(i)] = [i \in DOMAIN L.ws |-> b(i)]
  BY <1>3, <1>4
<1> QED
  BY <1>1, <1>5 DEF b

LEMMA BuiltIs ==
  ASSUME NEW tab \in Tabs, NEW valid, tab.view # Nothing \/ DOMAIN LeftOf(tab, valid) # {}
  PROVE  LET new == Built(tab, valid)
         IN  /\ new \in Tabs /\ new.id = tab.id /\ TabFocused(new)
             /\ PaneSet(new.root) = {x \in PaneSet(tab.root) : x.session \in valid}
<1> DEFINE root == LeftOf(tab, valid)
           keep == {x \in PaneSet(tab.root) : x.session \in valid}
<1>0. /\ tab.id \in Nat /\ tab.view \in Pages \cup {Nothing} /\ tab.root \in Trees
      /\ tab.view = Nothing => tab.pane \in Panes(Sessions)
      /\ tab.view # Nothing => tab.root = NoPanes
  BY TabFacts
<1>1. CASE tab.view # Nothing
  <2>1. Built(tab, valid) = ViewTab(tab.id, tab.view)
    BY <1>1 DEF Built, BuildTab
  <2>2. tab.root = NoPanes /\ tab.view \in Pages /\ tab.id \in Nat
    BY <1>0, <1>1
  <2>3. PaneSet(tab.root) = {}
    BY <2>2, NoPanesTree
  <2> QED
    BY <2>1, <2>2, <2>3, ViewTabIs
<1>2. CASE tab.view = Nothing
  <2>1. IsTree(tab.root) /\ IsInjective(tab.root) /\ PaneSet(tab.root) \subseteq Panes(Sessions)
    BY <1>0, TreeFacts
  <2>2. IsTree(root) /\ IsInjective(root) /\ PaneSet(root) = PaneSet(tab.root) \cap keep
    BY <2>1, KeepTree DEF LeftOf
  <2>3. PaneSet(root) = keep /\ keep \subseteq Panes(Sessions)
    BY <2>1, <2>2
  <2>4. root \in Trees /\ DOMAIN root # {}
    BY <1>2, <2>2, <2>3, TreeFacts
  <2>5. First(root) \in PaneSet(root)
    BY <2>2, <2>4, FirstPane
  <2> DEFINE pane == IF tab.pane \in PaneSet(root) THEN tab.pane ELSE First(root)
             new == [id |-> tab.id, view |-> Nothing, root |-> root, pane |-> pane]
  <2>6. Built(tab, valid) = new
    BY <1>2 DEF Built, BuildTab
  <2>7. pane \in PaneSet(root)
    BY <2>5
  <2>8. pane \in Panes(Sessions)
    BY <2>3, <2>7
  <2> HIDE DEF root, pane
  <2>9. new \in Tabs
    BY <1>0, <2>4, <2>8 DEF Tabs, TabFields
  <2>10. TabFocused(new)
    BY <2>4, <2>7 DEF TabFocused
  <2>11. new.id = tab.id /\ PaneSet(new.root) = keep
    BY <2>3
  <2> HIDE DEF new
  <2> QED
    BY <2>6, <2>9, <2>10, <2>11
<1> QED
  BY <1>1, <1>2

LEMMA StayThere ==
  ASSUME NEW w \in Spaces, NEW valid, NEW k \in 1..Cardinality(Stay(w, valid))
  PROVE  LET j == Nth(Stay(w, valid), k)
         IN  /\ j \in Nat /\ j \in Stay(w, valid) /\ j \in DOMAIN w.tabs /\ w.tabs[j] \in Tabs
             /\ w.tabs[j].view # Nothing \/ DOMAIN LeftOf(w.tabs[j], valid) # {}
<1> DEFINE J == Stay(w, valid)
           j == Nth(J, k)
<1>1. J \in SUBSET Nat /\ IsFiniteSet(J) /\ J \subseteq DOMAIN w.tabs
  BY StayFinite
<1>2. j \in J
  BY <1>1, NthIn
<1>3. \A i \in J : w.tabs[i].view # Nothing \/ DOMAIN LeftOf(w.tabs[i], valid) # {}
  BY DEF Stay
<1> HIDE DEF J
<1>4. j \in DOMAIN w.tabs /\ j \in Nat
  BY <1>1, <1>2
<1> HIDE DEF j
<1>5. w.tabs[j] \in Tabs
  BY <1>4, SpaceFacts
<1> QED
  BY <1>2, <1>3, <1>4, <1>5 DEF J, j

LEMMA NewTabsFacts ==
  ASSUME NEW w \in Spaces, NEW valid
  PROVE  LET tabs == NewTabs(w, valid)
         IN  /\ tabs \in Seq(Tabs) /\ DOMAIN tabs = 1..Cardinality(Stay(w, valid)) /\ Len(tabs) \in Nat
             /\ DOMAIN tabs = 1..Len(tabs)
             /\ \A k \in DOMAIN tabs : tabs[k] = Built(w.tabs[Nth(Stay(w, valid), k)], valid)
<1> DEFINE n == Cardinality(Stay(w, valid))
           b(k) == Built(w.tabs[Nth(Stay(w, valid), k)], valid)
           tabs == NewTabs(w, valid)
<1>1. n \in Nat
  BY StayFinite
<1>2. \A k \in 1..n : b(k) \in Tabs
  BY StayThere, BuiltIs
<1>3. tabs = [k \in 1..n |-> b(k)]
  BY DEF NewTabs
<1> HIDE DEF n, b, tabs
<1>4. tabs \in Seq(Tabs)
  BY <1>1, <1>2, <1>3
<1>5. DOMAIN tabs = 1..n /\ \A k \in 1..n : tabs[k] = b(k)
  BY <1>3
<1>6. Len(tabs) \in Nat /\ DOMAIN tabs = 1..Len(tabs)
  BY <1>4, SeqFacts
<1> QED
  BY <1>4, <1>5, <1>6 DEF n, b, tabs

LEMMA NewSpaceFacts ==
  ASSUME NEW w \in Spaces, NEW valid
  PROVE  LET v == NewSpace(w, valid)
         IN  v \in Spaces /\ SpaceFocused(v) /\ v.id = w.id /\ v.tabs = NewTabs(w, valid)
<1> DEFINE tabs == NewTabs(w, valid)
           tab == IF \E j \in DOMAIN tabs : tabs[j].id = w.tab THEN w.tab ELSE Neighbour(tabs, 1)
           side == IF w.side # Nothing /\ (w.side.session = Nothing \/ w.side.session \in valid)
                   THEN w.side ELSE Nothing
           v == [id |-> w.id, docker |-> w.docker, tabs |-> tabs, tab |-> tab, side |-> side,
                 expanded |-> w.expanded]
<1>1. NewSpace(w, valid) = v
  BY DEF NewSpace, WorkspaceOf
<1>2. /\ tabs \in Seq(Tabs) /\ Len(tabs) \in Nat /\ DOMAIN tabs = 1..Len(tabs)
      /\ \A k \in DOMAIN tabs : tabs[k] = Built(w.tabs[Nth(Stay(w, valid), k)], valid)
      /\ DOMAIN tabs = 1..Cardinality(Stay(w, valid))
  BY NewTabsFacts
<1>3. w.id \in Nat /\ w.docker \in BOOLEAN /\ w.tab \in Names /\ w.side \in SidePanels /\ w.expanded \in BOOLEAN
  BY SpaceFacts
<1>4. \A k \in DOMAIN tabs : tabs[k] \in Tabs /\ TabFocused(tabs[k]) /\ tabs[k].id \in Nat
  <2> SUFFICES ASSUME NEW k \in DOMAIN tabs PROVE tabs[k] \in Tabs /\ TabFocused(tabs[k])
    BY TabFacts
  <2> HIDE DEF tabs
  <2>1. k \in 1..Cardinality(Stay(w, valid)) /\ tabs[k] = Built(w.tabs[Nth(Stay(w, valid), k)], valid)
    BY <1>2
  <2> QED
    BY <2>1, StayThere, BuiltIs
<1> HIDE DEF tabs
<1>5. tabs = <<>> => tab = Nothing
  <2>1. 1 \in 1..Len(tabs) + 1
    BY <1>2
  <2>2. tabs = <<>> => Neighbour(tabs, 1) = Nothing
    BY <1>2, <2>1, NeighbourFacts
  <2>3. tabs = <<>> => DOMAIN tabs = {}
    OBVIOUS
  <2> QED
    BY <2>2, <2>3
<1>6. tabs # <<>> => \E j \in DOMAIN tabs : tabs[j].id = tab
  <2>1. tabs # <<>> => \E j \in DOMAIN tabs : Neighbour(tabs, 1) = tabs[j].id
    BY <1>2, NeighbourFacts
  <2> QED
    BY <2>1
<1>7. tab \in Names
  BY <1>3, <1>4, <1>5, <1>6 DEF Names
<1>8. side \in SidePanels
  BY <1>3 DEF SidePanels
<1> HIDE DEF tab, side
<1>9. v \in Spaces
  BY <1>2, <1>3, <1>7, <1>8 DEF Spaces
<1>10. v.tabs = tabs /\ v.tab = tab /\ v.id = w.id
  OBVIOUS
<1> HIDE DEF v
<1>11. SpaceFocused(v)
  BY <1>4, <1>5, <1>6, <1>10 DEF SpaceFocused
<1> QED
  BY <1>1, <1>9, <1>10, <1>11 DEF tabs

\* What is loaded is sound, and what is active is there.
LEMMA LoadedFrom ==
  ASSUME NEW L, Sound(L), NEW valid, NEW saved \in Names
  PROVE  LET M == ActiveIn(Workspaces(Rows(L.ws), valid), saved)
         IN  /\ Sound(M) /\ Focused(M)
             /\ \A x : x \in PanesOf(M) <=> x \in PanesOf(L) /\ x.session \in valid
<1> DEFINE ws == Workspaces(Rows(L.ws), valid)
           M == ActiveIn(ws, saved)
<1>1. /\ L.ws \in Seq(Spaces) /\ Len(L.ws) \in Nat /\ DOMAIN L.ws = 1..Len(L.ws)
      /\ \A i \in DOMAIN L.ws : i \in Nat /\ L.ws[i] \in Spaces
  BY LayoutFacts DEF Sound
<1>2. ws = [i \in DOMAIN L.ws |-> NewSpace(L.ws[i], valid)]
  BY WorkspacesAre
<1> HIDE DEF ws
<1>3. DOMAIN ws = DOMAIN L.ws /\ \A i \in DOMAIN L.ws : ws[i] = NewSpace(L.ws[i], valid)
  BY <1>2
<1>4. \A i \in DOMAIN L.ws : /\ ws[i] \in Spaces /\ SpaceFocused(ws[i]) /\ ws[i].id = L.ws[i].id
                             /\ ws[i].tabs = NewTabs(L.ws[i], valid)
  BY <1>1, <1>3, NewSpaceFacts
<1>5. ws \in Seq(Spaces)
  <2> DEFINE n == Len(L.ws)
  <2>1. n \in Nat /\ DOMAIN L.ws = 1..n
    BY <1>1
  <2> HIDE DEF n
  <2>2. ws \in [1..n -> Spaces]
    BY <1>2, <1>4, <2>1
  <2> QED
    BY <2>1, <2>2
<1>6. M.ws = ws /\ M.active = (IF \E i \in DOMAIN ws : ws[i].id = saved THEN saved ELSE Neighbour(ws, 1))
      /\ M = [ws |-> M.ws, active |-> M.active]
  BY DEF ActiveIn
<1>7. M.active \in WsIds(M) \cup {Nothing}
  <2>1. (\E i \in DOMAIN ws : ws[i].id = saved) => M.active \in WsIds(M)
    BY <1>6 DEF WsIds
  <2>2. ws = <<>> => Neighbour(ws, 1) = Nothing
    BY <1>1, <1>3, <1>5, NeighbourFacts, SeqFacts
  <2>3. ws # <<>> => \E j \in DOMAIN ws : Neighbour(ws, 1) = ws[j].id
    BY <1>1, <1>3, <1>5, NeighbourFacts, SeqFacts
  <2>4. ~(\E i \in DOMAIN ws : ws[i].id = saved) => M.active \in WsIds(M) \cup {Nothing}
    BY <1>6, <2>2, <2>3 DEF WsIds
  <2> QED
    BY <2>1, <2>4
<1> HIDE DEF M
<1>8. M.active \in Names
  <2>1. \A i \in DOMAIN ws : ws[i].id \in Nat
    BY <1>3, <1>4, SpaceFacts
  <2> QED
    BY <1>6, <1>7, <2>1 DEF Names, WsIds
<1>9. Typed(M)
  BY <1>5, <1>6, <1>8 DEF Typed
<1>10. Focused(M)
  BY <1>3, <1>4, <1>6, <1>7 DEF Focused
<1> DEFINE f == [p \in Places(M) |-> <<p[1], Nth(Stay(L.ws[p[1]], valid), p[2])>>]
           g == [i \in DOMAIN M.ws |-> i]
           old(i, k) == Nth(Stay(L.ws[i], valid), k)
<1>11. ASSUME NEW p \in Places(M)
       PROVE  /\ f[p] \in Places(L) /\ TabAt(M, p).id = TabAt(L, f[p]).id
              /\ PaneSet(TabAt(M, p).root) = {x \in PaneSet(TabAt(L, f[p]).root) : x.session \in valid}
              /\ f[p][1] = p[1] /\ f[p][2] = old(p[1], p[2])
              /\ p[1] \in DOMAIN L.ws /\ p[2] \in 1..Cardinality(Stay(L.ws[p[1]], valid)) /\ p = <<p[1], p[2]>>
  <2> DEFINE i == p[1]
             k == p[2]
             w == L.ws[i]
             j == old(i, k)
  <2>1. i \in DOMAIN L.ws /\ k \in DOMAIN ws[i].tabs /\ p = <<i, k>> /\ TabAt(M, p) = ws[i].tabs[k]
    BY <1>3, <1>6, PlaceFacts DEF TabAt
  <2>2. w \in Spaces /\ ws[i].tabs = NewTabs(w, valid)
    BY <1>1, <1>4, <2>1
  <2>6. f[p] = <<i, j>>
    OBVIOUS
  <2> HIDE DEF w, f
  <2>3. k \in 1..Cardinality(Stay(w, valid)) /\ TabAt(M, p) = Built(w.tabs[Nth(Stay(w, valid), k)], valid)
    BY <2>1, <2>2, NewTabsFacts
  <2>4. j = Nth(Stay(w, valid), k)
    BY DEF w
  <2> HIDE DEF j
  <2>5. /\ j \in DOMAIN w.tabs /\ w.tabs[j] \in Tabs
        /\ w.tabs[j].view # Nothing \/ DOMAIN LeftOf(w.tabs[j], valid) # {}
    BY <2>2, <2>3, <2>4, StayThere
  <2>7. f[p] \in Places(L) /\ TabAt(L, f[p]) = w.tabs[j] /\ f[p][1] = i /\ f[p][2] = j
    BY <2>1, <2>5, <2>6, PlaceFacts DEF w, TabAt
  <2>8. /\ TabAt(M, p).id = w.tabs[j].id
        /\ PaneSet(TabAt(M, p).root) = {x \in PaneSet(w.tabs[j].root) : x.session \in valid}
    BY <2>3, <2>4, <2>5, BuiltIs
  <2> QED
    BY <2>1, <2>3, <2>7, <2>8 DEF w, j
<1>12. ASSUME NEW p \in Places(M), NEW q \in Places(M), f[p] = f[q] PROVE p = q
  <2>1. p[1] = q[1] /\ old(p[1], p[2]) = old(q[1], q[2])
    BY <1>11, <1>12
  <2> DEFINE w == L.ws[p[1]]
             J == Stay(w, valid)
  <2>2. /\ p[2] \in 1..Cardinality(J) /\ q[2] \in 1..Cardinality(J) /\ w \in Spaces
        /\ p = <<p[1], p[2]>> /\ q = <<q[1], q[2]>>
    BY <1>1, <1>11, <2>1
  <2>3. Nth(J, p[2]) = Nth(J, q[2])
    BY <2>1
  <2>4. J \in SUBSET Nat /\ IsFiniteSet(J)
    BY <2>2, StayFinite
  <2> HIDE DEF J
  <2>5. Rank(J, Nth(J, p[2])) = p[2] /\ Rank(J, Nth(J, q[2])) = q[2]
    BY <2>2, <2>4, NthIn
  <2>6. p[2] = q[2]
    BY <2>3, <2>5
  <2> QED
    BY <2>1, <2>2, <2>6
<1>13. /\ \A i, k \in DOMAIN M.ws : g[i] = g[k] => i = k
       /\ \A i \in DOMAIN M.ws : g[i] \in DOMAIN L.ws /\ M.ws[i].id = L.ws[g[i]].id
  BY <1>3, <1>4, <1>6
<1> HIDE DEF f, g, old
<1>14. Comes(L, M, f, g, Nowhere)
  BY <1>11, <1>12, <1>13 DEF Comes
<1>15. Sound(M)
  BY <1>9, <1>14, Derived
<1>16. ASSUME NEW x, x \in PanesOf(M) PROVE x \in PanesOf(L) /\ x.session \in valid
  <2>1. PICK p \in Places(M) : x \in PaneSet(TabAt(M, p).root)
    BY <1>16, PanesFacts
  <2> QED
    BY <2>1, <1>11, PanesFacts
<1>17. ASSUME NEW x, x \in PanesOf(L), x.session \in valid PROVE x \in PanesOf(M)
  <2>1. PICK q \in Places(L) : x \in PaneSet(TabAt(L, q).root)
    BY <1>17, PanesFacts
  <2> DEFINE i == q[1]
             j == q[2]
             w == L.ws[i]
             J == Stay(w, valid)
             tab == w.tabs[j]
  <2>2. i \in DOMAIN L.ws /\ j \in DOMAIN w.tabs /\ TabAt(L, q) = tab /\ q = <<i, j>>
    BY PlaceFacts DEF TabAt
  <2>3. w \in Spaces /\ tab \in Tabs
    BY <1>1, <2>2, SpaceFacts
  <2>4. DOMAIN LeftOf(tab, valid) # {}
    <3> DEFINE keep == {y \in PaneSet(tab.root) : y.session \in valid}
    <3>1. IsTree(tab.root) /\ IsInjective(tab.root)
      BY <2>3, TabFacts, TreeFacts
    <3>2. x \in keep
      BY <2>1, <2>2, <1>17
    <3>3. PaneSet(LeftOf(tab, valid)) = PaneSet(tab.root) \cap keep
      BY <3>1, KeepTree DEF LeftOf
    <3>4. x \in PaneSet(LeftOf(tab, valid))
      BY <3>2, <3>3
    <3> QED
      BY <3>4, RootPanes
  <2>5. j \in J
    BY <2>2, <2>4 DEF Stay
  <2>6. J \in SUBSET Nat /\ IsFiniteSet(J)
    BY <2>3, StayFinite
  <2> DEFINE k == Rank(J, j)
             p == <<i, k>>
  <2>7. k \in 1..Cardinality(J) /\ Nth(J, k) = j
    BY <2>5, <2>6, RankType, NthRank
  <2>8. ws[i].tabs = NewTabs(w, valid) /\ i \in DOMAIN M.ws /\ M.ws = ws
    BY <1>3, <1>4, <1>6, <2>2
  <2>9. k \in DOMAIN ws[i].tabs
    BY <2>3, <2>7, <2>8, NewTabsFacts
  <2> HIDE DEF k
  <2>10. p \in Places(M)
    BY <2>8, <2>9, PlaceFacts
  <2>11. f[p] = q
    <3>1. f[p] = <<p[1], Nth(Stay(L.ws[p[1]], valid), p[2])>>
      BY <2>10 DEF f
    <3>2. p[1] = i /\ p[2] = k
      OBVIOUS
    <3> QED
      BY <3>1, <3>2, <2>2, <2>7
  <2> HIDE DEF p
  <2>12. x \in PaneSet(TabAt(M, p).root)
    BY <1>11, <1>17, <2>1, <2>10, <2>11
  <2> QED
    BY <2>10, <2>12, PanesFacts
<1> QED
  BY <1>10, <1>15, <1>16, <1>17 DEF M, ws

-----------------------------------------------------------------------------
(***************************************************************************)
(* Sessions that were opened again.                                         *)
(***************************************************************************)

\* Each session that was opened again is a new one, not shown yet.
IsRemap(remap, L) ==
  /\ DOMAIN remap \subseteq Sessions
  /\ \A s \in DOMAIN remap : remap[s] \in Sessions /\ remap[s] \notin Shown(L)
  /\ \A s, u \in DOMAIN remap : remap[s] = remap[u] => s = u

LEMMA PaneIs ==
  ASSUME NEW x \in Panes(Sessions)
  PROVE  /\ x = [kind |-> x.kind, session |-> x.session] /\ x.kind \in {"leaf", "viewer"} /\ x.session \in Sessions
BY DEF Panes

LEMMA PaneWith ==
  ASSUME NEW x \in Panes(Sessions), NEW s \in Sessions
  PROVE  LET y == [x EXCEPT !.session = s]
         IN  y \in Panes(Sessions) /\ y.kind = x.kind /\ y.session = s
BY DEF Panes

LEMMA AgainPane ==
  ASSUME NEW L, NEW remap, IsRemap(remap, L), NEW x \in Panes(Sessions)
  PROVE  LET y == Again(x, remap)
         IN  /\ y \in Panes(Sessions) /\ y.kind = x.kind
             /\ x.session \in DOMAIN remap => y.session = remap[x.session]
             /\ x.session \notin DOMAIN remap => y.session = x.session
<1>1. CASE x.session \in DOMAIN remap
  <2>1. Again(x, remap) = [x EXCEPT !.session = remap[x.session]]
    BY <1>1 DEF Again
  <2>2. remap[x.session] \in Sessions
    BY <1>1 DEF IsRemap
  <2> QED
    BY <1>1, <2>1, <2>2, PaneWith
<1>2. CASE x.session \notin DOMAIN remap
  <2>1. Again(x, remap) = x
    BY <1>2 DEF Again
  <2> QED
    BY <1>2, <2>1
<1> QED
  BY <1>1, <1>2

LEMMA AgainOnce ==
  ASSUME NEW L, NEW remap, IsRemap(remap, L), NEW x \in Panes(Sessions), NEW y \in Panes(Sessions),
         x \in PanesOf(L), y \in PanesOf(L), Again(x, remap) = Again(y, remap)
  PROVE  x = y
<1>1. x.session \in Shown(L) /\ y.session \in Shown(L)
  BY DEF Shown
<1>2. /\ Again(x, remap).kind = x.kind
      /\ x.session \in DOMAIN remap => Again(x, remap).session = remap[x.session]
      /\ x.session \notin DOMAIN remap => Again(x, remap).session = x.session
  BY AgainPane
<1>3. /\ Again(y, remap).kind = y.kind
      /\ y.session \in DOMAIN remap => Again(y, remap).session = remap[y.session]
      /\ y.session \notin DOMAIN remap => Again(y, remap).session = y.session
  BY AgainPane
<1>4. x.kind = y.kind
  BY <1>2, <1>3
<1>5. x.session = y.session
  BY <1>1, <1>2, <1>3 DEF IsRemap
<1> QED
  BY <1>4, <1>5, PaneIs

AgainTree(t, remap) == [p \in DOMAIN t |-> Again(t[p], remap)]

LEMMA AgainTreeIs ==
  ASSUME NEW L, NEW remap, IsRemap(remap, L), NEW t \in Trees, PaneSet(t) \subseteq PanesOf(L)
  PROVE  LET u == AgainTree(t, remap)
         IN  /\ u \in Trees /\ DOMAIN u = DOMAIN t /\ PaneSet(u) = {Again(x, remap) : x \in PaneSet(t)}
<1> DEFINE u == AgainTree(t, remap)
<1>1. IsTree(t) /\ IsInjective(t) /\ PaneSet(t) \subseteq Panes(Sessions)
  BY TreeFacts
<1>2. DOMAIN u = DOMAIN t /\ \A p \in DOMAIN t : u[p] = Again(t[p], remap)
  BY DEF AgainTree
<1>3. u = [p \in DOMAIN u |-> u[p]]
  BY DEF AgainTree
<1> HIDE DEF u
<1>4. IsTree(u)
  BY <1>1, <1>2, <1>3 DEF IsTree
<1>5. \A p \in DOMAIN t : t[p] \in PaneSet(t)
  BY DEF PaneSet, Range
<1>6. IsInjective(u)
  BY <1>1, <1>2, <1>5, AgainOnce DEF IsInjective
<1>7. PaneSet(u) = {Again(x, remap) : x \in PaneSet(t)}
  <2>1. ASSUME NEW y \in PaneSet(u) PROVE \E x \in PaneSet(t) : y = Again(x, remap)
    <3>1. PICK p \in DOMAIN u : y = u[p]
      BY DEF PaneSet, Range
    <3> QED
      BY <3>1, <1>2, <1>5
  <2>2. ASSUME NEW x \in PaneSet(t) PROVE Again(x, remap) \in PaneSet(u)
    <3>1. PICK p \in DOMAIN t : x = t[p]
      BY DEF PaneSet, Range
    <3>2. u[p] = Again(x, remap) /\ p \in DOMAIN u
      BY <3>1, <1>2
    <3> QED
      BY <3>2 DEF PaneSet, Range
  <2> QED
    BY <2>1, <2>2
<1>8. PaneSet(u) \subseteq Panes(Sessions)
  BY <1>1, <1>7, AgainPane
<1> QED
  BY <1>2, <1>4, <1>6, <1>7, <1>8, TreeFacts DEF u

AgainTab(tab, remap) ==
  [id |-> tab.id, view |-> tab.view, root |-> AgainTree(tab.root, remap),
   pane |-> IF tab.view = Nothing THEN Again(tab.pane, remap) ELSE tab.pane]
AgainTabs(w, remap) == [j \in DOMAIN w.tabs |-> AgainTab(w.tabs[j], remap)]
AgainSpace(w, remap) ==
  [id |-> w.id, docker |-> w.docker, tabs |-> AgainTabs(w, remap), tab |-> w.tab, side |-> w.side,
   expanded |-> w.expanded]
AgainLayout(L, remap) == [ws |-> [i \in DOMAIN L.ws |-> AgainSpace(L.ws[i], remap)], active |-> L.active]

LEMMA AgainTabIs ==
  ASSUME NEW L, NEW remap, IsRemap(remap, L), NEW tab \in Tabs, PaneSet(tab.root) \subseteq PanesOf(L)
  PROVE  LET new == AgainTab(tab, remap)
         IN  /\ new \in Tabs /\ new.id = tab.id /\ new.view = tab.view /\ new.root = AgainTree(tab.root, remap)
             /\ PaneSet(new.root) = {Again(x, remap) : x \in PaneSet(tab.root)}
<1> DEFINE root == AgainTree(tab.root, remap)
           pane == IF tab.view = Nothing THEN Again(tab.pane, remap) ELSE tab.pane
           new == AgainTab(tab, remap)
<1>0. /\ tab.id \in Nat /\ tab.view \in Pages \cup {Nothing} /\ tab.root \in Trees
      /\ tab.pane \in Panes(Sessions) \cup {Nothing}
      /\ tab.view = Nothing => DOMAIN tab.root # {} /\ tab.pane \in Panes(Sessions)
      /\ tab.view # Nothing => tab.root = NoPanes
  BY TabFacts
<1>1. root \in Trees /\ DOMAIN root = DOMAIN tab.root /\ PaneSet(root) = {Again(x, remap) : x \in PaneSet(tab.root)}
  BY <1>0, AgainTreeIs
<1>2. new = [id |-> tab.id, view |-> tab.view, root |-> root, pane |-> pane]
  BY DEF AgainTab
<1>3. tab.view = Nothing => pane \in Panes(Sessions)
  BY <1>0, AgainPane
<1>4. tab.view # Nothing => pane = tab.pane
  OBVIOUS
<1>5. tab.view # Nothing => root = NoPanes
  <2>1. AgainTree(NoPanes, remap) = NoPanes
    BY NoPanesTree DEF AgainTree, NoPanes
  <2> QED
    BY <1>0, <2>1
<1> HIDE DEF root, pane, new
<1>6. pane \in Panes(Sessions) \cup {Nothing}
  BY <1>0, <1>3, <1>4
<1>7. new.id = tab.id /\ new.view = tab.view /\ new.root = root /\ new.pane = pane
  BY <1>2
<1>8. new \in TabFields
  BY <1>0, <1>1, <1>2, <1>6 DEF TabFields
<1>9. new \in Tabs
  BY <1>0, <1>1, <1>3, <1>5, <1>7, <1>8 DEF Tabs
<1> QED
  BY <1>1, <1>7, <1>9 DEF root, new

LEMMA AgainLayoutIs ==
  ASSUME NEW L, Sound(L), NEW remap, IsRemap(remap, L)
  PROVE  LET M == AgainLayout(L, remap)
         IN  /\ Sound(M) /\ Places(M) = Places(L) /\ DOMAIN M.ws = DOMAIN L.ws
             /\ \A i \in DOMAIN L.ws : M.ws[i] = AgainSpace(L.ws[i], remap)
             /\ \A p \in Places(L) : TabAt(M, p) = AgainTab(TabAt(L, p), remap)
             /\ \A y : y \in PanesOf(M) <=> \E x \in PanesOf(L) : y = Again(x, remap)
<1> DEFINE M == AgainLayout(L, remap)
<1>0. Typed(L) /\ Apart(L)
  BY DEF Sound
<1>1. /\ L.ws \in Seq(Spaces) /\ Len(L.ws) \in Nat /\ DOMAIN L.ws = 1..Len(L.ws)
      /\ \A i \in DOMAIN L.ws : i \in Nat /\ L.ws[i] \in Spaces
  BY <1>0, LayoutFacts
<1>2. /\ M = [ws |-> M.ws, active |-> M.active] /\ M.active = L.active
      /\ M.ws = [i \in DOMAIN L.ws |-> AgainSpace(L.ws[i], remap)]
  BY DEF AgainLayout
<1> HIDE DEF M
<1>3. DOMAIN M.ws = DOMAIN L.ws /\ \A i \in DOMAIN L.ws : M.ws[i] = AgainSpace(L.ws[i], remap)
  BY <1>2
<1>4. ASSUME NEW i \in DOMAIN L.ws
      PROVE  /\ M.ws[i].id = L.ws[i].id /\ M.ws[i].tabs = AgainTabs(L.ws[i], remap)
             /\ DOMAIN M.ws[i].tabs = DOMAIN L.ws[i].tabs
             /\ \A j \in DOMAIN L.ws[i].tabs : M.ws[i].tabs[j] = AgainTab(L.ws[i].tabs[j], remap)
  <2>0. \A w : AgainSpace(w, remap).id = w.id /\ AgainSpace(w, remap).tabs = AgainTabs(w, remap)
    BY DEF AgainSpace
  <2>1. M.ws[i].id = L.ws[i].id /\ M.ws[i].tabs = AgainTabs(L.ws[i], remap)
    BY <1>3, <2>0
  <2>2. DOMAIN AgainTabs(L.ws[i], remap) = DOMAIN L.ws[i].tabs
        /\ \A j \in DOMAIN L.ws[i].tabs : AgainTabs(L.ws[i], remap)[j] = AgainTab(L.ws[i].tabs[j], remap)
    BY DEF AgainTabs
  <2> QED
    BY <2>1, <2>2
<1>5. Places(M) = Places(L)
  <2>1. ASSUME NEW p \in Places(M) PROVE p \in Places(L)
    BY <1>3, <1>4, PlaceFacts
  <2>2. ASSUME NEW p \in Places(L) PROVE p \in Places(M)
    BY <1>3, <1>4, PlaceFacts
  <2> QED
    BY <2>1, <2>2
<1>6. ASSUME NEW p \in Places(L) PROVE TabAt(M, p) = AgainTab(TabAt(L, p), remap)
  BY <1>4, PlaceFacts DEF TabAt
<1>7. \A p \in Places(L) : TabAt(L, p) \in Tabs /\ PaneSet(TabAt(L, p).root) \subseteq PanesOf(L)
  BY <1>0, TabAtFacts, PanesFacts
<1>8. ASSUME NEW p \in Places(L)
      PROVE  /\ TabAt(M, p) \in Tabs /\ TabAt(M, p).id = TabAt(L, p).id
             /\ PaneSet(TabAt(M, p).root) = {Again(x, remap) : x \in PaneSet(TabAt(L, p).root)}
  BY <1>6, <1>7, AgainTabIs
<1>9. \A i \in DOMAIN L.ws : M.ws[i] \in Spaces
  <2> SUFFICES ASSUME NEW i \in DOMAIN L.ws PROVE M.ws[i] \in Spaces
    OBVIOUS
  <2> DEFINE w == L.ws[i]
             n == Len(w.tabs)
             tabs == AgainTabs(w, remap)
  <2>1. /\ w.id \in Nat /\ w.docker \in BOOLEAN /\ w.tab \in Names /\ w.side \in SidePanels /\ w.expanded \in BOOLEAN
        /\ n \in Nat /\ DOMAIN w.tabs = 1..n
    BY <1>1, SpaceFacts
  <2>2. \A j \in DOMAIN w.tabs : AgainTab(w.tabs[j], remap) \in Tabs
    <3> SUFFICES ASSUME NEW j \in DOMAIN w.tabs PROVE AgainTab(w.tabs[j], remap) \in Tabs
      OBVIOUS
    <3> DEFINE p == <<i, j>>
    <3>1. p \in Places(L) /\ TabAt(L, p) = w.tabs[j]
      BY PlaceFacts DEF TabAt
    <3> HIDE DEF p
    <3> QED
      BY <3>1, <1>6, <1>8
  <2>3. M.ws[i] = [id |-> w.id, docker |-> w.docker, tabs |-> tabs, tab |-> w.tab, side |-> w.side,
                   expanded |-> w.expanded]
    BY <1>3 DEF AgainSpace
  <2>4. tabs = [j \in DOMAIN w.tabs |-> AgainTab(w.tabs[j], remap)]
    BY DEF AgainTabs
  <2> HIDE DEF w, n, tabs
  <2>5. tabs \in [1..n -> Tabs]
    BY <2>1, <2>2, <2>4
  <2>6. tabs \in Seq(Tabs)
    BY <2>1, <2>5
  <2> QED
    BY <2>1, <2>3, <2>6 DEF Spaces
<1>10. Typed(M)
  <2> DEFINE n == Len(L.ws)
  <2>1. n \in Nat /\ DOMAIN L.ws = 1..n
    BY <1>1
  <2> HIDE DEF n
  <2>2. M.ws \in [1..n -> Spaces]
    BY <1>2, <1>3, <1>9, <2>1
  <2>3. M.ws \in Seq(Spaces)
    BY <2>1, <2>2
  <2> QED
    BY <1>0, <1>2, <2>3 DEF Typed
<1>11. Apart(M)
  <2>1. \A i, k \in DOMAIN M.ws : M.ws[i].id = M.ws[k].id => i = k
    BY <1>0, <1>3, <1>4 DEF Apart
  <2>2. ASSUME NEW p \in Places(L), NEW q \in Places(L), p # q,
               NEW y, y \in PaneSet(TabAt(M, p).root), y \in PaneSet(TabAt(M, q).root)
        PROVE FALSE
    <3>1. PICK x \in PaneSet(TabAt(L, p).root) : y = Again(x, remap)
      BY <2>2, <1>8
    <3>2. PICK z \in PaneSet(TabAt(L, q).root) : y = Again(z, remap)
      BY <2>2, <1>8
    <3>3. /\ x \in PanesOf(L) /\ z \in PanesOf(L) /\ x \in Panes(Sessions) /\ z \in Panes(Sessions)
      BY <1>7, TabFacts, TreeFacts
    <3>4. x = z
      BY <3>1, <3>2, <3>3, AgainOnce
    <3> QED
      BY <3>4, <2>2, <1>0 DEF Apart
  <2>3. \A p, q \in Places(L) : p # q => TabAt(M, p).id # TabAt(M, q).id
    BY <1>0, <1>8 DEF Apart
  <2> QED
    BY <2>1, <2>2, <2>3, <1>5 DEF Apart
<1>12. ASSUME NEW y PROVE y \in PanesOf(M) <=> \E x \in PanesOf(L) : y = Again(x, remap)
  <2>1. ASSUME y \in PanesOf(M) PROVE \E x \in PanesOf(L) : y = Again(x, remap)
    BY <2>1, <1>5, <1>7, <1>8, PanesFacts
  <2>2. ASSUME NEW x \in PanesOf(L), y = Again(x, remap) PROVE y \in PanesOf(M)
    <3>1. PICK p \in Places(L) : x \in PaneSet(TabAt(L, p).root)
      BY PanesFacts
    <3> QED
      BY <3>1, <2>2, <1>5, <1>8, PanesFacts
  <2> QED
    BY <2>1, <2>2
<1> QED
  BY <1>3, <1>5, <1>6, <1>10, <1>11, <1>12 DEF M, Sound

\* The rows of a layout, with each such session.
LEMMA RowAgain ==
  ASSUME NEW tab, NEW x, NEW split, NEW s, NEW remap
  PROVE  Again(Row(tab, x, split, s), remap)
           = Row(tab, x, split, IF s \in DOMAIN remap THEN remap[s] ELSE s)
<1> DEFINE name == <<tab, x>>
           parent == IF x = <<>> THEN {} ELSE {<<tab, Front(x)>>}
           position == IF x = <<>> THEN Nothing ELSE Last(x)
           r(u) == [name |-> name, tab |-> tab, parent |-> parent, position |-> position,
                    split |-> split, session |-> u]
<1>1. \A u : Row(tab, x, split, u) = r(u)
  BY DEF Row
<1> HIDE DEF name, parent, position
<1>2. \A u : r(u).session = u /\ [r(u) EXCEPT !.session = remap[u]] = r(remap[u])
  OBVIOUS
<1>3. Again(r(s), remap) = IF s \in DOMAIN remap THEN [r(s) EXCEPT !.session = remap[s]] ELSE r(s)
  BY <1>2 DEF Again
<1> HIDE DEF r
<1>4. CASE s \in DOMAIN remap
  BY <1>1, <1>2, <1>3, <1>4
<1>5. CASE s \notin DOMAIN remap
  BY <1>1, <1>2, <1>3, <1>5
<1> QED
  BY <1>4, <1>5

LEMMA NodeRowAgain ==
  ASSUME NEW t \in Trees, NEW remap, Nothing \notin DOMAIN remap, NEW tab, NEW x
  PROVE  Again(NodeRow(t, tab, x), remap) = NodeRow(AgainTree(t, remap), tab, x)
<1> DEFINE u == AgainTree(t, remap)
<1>1. DOMAIN u = DOMAIN t /\ \A p \in DOMAIN t : u[p] = Again(t[p], remap)
  BY DEF AgainTree
<1> HIDE DEF u
<1>2. CASE x \in DOMAIN t
  <2> DEFINE s == t[x].session
             kind == t[x].kind
             now == IF s \in DOMAIN remap THEN remap[s] ELSE s
  <2>1. t[x] \in Panes(Sessions)
    BY <1>2, TreeFacts DEF PaneSet, Range
  <2>2. u[x].kind = kind /\ u[x].session = now
    <3>1. s \in DOMAIN remap => Again(t[x], remap) = [t[x] EXCEPT !.session = remap[s]]
      BY DEF Again
    <3>2. s \notin DOMAIN remap => Again(t[x], remap) = t[x]
      BY DEF Again
    <3>3. t[x] = [kind |-> kind, session |-> s]
      BY <2>1, PaneIs
    <3> HIDE DEF s, kind
    <3>4. [t[x] EXCEPT !.session = remap[s]] = [kind |-> kind, session |-> remap[s]]
      BY <3>3
    <3>5. CASE s \in DOMAIN remap
      BY <1>1, <1>2, <3>1, <3>4, <3>5
    <3>6. CASE s \notin DOMAIN remap
      BY <1>1, <1>2, <3>2, <3>3, <3>6
    <3> QED
      BY <3>5, <3>6
  <2>3. NodeRow(t, tab, x) = Row(tab, x, kind, s)
    BY <1>2 DEF NodeRow
  <2>4. NodeRow(u, tab, x) = Row(tab, x, kind, now)
    BY <1>1, <1>2, <2>2 DEF NodeRow
  <2>5. Again(Row(tab, x, kind, s), remap) = Row(tab, x, kind, now)
    BY RowAgain
  <2> QED
    BY <2>3, <2>4, <2>5 DEF u
<1>3. CASE x \notin DOMAIN t
  <2>1. NodeRow(t, tab, x) = Row(tab, x, "split", Nothing) /\ NodeRow(u, tab, x) = Row(tab, x, "split", Nothing)
    BY <1>1, <1>3 DEF NodeRow
  <2>2. Again(Row(tab, x, "split", Nothing), remap)
          = Row(tab, x, "split", IF Nothing \in DOMAIN remap THEN remap[Nothing] ELSE Nothing)
    BY RowAgain
  <2> QED
    BY <2>1, <2>2 DEF u
<1> QED
  BY <1>2, <1>3

LEMMA PaneRowsAgain ==
  ASSUME NEW t \in Trees, NEW remap, Nothing \notin DOMAIN remap, NEW tab, NEW r
  PROVE  r \in PaneRows(AgainTree(t, remap), tab) <=> \E q \in PaneRows(t, tab) : r = Again(q, remap)
<1>1. DOMAIN AgainTree(t, remap) = DOMAIN t
  BY DEF AgainTree
<1>2. Nodes(AgainTree(t, remap)) = Nodes(t)
  BY <1>1 DEF Nodes
<1>3. r \in PaneRows(AgainTree(t, remap), tab) <=> \E x \in Nodes(t) : r = NodeRow(AgainTree(t, remap), tab, x)
  BY <1>2 DEF PaneRows
<1>4. \A q : q \in PaneRows(t, tab) <=> \E x \in Nodes(t) : q = NodeRow(t, tab, x)
  BY DEF PaneRows
<1>5. \A x : Again(NodeRow(t, tab, x), remap) = NodeRow(AgainTree(t, remap), tab, x)
  BY NodeRowAgain
<1> QED
  BY <1>3, <1>4, <1>5

LEMMA TabRowAgain ==
  ASSUME NEW tab \in Tabs, NEW remap, NEW id, NEW j
  PROVE  (IF TabRow(tab, id, j).view = Nothing
          THEN [TabRow(tab, id, j) EXCEPT !.pane = Again(@, remap)] ELSE TabRow(tab, id, j))
           = TabRow(AgainTab(tab, remap), id, j)
<1> DEFINE tid == tab.id
           view == tab.view
           pane == tab.pane
           now == Again(tab.pane, remap)
           row(x) == [id |-> tid, workspace |-> id, position |-> j, view |-> view, pane |-> x]
           next == IF view = Nothing THEN now ELSE pane
<1>1. TabRow(tab, id, j) = row(pane)
  BY DEF TabRow
<1>2. TabRow(AgainTab(tab, remap), id, j) = row(next)
  BY DEF TabRow, AgainTab
<1>5. now = Again(pane, remap)
  OBVIOUS
<1> HIDE DEF tid, view, pane, now
<1>3. row(pane).view = view /\ row(pane).pane = pane
  OBVIOUS
<1>4. [row(pane) EXCEPT !.pane = Again(@, remap)] = row(now)
  BY <1>5
<1>6. CASE view = Nothing
  BY <1>1, <1>2, <1>3, <1>4, <1>6
<1>7. CASE view # Nothing
  BY <1>1, <1>2, <1>3, <1>7
<1> QED
  BY <1>6, <1>7

LEMMA RowsAgain ==
  ASSUME NEW L, Sound(L), NEW remap, IsRemap(remap, L)
  PROVE  Remapped(Rows(L.ws), remap) = Rows(AgainLayout(L, remap).ws)
<1> DEFINE M == AgainLayout(L, remap)
           rows == Rows(L.ws)
           next == Rows(M.ws)
           tab(t) == IF t.view = Nothing THEN [t EXCEPT !.pane = Again(@, remap)] ELSE t
           panes == {Again(r, remap) : r \in rows.panes}
           tabs == {tab(t) : t \in rows.tabs}
<1>1. /\ Sound(M) /\ Places(M) = Places(L) /\ DOMAIN M.ws = DOMAIN L.ws
      /\ \A i \in DOMAIN L.ws : M.ws[i] = AgainSpace(L.ws[i], remap)
      /\ \A p \in Places(L) : TabAt(M, p) = AgainTab(TabAt(L, p), remap)
  BY AgainLayoutIs
<1>2. Nothing \notin DOMAIN remap
  BY LayoutAssumption DEF IsRemap
<1>3. \A p \in Places(L) : TabAt(L, p) \in Tabs /\ TabAt(L, p).root \in Trees /\ p[1] \in DOMAIN L.ws
  BY TabAtFacts, TabFacts DEF Sound
<1> HIDE DEF M
<1>4. next.workspaces = rows.workspaces
  <2> DEFINE a(i) == SpaceRow(L.ws[i], i)
             b(i) == SpaceRow(M.ws[i], i)
  <2>0. \A i \in DOMAIN L.ws : SpaceRow(AgainSpace(L.ws[i], remap), i) = SpaceRow(L.ws[i], i)
    BY DEF SpaceRow, AgainSpace
  <2>1. \A i \in DOMAIN L.ws : a(i) = b(i)
    BY <1>1, <2>0
  <2>2. rows.workspaces = {a(i) : i \in DOMAIN L.ws} /\ next.workspaces = {b(i) : i \in DOMAIN L.ws}
    BY <1>1, RowsAre
  <2> HIDE DEF a, b, rows, next
  <2> QED
    BY <2>1, <2>2
<1>5. \A p \in Places(L) : M.ws[p[1]].id = L.ws[p[1]].id
  <2>0. \A w : AgainSpace(w, remap).id = w.id
    BY DEF AgainSpace
  <2> QED
    BY <1>1, <1>3, <2>0
<1>6. next.tabs = tabs
  <2> DEFINE a(p) == TabRow(TabAt(L, p), L.ws[p[1]].id, p[2])
             b(p) == TabRow(TabAt(M, p), M.ws[p[1]].id, p[2])
  <2>1. ASSUME NEW p \in Places(L) PROVE tab(a(p)) = b(p)
    <3>1. tab(a(p)) = TabRow(AgainTab(TabAt(L, p), remap), L.ws[p[1]].id, p[2])
      BY <1>3, TabRowAgain
    <3> QED
      BY <3>1, <1>1, <1>5
  <2>2. \A t : t \in rows.tabs <=> \E p \in Places(L) : t = a(p)
    BY TabRowOf
  <2>3. \A t : t \in next.tabs <=> \E p \in Places(L) : t = b(p)
    BY <1>1, TabRowOf
  <2> HIDE DEF a, b, tab, next, rows
  <2>4. \A t : t \in tabs <=> \E u \in rows.tabs : t = tab(u)
    OBVIOUS
  <2> HIDE DEF tabs
  <2>5. \A t : t \in next.tabs <=> t \in tabs
    BY <2>1, <2>2, <2>3, <2>4
  <2> QED
    BY <2>5 DEF tabs
<1>7. next.panes = panes
  <2> DEFINE a(p) == PaneRows(TabAt(L, p).root, TabAt(L, p).id)
             b(p) == PaneRows(TabAt(M, p).root, TabAt(M, p).id)
  <2>1. ASSUME NEW p \in Places(L), NEW r PROVE r \in b(p) <=> \E q \in a(p) : r = Again(q, remap)
    <3>1. TabAt(M, p).id = TabAt(L, p).id /\ TabAt(M, p).root = AgainTree(TabAt(L, p).root, remap)
      <4>0. \A t : AgainTab(t, remap).id = t.id /\ AgainTab(t, remap).root = AgainTree(t.root, remap)
        BY DEF AgainTab
      <4> QED
        BY <1>1, <4>0
    <3> QED
      BY <3>1, <1>2, <1>3, PaneRowsAgain
  <2>2. \A r : r \in rows.panes <=> \E p \in Places(L) : r \in a(p)
    BY PaneRowOf
  <2>3. \A r : r \in next.panes <=> \E p \in Places(L) : r \in b(p)
    BY <1>1, PaneRowOf
  <2> HIDE DEF a, b, next, rows
  <2>4. \A r : r \in panes <=> \E q \in rows.panes : r = Again(q, remap)
    OBVIOUS
  <2> HIDE DEF panes
  <2>5. \A r : r \in next.panes <=> r \in panes
    BY <2>1, <2>2, <2>3, <2>4
  <2> QED
    BY <2>5 DEF panes
<1>8. rows = [workspaces |-> rows.workspaces, tabs |-> rows.tabs, panes |-> rows.panes]
  BY RowsAre
<1>9. next = [workspaces |-> next.workspaces, tabs |-> next.tabs, panes |-> next.panes]
  BY RowsAre
<1>10. Remapped(rows, remap) = [rows EXCEPT !.panes = panes, !.tabs = tabs]
  BY DEF Remapped
<1> HIDE DEF rows, next, panes, tabs
<1>11. [rows EXCEPT !.panes = panes, !.tabs = tabs]
         = [workspaces |-> rows.workspaces, tabs |-> tabs, panes |-> panes]
  <2> DEFINE v == [rows EXCEPT !.panes = panes]
  <2>1. v = [workspaces |-> rows.workspaces, tabs |-> rows.tabs, panes |-> panes]
    BY <1>8
  <2>2. [rows EXCEPT !.panes = panes, !.tabs = tabs] = [v EXCEPT !.tabs = tabs]
    OBVIOUS
  <2> HIDE DEF v
  <2> QED
    BY <2>1, <2>2
<1> QED
  BY <1>4, <1>6, <1>7, <1>9, <1>10, <1>11 DEF rows, next, M

\* What is loaded, for sessions that are valid and some that were opened again.
LEMMA LoadedFacts ==
  ASSUME NEW L, Sound(L), NEW remap, IsRemap(remap, L), NEW valid, NEW saved \in Names
  PROVE  LET M == Loaded(Rows(L.ws), saved, valid, remap)
         IN  /\ Sound(M) /\ Focused(M)
             /\ \A y : y \in PanesOf(M) <=> \E x \in PanesOf(L) : y = Again(x, remap) /\ y.session \in valid
<1>1. Loaded(Rows(L.ws), saved, valid, remap)
        = ActiveIn(Workspaces(Rows(AgainLayout(L, remap).ws), valid), saved)
  BY RowsAgain DEF Loaded
<1>2. Sound(AgainLayout(L, remap))
  BY AgainLayoutIs
<1>3. \A y : y \in PanesOf(AgainLayout(L, remap)) <=> \E x \in PanesOf(L) : y = Again(x, remap)
  BY AgainLayoutIs
<1> DEFINE N == AgainLayout(L, remap)
<1> HIDE DEF N
<1>4. /\ Sound(ActiveIn(Workspaces(Rows(N.ws), valid), saved))
      /\ Focused(ActiveIn(Workspaces(Rows(N.ws), valid), saved))
      /\ \A x : x \in PanesOf(ActiveIn(Workspaces(Rows(N.ws), valid), saved))
                  <=> x \in PanesOf(N) /\ x.session \in valid
  BY <1>2, LoadedFrom DEF N
<1> QED
  BY <1>1, <1>3, <1>4 DEF N

\* What is sound is read back as it was, when all sessions are valid and what is active
\* is there.
LEMMA LoadedSame ==
  ASSUME NEW L, Sound(L), Focused(L)
  PROVE  LET M == Loaded(Rows(L.ws), L.active, Sessions, <<>>)
         IN  M.ws = L.ws /\ L.active \in {M.active, Nothing}
<1> DEFINE M == Loaded(Rows(L.ws), L.active, Sessions, <<>>)
           ws == Workspaces(Rows(L.ws), Sessions)
<1>0. Typed(L)
  BY DEF Sound
<1>1. /\ L.ws \in Seq(Spaces) /\ Len(L.ws) \in Nat /\ DOMAIN L.ws = 1..Len(L.ws)
      /\ \A i \in DOMAIN L.ws : i \in Nat /\ L.ws[i] \in Spaces
  BY <1>0, LayoutFacts
<1>2. Remapped(Rows(L.ws), <<>>) = Rows(L.ws)
  <2> DEFINE rows == Rows(L.ws)
             a == rows.workspaces
             b == rows.tabs
             c == rows.panes
  <2>1. \A x : Again(x, <<>>) = x
    BY DEF Again
  <2>2. rows = [workspaces |-> a, tabs |-> b, panes |-> c]
    BY RowsAre
  <2>3. {Again(r, <<>>) : r \in c} = c
    <3> DEFINE k(r) == Again(r, <<>>)
    <3>1. \A r : k(r) = r
      BY <2>1
    <3> HIDE DEF k, c
    <3>2. {k(r) : r \in c} = c
      BY <3>1
    <3> QED
      BY <3>2 DEF k
  <2>4. {IF t.view = Nothing THEN [t EXCEPT !.pane = Again(@, <<>>)] ELSE t : t \in b} = b
    <3> DEFINE k(t) == IF t.view = Nothing THEN [t EXCEPT !.pane = Again(@, <<>>)] ELSE t
    <3>1. \A t \in b : k(t) = t
      <4> SUFFICES ASSUME NEW t \in b PROVE [t EXCEPT !.pane = Again(@, <<>>)] = t
        OBVIOUS
      <4>1. PICK p \in Places(L) : t = TabRow(TabAt(L, p), L.ws[p[1]].id, p[2])
        BY TabRowOf
      <4>2. t = [id |-> t.id, workspace |-> t.workspace, position |-> t.position, view |-> t.view, pane |-> t.pane]
        BY <4>1 DEF TabRow
      <4>3. [t EXCEPT !.pane = t.pane] = t
        BY <4>2
      <4>4. [t EXCEPT !.pane = Again(@, <<>>)] = [t EXCEPT !.pane = Again(t.pane, <<>>)]
        OBVIOUS
      <4> QED
        BY <2>1, <4>3, <4>4
    <3> HIDE DEF k, b
    <3>2. {k(t) : t \in b} = b
      BY <3>1
    <3> QED
      BY <3>2 DEF k
  <2> DEFINE c2 == {Again(r, <<>>) : r \in c}
             b2 == {IF t.view = Nothing THEN [t EXCEPT !.pane = Again(@, <<>>)] ELSE t : t \in b}
  <2>5. Remapped(rows, <<>>) = [rows EXCEPT !.panes = c2, !.tabs = b2]
    BY DEF Remapped
  <2>6. c2 = c /\ b2 = b
    BY <2>3, <2>4
  <2> HIDE DEF a, b, c, b2, c2
  <2>7. [rows EXCEPT !.panes = c] = rows
    BY <2>2
  <2>8. [rows EXCEPT !.tabs = b] = rows
    BY <2>2
  <2>9. [rows EXCEPT !.panes = c, !.tabs = b] = [[rows EXCEPT !.panes = c] EXCEPT !.tabs = b]
    OBVIOUS
  <2> HIDE DEF rows
  <2>10. Remapped(rows, <<>>) = rows
    BY <2>5, <2>6, <2>7, <2>8, <2>9
  <2> QED
    BY <2>10 DEF rows
<1>3. M = ActiveIn(ws, L.active)
  BY <1>2 DEF Loaded
<1>4. ws = [i \in DOMAIN L.ws |-> NewSpace(L.ws[i], Sessions)]
  BY WorkspacesAre DEF Sound
<1>5. ASSUME NEW i \in DOMAIN L.ws PROVE NewSpace(L.ws[i], Sessions) = L.ws[i]
  <2> DEFINE w == L.ws[i]
             n == Len(w.tabs)
             J == Stay(w, Sessions)
  <2>1. w \in Spaces /\ SpaceFocused(w)
    BY <1>1 DEF Focused
  <2>2. /\ w = [id |-> w.id, docker |-> w.docker, tabs |-> w.tabs, tab |-> w.tab,
                side |-> w.side, expanded |-> w.expanded]
        /\ w.tabs \in Seq(Tabs) /\ n \in Nat /\ DOMAIN w.tabs = 1..n /\ w.side \in SidePanels
        /\ \A j \in DOMAIN w.tabs : w.tabs[j] \in Tabs
    BY <2>1, SpaceFacts
  <2> HIDE DEF w
  <2>3. ASSUME NEW j \in DOMAIN w.tabs
        PROVE  /\ w.tabs[j].view = Nothing => LeftOf(w.tabs[j], Sessions) = w.tabs[j].root
               /\ j \in J /\ Built(w.tabs[j], Sessions) = w.tabs[j]
    <3> DEFINE tab == w.tabs[j]
               keep == {x \in PaneSet(tab.root) : x.session \in Sessions}
    <3>1. /\ tab = [id |-> tab.id, view |-> tab.view, root |-> tab.root, pane |-> tab.pane]
          /\ tab.root \in Trees /\ (tab.view = Nothing => DOMAIN tab.root # {})
          /\ (tab.view # Nothing => tab.root = NoPanes)
      BY <2>2, TabFacts
    <3>2. TabFocused(tab)
      BY <2>1 DEF SpaceFocused
    <3> HIDE DEF tab
    <3>3. IsTree(tab.root) /\ PaneSet(tab.root) \subseteq keep
      BY <3>1, TreeFacts, PaneIs
    <3>4. LeftOf(tab, Sessions) = tab.root
      BY <3>3, KeepWhole DEF LeftOf
    <3>5. j \in J
      BY <3>1, <3>4 DEF Stay, tab
    <3>6. CASE tab.view # Nothing
      <4>1. tab.pane = Nothing /\ tab.root = NoPanes
        BY <3>1, <3>2, <3>6, NoPanesTree DEF TabFocused
      <4>2. Built(tab, Sessions) = [id |-> tab.id, view |-> tab.view, root |-> NoPanes, pane |-> Nothing]
        BY <3>6 DEF Built, BuildTab, ViewTab
      <4>3. Built(tab, Sessions) = tab
        BY <3>1, <4>1, <4>2
      <4> QED
        BY <3>5, <3>6, <4>3 DEF tab
    <3>7. CASE tab.view = Nothing
      <4>1. tab.pane \in PaneSet(tab.root)
        BY <3>1, <3>2, <3>7 DEF TabFocused
      <4>2. Built(tab, Sessions) = [id |-> tab.id, view |-> Nothing, root |-> tab.root, pane |-> tab.pane]
        BY <3>4, <3>7, <4>1 DEF Built, BuildTab
      <4>3. Built(tab, Sessions) = tab
        BY <3>1, <3>7, <4>2
      <4> QED
        BY <3>4, <3>5, <4>3 DEF tab
    <3> QED
      BY <3>6, <3>7
  <2>4. J = 1..n
    BY <2>2, <2>3 DEF Stay
  <2>5. Cardinality(J) = n /\ \A k \in 1..n : Nth(J, k) = k
    <3> HIDE DEF n, J
    <3>1. Cardinality(1..n) = n
      BY <2>2, FS_Interval
    <3>2. \A k \in 1..n : Nth(1..n, k) = k
      BY <2>2, NthOfAll
    <3> QED
      BY <2>4, <3>1, <3>2
  <2> DEFINE tabs == NewTabs(w, Sessions)
             b(k) == Built(w.tabs[Nth(J, k)], Sessions)
  <2>6. tabs = w.tabs
    <3>1. tabs = [k \in 1..n |-> b(k)]
      BY <2>5 DEF NewTabs
    <3>2. \A k \in 1..n : b(k) = w.tabs[k]
      BY <2>2, <2>3, <2>5
    <3> HIDE DEF b, n, tabs
    <3>3. w.tabs = [k \in 1..n |-> w.tabs[k]]
      BY <2>2
    <3> QED
      BY <3>1, <3>2, <3>3
  <2>7. NewSpace(w, Sessions)
          = [id |-> w.id, docker |-> w.docker, tabs |-> tabs,
             tab |-> IF \E j \in DOMAIN tabs : tabs[j].id = w.tab THEN w.tab ELSE Neighbour(tabs, 1),
             side |-> IF w.side # Nothing /\ (w.side.session = Nothing \/ w.side.session \in Sessions)
                      THEN w.side ELSE Nothing,
             expanded |-> w.expanded]
    BY DEF NewSpace, WorkspaceOf
  <2> HIDE DEF tabs
  <2>8. (IF \E j \in DOMAIN tabs : tabs[j].id = w.tab THEN w.tab ELSE Neighbour(tabs, 1)) = w.tab
    <3>1. CASE w.tabs = <<>>
      <4>1. w.tab = Nothing
        BY <2>1, <3>1 DEF SpaceFocused, w
      <4>2. Neighbour(tabs, 1) = Nothing
        BY <2>6, <3>1 DEF Neighbour
      <4>3. DOMAIN tabs = {}
        BY <2>6, <3>1
      <4> QED
        BY <4>1, <4>2, <4>3
    <3>2. CASE w.tabs # <<>>
      <4>1. \E j \in DOMAIN w.tabs : w.tabs[j].id = w.tab
        BY <2>1, <3>2 DEF SpaceFocused, w
      <4> QED
        BY <4>1, <2>6
    <3> QED
      BY <3>1, <3>2
  <2>9. (IF w.side # Nothing /\ (w.side.session = Nothing \/ w.side.session \in Sessions)
         THEN w.side ELSE Nothing) = w.side
    BY <2>2 DEF SidePanels
  <2>10. NewSpace(w, Sessions) = w
    BY <2>2, <2>6, <2>7, <2>8, <2>9
  <2> QED
    BY <2>10 DEF w
<1>6. ws = L.ws
  <2> DEFINE b(i) == NewSpace(L.ws[i], Sessions)
             n == Len(L.ws)
  <2>1. ws = [i \in DOMAIN L.ws |-> b(i)] /\ \A i \in DOMAIN L.ws : b(i) = L.ws[i]
    BY <1>4, <1>5
  <2> HIDE DEF b, ws
  <2>2. L.ws = [i \in DOMAIN L.ws |-> L.ws[i]]
    BY <1>1
  <2> QED
    BY <2>1, <2>2
<1>7. M.ws = L.ws
  BY <1>3, <1>6 DEF ActiveIn
<1>8. L.active \in WsIds(L) => M.active = L.active
  BY <1>3, <1>6 DEF ActiveIn, WsIds
<1>9. L.active \in WsIds(L) \cup {Nothing}
  BY DEF Focused
<1> QED
  BY <1>7, <1>8, <1>9

-----------------------------------------------------------------------------
(***************************************************************************)
(* What holds of the threads and of every layout there is, at every step.   *)
(***************************************************************************)

Steps == {"idle", "snapshot", "rows", "active", "end", "find", "close", "sides", "open", "tab",
          "tab_or_workspace", "workspace", "panel", "resume", "load", "loaded", "ready"}
After == {"idle", "end", "find", "panel", "tab_or_workspace", "ready"}
Fields == {"pc", "then", "session", "pane", "place", "ending", "snap"}
IsThread(th) == DOMAIN th = Fields /\ th.pc \in Steps /\ th.then \in After

ThreadsOK == thread = [t \in Threads |-> thread[t]] /\ \A t \in Threads : IsThread(thread[t])

AtRest(th) == th.pc \notin {"snapshot", "rows", "active"}

\* Sessions that were never started are nowhere, and the shells the boot has opened in the
\* place of others are nowhere until it loads them.
Unborn == {s \in Sessions : life[s] = "unborn"}
Unshown == Unborn \cup Range(fresh)
Clear(L, U) == Shown(L) \cap U = {}

\* What was stored is not in memory yet.
AtStart == thread["boot"].pc \in {"resume", "load", "loaded"}

\* What a thread holds, with the unborn sessions U: the layout it stores, the session it will
\* place and the place it found.
HeldOK(th, U, slips) ==
  /\ th.snap = Nothing \/ Sound(th.snap)
  /\ th.pc \in {"rows", "active"} =>
       Sound(th.snap) /\ Clear(th.snap, U) /\ (slips \/ Focused(th.snap))
  /\ th.pc = "loaded" => Sound(th.snap) /\ Clear(th.snap, U)
  /\ th.pc \in {"tab", "tab_or_workspace", "workspace", "open"} \/ th.then = "tab_or_workspace" =>
       th.session \in Sessions /\ th.session \notin U
  /\ th.pc \in {"panel", "find", "close", "sides"} \/ th.then \in {"panel", "find"} => th.session \in Sessions
  /\ th.place = Nothing \/ (th.place.ws \in Nat /\ th.place.tab \in Names)
  /\ th.pc = "open" => th.place.ws \in Nat /\ th.place.tab \in Names

\* A pane somebody is about to close is in the layout L.
FoundOK(th, L) == th.pc = "close" => th.pane \in PanesOf(L) \cup {Nothing}

\* The sessions the boot has opened, each in the place of another.
IsFresh(new) ==
  /\ DOMAIN new \subseteq Sessions
  /\ \A s \in DOMAIN new : new[s] \in Sessions
  /\ \A s, u \in DOMAIN new : new[s] = new[u] => s = u

FreshOK ==
  IF thread["boot"].pc \in {"load", "loaded"}
  THEN IsFresh(fresh) /\ Range(fresh) \cap Unborn = {} /\ thread["boot"].ending \cap Unborn = {}
  ELSE fresh = <<>>

LayoutsOK ==
  /\ Sound(layout) /\ Sound(disk) /\ Sound(left)
  /\ Clear(layout, Unshown) /\ Clear(disk, Unshown)
  /\ slipped \/ Focused(layout)

WholeInv ==
  /\ ThreadsOK /\ life = [s \in Sessions |-> life[s]]
  /\ LayoutsOK
  /\ ready => Step("boot", "idle")
  /\ \A t \in Threads : HeldOK(thread[t], Unshown, slipped) /\ FoundOK(thread[t], layout)
  /\ FreshOK /\ mine \cap Unshown = {}

-----------------------------------------------------------------------------
\* What a step does to the threads.

SameHeld(a, b) ==
  b.pc = a.pc /\ b.then = a.then /\ b.session = a.session /\ b.place = a.place /\ b.snap = a.snap

LEMMA HeldStays ==
  ASSUME NEW a, NEW b, SameHeld(a, b), HeldOK(a, Unshown, slipped),
         Unshown' \subseteq Unshown, slipped => slipped'
  PROVE  HeldOK(b, Unshown', slipped')
<1>1. /\ a.snap = Nothing \/ Sound(a.snap)
      /\ a.pc \in {"rows", "active"} => Sound(a.snap) /\ Clear(a.snap, Unshown') /\ (slipped' \/ Focused(a.snap))
      /\ a.pc = "loaded" => Sound(a.snap) /\ Clear(a.snap, Unshown')
  BY DEF HeldOK, Clear
<1>2. a.pc \in {"tab", "tab_or_workspace", "workspace", "open"} \/ a.then = "tab_or_workspace" =>
       a.session \in Sessions /\ a.session \notin Unshown'
  BY DEF HeldOK
<1>3. /\ a.pc \in {"panel", "find", "close", "sides"} \/ a.then \in {"panel", "find"} => a.session \in Sessions
      /\ a.place = Nothing \/ (a.place.ws \in Nat /\ a.place.tab \in Names)
      /\ a.pc = "open" => a.place.ws \in Nat /\ a.place.tab \in Names
  BY DEF HeldOK
<1> QED
  BY <1>1, <1>2, <1>3 DEF HeldOK, SameHeld

LEMMA LostFacts ==
  ASSUME NEW th, NEW L, IsThread(th)
  PROVE  LET u == Lost(th, L)
         IN  IsThread(u) /\ SameHeld(th, u) /\ u.ending = th.ending /\ FoundOK(u, L)
<1>1. CASE th.pane \in PanesOf(L)
  <2>1. Lost(th, L) = th
    BY <1>1 DEF Lost
  <2> QED
    BY <1>1, <2>1 DEF FoundOK, SameHeld
<1>2. CASE th.pane \notin PanesOf(L)
  <2>1. Lost(th, L) = [th EXCEPT !.pane = Nothing]
    BY <1>2 DEF Lost
  <2>2. DOMAIN th = {"pc", "then", "session", "pane", "place", "ending", "snap"}
    BY DEF IsThread, Fields
  <2> DEFINE u == [th EXCEPT !.pane = Nothing]
  <2>3. /\ DOMAIN u = DOMAIN th /\ u.pc = th.pc /\ u.then = th.then /\ u.session = th.session
        /\ u.place = th.place /\ u.snap = th.snap /\ u.ending = th.ending /\ u.pane = Nothing
    BY <2>2
  <2> HIDE DEF u
  <2>4. IsThread(u) /\ FoundOK(u, L)
    BY <2>3 DEF IsThread, FoundOK
  <2> QED
    BY <2>1, <2>3, <2>4 DEF u, SameHeld
<1> QED
  BY <1>1, <1>2

LEMMA WriteThreads ==
  ASSUME ThreadsOK, NEW t \in Threads, NEW L, NEW next, IsThread(next), Write(t, L, next)
  PROVE  /\ layout' = L /\ ThreadsOK'
         /\ thread'[t].pc = "snapshot" /\ thread'[t].then = next.then /\ thread'[t].session = next.session
         /\ thread'[t].place = next.place /\ thread'[t].snap = next.snap /\ thread'[t].ending = next.ending
         /\ \A u \in Threads \ {t} : thread'[u] = Lost(thread[u], L)
<1>1. layout' = L /\ thread'[t] = [next EXCEPT !.pc = "snapshot", !.pane = Nothing]
  BY DEF Write
<1>2. \A u \in Threads \ {t} : thread'[u] = Lost(thread[u], L)
  BY DEF Write
<1>3. thread' = [u \in Threads |-> thread'[u]]
  BY DEF Write
<1> DEFINE now == [next EXCEPT !.pc = "snapshot", !.pane = Nothing]
<1>4. DOMAIN next = {"pc", "then", "session", "pane", "place", "ending", "snap"}
  BY DEF IsThread, Fields
<1>5. /\ DOMAIN now = DOMAIN next /\ now.pc = "snapshot" /\ now.then = next.then /\ now.session = next.session
      /\ now.place = next.place /\ now.snap = next.snap /\ now.ending = next.ending
  BY <1>4
<1> HIDE DEF now
<1>6. IsThread(now)
  BY <1>5 DEF IsThread, Steps
<1>7. \A u \in Threads \ {t} : IsThread(thread'[u])
  BY <1>2, LostFacts DEF ThreadsOK
<1>8. thread'[t] = now
  BY <1>1 DEF now
<1>9. ThreadsOK'
  BY <1>3, <1>6, <1>7, <1>8 DEF ThreadsOK
<1> QED
  BY <1>1, <1>2, <1>5, <1>8, <1>9

LEMMA GotoThreads ==
  ASSUME ThreadsOK, NEW t \in Threads, NEW next, IsThread(next), Goto(t, next)
  PROVE  /\ ThreadsOK' /\ thread'[t] = next
         /\ \A u \in Threads \ {t} : thread'[u] = thread[u]
<1>1. thread' = [thread EXCEPT ![t] = next]
  BY DEF Goto
<1>2. DOMAIN thread = Threads
  BY DEF ThreadsOK
<1>3. thread'[t] = next /\ \A u \in Threads \ {t} : thread'[u] = thread[u]
  BY <1>1, <1>2
<1>4. thread' = [u \in Threads |-> thread'[u]]
  BY <1>1, <1>2
<1> QED
  BY <1>3, <1>4 DEF ThreadsOK

\* A step of main or of core that writes the layout.
WriteGood(t, L, next, S) ==
  /\ IsThread(next) /\ Sound(L)
  /\ PanesOf(L) \subseteq PanesOf(layout) \cup S
  /\ next.snap = Nothing \/ Sound(next.snap)
  /\ next.then \in {"panel", "find"} => next.session \in Sessions
  /\ next.place = Nothing \/ (next.place.ws \in Nat /\ next.place.tab \in Names)

\* What a step leaves to the boot.
LEMMA BootLeft ==
  ASSUME WholeInv, "boot" \in Threads, thread'["boot"].pc = thread["boot"].pc,
         thread'["boot"].ending = thread["boot"].ending, UNCHANGED fresh, Unborn' \subseteq Unborn
  PROVE  FreshOK'
<1>1. CASE thread["boot"].pc \in {"load", "loaded"}
  BY <1>1 DEF WholeInv, FreshOK
<1>2. CASE thread["boot"].pc \notin {"load", "loaded"}
  BY <1>2 DEF WholeInv, FreshOK
<1> QED
  BY <1>1, <1>2

LEMMA WriteWhole ==
  ASSUME WholeInv, NEW t \in {"main", "core"}, NEW L, NEW next, Write(t, L, next),
         NEW S, WriteGood(t, L, next, S), \A x \in S : x.session \notin Unshown',
         next.then = "tab_or_workspace" => next.session \in Sessions /\ next.session \notin Unshown',
         slipped => slipped', slipped' \/ (Focused(layout) => Focused(L)),
         Unborn' \subseteq Unborn, Unshown' \subseteq Unshown, mine' \cap Unshown' = {},
         life' = [s \in Sessions |-> life'[s]],
         UNCHANGED <<disk, ready, fresh, left>>
  PROVE  WholeInv'
<1> t \in Threads /\ "boot" \in Threads /\ "main" \in Threads /\ t # "boot"
  BY DEF Threads
<1>1. /\ layout' = L /\ ThreadsOK'
      /\ thread'[t].pc = "snapshot" /\ thread'[t].then = next.then /\ thread'[t].session = next.session
      /\ thread'[t].place = next.place /\ thread'[t].snap = next.snap
      /\ \A u \in Threads \ {t} : thread'[u] = Lost(thread[u], L)
  <2>1. ThreadsOK /\ IsThread(next) /\ Write(t, L, next) /\ t \in Threads
    BY DEF WholeInv, WriteGood
  <2>2. /\ layout' = L /\ ThreadsOK'
        /\ thread'[t].pc = "snapshot" /\ thread'[t].then = next.then /\ thread'[t].session = next.session
        /\ thread'[t].place = next.place /\ thread'[t].snap = next.snap /\ thread'[t].ending = next.ending
        /\ \A u \in Threads \ {t} : thread'[u] = Lost(thread[u], L)
    BY ONLY <2>1, WriteThreads
  <2> QED
    BY ONLY <2>2
<1>0. ASSUME NEW u \in Threads \ {t}
      PROVE  SameHeld(thread[u], thread'[u]) /\ thread'[u].ending = thread[u].ending /\ FoundOK(thread'[u], L)
  <2>1. IsThread(thread[u]) /\ thread'[u] = Lost(thread[u], L)
    BY <1>1 DEF WholeInv, ThreadsOK
  <2> QED
    BY ONLY <2>1, LostFacts
<1>2. \A u \in Threads \ {t} : /\ thread'[u].pc = thread[u].pc /\ thread'[u].then = thread[u].then
                               /\ thread'[u].snap = thread[u].snap /\ thread'[u].ending = thread[u].ending
  BY <1>0 DEF SameHeld
<1>3. LayoutsOK'
  <2>1. Clear(L, Unshown')
    <3> SUFFICES ASSUME NEW x \in PanesOf(L) PROVE x.session \notin Unshown'
      BY DEF Clear, Shown
    <3>1. x \in PanesOf(layout) => x.session \notin Unshown
      BY DEF WholeInv, LayoutsOK, Clear, Shown
    <3> QED
      BY <3>1 DEF WriteGood
  <2>2. Clear(disk, Unshown')
    BY DEF WholeInv, LayoutsOK, Clear
  <2>3. slipped' \/ Focused(L)
    BY DEF WholeInv, LayoutsOK
  <2> QED
    BY <1>1, <2>1, <2>2, <2>3 DEF LayoutsOK, WholeInv, WriteGood
<1>4. (ready => Step("boot", "idle"))'
  BY <1>2 DEF WholeInv, Step
<1>5. ASSUME NEW u \in Threads
      PROVE  HeldOK(thread'[u], Unshown', slipped') /\ FoundOK(thread'[u], layout')
  <2>1. CASE u = t
    BY <1>1, <2>1 DEF HeldOK, FoundOK, WriteGood
  <2>2. CASE u # t
    <3>1. HeldOK(thread[u], Unshown, slipped)
      BY DEF WholeInv
    <3>2. HeldOK(thread'[u], Unshown', slipped')
      BY <1>0, <2>2, <3>1, HeldStays
    <3> QED
      BY <1>0, <1>1, <2>2, <3>2
  <2> QED
    BY <2>1, <2>2
<1>7. FreshOK'
  BY <1>2, BootLeft
<1> QED
  BY <1>1, <1>3, <1>4, <1>5, <1>7 DEF WholeInv

\* A step of main or of core that leaves it.
GotoGood(t, next) ==
  /\ IsThread(next) /\ AtRest(next) /\ AtRest(thread[t]) /\ next.pc # "loaded"
  /\ next.snap = Nothing \/ Sound(next.snap)
  /\ next.pc \in {"panel", "find", "close", "sides"} \/ next.then \in {"panel", "find"} => next.session \in Sessions
  /\ next.place = Nothing \/ (next.place.ws \in Nat /\ next.place.tab \in Names)
  /\ next.pc = "open" => next.place.ws \in Nat /\ next.place.tab \in Names
  /\ FoundOK(next, layout)

LEMMA GotoWhole ==
  ASSUME WholeInv, NEW t \in {"main", "core"}, NEW next, Goto(t, next), GotoGood(t, next),
         next.pc \in {"tab", "tab_or_workspace", "workspace", "open"} \/ next.then = "tab_or_workspace" =>
           next.session \in Sessions /\ next.session \notin Unshown',
         Unborn' \subseteq Unborn, Unshown' \subseteq Unshown, mine' \cap Unshown' = {},
         life' = [s \in Sessions |-> life'[s]],
         UNCHANGED <<layout, disk, ready, fresh, left, slipped>>
  PROVE  WholeInv'
<1> t \in Threads /\ "boot" \in Threads /\ "main" \in Threads /\ t # "boot"
  BY DEF Threads
<1>1. ThreadsOK' /\ thread'[t] = next /\ \A u \in Threads \ {t} : thread'[u] = thread[u]
  BY GotoThreads DEF WholeInv, GotoGood
<1>3. LayoutsOK'
  <2>1. Clear(layout, Unshown') /\ Clear(disk, Unshown')
    BY DEF WholeInv, LayoutsOK, Clear
  <2> QED
    BY <2>1 DEF LayoutsOK, WholeInv
<1>4. (ready => Step("boot", "idle"))'
  BY <1>1 DEF WholeInv, Step
<1>5. ASSUME NEW u \in Threads
      PROVE  HeldOK(thread'[u], Unshown', slipped') /\ FoundOK(thread'[u], layout')
  <2>1. CASE u = t
    BY <1>1, <2>1 DEF HeldOK, GotoGood, AtRest
  <2>2. CASE u # t
    <3>1. HeldOK(thread[u], Unshown, slipped) /\ FoundOK(thread[u], layout)
      BY DEF WholeInv
    <3>2. SameHeld(thread[u], thread'[u])
      BY <1>1, <2>2 DEF SameHeld
    <3>3. HeldOK(thread'[u], Unshown', slipped')
      BY <3>1, <3>2, HeldStays
    <3> QED
      BY <1>1, <2>2, <3>1, <3>3
  <2> QED
    BY <2>1, <2>2
<1>7. FreshOK'
  BY <1>1, BootLeft
<1> QED
  BY <1>1, <1>3, <1>4, <1>5, <1>7 DEF WholeInv

\* A number nobody holds is new to the layout.
LEMMA NewIsNew ==
  ASSUME WholeInv PROVE IsNew(layout, New)
<1> DEFINE by(t) == HeldBy(t)
           T == {by(t) : t \in Threads}
           held == Held(layout) \cup Held(disk) \cup Held(left) \cup UNION T
<1>1. ASSUME NEW t \in Threads PROVE IsFiniteSet(by(t))
  <2> DEFINE A == IF thread[t].snap = Nothing THEN {} ELSE Held(thread[t].snap)
             B == IF thread[t].place = Nothing THEN {} ELSE {thread[t].place.ws, thread[t].place.tab}
  <2>1. thread[t].snap = Nothing \/ Typed(thread[t].snap)
    BY DEF WholeInv, HeldOK, Sound
  <2>2. IsFiniteSet(A)
    BY <2>1, HeldFinite, FS_EmptySet
  <2>3. IsFiniteSet(B)
    <3>1. \A x, y : IsFiniteSet({x, y})
      <4> SUFFICES ASSUME NEW x, NEW y PROVE IsFiniteSet({x, y})
        OBVIOUS
      <4>1. IsFiniteSet({x}) /\ IsFiniteSet({y})
        BY FS_Singleton
      <4>2. IsFiniteSet({x} \cup {y})
        BY <4>1, FS_Union
      <4>3. {x} \cup {y} = {x, y}
        OBVIOUS
      <4> QED
        BY <4>2, <4>3
    <3> QED
      BY <3>1, FS_EmptySet
  <2>4. by(t) = A \cup B
    BY DEF HeldBy
  <2> HIDE DEF A, B, by
  <2> QED
    BY <2>2, <2>3, <2>4, FS_Union
<1>2. IsFiniteSet(UNION T)
  <2>1. T = {by("main"), by("core"), by("boot")}
    BY DEF Threads
  <2>2. IsFiniteSet(by("main")) /\ IsFiniteSet(by("core")) /\ IsFiniteSet(by("boot"))
    BY <1>1 DEF Threads
  <2> HIDE DEF by, T
  <2>3. UNION T = by("main") \cup by("core") \cup by("boot")
    BY <2>1
  <2>4. IsFiniteSet(by("main") \cup by("core"))
    BY <2>2, FS_Union
  <2> QED
    BY <2>2, <2>3, <2>4, FS_Union
<1>3. IsFiniteSet(Held(layout)) /\ IsFiniteSet(Held(disk)) /\ IsFiniteSet(Held(left))
  BY HeldFinite DEF WholeInv, LayoutsOK, Sound
<1>4. New = CHOOSE n \in 1..Cardinality(held) + 1 : n \notin held
  BY DEF New
<1> HIDE DEF T
<1>5. IsFiniteSet(Held(layout) \cup Held(disk))
  BY <1>3, FS_Union
<1>6. IsFiniteSet(Held(layout) \cup Held(disk) \cup Held(left))
  BY <1>3, <1>5, FS_Union
<1>7. IsFiniteSet(held)
  BY <1>2, <1>6, FS_Union
<1>8. Held(layout) \subseteq held
  OBVIOUS
<1> HIDE DEF held
<1>9. Cardinality(held) \in Nat
  BY <1>7, FS_CardinalityType
<1>10. New \in 1..Cardinality(held) + 1 /\ New \notin held
  BY <1>4, <1>7, FreshName
<1>11. New \in Nat
  BY <1>9, <1>10
<1> QED
  BY <1>8, <1>10, <1>11 DEF IsNew, Held

-----------------------------------------------------------------------------
\* `persist`.

\* A thread at another step, and with another snapshot.
MovedTo(th, pc)        == [th EXCEPT !.pc = pc]
MovedWith(th, pc, L) == [th EXCEPT !.pc = pc, !.snap = L]

SameBut(a, b) == b.then = a.then /\ b.session = a.session /\ b.place = a.place /\ b.ending = a.ending

LEMMA MovedToFacts ==
  ASSUME NEW th, IsThread(th), NEW pc \in Steps
  PROVE  /\ IsThread(MovedTo(th, pc)) /\ MovedTo(th, pc).pc = pc /\ MovedTo(th, pc).snap = th.snap
         /\ MovedTo(th, pc).pane = th.pane /\ SameBut(th, MovedTo(th, pc))
<1>1. DOMAIN th = {"pc", "then", "session", "pane", "place", "ending", "snap"} /\ th.then \in After
  BY DEF IsThread, Fields
<1> DEFINE u == [th EXCEPT !.pc = pc]
<1>2. /\ DOMAIN u = DOMAIN th /\ u.pc = pc /\ u.then = th.then /\ u.session = th.session
      /\ u.place = th.place /\ u.snap = th.snap /\ u.ending = th.ending /\ u.pane = th.pane
  BY <1>1
<1>3. MovedTo(th, pc) = u
  BY DEF MovedTo
<1> HIDE DEF u
<1> QED
  BY <1>1, <1>2, <1>3 DEF IsThread, Fields, SameBut

LEMMA MovedWithFacts ==
  ASSUME NEW th, IsThread(th), NEW pc \in Steps, NEW L
  PROVE  /\ IsThread(MovedWith(th, pc, L)) /\ MovedWith(th, pc, L).pc = pc /\ MovedWith(th, pc, L).snap = L
         /\ SameBut(th, MovedWith(th, pc, L))
<1> DEFINE u == MovedTo(th, pc)
           v == [u EXCEPT !.snap = L]
<1>1. IsThread(u) /\ u.pc = pc /\ SameBut(th, u)
  BY MovedToFacts
<1>2. MovedWith(th, pc, L) = v
  BY DEF MovedTo, MovedWith
<1> HIDE DEF u
<1>3. DOMAIN u = {"pc", "then", "session", "pane", "place", "ending", "snap"}
  BY <1>1 DEF IsThread, Fields
<1>4. /\ DOMAIN v = DOMAIN u /\ v.pc = u.pc /\ v.then = u.then /\ v.session = u.session
      /\ v.place = u.place /\ v.snap = L /\ v.ending = u.ending
  BY <1>3
<1> HIDE DEF v
<1> QED
  BY <1>1, <1>2, <1>3, <1>4 DEF IsThread, Fields, SameBut

\* A step of one thread between its snapshot and the end of `persist`.
StoreGood(t, next) ==
  /\ IsThread(next) /\ next.then = thread[t].then /\ next.session = thread[t].session
  /\ next.place = thread[t].place
  /\ next.snap = Nothing \/ Sound(next.snap)
  /\ next.pc \in {"rows", "active"} =>
       /\ Sound(next.snap) /\ Clear(next.snap, Unshown) /\ (slipped \/ Focused(next.snap))
  /\ next.pc \in {"rows", "active", next.then}
  /\ thread[t].pc \in {"snapshot", "rows", "active"}

LEMMA StoreWhole ==
  ASSUME WholeInv, NEW t \in Threads, NEW next, Goto(t, next), StoreGood(t, next),
         Sound(disk'), PanesOf(disk') = PanesOf(disk) \/ Clear(disk', Unshown),
         UNCHANGED <<layout, life, ready, fresh, mine, left, slipped>>
  PROVE  WholeInv'
<1> "boot" \in Threads /\ "main" \in Threads
  BY DEF Threads
<1>1. ThreadsOK' /\ thread'[t] = next /\ \A u \in Threads \ {t} : thread'[u] = thread[u]
  BY GotoThreads DEF WholeInv, StoreGood
<1>2. Unborn' = Unborn /\ Unshown' = Unshown
  BY DEF Unborn, Unshown
<1>3. next.then \in After /\ next.pc \in {"rows", "active"} \cup After
  BY DEF StoreGood, IsThread
<1>4. LayoutsOK'
  <2>1. Clear(disk', Unshown)
    BY DEF WholeInv, LayoutsOK, Clear, Shown
  <2> QED
    BY <2>1, <1>2 DEF LayoutsOK, WholeInv
<1>5. (ready => Step("boot", "idle"))'
  <2>1. t = "boot" => ~ready
    BY DEF WholeInv, Step, StoreGood
  <2> QED
    BY <1>1, <2>1 DEF WholeInv, Step
<1>6. ASSUME NEW u \in Threads
      PROVE  HeldOK(thread'[u], Unshown', slipped') /\ FoundOK(thread'[u], layout')
  <2>1. CASE u = t
    <3>1. HeldOK(thread[t], Unshown, slipped)
      BY DEF WholeInv
    <3>2. next.pc \notin {"open", "tab", "workspace", "close", "sides", "loaded"}
      BY <1>3 DEF After
    <3>3. FoundOK(next, layout)
      BY <3>2 DEF FoundOK
    <3>4. /\ next.snap = Nothing \/ Sound(next.snap)
          /\ next.pc \in {"rows", "active"} =>
               Sound(next.snap) /\ Clear(next.snap, Unshown) /\ (slipped \/ Focused(next.snap))
      BY DEF StoreGood
    <3>5. /\ next.pc \in {"tab", "tab_or_workspace", "workspace", "open"} \/ next.then = "tab_or_workspace" =>
               next.session \in Sessions /\ next.session \notin Unshown
          /\ next.pc \in {"panel", "find", "close", "sides"} \/ next.then \in {"panel", "find"} => next.session \in Sessions
          /\ next.place = Nothing \/ (next.place.ws \in Nat /\ next.place.tab \in Names)
      BY <3>1, <3>2 DEF StoreGood, HeldOK
    <3>6. HeldOK(next, Unshown, slipped)
      BY <3>2, <3>4, <3>5 DEF HeldOK
    <3> QED
      BY <1>1, <1>2, <2>1, <3>3, <3>6
  <2>2. CASE u # t
    BY <1>1, <1>2, <2>2 DEF WholeInv
  <2> QED
    BY <2>1, <2>2
<1>8. FreshOK'
  <2>1. CASE t = "boot"
    <3>1. thread["boot"].pc \notin {"load", "loaded"} /\ next.pc \notin {"load", "loaded"}
      BY <1>3, <2>1 DEF StoreGood, After
    <3> QED
      BY <1>1, <2>1, <3>1 DEF WholeInv, FreshOK
  <2>2. CASE t # "boot"
    BY <1>1, <1>2, <2>2, BootLeft
  <2> QED
    BY <2>1, <2>2
<1>10. (life = [s \in Sessions |-> life[s]] /\ mine \cap Unshown = {})'
  BY <1>2 DEF WholeInv
<1> QED
  BY <1>1, <1>4, <1>5, <1>6, <1>8, <1>10 DEF WholeInv

LEMMA SnapshotWhole ==
  ASSUME WholeInv, NEW t \in Threads, Snapshot(t) PROVE WholeInv'
<1> DEFINE next == [thread[t] EXCEPT !.pc = "rows", !.snap = layout]
<1>1. /\ Goto(t, next) /\ thread[t].pc = "snapshot"
      /\ UNCHANGED <<layout, disk, life, ready, fresh, mine, left, slipped>>
  BY DEF Snapshot, Step
<1>2. /\ IsThread(next) /\ next.pc = "rows" /\ next.then = thread[t].then /\ next.session = thread[t].session
      /\ next.place = thread[t].place /\ next.snap = layout
  <2>1. IsThread(thread[t]) /\ "rows" \in Steps
    BY DEF WholeInv, ThreadsOK, Steps
  <2>2. next = MovedWith(thread[t], "rows", layout)
    BY DEF MovedWith
  <2> HIDE DEF next
  <2> QED
    BY ONLY <2>1, <2>2, MovedWithFacts DEF SameBut
<1> HIDE DEF next
<1>3. StoreGood(t, next)
  BY <1>1, <1>2 DEF WholeInv, LayoutsOK, StoreGood
<1>4. Sound(disk') /\ PanesOf(disk') = PanesOf(disk)
  BY <1>1 DEF WholeInv, LayoutsOK
<1> QED
  BY <1>1, <1>3, <1>4, StoreWhole

LEMMA SaveRowsWhole ==
  ASSUME WholeInv, NEW t \in Threads, SaveRows(t) PROVE WholeInv'
<1> DEFINE next == [thread[t] EXCEPT !.pc = "active"]
           snap == thread[t].snap
           now == [snap EXCEPT !.active = disk.active]
<1>1. /\ Goto(t, next) /\ thread[t].pc = "rows" /\ disk' = [disk EXCEPT !.ws = snap.ws]
      /\ UNCHANGED <<layout, life, ready, fresh, mine, left, slipped>>
  BY DEF SaveRows, Step
<1>2. /\ IsThread(next) /\ next.pc = "active" /\ next.then = thread[t].then /\ next.session = thread[t].session
      /\ next.place = thread[t].place /\ next.snap = snap
  <2>1. IsThread(thread[t]) /\ "active" \in Steps
    BY DEF WholeInv, ThreadsOK, Steps
  <2>2. next = MovedTo(thread[t], "active")
    BY DEF MovedTo
  <2> HIDE DEF next
  <2> QED
    BY ONLY <2>1, <2>2, MovedToFacts DEF SameBut, snap
<1>3. Sound(snap) /\ Clear(snap, Unshown) /\ (slipped \/ Focused(snap))
  BY <1>1 DEF WholeInv, HeldOK
<1>4. Sound(disk)
  BY DEF WholeInv, LayoutsOK
<1> HIDE DEF next, snap
<1>5. StoreGood(t, next)
  BY <1>1, <1>2, <1>3 DEF StoreGood
<1>6. disk' = now
  <2>1. disk = [ws |-> disk.ws, active |-> disk.active] /\ snap = [ws |-> snap.ws, active |-> snap.active]
    BY <1>3, <1>4 DEF Sound, Typed
  <2>2. disk' = [ws |-> snap.ws, active |-> disk.active]
    BY <1>1, <2>1
  <2>3. now = [ws |-> snap.ws, active |-> disk.active]
    BY <2>1
  <2> HIDE DEF now
  <2> QED
    BY <2>2, <2>3
<1>7. Sound(now) /\ PanesOf(now) = PanesOf(snap)
  <2>1. disk.active \in Names
    BY <1>4 DEF Sound, Typed
  <2> QED
    BY <1>3, <2>1, WithActive
<1> HIDE DEF now
<1>8. Clear(disk', Unshown)
  BY <1>3, <1>6, <1>7 DEF Clear, Shown
<1> QED
  BY <1>1, <1>5, <1>6, <1>7, <1>8, StoreWhole

LEMMA SaveActiveWhole ==
  ASSUME WholeInv, NEW t \in Threads, SaveActive(t) PROVE WholeInv'
<1> DEFINE then == thread[t].then
           next == [thread[t] EXCEPT !.pc = then, !.snap = Nothing]
           snap == thread[t].snap
           now == [disk EXCEPT !.active = snap.active]
<1>1. /\ Goto(t, next) /\ thread[t].pc = "active" /\ disk' = now
      /\ UNCHANGED <<layout, life, ready, fresh, mine, left, slipped>>
  BY DEF SaveActive, Step
<1>2. /\ IsThread(next) /\ next.pc = then /\ next.then = thread[t].then /\ next.session = thread[t].session
      /\ next.place = thread[t].place /\ next.snap = Nothing
  <2>1. IsThread(thread[t]) /\ then \in Steps
    BY DEF WholeInv, ThreadsOK, IsThread, Steps, After
  <2>2. next = MovedWith(thread[t], then, Nothing)
    BY DEF MovedWith
  <2> HIDE DEF next, then
  <2> QED
    BY ONLY <2>1, <2>2, MovedWithFacts DEF SameBut
<1>3. Sound(snap)
  BY <1>1 DEF WholeInv, HeldOK
<1>4. Sound(disk)
  BY DEF WholeInv, LayoutsOK
<1> HIDE DEF next
<1>5. StoreGood(t, next)
  <2>1. next.pc \notin {"rows", "active"}
    BY <1>2 DEF WholeInv, ThreadsOK, IsThread, After
  <2> QED
    BY <1>1, <1>2, <2>1 DEF StoreGood
<1>6. Sound(now) /\ PanesOf(now) = PanesOf(disk)
  <2>1. snap.active \in Names
    BY <1>3 DEF Sound, Typed
  <2> HIDE DEF snap
  <2> QED
    BY <1>4, <2>1, WithActive
<1> HIDE DEF now
<1> QED
  BY <1>1, <1>5, <1>6, StoreWhole

-----------------------------------------------------------------------------
\* Starting.

Beginning ==
  /\ thread = Booting /\ layout = Empty /\ ~ready /\ ~slipped /\ fresh = <<>> /\ mine = {}
  /\ life = [s \in Sessions |-> life[s]]
  /\ Sound(disk) /\ Sound(left) /\ Clear(disk, Unshown)

LEMMA BootingIs ==
  /\ Booting = [t \in Threads |-> Booting[t]]
  /\ \A t \in Threads : /\ IsThread(Booting[t]) /\ Booting[t].then = "idle" /\ Booting[t].snap = Nothing
                         /\ Booting[t].place = Nothing /\ Booting[t].pc \in {"idle", "resume"}
  /\ Booting["boot"].pc = "resume" /\ Booting["main"].pc = "idle"
<1> DEFINE first == [Idle EXCEPT !.pc = "resume"]
<1>1. /\ DOMAIN Idle = {"pc", "then", "session", "pane", "place", "ending", "snap"} /\ Idle.pc = "idle"
      /\ Idle.then = "idle" /\ Idle.snap = Nothing /\ Idle.place = Nothing
  BY DEF Idle
<1>2. /\ DOMAIN first = DOMAIN Idle /\ first.pc = "resume"
      /\ first.then = "idle" /\ first.snap = Nothing /\ first.place = Nothing
  BY <1>1
<1>3. IsThread(Idle)
  BY <1>1 DEF IsThread, Fields, Steps, After
<1> HIDE DEF first
<1>4. IsThread(first)
  BY <1>1, <1>2 DEF IsThread, Fields, Steps, After
<1>5. Booting = [t \in Threads |-> IF t = "boot" THEN first ELSE Idle]
  BY DEF Booting, first
<1>6. \A t \in Threads : Booting[t] = IF t = "boot" THEN first ELSE Idle
  BY <1>5
<1>7. ASSUME NEW t \in Threads
      PROVE  /\ IsThread(Booting[t]) /\ Booting[t].then = "idle" /\ Booting[t].snap = Nothing
             /\ Booting[t].place = Nothing /\ Booting[t].pc \in {"idle", "resume"}
  <2>1. CASE t = "boot"
    <3>1. Booting[t] = first
      BY <1>6, <2>1
    <3> QED
      BY <1>2, <1>4, <3>1
  <2>2. CASE t # "boot"
    <3>1. Booting[t] = Idle
      BY <1>6, <2>2
    <3> QED
      BY <1>1, <1>3, <3>1
  <2> QED
    BY <2>1, <2>2
<1>8. Booting["boot"] = first /\ Booting["main"] = Idle
  BY <1>6 DEF Threads
<1> QED
  BY <1>1, <1>2, <1>5, <1>7, <1>8

LEMMA BeginningWhole == Beginning => WholeInv
<1> SUFFICES ASSUME Beginning PROVE WholeInv
  OBVIOUS
<1> "boot" \in Threads /\ "main" \in Threads
  BY DEF Threads
<1>1. /\ ThreadsOK
      /\ \A t \in Threads : /\ thread[t].then = "idle" /\ thread[t].snap = Nothing
                             /\ thread[t].place = Nothing /\ thread[t].pc \in {"idle", "resume"}
      /\ thread["boot"].pc = "resume" /\ thread["main"].pc = "idle" /\ thread["main"].then = "idle"
  BY BootingIs DEF Beginning, ThreadsOK
<1>2. LayoutsOK
  BY EmptySound DEF Beginning, LayoutsOK, Clear, Shown
<1>3. ASSUME NEW t \in Threads PROVE HeldOK(thread[t], Unshown, slipped) /\ FoundOK(thread[t], layout)
  BY <1>1 DEF HeldOK, FoundOK
<1>5. FreshOK
  BY <1>1 DEF Beginning, FreshOK
<1> QED
  BY <1>1, <1>2, <1>3, <1>5 DEF Beginning, WholeInv

LEMMA InitWhole == Init => WholeInv
<1> SUFFICES ASSUME Init PROVE Beginning
  BY BeginningWhole
<1>1. Sound(Saved)
  BY LayoutAssumption, StoredSound
<1>2. Clear(Saved, Unshown)
  <2>1. ASSUME NEW s \in Unshown, s \in Shown(Saved) PROVE FALSE
    BY <2>1 DEF Init, Unshown, Unborn, Range
  <2> QED
    BY <2>1 DEF Clear
<1> QED
  BY <1>1, <1>2 DEF Init, Beginning

LEMMA RestartWhole ==
  ASSUME WholeInv, Restart PROVE WholeInv'
<1>1. Unshown' \subseteq Unshown /\ life' = [s \in Sessions |-> life'[s]]
  <2>1. life' = [s \in Sessions |-> IF life[s] = "alive" THEN "exited" ELSE life[s]]
    BY DEF Restart
  <2>2. \A s \in Sessions : life'[s] = "unborn" <=> life[s] = "unborn"
    BY <2>1
  <2>3. Range(fresh') = {}
    BY DEF Restart, Range
  <2> QED
    BY <2>1, <2>2, <2>3 DEF Unshown, Unborn
<1>2. Beginning'
  BY <1>1 DEF Restart, Beginning, WholeInv, LayoutsOK, Clear
<1>3. Beginning' => WholeInv'
  BY BeginningWhole, PTL
<1> QED
  BY <1>2, <1>3

\* A step of the boot that leaves the layouts.
LEMMA BootStep ==
  ASSUME WholeInv, NEW next, Goto("boot", next), IsThread(next),
         HeldOK(next, Unshown', slipped'), next.pc \in {"load", "loaded", "idle"},
         Unshown' \subseteq Unshown, mine' = mine, life' = [s \in Sessions |-> life'[s]],
         ready' => next.pc = "idle", FreshOK',
         UNCHANGED <<layout, disk, left, slipped>>
  PROVE  WholeInv'
<1> "boot" \in Threads
  BY DEF Threads
<1>1. ThreadsOK' /\ thread'["boot"] = next /\ \A u \in Threads \ {"boot"} : thread'[u] = thread[u]
  BY GotoThreads DEF WholeInv
<1>2. LayoutsOK'
  BY DEF WholeInv, LayoutsOK, Clear
<1>3. ASSUME NEW u \in Threads
      PROVE  HeldOK(thread'[u], Unshown', slipped') /\ FoundOK(thread'[u], layout')
  <2>1. CASE u = "boot"
    BY <1>1, <2>1 DEF FoundOK
  <2>2. CASE u # "boot"
    <3>1. HeldOK(thread[u], Unshown, slipped) /\ FoundOK(thread[u], layout)
      BY DEF WholeInv
    <3>2. SameHeld(thread[u], thread'[u])
      BY <1>1, <2>2 DEF SameHeld
    <3>3. HeldOK(thread'[u], Unshown', slipped')
      BY <3>1, <3>2, HeldStays
    <3> QED
      BY <1>1, <2>2, <3>1, <3>3
  <2> QED
    BY <2>1, <2>2
<1>5. (ready => Step("boot", "idle"))'
  BY <1>1 DEF Step
<1>6. (mine \cap Unshown = {})'
  BY DEF WholeInv
<1> QED
  BY <1>1, <1>2, <1>3, <1>5, <1>6 DEF WholeInv

-----------------------------------------------------------------------------
\* What a thread does next.
Work(pc, then, s, pane, place, ending) ==
  [pc |-> pc, then |-> then, session |-> s, pane |-> pane, place |-> place, ending |-> ending, snap |-> Nothing]

LEMMA WorkFacts ==
  ASSUME NEW pc \in Steps, NEW then \in After, NEW s, NEW pane, NEW place, NEW ending
  PROVE  LET th == Work(pc, then, s, pane, place, ending)
         IN  /\ IsThread(th) /\ th.pc = pc /\ th.then = then /\ th.session = s /\ th.pane = pane
             /\ th.place = place /\ th.ending = ending /\ th.snap = Nothing
BY DEF Work, IsThread, Fields

\* What comes after a step of a thread that was at rest.
Then(then) == [Idle EXCEPT !.then = then]
Ends(S) == [Idle EXCEPT !.then = "end", !.ending = S]
Loads(S) == [Idle EXCEPT !.pc = "load", !.ending = S]
Goes(pc, s) == [Idle EXCEPT !.pc = pc, !.session = s]
GoesTo(pc, s, place) == [Idle EXCEPT !.pc = pc, !.session = s, !.place = place]
ThenOf(then, s) == [Idle EXCEPT !.then = then, !.session = s]
ThenTo(then, s, place) == [Idle EXCEPT !.then = then, !.session = s, !.place = place]

LEMMA IdleIs ==
  /\ Idle = Work("idle", "idle", Nothing, Nothing, Nothing, {})
  /\ \A then : Then(then) = Work("idle", then, Nothing, Nothing, Nothing, {})
  /\ \A S : Ends(S) = Work("idle", "end", Nothing, Nothing, Nothing, S)
  /\ \A S : Loads(S) = Work("load", "idle", Nothing, Nothing, Nothing, S)
  /\ \A pc, s : Goes(pc, s) = Work(pc, "idle", s, Nothing, Nothing, {})
  /\ \A pc, s, place : GoesTo(pc, s, place) = Work(pc, "idle", s, Nothing, place, {})
  /\ \A then, s : ThenOf(then, s) = Work("idle", then, s, Nothing, Nothing, {})
  /\ \A then, s, place : ThenTo(then, s, place) = Work("idle", then, s, Nothing, place, {})
<1>1. Idle = Work("idle", "idle", Nothing, Nothing, Nothing, {})
  BY DEF Idle, Work
<1>2. ASSUME NEW then PROVE Then(then) = Work("idle", then, Nothing, Nothing, Nothing, {})
  <2>1. Then(then) = [Idle EXCEPT !.then = then]
    BY DEF Then
  <2>2. [Idle EXCEPT !.then = then] = Work("idle", then, Nothing, Nothing, Nothing, {})
    BY <1>1 DEF Work
  <2> QED
    BY ONLY <2>1, <2>2
<1>3. ASSUME NEW S PROVE Ends(S) = Work("idle", "end", Nothing, Nothing, Nothing, S)
  <2>1. Ends(S) = [[Idle EXCEPT !.then = "end"] EXCEPT !.ending = S]
    BY DEF Ends
  <2>2. [Idle EXCEPT !.then = "end"] = Work("idle", "end", Nothing, Nothing, Nothing, {})
    BY <1>1 DEF Work
  <2>3. [Work("idle", "end", Nothing, Nothing, Nothing, {}) EXCEPT !.ending = S] = Work("idle", "end", Nothing, Nothing, Nothing, S)
    BY <1>1 DEF Work
  <2> QED
    BY ONLY <2>1, <2>2, <2>3
<1>4. ASSUME NEW S PROVE Loads(S) = Work("load", "idle", Nothing, Nothing, Nothing, S)
  <2>1. Loads(S) = [[Idle EXCEPT !.pc = "load"] EXCEPT !.ending = S]
    BY DEF Loads
  <2>2. [Idle EXCEPT !.pc = "load"] = Work("load", "idle", Nothing, Nothing, Nothing, {})
    BY <1>1 DEF Work
  <2>3. [Work("load", "idle", Nothing, Nothing, Nothing, {}) EXCEPT !.ending = S] = Work("load", "idle", Nothing, Nothing, Nothing, S)
    BY <1>1 DEF Work
  <2> QED
    BY ONLY <2>1, <2>2, <2>3
<1>5. ASSUME NEW pc, NEW s PROVE Goes(pc, s) = Work(pc, "idle", s, Nothing, Nothing, {})
  <2>1. Goes(pc, s) = [[Idle EXCEPT !.pc = pc] EXCEPT !.session = s]
    BY DEF Goes
  <2>2. [Idle EXCEPT !.pc = pc] = Work(pc, "idle", Nothing, Nothing, Nothing, {})
    BY <1>1 DEF Work
  <2>3. [Work(pc, "idle", Nothing, Nothing, Nothing, {}) EXCEPT !.session = s] = Work(pc, "idle", s, Nothing, Nothing, {})
    BY <1>1 DEF Work
  <2> QED
    BY ONLY <2>1, <2>2, <2>3
<1>6. ASSUME NEW pc, NEW s, NEW place PROVE GoesTo(pc, s, place) = Work(pc, "idle", s, Nothing, place, {})
  <2>1. GoesTo(pc, s, place) = [[[Idle EXCEPT !.pc = pc] EXCEPT !.session = s] EXCEPT !.place = place]
    BY DEF GoesTo
  <2>2. [Idle EXCEPT !.pc = pc] = Work(pc, "idle", Nothing, Nothing, Nothing, {})
    BY <1>1 DEF Work
  <2>3. [Work(pc, "idle", Nothing, Nothing, Nothing, {}) EXCEPT !.session = s] = Work(pc, "idle", s, Nothing, Nothing, {})
    BY <1>1 DEF Work
  <2>4. [Work(pc, "idle", s, Nothing, Nothing, {}) EXCEPT !.place = place] = Work(pc, "idle", s, Nothing, place, {})
    BY <1>1 DEF Work
  <2> QED
    BY ONLY <2>1, <2>2, <2>3, <2>4
<1>7. ASSUME NEW then, NEW s PROVE ThenOf(then, s) = Work("idle", then, s, Nothing, Nothing, {})
  <2>1. ThenOf(then, s) = [[Idle EXCEPT !.then = then] EXCEPT !.session = s]
    BY DEF ThenOf
  <2>2. [Idle EXCEPT !.then = then] = Work("idle", then, Nothing, Nothing, Nothing, {})
    BY <1>1 DEF Work
  <2>3. [Work("idle", then, Nothing, Nothing, Nothing, {}) EXCEPT !.session = s] = Work("idle", then, s, Nothing, Nothing, {})
    BY <1>1 DEF Work
  <2> QED
    BY ONLY <2>1, <2>2, <2>3
<1>8. ASSUME NEW then, NEW s, NEW place PROVE ThenTo(then, s, place) = Work("idle", then, s, Nothing, place, {})
  <2>1. ThenTo(then, s, place) = [[[Idle EXCEPT !.then = then] EXCEPT !.session = s] EXCEPT !.place = place]
    BY DEF ThenTo
  <2>2. [Idle EXCEPT !.then = then] = Work("idle", then, Nothing, Nothing, Nothing, {})
    BY <1>1 DEF Work
  <2>3. [Work("idle", then, Nothing, Nothing, Nothing, {}) EXCEPT !.session = s] = Work("idle", then, s, Nothing, Nothing, {})
    BY <1>1 DEF Work
  <2>4. [Work("idle", then, s, Nothing, Nothing, {}) EXCEPT !.place = place] = Work("idle", then, s, Nothing, place, {})
    BY <1>1 DEF Work
  <2> QED
    BY ONLY <2>1, <2>2, <2>3, <2>4
<1> QED
  BY <1>1, <1>2, <1>3, <1>4, <1>5, <1>6, <1>7, <1>8

\* A session that is opened again is a shell that was never started, so it is shown nowhere.
LEMMA FreshIs ==
  ASSUME WholeInv, Step("boot", "resume"), Resume
  PROVE  /\ Unshown' \subseteq Unshown /\ life' = [s \in Sessions |-> life'[s]]
         /\ IsFresh(fresh') /\ Range(fresh') \cap Unborn' = {}
<1> DEFINE dead == {s \in Sessions : life[s] = "exited"}
           unborn == {s \in Shells : life[s] = "unborn"}
<1>1. CASE fresh' = <<>> /\ life' = [s \in Sessions |-> IF s \in dead \ Ssh THEN "gone" ELSE life[s]]
  <2>1. \A s \in Sessions : life'[s] = "unborn" => life[s] = "unborn"
    BY <1>1
  <2> QED
    BY <1>1, <2>1 DEF Unshown, Unborn, IsFresh, Range
<1>2. CASE fresh' = <<>> /\ life' = life
  BY <1>2 DEF Unshown, Unborn, IsFresh, WholeInv, Range
<1>3. ASSUME NEW again \in SUBSET (dead \cap Shells), NEW back \in SUBSET (dead \cap Ssh),
             NEW new \in [again -> unborn], IsInjective(new), fresh' = new,
             life' = [s \in Sessions |-> IF s \in again THEN "gone"
                                         ELSE IF s \in back \cup Range(new) THEN "alive" ELSE life[s]]
      PROVE  /\ Unshown' \subseteq Unshown /\ life' = [s \in Sessions |-> life'[s]]
             /\ IsFresh(fresh') /\ Range(fresh') \cap Unborn' = {}
  <2>1. \A s \in Sessions : life'[s] = IF s \in again THEN "gone"
                                       ELSE IF s \in back \cup Range(new) THEN "alive" ELSE life[s]
    BY <1>3
  <2>2. \A s \in Sessions : life'[s] = "unborn" => life[s] = "unborn"
    BY <2>1
  <2>3. DOMAIN new = again /\ \A s \in again : new[s] \in Shells /\ life[new[s]] = "unborn" /\ new[s] \in Range(new)
    BY DEF Range
  <2>4. \A s \in again : new[s] \in Sessions /\ new[s] \in Unborn /\ new[s] \notin Unborn'
    <3> SUFFICES ASSUME NEW s \in again PROVE new[s] \in Sessions /\ new[s] \in Unborn /\ new[s] \notin Unborn'
      OBVIOUS
    <3>1. new[s] \in Sessions /\ new[s] \in Unborn
      BY <2>3 DEF Sessions, Unborn
    <3>3. life'[new[s]] # "unborn"
      BY <2>1, <2>3, <3>1
    <3> QED
      BY <3>1, <3>3 DEF Unborn
  <2>5. \A s, u \in again : new[s] = new[u] => s = u
    BY <1>3, <2>3 DEF IsInjective
  <2>6. again \subseteq Sessions
    OBVIOUS
  <2>7. \A x \in Range(new) : x \in Unborn /\ x \notin Unborn'
    BY <2>3, <2>4 DEF Range
  <2>8. IsFresh(new)
    BY <2>3, <2>4, <2>5, <2>6 DEF IsFresh
  <2>9. Unborn' \subseteq Unborn
    BY <2>2 DEF Unborn
  <2> QED
    BY <1>3, <2>7, <2>8, <2>9 DEF Unshown
<1> HIDE DEF dead, unborn
<1>4. \/ life' = [s \in Sessions |-> IF s \in dead \ Ssh THEN "gone" ELSE life[s]] /\ fresh' = <<>>
      \/ life' = life /\ fresh' = <<>>
      \/ \E again \in SUBSET (dead \cap Shells), back \in SUBSET (dead \cap Ssh) :
         \E new \in [again -> unborn] :
           /\ again \cup back # {} /\ IsInjective(new)
           /\ fresh' = new
           /\ life' = [s \in Sessions |-> IF s \in again THEN "gone"
                                          ELSE IF s \in back \cup Range(new) THEN "alive"
                                          ELSE life[s]]
  BY DEF Resume, dead, unborn
<1>5. CASE \E again \in SUBSET (dead \cap Shells), back \in SUBSET (dead \cap Ssh) :
           \E new \in [again -> unborn] :
             /\ again \cup back # {} /\ IsInjective(new)
             /\ fresh' = new
             /\ life' = [s \in Sessions |-> IF s \in again THEN "gone"
                                            ELSE IF s \in back \cup Range(new) THEN "alive"
                                            ELSE life[s]]
  <2>1. PICK again \in SUBSET (dead \cap Shells), back \in SUBSET (dead \cap Ssh) :
               \E new \in [again -> unborn] :
                 /\ again \cup back # {} /\ IsInjective(new)
                 /\ fresh' = new
                 /\ life' = [s \in Sessions |-> IF s \in again THEN "gone"
                                                ELSE IF s \in back \cup Range(new) THEN "alive"
                                                ELSE life[s]]
    BY ONLY <1>5
  <2>2. PICK new \in [again -> unborn] :
               /\ IsInjective(new) /\ fresh' = new
               /\ life' = [s \in Sessions |-> IF s \in again THEN "gone"
                                              ELSE IF s \in back \cup Range(new) THEN "alive" ELSE life[s]]
    BY ONLY <2>1
  <2> QED
    BY <1>3, <2>2
<1> QED
  BY <1>1, <1>2, <1>4, <1>5

LEMMA ResumeWhole ==
  ASSUME WholeInv, Resume PROVE WholeInv'
<1> "boot" \in Threads
  BY DEF Threads
<1> DEFINE S == {s \in Sessions : life'[s] \in {"alive", "exited"}}
           next == [Idle EXCEPT !.pc = "load", !.ending = S]
<1>1. /\ Step("boot", "resume") /\ Goto("boot", next)
      /\ UNCHANGED <<layout, disk, ready, mine, left, slipped>>
  BY DEF Resume
<1>2. /\ IsThread(next) /\ next.pc = "load" /\ next.then = "idle" /\ next.place = Nothing /\ next.snap = Nothing
      /\ next.ending = S
  <2> HIDE DEF S
  <2>3. next = Loads(S)
    BY DEF Loads
  <2>1. Loads(S) = Work("load", "idle", Nothing, Nothing, Nothing, S)
    BY ONLY IdleIs
  <2>2. "load" \in Steps /\ "idle" \in After
    BY DEF Steps, After
  <2> HIDE DEF next
  <2> QED
    BY ONLY <2>1, <2>2, <2>3, WorkFacts
<1> HIDE DEF next
<1>3. /\ Unshown' \subseteq Unshown /\ life' = [s \in Sessions |-> life'[s]]
      /\ IsFresh(fresh') /\ Range(fresh') \cap Unborn' = {}
  BY <1>1, FreshIs
<1>4. S \cap Unborn' = {}
  BY DEF Unborn
<1>5. thread'["boot"] = next
  BY <1>1, <1>2, GotoThreads DEF WholeInv
<1>6. FreshOK'
  BY <1>1, <1>2, <1>3, <1>4, <1>5 DEF FreshOK
<1>7. ~ready'
  BY <1>1 DEF WholeInv, Step
<1>8. HeldOK(next, Unshown', slipped')
  BY <1>2 DEF HeldOK
<1> QED
  BY <1>1, <1>2, <1>3, <1>6, <1>7, <1>8, BootStep

LEMMA MarkReadyWhole ==
  ASSUME WholeInv, MarkReady PROVE WholeInv'
<1> "boot" \in Threads
  BY DEF Threads
<1>1. /\ Step("boot", "ready") /\ Goto("boot", Idle) /\ ready'
      /\ UNCHANGED <<layout, disk, life, fresh, mine, left, slipped>>
  BY DEF MarkReady
<1>2. /\ IsThread(Idle) /\ Idle.pc = "idle" /\ Idle.then = "idle" /\ Idle.place = Nothing /\ Idle.snap = Nothing
  <2>1. "idle" \in Steps /\ "idle" \in After
    BY DEF Steps, After
  <2>2. Idle = Work("idle", "idle", Nothing, Nothing, Nothing, {})
    BY IdleIs
  <2> QED
    BY ONLY <2>1, <2>2, WorkFacts
<1>5. thread'["boot"] = Idle
  BY <1>1, <1>2, GotoThreads DEF WholeInv
<1>6. FreshOK'
  BY <1>1, <1>2, <1>5 DEF FreshOK, Step, WholeInv
<1>9. Unshown' = Unshown /\ life' = [s \in Sessions |-> life'[s]]
  BY <1>1 DEF Unshown, Unborn, WholeInv
<1>10. HeldOK(Idle, Unshown', slipped')
  BY <1>2 DEF HeldOK
<1> QED
  BY <1>1, <1>2, <1>6, <1>9, <1>10, BootStep

LEMMA ReadStoredWhole ==
  ASSUME WholeInv, ReadStored PROVE WholeInv'
<1> "boot" \in Threads /\ IsThread(thread["boot"])
  BY DEF Threads, WholeInv, ThreadsOK
<1>1. PICK stored \in {disk, Empty} : Goto("boot", MovedWith(thread["boot"], "loaded", stored))
  BY DEF ReadStored, MovedWith
<1> DEFINE next == MovedWith(thread["boot"], "loaded", stored)
<1>2. /\ Step("boot", "load") /\ Goto("boot", next)
      /\ UNCHANGED <<layout, disk, life, ready, fresh, mine, left, slipped>>
  BY <1>1 DEF ReadStored
<1>3. IsThread(next) /\ next.pc = "loaded" /\ next.snap = stored /\ SameBut(thread["boot"], next)
  <2>1. "loaded" \in Steps
    BY DEF Steps
  <2> QED
    BY ONLY <2>1, IsThread(thread["boot"]), MovedWithFacts
<1> HIDE DEF next
<1>5. Unborn' = Unborn /\ Unshown' = Unshown /\ life' = [s \in Sessions |-> life'[s]]
  BY <1>2 DEF Unborn, Unshown, WholeInv
<1>6. Sound(stored) /\ Clear(stored, Unshown')
  BY <1>5, EmptySound DEF WholeInv, LayoutsOK, Clear, Shown
<1>7. thread'["boot"] = next
  BY <1>2, <1>3, GotoThreads DEF WholeInv
<1>8. FreshOK'
  BY <1>2, <1>3, <1>5, <1>7 DEF FreshOK, WholeInv, Step, SameBut
<1>9. ~ready'
  BY <1>2 DEF WholeInv, Step
<1>10. HeldOK(next, Unshown', slipped')
  <2>1. HeldOK(thread["boot"], Unshown, slipped)
    BY DEF WholeInv
  <2> QED
    BY <1>2, <1>3, <1>5, <1>6, <2>1 DEF HeldOK, SameBut
<1> QED
  BY <1>2, <1>3, <1>5, <1>8, <1>9, <1>10, BootStep

\* What the boot loads is what it read of the sessions that are valid.
LEMMA LoadIs ==
  ASSUME WholeInv, Load
  PROVE  LET snap == thread["boot"].snap
         IN  /\ Sound(snap) /\ IsRemap(fresh, snap) /\ Sound(layout') /\ Focused(layout')
             /\ \A y : y \in PanesOf(layout') <=>
                  \E x \in PanesOf(snap) : y = Again(x, fresh) /\ y.session \in thread["boot"].ending
<1> DEFINE snap == thread["boot"].snap
           valid == thread["boot"].ending
           L == Loaded(Rows(snap.ws), snap.active, valid, fresh)
<1>1. layout' = L /\ Step("boot", "loaded") /\ "boot" \in Threads
  BY DEF Load, Write, Threads
<1>2. Sound(snap) /\ Clear(snap, Unshown) /\ IsFresh(fresh)
  BY <1>1 DEF WholeInv, HeldOK, FreshOK, Step
<1> HIDE DEF snap, valid
<1>3. IsRemap(fresh, snap)
  <2>1. \A s \in DOMAIN fresh : fresh[s] \in Unshown
    BY DEF Unshown, Range
  <2> QED
    BY <1>2, <2>1 DEF IsRemap, IsFresh, Clear
<1>4. snap.active \in Names
  BY <1>2 DEF Sound, Typed
<1>5. /\ Sound(L) /\ Focused(L)
      /\ \A y : y \in PanesOf(L) <=> \E x \in PanesOf(snap) : y = Again(x, fresh) /\ y.session \in valid
  BY ONLY <1>2, <1>3, <1>4, LoadedFacts
<1> HIDE DEF L
<1> QED
  BY <1>1, <1>2, <1>3, <1>5 DEF snap, valid

LEMMA LoadWhole ==
  ASSUME WholeInv, Load PROVE WholeInv'
<1> "boot" \in Threads
  BY DEF Threads
<1> DEFINE valid == thread["boot"].ending
           next == Then("ready")
<1>1. /\ Step("boot", "loaded") /\ fresh' = <<>> /\ left' = Empty
      /\ UNCHANGED <<disk, life, ready, mine, slipped>>
  BY DEF Load
<1>2. /\ IsThread(next) /\ next.pc = "idle" /\ next.then = "ready" /\ next.place = Nothing /\ next.snap = Nothing
  <2>1. Then("ready") = Work("idle", "ready", Nothing, Nothing, Nothing, {})
    BY ONLY IdleIs
  <2>2. "idle" \in Steps /\ "ready" \in After
    BY DEF Steps, After
  <2> QED
    BY ONLY <2>1, <2>2, WorkFacts
<1>0. PICK L : Write("boot", L, next) /\ layout' = L
  BY DEF Load, Then, Write
<1> HIDE DEF next
<1>3. Unborn' = Unborn /\ Unshown' = Unborn /\ Unshown' \subseteq Unshown /\ life' = [s \in Sessions |-> life'[s]]
  BY <1>1 DEF Unshown, Unborn, WholeInv, Range
<1>4. Sound(L) /\ Focused(L) /\ Clear(L, Unshown')
  <2>1. Sound(L) /\ Focused(L) /\ \A y \in PanesOf(L) : y.session \in valid
    BY <1>0, LoadIs
  <2>2. valid \cap Unborn = {}
    BY <1>1 DEF WholeInv, FreshOK, Step
  <2> HIDE DEF valid
  <2> QED
    BY <1>3, <2>1, <2>2 DEF Clear, Shown
<1>6. /\ layout' = L /\ ThreadsOK'
      /\ thread'["boot"].pc = "snapshot" /\ thread'["boot"].then = "ready"
      /\ thread'["boot"].place = Nothing /\ thread'["boot"].snap = Nothing
      /\ \A u \in Threads \ {"boot"} : thread'[u] = Lost(thread[u], L)
  <2>1. ThreadsOK /\ IsThread(next) /\ Write("boot", L, next) /\ "boot" \in Threads
    BY <1>0, <1>2 DEF WholeInv
  <2> QED
    BY ONLY <2>1, <1>2, WriteThreads
<1>7. LayoutsOK'
  BY <1>1, <1>3, <1>4, <1>6, EmptySound DEF LayoutsOK, WholeInv, Clear
<1>8. ASSUME NEW u \in Threads
      PROVE  HeldOK(thread'[u], Unshown', slipped') /\ FoundOK(thread'[u], layout')
  <2>1. CASE u = "boot"
    BY <1>6, <2>1 DEF HeldOK, FoundOK
  <2>2. CASE u # "boot"
    <3>1. HeldOK(thread[u], Unshown, slipped)
      BY DEF WholeInv
    <3>2. SameHeld(thread[u], thread'[u]) /\ FoundOK(thread'[u], L)
      <4>1. IsThread(thread[u]) /\ thread'[u] = Lost(thread[u], L)
        BY <1>6, <2>2 DEF WholeInv, ThreadsOK
      <4> QED
        BY ONLY <4>1, LostFacts
    <3>3. HeldOK(thread'[u], Unshown', slipped')
      BY <1>1, <1>3, <3>1, <3>2, HeldStays
    <3> QED
      BY <1>6, <3>2, <3>3
  <2> QED
    BY <2>1, <2>2
<1>9. FreshOK' /\ ~ready' /\ (mine \cap Unshown = {})'
  BY <1>1, <1>3, <1>6 DEF FreshOK, WholeInv, Step
<1> QED
  BY <1>1, <1>3, <1>6, <1>7, <1>8, <1>9 DEF WholeInv

-----------------------------------------------------------------------------
\* The commands of the window.

LEMMA NextFacts ==
  /\ IsThread(Idle) /\ Idle.pc = "idle" /\ Idle.then = "idle" /\ Idle.place = Nothing /\ Idle.snap = Nothing
  /\ \A S : LET th == Ends(S)
            IN  /\ IsThread(th) /\ th.pc = "idle" /\ th.then = "end" /\ th.place = Nothing /\ th.snap = Nothing
  /\ \A pc \in Steps : \A s :
       LET th == Goes(pc, s)
       IN  /\ IsThread(th) /\ th.pc = pc /\ th.then = "idle" /\ th.session = s /\ th.place = Nothing
           /\ th.snap = Nothing
  /\ \A pc \in Steps : \A s, place :
       LET th == GoesTo(pc, s, place)
       IN  /\ IsThread(th) /\ th.pc = pc /\ th.then = "idle" /\ th.session = s /\ th.place = place
           /\ th.snap = Nothing
  /\ \A then \in After : \A s :
       LET th == ThenOf(then, s)
       IN  /\ IsThread(th) /\ th.pc = "idle" /\ th.then = then /\ th.session = s /\ th.place = Nothing
           /\ th.snap = Nothing
  /\ \A then \in After : \A s, place :
       LET th == ThenTo(then, s, place)
       IN  /\ IsThread(th) /\ th.pc = "idle" /\ th.then = then /\ th.session = s /\ th.place = place
           /\ th.snap = Nothing
<1>1. "idle" \in Steps /\ "idle" \in After /\ "end" \in After
  BY DEF Steps, After
<1>2. IsThread(Idle) /\ Idle.pc = "idle" /\ Idle.then = "idle" /\ Idle.place = Nothing /\ Idle.snap = Nothing
  BY <1>1, IdleIs, WorkFacts
<1>3. ASSUME NEW S
      PROVE  LET th == Ends(S)
             IN  /\ IsThread(th) /\ th.pc = "idle" /\ th.then = "end" /\ th.place = Nothing /\ th.snap = Nothing
  BY <1>1, IdleIs, WorkFacts
<1>4. ASSUME NEW pc \in Steps, NEW s
      PROVE  LET th == Goes(pc, s)
             IN  /\ IsThread(th) /\ th.pc = pc /\ th.then = "idle" /\ th.session = s /\ th.place = Nothing
                 /\ th.snap = Nothing
  BY <1>1, IdleIs, WorkFacts
<1>5. ASSUME NEW pc \in Steps, NEW s, NEW place
      PROVE  LET th == GoesTo(pc, s, place)
             IN  /\ IsThread(th) /\ th.pc = pc /\ th.then = "idle" /\ th.session = s /\ th.place = place
                 /\ th.snap = Nothing
  BY <1>1, IdleIs, WorkFacts
<1>6. ASSUME NEW then \in After, NEW s
      PROVE  LET th == ThenOf(then, s)
             IN  /\ IsThread(th) /\ th.pc = "idle" /\ th.then = then /\ th.session = s /\ th.place = Nothing
                 /\ th.snap = Nothing
  BY <1>1, IdleIs, WorkFacts
<1>7. ASSUME NEW then \in After, NEW s, NEW place
      PROVE  LET th == ThenTo(then, s, place)
             IN  /\ IsThread(th) /\ th.pc = "idle" /\ th.then = then /\ th.session = s /\ th.place = place
                 /\ th.snap = Nothing
  BY <1>1, IdleIs, WorkFacts
<1> QED
  BY <1>2, <1>3, <1>4, <1>5, <1>6, <1>7

\* A step that starts nothing.
LEMMA SameLife ==
  WholeInv /\ UNCHANGED <<life, fresh, mine>> =>
    Unborn' = Unborn /\ Unshown' = Unshown /\ mine' \cap Unshown' = {} /\ life' = [x \in Sessions |-> life'[x]]
BY DEF Unborn, Unshown, WholeInv

\* A command that is one write.
LEMMA OneWrite ==
  ASSUME WholeInv, NEW L, NEW next, NEW S, Write("main", L, next), Becomes(layout, L, S),
         next = Idle \/ (\E E : next = Ends(E)), \A x \in S : x.session \notin Unshown,
         UNCHANGED <<disk, ready, fresh, mine, left, life, slipped>>
  PROVE  WholeInv'
<1>1. /\ IsThread(next) /\ next.place = Nothing /\ next.snap = Nothing /\ next.then \in {"idle", "end"}
  <2>1. CASE next = Idle
    BY <2>1, NextFacts
  <2>2. ASSUME NEW E, next = Ends(E)
        PROVE  IsThread(next) /\ next.place = Nothing /\ next.snap = Nothing /\ next.then = "end"
    BY <2>2, NextFacts
  <2> QED
    BY <2>1, <2>2
<1>2. WriteGood("main", L, next, S)
  BY <1>1 DEF WriteGood, Becomes
<1>3. /\ slipped => slipped'
      /\ slipped' \/ (Focused(layout) => Focused(L))
  BY DEF Becomes
<1>4. "main" \in {"main", "core"}
  OBVIOUS
<1> QED
  BY <1>1, <1>2, <1>3, <1>4, SameLife, WriteWhole

\* A session that can be named was started, and is no shell that waits to be loaded.
LEMMA NamedShown ==
  ASSUME WholeInv, NEW s \in Sessions, Named(s) PROVE s \notin Unshown
<1>1. s \notin Unborn
  BY DEF Named, Unborn
<1>2. CASE ready
  BY <1>1, <1>2 DEF WholeInv, FreshOK, Step, Unshown, Range
<1>3. CASE s \in mine
  BY <1>3 DEF WholeInv
<1>4. CASE s \in Shown(layout)
  BY <1>4 DEF WholeInv, LayoutsOK, Clear
<1> QED
  BY <1>2, <1>3, <1>4 DEF Named

\* So was one that is placed.
LEMMA PlacedShown ==
  ASSUME WholeInv, NEW x \in PanesOf(layout)
  PROVE  x \in Panes(Sessions) /\ x.session \in Sessions /\ x.session \notin Unshown
<1>1. x \in Panes(Sessions)
  <2>1. PICK p \in Places(layout) : x \in PaneSet(TabAt(layout, p).root)
    BY PanesFacts
  <2>2. TabAt(layout, p).root \in Trees
    BY TabAtFacts, TabFacts DEF WholeInv, LayoutsOK, Sound
  <2> QED
    BY <2>1, <2>2, TreeFacts
<1>2. x.session \in Sessions
  BY <1>1 DEF Panes
<1>3. x.session \notin Unshown
  BY DEF WholeInv, LayoutsOK, Clear, Shown
<1> QED
  BY <1>1, <1>2, <1>3

LEMMA LeafSession == \A s : Leaf(s).session = s /\ Viewer(s).session = s
BY DEF Leaf, Viewer

LEMMA ShowWhole ==
  ASSUME WholeInv, NEW s \in Sessions, NEW L, Named(s), Show(s, L), Becomes(layout, L, {Leaf(s)}),
         UNCHANGED <<disk, ready, fresh, left>>
  PROVE  WholeInv'
<1>1. Write("main", L, Idle) /\ UNCHANGED <<life, mine, slipped>>
  BY DEF Show
<1>2. \A x \in {Leaf(s)} : x.session \notin Unshown
  BY NamedShown, LeafSession
<1> QED
  BY <1>1, <1>2, OneWrite

LEMMA NowWhole ==
  ASSUME WholeInv, NEW L, Now(L), Becomes(layout, L, {}), UNCHANGED <<disk, ready, fresh, left>>
  PROVE  WholeInv'
<1>1. Write("main", L, Idle) /\ UNCHANGED <<life, mine, slipped>>
  BY DEF Now
<1> QED
  BY <1>1, OneWrite

LEMMA EndWhole ==
  ASSUME WholeInv, NEW L, NEW S, End(S, L), Becomes(layout, L, {}), UNCHANGED <<disk, ready, fresh, left>>
  PROVE  WholeInv'
<1>1. Write("main", L, Ends(S)) /\ UNCHANGED <<life, mine, slipped>>
  BY DEF End, Ends
<1> QED
  BY <1>1, OneWrite

LEMMA CommandKeeps == Command => UNCHANGED <<disk, ready, fresh, left>> /\ Step("main", "idle")
BY DEF Command

LEMMA NewFacts == WholeInv => Sound(layout) /\ IsNew(layout, New)
BY NewIsNew DEF WholeInv, LayoutsOK

\* Commands that show a session.
LEMMA ShowCommands ==
  ASSUME WholeInv, NEW s \in Sessions, CreateWorkspaceCmd(s) \/ SplitPaneCmd(s) PROVE WholeInv'
<1>1. CASE CreateWorkspaceCmd(s)
  <2>1. Becomes(layout, CreateWorkspace(layout, New, s), {Leaf(s)})
    BY <1>1, NewFacts, CreateWorkspaceBecomes DEF CreateWorkspaceCmd
  <2> QED
    BY <1>1, <2>1, CommandKeeps, ShowWhole DEF CreateWorkspaceCmd
<1>2. CASE SplitPaneCmd(s)
  <2>1. PICK at \in PanesOf(layout) : at.kind = "leaf" /\ Show(s, SplitPane(layout, at, s))
    BY <1>2 DEF SplitPaneCmd
  <2>2. Becomes(layout, SplitPane(layout, at, s), {Leaf(s)})
    BY <1>2, NewFacts, SplitPaneBecomes DEF SplitPaneCmd
  <2> QED
    BY <1>2, <2>1, <2>2, CommandKeeps, ShowWhole DEF SplitPaneCmd
<1> QED
  BY <1>1, <1>2

\* Commands that close.
LEMMA CloseCommands ==
  ASSUME WholeInv, CloseTabCmd \/ ClosePaneCmd \/ CloseWorkspaceCmd PROVE WholeInv'
<1>1. CASE CloseTabCmd
  <2>1. PICK p \in Places(layout) :
          End(Ended(LeafSessions(PaneSet(TabAt(layout, p).root))), Swept(WithoutTab(layout, p)))
    BY <1>1 DEF CloseTabCmd
  <2>2. Becomes(layout, Swept(WithoutTab(layout, p)), {})
    BY NewFacts, WithoutTabBecomes, ThenSwept
  <2> QED
    BY <1>1, <2>1, <2>2, CommandKeeps, EndWhole DEF CloseTabCmd
<1>2. CASE ClosePaneCmd
  <2>1. PICK pane \in PanesOf(layout) : End(Ended(LeafSessions({pane})), ClosePane(layout, pane))
    BY <1>2 DEF ClosePaneCmd
  <2>2. Becomes(layout, ClosePane(layout, pane), {})
    BY NewFacts, ClosePaneBecomes
  <2> QED
    BY <1>2, <2>1, <2>2, CommandKeeps, EndWhole DEF ClosePaneCmd
<1>3. CASE CloseWorkspaceCmd
  <2>1. PICK i \in DOMAIN layout.ws :
          End(UNION {LeafSessions(PaneSet(layout.ws[i].tabs[j].root)) : j \in DOMAIN layout.ws[i].tabs},
              WithoutWorkspace(layout, i))
    BY <1>3 DEF CloseWorkspaceCmd
  <2>2. Becomes(layout, WithoutWorkspace(layout, i), {})
    BY NewFacts, WithoutWorkspaceBecomes
  <2> QED
    BY <1>3, <2>1, <2>2, CommandKeeps, EndWhole DEF CloseWorkspaceCmd
<1> QED
  BY <1>1, <1>2, <1>3

\* Commands that move what is active, or the tabs and panels.
LEMMA FocusCommands ==
  ASSUME WholeInv, ActivateWorkspaceCmd \/ ActivateTabCmd \/ MoveTabCmd \/ FocusPaneCmd PROVE WholeInv'
<1>1. CASE ActivateWorkspaceCmd
  <2>1. PICK id \in WsIds(layout) \ {layout.active} : Now([layout EXCEPT !.active = id])
    BY <1>1 DEF ActivateWorkspaceCmd
  <2>2. Becomes(layout, [layout EXCEPT !.active = id], {})
    BY NewFacts, ActivateWorkspaceBecomes
  <2> QED
    BY <1>1, <2>1, <2>2, CommandKeeps, NowWhole DEF ActivateWorkspaceCmd
<1>2. CASE ActivateTabCmd
  <2>1. PICK p \in Places(layout) : Now(ActivateTab(layout, p))
    BY <1>2 DEF ActivateTabCmd
  <2>2. Becomes(layout, ActivateTab(layout, p), {})
    BY NewFacts, ActivateTabBecomes
  <2> QED
    BY <1>2, <2>1, <2>2, CommandKeeps, NowWhole DEF ActivateTabCmd
<1>3. CASE MoveTabCmd
  <2>0. PICK p \in Places(layout) : \E to \in DOMAIN layout.ws[p[1]].tabs : Now(MoveTab(layout, p, to))
    BY <1>3 DEF MoveTabCmd
  <2>1. PICK to \in DOMAIN layout.ws[p[1]].tabs : Now(MoveTab(layout, p, to))
    BY <2>0
  <2>2. Becomes(layout, MoveTab(layout, p, to), {})
    BY NewFacts, MoveTabBecomes
  <2> QED
    BY <1>3, <2>1, <2>2, CommandKeeps, NowWhole DEF MoveTabCmd
<1>4. CASE FocusPaneCmd
  <2>1. PICK pane \in PanesOf(layout) : Now(Swept(Focus(layout, PlaceOfPane(layout, pane), pane)))
    BY <1>4 DEF FocusPaneCmd
  <2>2. Becomes(layout, Swept(Focus(layout, PlaceOfPane(layout, pane), pane)), {})
    BY NewFacts, FocusPaneBecomes
  <2> QED
    BY <1>4, <2>1, <2>2, CommandKeeps, NowWhole DEF FocusPaneCmd
<1> QED
  BY <1>1, <1>2, <1>3, <1>4

LEMMA PanelCommands ==
  ASSUME WholeInv, OpenSideCmd \/ SidePanelCmd PROVE WholeInv'
<1>1. CASE OpenSideCmd
  <2>1. PICK s \in Sessions, kind \in {"diff", "files", "agents", "tunnels"} :
          IsPlaced(layout, s) /\ Now(OpenSide(layout, s, kind))
    BY <1>1 DEF OpenSideCmd
  <2>2. Becomes(layout, OpenSide(layout, s, kind), {})
    BY <2>1, NewFacts, OpenSideBecomes DEF SideKinds
  <2> QED
    BY <1>1, <2>1, <2>2, CommandKeeps, NowWhole DEF OpenSideCmd
<1>2. CASE SidePanelCmd
  <2>1. PICK i \in DOMAIN layout.ws :
          \/ Now(ToggleQueue(layout, i))
          \/ Now(WithSpace(layout, i, CloseSide(layout.ws[i])))
          \/ Now(WithSpace(layout, i, Expand(layout.ws[i])))
    BY <1>2 DEF SidePanelCmd
  <2>2. /\ Becomes(layout, ToggleQueue(layout, i), {})
        /\ Becomes(layout, WithSpace(layout, i, CloseSide(layout.ws[i])), {})
        /\ Becomes(layout, WithSpace(layout, i, Expand(layout.ws[i])), {})
    BY NewFacts, SidePanelBecomes
  <2> QED
    BY <1>2, <2>1, <2>2, CommandKeeps, NowWhole DEF SidePanelCmd
<1> QED
  BY <1>1, <1>2

LEMMA PageCommands ==
  ASSUME WholeInv, OpenViewTabCmd \/ OpenDockerDashboardCmd PROVE WholeInv'
<1>1. CASE OpenViewTabCmd
  <2>1. PICK view \in Views : Now(OpenViewTab(layout, New, view))
    BY <1>1 DEF OpenViewTabCmd
  <2>2. Becomes(layout, OpenViewTab(layout, New, view), {})
    BY NewFacts, OpenViewTabBecomes
  <2> QED
    BY <1>1, <2>1, <2>2, CommandKeeps, NowWhole DEF OpenViewTabCmd
<1>2. CASE OpenDockerDashboardCmd
  <2>2. Becomes(layout, OpenDockerDashboard(layout, New), {})
    BY NewFacts, OpenDockerDashboardBecomes
  <2> QED
    BY <1>2, <2>2, CommandKeeps, NowWhole DEF OpenDockerDashboardCmd
<1> QED
  BY <1>1, <1>2

LEMMA ViewerCommand ==
  ASSUME WholeInv, OpenAgentViewerCmd PROVE WholeInv'
<1>1. PICK a \in Agents : InActiveWorkspace(layout, a) # {} /\ Now(OpenAgentViewer(layout, a))
  BY DEF OpenAgentViewerCmd
<1>2. a \in Sessions
  BY DEF Sessions
<1>3. Becomes(layout, OpenAgentViewer(layout, a), {Viewer(a)})
  BY <1>1, <1>2, NewFacts, OpenAgentViewerBecomes
<1>4. Leaf(a) \in PanesOf(layout)
  BY <1>1, PanesFacts DEF InActiveWorkspace
<1>5. \A x \in {Viewer(a)} : x.session \notin Unshown
  BY <1>4, PlacedShown, LeafSession
<1>6. Write("main", OpenAgentViewer(layout, a), Idle) /\ UNCHANGED <<life, mine, slipped>>
  BY <1>1 DEF Now
<1> QED
  BY <1>3, <1>5, <1>6, CommandKeeps, OneWrite DEF OpenAgentViewerCmd

LEMMA MainAtRest == Step("main", "idle") => AtRest(thread["main"])
BY DEF Step, AtRest

LEMMA LifeChanges ==
  ASSUME WholeInv, NEW s \in Sessions, NEW l \in {"alive", "exited", "gone"}, life' = [life EXCEPT ![s] = l],
         UNCHANGED fresh
  PROVE  /\ Unborn' \subseteq Unborn /\ Unshown' \subseteq Unshown /\ life' = [x \in Sessions |-> life'[x]]
         /\ s \notin Unborn'
<1>1. life = [x \in Sessions |-> life[x]]
  BY DEF WholeInv
<1>2. \A x \in Sessions : life'[x] = IF x = s THEN l ELSE life[x]
  BY <1>1
<1>3. life' = [x \in Sessions |-> IF x = s THEN l ELSE life[x]]
  BY <1>1
<1> QED
  BY <1>2, <1>3 DEF Unborn, Unshown

LEMMA DisposeWhole ==
  ASSUME WholeInv, DisposeCmd PROVE WholeInv'
<1>1. PICK s \in Sessions : life' = [life EXCEPT ![s] = "gone"]
                            /\ Goto("main", [Idle EXCEPT !.pc = "find", !.session = s])
  BY DEF DisposeCmd
<1> DEFINE next == Goes("find", s)
<1>2. Goto("main", next)
  BY <1>1 DEF Goes
<1>3. /\ IsThread(next) /\ next.pc = "find" /\ next.then = "idle" /\ next.place = Nothing /\ next.snap = Nothing
      /\ next.session = s
  <2>1. "find" \in Steps
    BY DEF Steps
  <2> QED
    BY <2>1, NextFacts
<1> HIDE DEF next
<1>4. UNCHANGED <<layout, disk, ready, fresh, mine, left, slipped>>
  BY CommandKeeps DEF DisposeCmd
<1>5. Unborn' \subseteq Unborn /\ Unshown' \subseteq Unshown /\ life' = [x \in Sessions |-> life'[x]]
  BY <1>1, <1>4, LifeChanges
<1>6. mine' \cap Unshown' = {}
  BY <1>4, <1>5 DEF WholeInv
<1>7. GotoGood("main", next)
  BY <1>3, MainAtRest, CommandKeeps DEF GotoGood, AtRest, DisposeCmd, FoundOK
<1> QED
  BY <1>2, <1>3, <1>4, <1>5, <1>6, <1>7, GotoWhole

LEMMA OpenSessionWhole ==
  ASSUME WholeInv, OpenSessionCmd PROVE WholeInv'
<1> DEFINE place(p) == [ws |-> layout.ws[p[1]].id, tab |-> TabAt(layout, p).id]
           found(s) == GoesTo("open", s, place(PlaceOfPane(layout, Leaf(s))))
<1>1. PICK s \in Sessions : Named(s) /\ Goto("main", IF IsPlaced(layout, s) THEN found(s) ELSE Goes("tab", s))
  BY DEF OpenSessionCmd, Goes, GoesTo
<1> DEFINE next == IF IsPlaced(layout, s) THEN found(s) ELSE Goes("tab", s)
<1>2. Goto("main", next)
  BY <1>1
<1>3. /\ IsThread(next) /\ next.pc \in {"open", "tab"} /\ next.then = "idle" /\ next.session = s
      /\ next.snap = Nothing
      /\ next.place = Nothing \/ (next.place.ws \in Nat /\ next.place.tab \in Names)
      /\ next.pc = "open" => next.place.ws \in Nat /\ next.place.tab \in Names
  <2>1. CASE IsPlaced(layout, s)
    <3> DEFINE p == PlaceOfPane(layout, Leaf(s))
    <3>1. p \in Places(layout)
      BY <2>1, PlaceOfPaneFacts DEF IsPlaced
    <3>2. layout.ws[p[1]].id \in Nat /\ TabAt(layout, p).id \in Nat
      <4>1. Typed(layout) /\ layout.ws[p[1]] \in Spaces /\ TabAt(layout, p) \in Tabs
        BY <3>1, TabAtFacts, LayoutFacts DEF WholeInv, LayoutsOK, Sound
      <4> HIDE DEF p
      <4> QED
        BY <4>1, SpaceFacts, TabFacts
    <3> HIDE DEF p
    <3>4. "open" \in Steps
      BY DEF Steps
    <3>5. found(s) = GoesTo("open", s, place(p))
      BY DEF p
    <3>6. place(p).ws \in Nat /\ place(p).tab \in Names
      BY <3>2 DEF Names
    <3> HIDE DEF place, found
    <3> QED
      BY <2>1, <3>4, <3>5, <3>6, NextFacts
  <2>2. CASE ~IsPlaced(layout, s)
    <3>1. "tab" \in Steps /\ next = Goes("tab", s)
      BY <2>2 DEF Steps
    <3> HIDE DEF next
    <3> QED
      BY <3>1, NextFacts
  <2> QED
    BY <2>1, <2>2
<1> HIDE DEF next
<1>4. UNCHANGED <<layout, disk, life, ready, fresh, mine, left, slipped>>
  BY CommandKeeps DEF OpenSessionCmd
<1>5. GotoGood("main", next)
  BY <1>3, MainAtRest, CommandKeeps DEF GotoGood, AtRest, OpenSessionCmd, FoundOK
<1>6. s \notin Unshown
  BY <1>1, NamedShown
<1> QED
  BY <1>2, <1>3, <1>4, <1>5, <1>6, SameLife, GotoWhole

\* Only the life of a session changes.
LEMMA LifeWhole ==
  ASSUME WholeInv, Unborn' \subseteq Unborn, Unshown' \subseteq Unshown, mine' \cap Unshown' = {},
         life' = [x \in Sessions |-> life'[x]], UNCHANGED <<layout, disk, thread, ready, fresh, left, slipped>>
  PROVE  WholeInv'
<1>1. ThreadsOK' /\ LayoutsOK'
  BY DEF WholeInv, ThreadsOK, LayoutsOK, Clear
<1>2. ASSUME NEW t \in Threads
      PROVE  HeldOK(thread'[t], Unshown', slipped') /\ FoundOK(thread'[t], layout')
  <2>1. HeldOK(thread[t], Unshown, slipped) /\ FoundOK(thread[t], layout)
    BY DEF WholeInv
  <2>2. HeldOK(thread[t], Unshown', slipped')
    BY <2>1, HeldStays DEF SameHeld
  <2> QED
    BY <2>1, <2>2
<1>3. (ready => Step("boot", "idle"))'
  BY DEF WholeInv, Step
<1>4. FreshOK'
  <2>1. "boot" \in Threads
    BY DEF Threads
  <2> QED
    BY <2>1, BootLeft
<1> QED
  BY <1>1, <1>2, <1>3, <1>4 DEF WholeInv

\* A session that starts was never started or is one the window can name.
LEMMA StartIs ==
  ASSUME WholeInv, NEW s \in Sessions, Start(s), s \in Unborn \/ Named(s), UNCHANGED fresh
  PROVE  /\ Unborn' \subseteq Unborn /\ Unshown' \subseteq Unshown /\ life' = [x \in Sessions |-> life'[x]]
         /\ s \notin Unshown' /\ mine' \cap Unshown' = {}
<1>1. life' = [life EXCEPT ![s] = "alive"] /\ mine' = mine \cup {s}
  BY DEF Start
<1>2. /\ Unborn' \subseteq Unborn /\ Unshown' \subseteq Unshown /\ life' = [x \in Sessions |-> life'[x]]
      /\ s \notin Unborn'
  BY <1>1, LifeChanges
<1>3. s \notin Range(fresh)
  <2>1. Range(fresh) \cap Unborn = {}
    BY DEF WholeInv, FreshOK, Range
  <2> QED
    BY <2>1, NamedShown DEF Unshown
<1>4. s \notin Unshown'
  BY <1>2, <1>3 DEF Unshown
<1> QED
  BY <1>1, <1>2, <1>4 DEF WholeInv

LEMMA StartWhole ==
  ASSUME WholeInv, StartSessionCmd PROVE WholeInv'
<1>1. PICK s \in Sessions : Start(s) /\ (s \in Unborn \/ Named(s))
  BY DEF StartSessionCmd, Unborn
<1> QED
  BY <1>1, CommandKeeps, StartIs, LifeWhole DEF StartSessionCmd

LEMMA SpawnWhole ==
  ASSUME WholeInv, SpawnTabCmd PROVE WholeInv'
<1> DEFINE L == EnsureDocker(layout, New)
           i == DockerIndex(L)
           place == [ws |-> L.ws[i].id, tab |-> Nothing]
<1>1. PICK s \in Shells \cup Containers :
        /\ life[s] = "unborn" /\ Start(s)
        /\ \/ (\E pc \in {"tab_or_workspace", "workspace"} : Goto("main", Goes(pc, s))) /\ UNCHANGED layout
           \/ Write("main", L, ThenTo("tab_or_workspace", s, place))
  BY DEF SpawnTabCmd, Goes, ThenTo
<1>2. s \in Sessions
  BY DEF Sessions
<1>3. UNCHANGED <<disk, ready, fresh, left, slipped>> /\ AtRest(thread["main"])
  BY MainAtRest, CommandKeeps DEF SpawnTabCmd
<1>4. /\ Unborn' \subseteq Unborn /\ Unshown' \subseteq Unshown /\ life' = [x \in Sessions |-> life'[x]]
      /\ s \notin Unshown' /\ mine' \cap Unshown' = {}
  <2>1. s \in Unborn
    BY <1>1, <1>2 DEF Unborn
  <2> QED
    BY <1>1, <1>2, <1>3, <2>1, StartIs
<1>5. {"tab_or_workspace", "workspace"} \subseteq Steps /\ "tab_or_workspace" \in After
  BY DEF Steps, After
<1>6. ASSUME NEW pc \in {"tab_or_workspace", "workspace"}, Goto("main", Goes(pc, s)), UNCHANGED layout
      PROVE  WholeInv'
  <2> DEFINE next == Goes(pc, s)
  <2>1. /\ IsThread(next) /\ next.pc = pc /\ next.then = "idle" /\ next.session = s
        /\ next.place = Nothing /\ next.snap = Nothing
    BY <1>5, NextFacts
  <2>2. Goto("main", next)
    BY <1>6
  <2> HIDE DEF next
  <2>3. GotoGood("main", next)
    BY <1>3, <2>1 DEF GotoGood, AtRest, FoundOK
  <2>4. "main" \in {"main", "core"} /\ next.session \in Sessions /\ next.session \notin Unshown'
    BY <1>2, <1>4, <2>1
  <2> QED
    BY <1>3, <1>4, <1>6, <2>2, <2>3, <2>4, GotoWhole
<1>7. CASE Write("main", L, ThenTo("tab_or_workspace", s, place))
  <2> DEFINE next == ThenTo("tab_or_workspace", s, place)
  <2>1. /\ Becomes(layout, L, {}) /\ i \in DOMAIN L.ws
    BY NewFacts, EnsureDockerBecomes
  <2>2. L.ws[i].id \in Nat
    <3>1. L.ws[i] \in Spaces
      BY <2>1, LayoutFacts DEF Becomes, Sound
    <3> HIDE DEF L, i
    <3> QED
      BY <3>1, SpaceFacts
  <2>3. place.ws \in Nat /\ place.tab \in Names
    BY <2>2 DEF Names
  <2> HIDE DEF L, i, place
  <2>4. /\ IsThread(next) /\ next.then = "tab_or_workspace" /\ next.session = s
        /\ next.place = place /\ next.snap = Nothing
    BY ONLY <1>5, NextFacts
  <2>5. Write("main", L, next)
    BY <1>7
  <2> HIDE DEF next
  <2>6. WriteGood("main", L, next, {})
    BY <2>1, <2>3, <2>4 DEF WriteGood, Becomes
  <2>7. /\ slipped => slipped'
        /\ slipped' \/ (Focused(layout) => Focused(L))
    BY <1>3, <2>1 DEF Becomes
  <2>8. \A x \in {} : x.session \notin Unshown'
    OBVIOUS
  <2>9. "main" \in {"main", "core"} /\ next.session \in Sessions /\ next.session \notin Unshown'
    BY <1>2, <1>4, <2>4
  <2> QED
    BY <1>3, <1>4, <2>5, <2>6, <2>7, <2>8, <2>9, WriteWhole
<1> QED
  BY <1>1, <1>6, <1>7

LEMMA EndClosedWhole ==
  ASSUME WholeInv, EndClosed PROVE WholeInv'
<1>1. /\ Step("main", "end") /\ Goto("main", Idle)
      /\ life' = [s \in Sessions |-> IF s \in thread["main"].ending THEN "gone" ELSE life[s]]
      /\ UNCHANGED <<layout, disk, ready, fresh, mine, left, slipped>>
  BY DEF EndClosed, Later
<1>2. Unborn' \subseteq Unborn /\ Unshown' \subseteq Unshown /\ life' = [x \in Sessions |-> life'[x]]
  <2>1. \A s \in Sessions : life'[s] = IF s \in thread["main"].ending THEN "gone" ELSE life[s]
    BY <1>1
  <2> QED
    BY <1>1, <2>1 DEF Unborn, Unshown
<1>3. mine' \cap Unshown' = {}
  BY <1>1, <1>2 DEF WholeInv
<1>4. GotoGood("main", Idle)
  BY <1>1, NextFacts DEF GotoGood, AtRest, FoundOK, Step
<1>5. Idle.pc = "idle" /\ Idle.then = "idle"
  BY NextFacts
<1> QED
  BY <1>1, <1>2, <1>3, <1>4, <1>5, GotoWhole

LEMMA TabIndexFacts ==
  ASSUME NEW w \in Spaces, NEW id
  PROVE  TabIndex(w, id) # 0 => TabIndex(w, id) \in DOMAIN w.tabs /\ w.tabs[TabIndex(w, id)].id = id
<1> DEFINE at == {j \in DOMAIN w.tabs : w.tabs[j].id = id}
<1>1. at \in SUBSET Nat
  BY SpaceFacts
<1>2. at # {} => FirstIn(at) \in at
  BY <1>1, FirstInFacts
<1>3. at = {} => FirstIn(at) = 0
  BY DEF FirstIn
<1> QED
  BY <1>2, <1>3 DEF TabIndex

\* The tab is gone, but not its workspace: what was found is active all the same.
LEMMA StrayTab ==
  ASSUME NEW L, Sound(L), NEW i \in DOMAIN L.ws, NEW tab \in Names, NEW a \in Names
  PROVE  LET M == [WithSpace(L, i, [L.ws[i] EXCEPT !.tab = tab]) EXCEPT !.active = a]
         IN  Sound(M) /\ PanesOf(M) = PanesOf(L)
<1> DEFINE w == [L.ws[i] EXCEPT !.tab = tab]
           N == WithSpace(L, i, w)
<1>1. Typed(L) /\ L.ws[i] \in Spaces
  BY LayoutFacts DEF Sound
<1>2. w \in Spaces /\ w.id = L.ws[i].id /\ w.tabs = L.ws[i].tabs
  BY <1>1, SpaceTab
<1> HIDE DEF w
<1>3. Typed(N) /\ DOMAIN N.ws = DOMAIN L.ws /\ \A k \in DOMAIN L.ws : N.ws[k] = IF k = i THEN w ELSE L.ws[k]
  BY <1>1, <1>2, WithSpaceFacts
<1> HIDE DEF N
<1>4. Alike(L, N)
  BY <1>2, <1>3 DEF Alike, SameTabs
<1>5. Sound(N) /\ PanesOf(N) = PanesOf(L)
  BY <1>3, <1>4, AlikeSound
<1>6. Sound([N EXCEPT !.active = a]) /\ PanesOf([N EXCEPT !.active = a]) = PanesOf(N)
  BY <1>5, WithActive
<1> QED
  BY <1>5, <1>6 DEF N, w

LEMMA FocusFoundWhole ==
  ASSUME WholeInv, FocusFound PROVE WholeInv' /\ PanesOf(layout') \subseteq PanesOf(layout)
<1> DEFINE to == thread["main"].place
           s  == thread["main"].session
           i  == WsIndex(layout, to.ws)
           j  == IF i = 0 THEN 0 ELSE TabIndex(layout.ws[i], to.tab)
           gone == [layout EXCEPT !.active = to.ws]
           stray == [WithSpace(layout, i, [layout.ws[i] EXCEPT !.tab = to.tab]) EXCEPT !.active = to.ws]
           there == Focus(layout, <<i, j>>, Leaf(s))
           M == IF i = 0 THEN gone ELSE IF j = 0 THEN stray ELSE there
           L == Swept(M)
<1>1. /\ Step("main", "open")
      /\ slipped' = (slipped \/ j = 0 \/ Leaf(s) \notin PaneSet(TabAt(layout, <<i, j>>).root))
      /\ Write("main", L, Idle) /\ UNCHANGED <<life, disk, ready, fresh, mine, left>>
  BY DEF FocusFound, Later
<1>2. s \in Sessions /\ to.ws \in Nat /\ to.tab \in Names
  <2>1. HeldOK(thread["main"], Unshown, slipped)
    BY DEF WholeInv, Threads
  <2> QED
    BY <1>1, <2>1 DEF HeldOK, Step
<1>3. Sound(layout) /\ Typed(layout)
  BY DEF WholeInv, LayoutsOK, Sound
<1>4. i # 0 => i \in DOMAIN layout.ws
  BY <1>3, IndexFacts
<1> HIDE DEF i
<1>5. j # 0 => i # 0 /\ <<i, j>> \in Places(layout)
  <2>1. CASE i # 0
    <3>1. layout.ws[i] \in Spaces
      BY <1>3, <1>4, <2>1, LayoutFacts
    <3>2. TabIndex(layout.ws[i], to.tab) # 0 => TabIndex(layout.ws[i], to.tab) \in DOMAIN layout.ws[i].tabs
      BY <3>1, TabIndexFacts
    <3> QED
      BY <1>4, <2>1, <3>2, PlaceFacts
  <2>2. CASE i = 0
    BY <2>2
  <2> QED
    BY <2>1, <2>2
<1> HIDE DEF j, to, s
<1>6. Sound(M) /\ PanesOf(M) \subseteq PanesOf(layout) /\ (slipped' \/ (Focused(layout) => Focused(M)))
  <2>1. CASE i = 0
    <3>1. Sound(gone) /\ PanesOf(gone) = PanesOf(layout)
      BY <1>2, <1>3, WithActive DEF Names
    <3>2. M = gone /\ slipped'
      BY <1>1, <1>5, <2>1
    <3> HIDE DEF gone, M
    <3> QED
      BY <3>1, <3>2
  <2>2. CASE i # 0 /\ j = 0
    <3>1. Sound(stray) /\ PanesOf(stray) = PanesOf(layout)
      BY <1>2, <1>3, <1>4, <2>2, StrayTab DEF Names
    <3>2. M = stray /\ slipped'
      BY <1>1, <2>2
    <3> HIDE DEF stray, M
    <3> QED
      BY <3>1, <3>2
  <2>3. CASE i # 0 /\ j # 0
    <3> DEFINE p == <<i, j>>
    <3>1. p \in Places(layout) /\ Leaf(s) \in Panes(Sessions)
      BY <1>2, <1>5, <2>3 DEF Leaf, Panes
    <3>2. there = Focus(layout, p, Leaf(s)) /\ M = there
      BY <2>3
    <3>3. slipped' \/ Leaf(s) \in PaneSet(TabAt(layout, p).root)
      BY <1>1
    <3> HIDE DEF p, there, M
    <3>4. /\ Sound(there) /\ PanesOf(there) \subseteq PanesOf(layout)
          /\ Leaf(s) \in PaneSet(TabAt(layout, p).root) => Becomes(layout, there, {})
      BY <1>3, <3>1, <3>2, FocusBecomes
    <3> QED
      BY <3>2, <3>3, <3>4 DEF Becomes
  <2> QED
    BY <1>5, <2>1, <2>2, <2>3
<1> HIDE DEF M
<1>7. Becomes(M, L, {})
  BY <1>6, SweptBecomes
<1> HIDE DEF L
<1>8. Sound(L) /\ PanesOf(L) \subseteq PanesOf(layout) /\ (slipped' \/ (Focused(layout) => Focused(L)))
  BY <1>6, <1>7 DEF Becomes
<1>9. /\ IsThread(Idle) /\ Idle.then = "idle" /\ Idle.place = Nothing /\ Idle.snap = Nothing
  BY NextFacts
<1>10. WriteGood("main", L, Idle, {})
  BY <1>2, <1>8, <1>9 DEF WriteGood
<1>11. slipped => slipped'
  BY <1>1
<1>12. "main" \in {"main", "core"} /\ Write("main", L, Idle) /\ \A x \in {} : x.session \notin Unshown'
  BY <1>1
<1>13. WholeInv'
  BY <1>1, <1>8, <1>9, <1>10, <1>11, <1>12, SameLife, WriteWhole
<1>14. layout' = L
  BY <1>1 DEF Write
<1> QED
  BY <1>8, <1>13, <1>14

\* A write of main that shows a session which was started.
LEMMA PlacedWhole ==
  ASSUME WholeInv, NEW s \in Sessions \ Unshown, NEW L, Becomes(layout, L, {Leaf(s)}), Write("main", L, Idle),
         UNCHANGED <<disk, life, ready, fresh, mine, left, slipped>>
  PROVE  WholeInv'
<1>1. \A x \in {Leaf(s)} : x.session \notin Unshown
  BY LeafSession
<1> QED
  BY <1>1, OneWrite

LEMMA PlaceInTabWhole ==
  ASSUME WholeInv, PlaceInTab PROVE WholeInv'
<1> DEFINE th == thread["main"]
           s  == th.session
           to == IF th.place = Nothing THEN layout.active ELSE th.place.ws
           i  == WsIndex(layout, to)
<1>1. /\ th.pc \in {"tab", "tab_or_workspace"}
      /\ UNCHANGED <<disk, life, ready, fresh, mine, left, slipped>>
      /\ \/ ~IsPlaced(layout, s) /\ i # 0 /\ Write("main", CreateTab(layout, New, s, i), Idle)
         \/ ~IsPlaced(layout, s) /\ Write("main", CreateWorkspace(layout, New, s), Idle)
         \/ Goto("main", Idle) /\ UNCHANGED layout
  BY DEF PlaceInTab, Later
<1>2. s \in Sessions \ Unshown
  <2>1. HeldOK(th, Unshown, slipped)
    BY DEF WholeInv, Threads
  <2> QED
    BY <1>1, <2>1 DEF HeldOK
<1>3. AtRest(thread["main"])
  BY <1>1 DEF AtRest
<1>4. CASE ~IsPlaced(layout, s) /\ i # 0 /\ Write("main", CreateTab(layout, New, s, i), Idle)
  <2>1. i \in DOMAIN layout.ws
    BY <1>4, IndexFacts DEF WholeInv, LayoutsOK, Sound
  <2> HIDE DEF i
  <2>2. Becomes(layout, CreateTab(layout, New, s, i), {Leaf(s)})
    BY <1>2, <1>4, <2>1, NewFacts, CreateTabBecomes
  <2> HIDE DEF s
  <2> QED
    BY <1>1, <1>2, <1>4, <2>2, PlacedWhole
<1>5. CASE ~IsPlaced(layout, s) /\ Write("main", CreateWorkspace(layout, New, s), Idle)
  <2>2. Becomes(layout, CreateWorkspace(layout, New, s), {Leaf(s)})
    BY <1>2, <1>5, NewFacts, CreateWorkspaceBecomes
  <2> HIDE DEF s
  <2> QED
    BY <1>1, <1>2, <1>5, <2>2, PlacedWhole
<1>6. CASE Goto("main", Idle) /\ UNCHANGED layout
  <2>1. IsThread(Idle) /\ Idle.pc = "idle" /\ Idle.then = "idle" /\ Idle.place = Nothing /\ Idle.snap = Nothing
    BY NextFacts
  <2>2. GotoGood("main", Idle)
    BY <1>3, <2>1 DEF GotoGood, AtRest, FoundOK
  <2> QED
    BY <1>1, <1>6, <2>1, <2>2, SameLife, GotoWhole
<1> QED
  BY <1>1, <1>4, <1>5, <1>6

LEMMA PlaceInWorkspaceWhole ==
  ASSUME WholeInv, PlaceInWorkspace PROVE WholeInv'
<1> DEFINE s == thread["main"].session
           L == CreateWorkspace(layout, New, s)
<1>1. /\ Step("main", "workspace") /\ ~IsPlaced(layout, s) /\ Write("main", L, Idle)
      /\ UNCHANGED <<disk, life, ready, fresh, mine, left, slipped>>
  BY DEF PlaceInWorkspace, Later
<1>2. s \in Sessions \ Unshown
  <2>1. HeldOK(thread["main"], Unshown, slipped)
    BY DEF WholeInv, Threads
  <2> QED
    BY <1>1, <2>1 DEF HeldOK, Step
<1>3. Becomes(layout, L, {Leaf(s)})
  BY <1>1, <1>2, NewFacts, CreateWorkspaceBecomes
<1> HIDE DEF s, L
<1> QED
  BY <1>1, <1>2, <1>3, PlacedWhole

-----------------------------------------------------------------------------
\* `session_disposed`.
Closes(th, pane) == [th EXCEPT !.pc = "close", !.pane = pane]
FindsNext(th)    == [th EXCEPT !.then = "find"]

LEMMA ClosesFacts ==
  ASSUME NEW th, IsThread(th), NEW pane
  PROVE  /\ IsThread(Closes(th, pane)) /\ Closes(th, pane).pc = "close" /\ Closes(th, pane).snap = th.snap
         /\ Closes(th, pane).pane = pane /\ SameBut(th, Closes(th, pane))
<1>1. "close" \in Steps
  BY DEF Steps
<1> DEFINE u == MovedTo(th, "close")
           v == [u EXCEPT !.pane = pane]
<1>2. IsThread(u) /\ u.pc = "close" /\ u.snap = th.snap /\ SameBut(th, u)
  BY <1>1, MovedToFacts
<1>3. Closes(th, pane) = v
  BY DEF MovedTo, Closes
<1> HIDE DEF u
<1>4. DOMAIN u = {"pc", "then", "session", "pane", "place", "ending", "snap"}
  BY <1>2 DEF IsThread, Fields
<1>5. /\ DOMAIN v = DOMAIN u /\ v.pc = u.pc /\ v.then = u.then /\ v.session = u.session
      /\ v.place = u.place /\ v.snap = u.snap /\ v.ending = u.ending /\ v.pane = pane
  BY <1>4
<1> HIDE DEF v
<1> QED
  BY <1>2, <1>3, <1>4, <1>5 DEF IsThread, Fields, SameBut

LEMMA FindsNextFacts ==
  ASSUME NEW th, IsThread(th)
  PROVE  /\ IsThread(FindsNext(th)) /\ FindsNext(th).then = "find" /\ FindsNext(th).snap = th.snap
         /\ FindsNext(th).session = th.session /\ FindsNext(th).place = th.place
<1>1. DOMAIN th = {"pc", "then", "session", "pane", "place", "ending", "snap"}
  BY DEF IsThread, Fields
<1> DEFINE u == [th EXCEPT !.then = "find"]
<1>2. /\ DOMAIN u = DOMAIN th /\ u.pc = th.pc /\ u.then = "find" /\ u.session = th.session
      /\ u.place = th.place /\ u.snap = th.snap
  BY <1>1
<1>3. FindsNext(th) = u
  BY DEF FindsNext
<1> HIDE DEF u
<1> QED
  BY <1>1, <1>2, <1>3 DEF IsThread, Fields, After

\* What a thread that disposes of a session may hold.
LEMMA HeldFacts ==
  ASSUME WholeInv, NEW t \in {"main", "core"}
  PROVE  /\ t \in Threads /\ IsThread(thread[t])
         /\ thread[t].snap = Nothing \/ Sound(thread[t].snap)
         /\ thread[t].then = "tab_or_workspace" => thread[t].session \in Sessions /\ thread[t].session \notin Unshown
         /\ thread[t].pc \in {"panel", "find", "close", "sides"} \/ thread[t].then \in {"panel", "find"} =>
              thread[t].session \in Sessions
         /\ thread[t].place = Nothing \/ (thread[t].place.ws \in Nat /\ thread[t].place.tab \in Names)
         /\ FoundOK(thread[t], layout)
<1>1. t \in Threads
  BY DEF Threads
<1>2. HeldOK(thread[t], Unshown, slipped) /\ IsThread(thread[t]) /\ FoundOK(thread[t], layout)
  BY <1>1 DEF WholeInv, ThreadsOK
<1> QED
  BY <1>1, <1>2 DEF HeldOK

LEMMA FindWhole ==
  ASSUME WholeInv, NEW t \in {"main", "core"}, FindPane(t) PROVE WholeInv'
<1> DEFINE at == PanesOf(layout) \cap {Leaf(thread[t].session), Viewer(thread[t].session)}
<1>1. /\ Step(t, "find") /\ UNCHANGED <<layout, disk, life, ready, fresh, mine, left, slipped>>
      /\ \/ Goto(t, MovedTo(thread[t], "sides"))
         \/ \E pane \in at : Goto(t, Closes(thread[t], pane))
  BY DEF FindPane, Later, MovedTo, Closes
<1>2. AtRest(thread[t])
  BY <1>1, HeldFacts DEF Step, AtRest
<1>3. CASE Goto(t, MovedTo(thread[t], "sides"))
  <2> DEFINE next == MovedTo(thread[t], "sides")
  <2>1. IsThread(next) /\ next.pc = "sides" /\ next.snap = thread[t].snap /\ SameBut(thread[t], next)
    <3>1. IsThread(thread[t]) /\ "sides" \in Steps
      BY HeldFacts DEF Steps
    <3> QED
      BY ONLY <3>1, MovedToFacts
  <2>2. Goto(t, next)
    BY <1>3
  <2> HIDE DEF next
  <2>3. GotoGood(t, next)
    <3>1. next.session \in Sessions
      BY <1>1, <2>1, HeldFacts DEF SameBut, Step
    <3> QED
      BY <1>2, <2>1, <3>1, HeldFacts DEF GotoGood, AtRest, FoundOK, SameBut
  <2>4. next.then = "tab_or_workspace" => next.session \in Sessions /\ next.session \notin Unshown
    BY <2>1, HeldFacts DEF SameBut
  <2> QED
    BY <1>1, <2>1, <2>2, <2>3, <2>4, SameLife, GotoWhole
<1>4. ASSUME NEW pane \in at, Goto(t, Closes(thread[t], pane)) PROVE WholeInv'
  <2> DEFINE next == Closes(thread[t], pane)
  <2>1. /\ IsThread(next) /\ next.pc = "close" /\ next.snap = thread[t].snap /\ next.pane = pane
        /\ SameBut(thread[t], next)
    <3>1. IsThread(thread[t])
      BY HeldFacts
    <3> QED
      BY ONLY <3>1, ClosesFacts
  <2>2. Goto(t, next)
    BY <1>4
  <2> HIDE DEF next
  <2>3. GotoGood(t, next)
    <3>1. next.session \in Sessions
      BY <1>1, <2>1, HeldFacts DEF SameBut, Step
    <3> QED
      BY <1>2, <2>1, <3>1, HeldFacts DEF GotoGood, AtRest, FoundOK, SameBut
  <2>4. next.then = "tab_or_workspace" => next.session \in Sessions /\ next.session \notin Unshown
    BY <2>1, HeldFacts DEF SameBut
  <2> QED
    BY <1>1, <2>1, <2>2, <2>3, <2>4, SameLife, GotoWhole
<1> QED
  BY <1>1, <1>3, <1>4

\* Then it is at rest.
LEMMA IdleWhole ==
  ASSUME WholeInv, NEW t \in {"main", "core"}, AtRest(thread[t]), Goto(t, Idle),
         UNCHANGED <<layout, disk, life, ready, fresh, mine, left, slipped>>
  PROVE  WholeInv'
<1>1. IsThread(Idle) /\ Idle.pc = "idle" /\ Idle.then = "idle" /\ Idle.place = Nothing /\ Idle.snap = Nothing
  BY NextFacts
<1>2. GotoGood(t, Idle)
  BY <1>1 DEF GotoGood, AtRest, FoundOK
<1> QED
  BY <1>1, <1>2, SameLife, GotoWhole

\* A write by either thread that brings the panes S.
LEMMA EitherWrites ==
  ASSUME WholeInv, NEW t \in {"main", "core"}, NEW L, NEW S, NEW next, Write(t, L, next), Becomes(layout, L, S),
         IsThread(next), next.snap = Nothing \/ Sound(next.snap), next.then # "tab_or_workspace",
         next.then \in {"panel", "find"} => next.session \in Sessions,
         next.place = Nothing \/ (next.place.ws \in Nat /\ next.place.tab \in Names),
         \A x \in S : x.session \notin Unshown,
         UNCHANGED <<disk, life, ready, fresh, mine, left, slipped>>
  PROVE  WholeInv'
<1>1. WriteGood(t, L, next, S)
  BY DEF WriteGood, Becomes
<1>2. slipped' \/ (Focused(layout) => Focused(L))
  BY DEF WholeInv, Becomes
<1> QED
  BY <1>1, <1>2, SameLife, WriteWhole

LEMMA CloseFoundWhole ==
  ASSUME WholeInv, NEW t \in {"main", "core"}, CloseFound(t) PROVE WholeInv'
<1> DEFINE pane == thread[t].pane
           L    == ClosePane(layout, pane)
           next == FindsNext(thread[t])
<1>1. /\ Step(t, "close") /\ UNCHANGED <<disk, life, ready, fresh, mine, left, slipped>>
      /\ IF pane = Nothing THEN Goto(t, Idle) /\ UNCHANGED layout ELSE Write(t, L, next)
  BY DEF CloseFound, Later, FindsNext
<1>2. AtRest(thread[t])
  BY <1>1, HeldFacts DEF Step, AtRest
<1>3. CASE pane = Nothing
  BY <1>1, <1>2, <1>3, IdleWhole
<1>4. CASE pane # Nothing
  <2>1. pane \in PanesOf(layout)
    BY <1>1, <1>4, HeldFacts DEF FoundOK, Step
  <2>2. Becomes(layout, L, {})
    BY <2>1, NewFacts, ClosePaneBecomes
  <2>3. /\ IsThread(next) /\ next.then = "find" /\ next.snap = thread[t].snap /\ next.place = thread[t].place
        /\ next.session \in Sessions
    <3>1. IsThread(thread[t])
      BY HeldFacts
    <3>2. thread[t].session \in Sessions
      BY <1>1, HeldFacts DEF Step
    <3> QED
      BY ONLY <3>1, <3>2, FindsNextFacts
  <2>4. /\ next.snap = Nothing \/ Sound(next.snap)
        /\ next.place = Nothing \/ (next.place.ws \in Nat /\ next.place.tab \in Names)
    BY <2>3, HeldFacts
  <2>5. Write(t, L, next)
    BY <1>1, <1>4
  <2> HIDE DEF L, next, pane
  <2> QED
    BY <1>1, <2>2, <2>3, <2>4, <2>5, EitherWrites
<1> QED
  BY <1>3, <1>4

LEMMA CloseSidesWhole ==
  ASSUME WholeInv, NEW t \in {"main", "core"}, CloseSides(t) PROVE WholeInv'
<1> DEFINE L == DisposedSide(layout, thread[t].session)
<1>1. /\ Step(t, "sides") /\ UNCHANGED <<disk, life, ready, fresh, mine, left, slipped>>
      /\ IF L = layout THEN Goto(t, Idle) /\ UNCHANGED layout ELSE Write(t, L, Idle)
  BY DEF CloseSides, Later
<1>2. AtRest(thread[t])
  BY <1>1, HeldFacts DEF Step, AtRest
<1>3. Becomes(layout, L, {})
  BY NewFacts, DisposedSideBecomes
<1> HIDE DEF L
<1>4. CASE L = layout
  BY <1>1, <1>2, <1>4, IdleWhole
<1>5. CASE L # layout
  <2>1. IsThread(Idle) /\ Idle.then = "idle" /\ Idle.place = Nothing /\ Idle.snap = Nothing
    BY NextFacts
  <2> QED
    BY <1>1, <1>2, <1>3, <1>5, <2>1, EitherWrites
<1> QED
  BY <1>4, <1>5

-----------------------------------------------------------------------------
\* The core.

LEMMA ExitWhole ==
  ASSUME WholeInv, NEW s \in Sessions, Step("core", "idle"), Exit(s),
         UNCHANGED <<disk, ready, fresh, mine, left, slipped>>
  PROVE  WholeInv'
<1> DEFINE next == Goes("find", s)
<1>1. /\ UNCHANGED layout
      /\ life' = [life EXCEPT ![s] = "gone"] \/ life' = [life EXCEPT ![s] = "exited"]
      /\ Goto("core", next) \/ UNCHANGED thread
  BY DEF Exit, Goes
<1>2. /\ Unborn' \subseteq Unborn /\ Unshown' \subseteq Unshown /\ life' = [x \in Sessions |-> life'[x]]
      /\ mine' \cap Unshown' = {}
  BY <1>1, LifeChanges DEF WholeInv
<1>3. CASE UNCHANGED thread
  BY <1>1, <1>2, <1>3, LifeWhole
<1>4. CASE Goto("core", next)
  <2>1. /\ IsThread(next) /\ next.pc = "find" /\ next.then = "idle" /\ next.place = Nothing
        /\ next.snap = Nothing /\ next.session = s
    <3>1. "find" \in Steps
      BY DEF Steps
    <3> QED
      BY <3>1, NextFacts
  <2> HIDE DEF next
  <2>2. AtRest(thread["core"]) /\ "core" \in {"main", "core"}
    BY DEF AtRest, Step
  <2>3. GotoGood("core", next)
    BY <2>1, <2>2 DEF GotoGood, AtRest, FoundOK
  <2> QED
    BY <1>1, <1>2, <1>4, <2>1, <2>2, <2>3, GotoWhole
<1> QED
  BY <1>1, <1>3, <1>4

\* A viewer is put into the tab its session is in.
LEMMA ViewerWhere ==
  ASSUME NEW L, NEW s, EnsureViewer(L, s) # L PROVE Leaf(s) \in PanesOf(L)
<1>1. PICK p \in InActiveTab(L, s) : TRUE
  BY DEF EnsureViewer
<1>2. p \in Places(L) /\ Leaf(s) \in PaneSet(TabAt(L, p).root)
  BY <1>1 DEF InActiveTab
<1> QED
  BY <1>2, PanesFacts

LEMMA CoordinateWhole ==
  ASSUME WholeInv, NEW s \in Sessions, Step("core", "idle"), Coordinate(s),
         UNCHANGED <<disk, ready, fresh, mine, left, slipped>>
  PROVE  WholeInv'
<1> DEFINE L == EnsureViewer(layout, s)
<1>1. /\ life[s] = "alive" /\ UNCHANGED life
      /\ \/ L # layout /\ Write("core", L, ThenOf("panel", s))
         \/ Goto("core", Goes("panel", s)) /\ UNCHANGED layout
  BY DEF Coordinate, ThenOf, Goes
<1>2. AtRest(thread["core"]) /\ "core" \in {"main", "core"} /\ "panel" \in Steps /\ "panel" \in After
  BY DEF AtRest, Step, Steps, After
<1>3. CASE L # layout /\ Write("core", L, ThenOf("panel", s))
  <2> DEFINE next == ThenOf("panel", s)
             S == {Viewer(s)}
  <2>1. IsThread(next) /\ next.then = "panel" /\ next.session = s /\ next.place = Nothing /\ next.snap = Nothing
    BY <1>2, NextFacts
  <2>2. Becomes(layout, L, S)
    BY NewFacts, EnsureViewerBecomes
  <2>3. Leaf(s) \in PanesOf(layout)
    BY <1>3, ViewerWhere
  <2>4. \A x \in S : x.session \notin Unshown
    BY <2>3, PlacedShown, LeafSession
  <2> HIDE DEF next, L, S
  <2>5. Write("core", L, next)
    BY <1>3 DEF next
  <2> QED
    BY <1>1, <1>2, <2>1, <2>2, <2>4, <2>5, EitherWrites
<1>4. CASE Goto("core", Goes("panel", s)) /\ UNCHANGED layout
  <2> DEFINE next == Goes("panel", s)
  <2>1. /\ IsThread(next) /\ next.pc = "panel" /\ next.then = "idle" /\ next.session = s
        /\ next.place = Nothing /\ next.snap = Nothing
    BY <1>2, NextFacts
  <2> HIDE DEF next
  <2>2. Goto("core", next)
    BY <1>4 DEF next
  <2>3. GotoGood("core", next)
    BY <1>2, <2>1 DEF GotoGood, AtRest, FoundOK
  <2> QED
    BY <1>1, <1>2, <1>4, <2>1, <2>2, <2>3, SameLife, GotoWhole
<1> QED
  BY <1>1, <1>3, <1>4

LEMMA CoreWhole ==
  ASSUME WholeInv, Core PROVE WholeInv'
<1>1. PICK s \in Sessions : Exit(s) \/ Coordinate(s)
  BY DEF Core
<1>2. Step("core", "idle") /\ UNCHANGED <<disk, ready, fresh, mine, left, slipped>>
  BY DEF Core
<1> QED
  BY <1>1, <1>2, ExitWhole, CoordinateWhole

LEMMA ShowPanelWhole ==
  ASSUME WholeInv, ShowPanel PROVE WholeInv'
<1> DEFINE L == EnsurePanel(layout, thread["core"].session)
<1>1. /\ Step("core", "panel") /\ UNCHANGED <<disk, life, ready, fresh, mine, left, slipped>>
      /\ IF L = layout THEN Goto("core", Idle) /\ UNCHANGED layout ELSE Write("core", L, Idle)
  BY DEF ShowPanel, Later
<1>2. AtRest(thread["core"]) /\ "core" \in {"main", "core"} /\ "core" \in Threads
  BY <1>1 DEF AtRest, Step, Threads
<1>3. thread["core"].session \in Sessions
  <2>1. HeldOK(thread["core"], Unshown, slipped)
    BY <1>2 DEF WholeInv
  <2> QED
    BY <1>1, <2>1 DEF HeldOK, Step
<1>4. Becomes(layout, L, {})
  BY <1>3, NewFacts, EnsurePanelBecomes
<1> HIDE DEF L
<1>5. CASE L = layout
  BY <1>1, <1>2, <1>5, IdleWhole
<1>6. CASE L # layout
  <2>1. IsThread(Idle) /\ Idle.then = "idle" /\ Idle.place = Nothing /\ Idle.snap = Nothing
    BY NextFacts
  <2> QED
    BY <1>1, <1>2, <1>4, <1>6, <2>1, EitherWrites
<1> QED
  BY <1>5, <1>6

-----------------------------------------------------------------------------
\* Every step.

LEMMA CommandWhole ==
  ASSUME WholeInv, WindowCommand PROVE WholeInv'
<1>1. CASE \E s \in Sessions : CreateWorkspaceCmd(s) \/ SplitPaneCmd(s)
  BY <1>1, ShowCommands
<1>2. CASE CloseTabCmd \/ ClosePaneCmd \/ CloseWorkspaceCmd
  BY <1>2, CloseCommands
<1>3. CASE ActivateWorkspaceCmd \/ ActivateTabCmd \/ MoveTabCmd \/ FocusPaneCmd
  BY <1>3, FocusCommands
<1>4. CASE OpenSideCmd \/ SidePanelCmd
  BY <1>4, PanelCommands
<1>5. CASE OpenAgentViewerCmd
  BY <1>5, ViewerCommand
<1>6. CASE OpenViewTabCmd \/ OpenDockerDashboardCmd
  BY <1>6, PageCommands
<1>7. CASE DisposeCmd
  BY <1>7, DisposeWhole
<1>8. CASE OpenSessionCmd
  BY <1>8, OpenSessionWhole
<1>9. CASE SpawnTabCmd
  BY <1>9, SpawnWhole
<1>10. CASE StartSessionCmd
  BY <1>10, StartWhole
<1> QED
  BY <1>1, <1>2, <1>3, <1>4, <1>5, <1>6, <1>7, <1>8, <1>9, <1>10 DEF WindowCommand

LEMMA NextWhole == WholeInv /\ [Next]_vars => WholeInv'
<1> SUFFICES ASSUME WholeInv, [Next]_vars PROVE WholeInv'
  OBVIOUS
<1>1. CASE WindowCommand
  BY <1>1, CommandWhole
<1>2. CASE FocusFound
  BY <1>2, FocusFoundWhole
<1>3. CASE PlaceInTab
  BY <1>3, PlaceInTabWhole
<1>4. CASE PlaceInWorkspace \/ EndClosed
  BY <1>4, PlaceInWorkspaceWhole, EndClosedWhole
<1>5. CASE Core
  BY <1>5, CoreWhole
<1>6. CASE ShowPanel
  BY <1>6, ShowPanelWhole
<1>7. CASE \E t \in {"main", "core"} : FindPane(t) \/ CloseFound(t) \/ CloseSides(t)
  BY <1>7, FindWhole, CloseFoundWhole, CloseSidesWhole
<1>8. CASE \E t \in Threads : Snapshot(t) \/ SaveRows(t) \/ SaveActive(t)
  BY <1>8, SnapshotWhole, SaveRowsWhole, SaveActiveWhole
<1>9. CASE Restart
  BY <1>9, RestartWhole
<1>10. CASE Resume \/ ReadStored
  BY <1>10, ResumeWhole, ReadStoredWhole
<1>11. CASE Load
  BY <1>11, LoadWhole
<1>12. CASE MarkReady
  BY <1>12, MarkReadyWhole
<1>13. CASE UNCHANGED vars
  BY <1>13, SameLife, LifeWhole DEF vars
<1> QED
  BY <1>1, <1>2, <1>3, <1>4, <1>5, <1>6, <1>7, <1>8, <1>9, <1>10, <1>11, <1>12, <1>13 DEF Next

\* At every step, whatever the threads do between their locks and whenever the program ends:
\* the layout that is shown, the stored one and each that waits to be stored are whole, no
\* session that was never started is in any, and what a thread found is still what it needs.
THEOREM LayoutIsWhole == Spec => []WholeInv
<1> QED
  BY InitWhole, NextWhole, PTL DEF Spec

\* No session is shown by two terminals or by two viewers: not by a session opened again under
\* a new id while the threads of the window and of the core both write, not by what is loaded.
THEOREM EachPaneOnce == Spec => []PlacedOnce
<1>1. WholeInv => PlacedOnce
  <2> SUFFICES ASSUME WholeInv, NEW p \in Places(layout)
               PROVE  /\ IsInjective(TabAt(layout, p).root)
                      /\ \A q \in Places(layout) : p # q =>
                           PaneSet(TabAt(layout, p).root) \cap PaneSet(TabAt(layout, q).root) = {}
    BY DEF PlacedOnce
  <2>1. Typed(layout) /\ Apart(layout)
    BY DEF WholeInv, LayoutsOK, Sound
  <2>2. TabAt(layout, p).root \in Trees
    BY <2>1, TabAtFacts, TabFacts
  <2>3. IsInjective(TabAt(layout, p).root)
    BY <2>2, TreeFacts
  <2> QED
    BY <2>1, <2>3 DEF Apart
<1> QED
  BY <1>1, LayoutIsWhole, PTL

\* The active workspace, tab and pane exist at every step, unless an open_session has focused
\* a place that was closed between its two locks.
THEOREM WhatIsActiveExists == Spec => []FocusExists
<1>1. WholeInv => FocusExists
  <2> SUFFICES ASSUME WholeInv, ~slipped
               PROVE  /\ layout.active \in WsIds(layout) \cup {Nothing}
                      /\ \A i \in DOMAIN layout.ws :
                           LET w == layout.ws[i]
                           IN  IF w.tabs = <<>> THEN w.tab = Nothing ELSE \E j \in DOMAIN w.tabs : w.tabs[j].id = w.tab
                      /\ \A p \in Places(layout) :
                           DOMAIN TabAt(layout, p).root # {} => TabAt(layout, p).pane \in PaneSet(TabAt(layout, p).root)
    BY DEF FocusExists
  <2>1. Focused(layout) /\ Typed(layout)
    BY DEF WholeInv, LayoutsOK, Sound
  <2>2. \A i \in DOMAIN layout.ws : SpaceFocused(layout.ws[i])
    BY <2>1 DEF Focused
  <2>3. ASSUME NEW p \in Places(layout), DOMAIN TabAt(layout, p).root # {}
        PROVE  TabAt(layout, p).pane \in PaneSet(TabAt(layout, p).root)
    <3>1. TabAt(layout, p) = layout.ws[p[1]].tabs[p[2]] /\ p[1] \in DOMAIN layout.ws /\ p[2] \in DOMAIN layout.ws[p[1]].tabs
      BY <2>1, TabAtFacts
    <3>2. TabFocused(TabAt(layout, p))
      BY <2>2, <3>1 DEF SpaceFocused
    <3> QED
      BY <2>3, <3>2 DEF TabFocused
  <2> QED
    BY <2>1, <2>2, <2>3 DEF Focused, SpaceFocused
<1> QED
  BY <1>1, LayoutIsWhole, PTL

\* The rows of every snapshot that is about to be stored make the same layout again: no split
\* changes its shape, no tab its place.
THEOREM RowsReadBack == Spec => []RoundTrip
<1>1. WholeInv => RoundTrip
  <2> SUFFICES ASSUME WholeInv, ~slipped, NEW t \in Threads, Step(t, "rows")
               PROVE  LET snap == thread[t].snap
                          L    == Loaded(Rows(snap.ws), snap.active, Sessions, <<>>)
                      IN  L.ws = snap.ws /\ snap.active \in {L.active, Nothing}
    BY DEF RoundTrip
  <2>1. Sound(thread[t].snap) /\ Focused(thread[t].snap)
    BY DEF WholeInv, HeldOK, Step
  <2> QED
    BY <2>1, LoadedSame
<1> QED
  BY <1>1, LayoutIsWhole, PTL

-----------------------------------------------------------------------------
(***************************************************************************)
(* What is stored is what is shown.                                         *)
(*                                                                         *)
(* The proof follows the one snapshot there is while no two threads have    *)
(* crossed: it is what the layout is, unless a thread has written since and *)
(* is about to take another.                                                *)
(***************************************************************************)

AnyAt(pc) == \E t \in Threads : Step(t, pc)

OneSnapshot == \A t, u \in Threads : Storing(t) /\ Storing(u) => t = u

Faithful ==
  /\ (\A t \in Threads : ~Storing(t)) => disk = layout
  /\ \A t \in Threads : Storing(t) => thread[t].snap = layout
  /\ \A t \in Threads : Step(t, "active") => disk.ws = layout.ws

StoreInv ==
  /\ ~crossed => OneSnapshot
  /\ ~crossed /\ ~AtStart /\ ~AnyAt("snapshot") => Faithful

\* The steps of main and of core are of two kinds beside `persist`: a write of the layout,
\* and a step that leaves it.
Moves(t) ==
  \/ \E L, next : Write(t, L, next)
  \/ UNCHANGED layout /\ AtRest(thread[t]) /\ \E next : Goto(t, next) /\ AtRest(next)
  \/ UNCHANGED <<layout, thread>>

LEMMA MovesKeep ==
  ASSUME WholeInv, WholeInv', StoreInv, NEW t \in {"main", "core"}, Moves(t), UNCHANGED <<disk, crossed>>
  PROVE  StoreInv'
<1> t \in Threads /\ "boot" \in Threads /\ t # "boot" /\ "pc" \in Fields /\ "snap" \in Fields
  BY DEF Threads, Fields
<1> ThreadsOK /\ ThreadsOK'
  BY DEF WholeInv
<1>1. ASSUME NEW L, NEW next, Write(t, L, next) PROVE StoreInv'
  <2>1. thread'[t] = [next EXCEPT !.pc = "snapshot", !.pane = Nothing]
    BY <1>1 DEF Write
  <2>2. DOMAIN thread'[t] = Fields
    BY DEF ThreadsOK, IsThread
  <2>3. DOMAIN next = Fields
    BY <2>1, <2>2
  <2>4. thread'[t].pc = "snapshot"
    BY <2>1, <2>3
  <2>5. ASSUME NEW u \in Threads \ {t} PROVE thread'[u].pc = thread[u].pc
    <3>1. thread'[u] = Lost(thread[u], L) /\ IsThread(thread[u])
      BY <1>1 DEF Write, ThreadsOK
    <3> QED
      BY <3>1, LostFacts DEF SameHeld
  <2>6. (~crossed => OneSnapshot)'
    <3> SUFFICES ASSUME ~crossed, NEW v \in Threads, NEW u \in Threads, Storing(v)', Storing(u)'
                 PROVE  v = u
      BY DEF OneSnapshot
    <3>1. v # t /\ u # t
      BY <2>4 DEF Storing
    <3> QED
      BY <2>5, <3>1 DEF StoreInv, OneSnapshot, Storing
  <2>7. AnyAt("snapshot")'
    BY <2>4 DEF AnyAt, Step
  <2> QED
    BY <2>6, <2>7 DEF StoreInv
<1>2. ASSUME UNCHANGED layout, AtRest(thread[t]), NEW next, Goto(t, next), AtRest(next) PROVE StoreInv'
  <2>1. thread'[t] = next /\ \A u \in Threads \ {t} : thread'[u] = thread[u]
    BY <1>2 DEF Goto, ThreadsOK
  <2>2. \A u \in Threads : /\ Storing(u)' <=> Storing(u)
                           /\ Step(u, "snapshot")' <=> Step(u, "snapshot")
                           /\ Step(u, "active")' <=> Step(u, "active")
                           /\ Storing(u) => thread'[u].snap = thread[u].snap
    BY <1>2, <2>1 DEF AtRest, Storing, Step
  <2>3. AtStart' <=> AtStart
    BY <2>1 DEF AtStart, Step
  <2>4. (OneSnapshot' <=> OneSnapshot) /\ (AnyAt("snapshot")' <=> AnyAt("snapshot"))
    BY <2>2 DEF OneSnapshot, AnyAt
  <2>5. Faithful => Faithful'
    BY <1>2, <2>2 DEF Faithful
  <2> QED
    BY <2>3, <2>4, <2>5 DEF StoreInv
<1>3. ASSUME UNCHANGED <<layout, thread>> PROVE StoreInv'
  BY <1>3 DEF StoreInv, OneSnapshot, Faithful, Storing, Step, AnyAt, AtStart
<1> QED
  BY <1>1, <1>2, <1>3 DEF Moves

\* `persist` on any thread.
LEMMA SnapshotKeeps ==
  ASSUME WholeInv, WholeInv', StoreInv, NEW t \in Threads, Snapshot(t) PROVE StoreInv'
<1> "rows" \in Steps /\ ThreadsOK /\ IsThread(thread[t]) /\ ThreadsOK
  BY DEF WholeInv, ThreadsOK, Steps
<1> DEFINE next == MovedWith(thread[t], "rows", layout)
<1>1. next.pc = "rows" /\ next.snap = layout
  BY ONLY IsThread(thread[t]), "rows" \in Steps, MovedWithFacts
<1>2. Goto(t, next) /\ UNCHANGED <<layout, disk, ready>> /\ Step(t, "snapshot")
  BY DEF Snapshot, MovedWith
<1> HIDE DEF next
<1>3. thread'[t] = next /\ \A u \in Threads \ {t} : thread'[u] = thread[u]
  BY <1>2 DEF Goto, ThreadsOK
<1>4. ~crossed' => \A u \in Threads : Storing(u)' => u = t
  BY <1>3 DEF Snapshot, Storing
<1>5. (~crossed /\ ~AtStart /\ ~AnyAt("snapshot") => Faithful)'
  <2> SUFFICES ASSUME ~crossed' PROVE Faithful'
    OBVIOUS
  <2>1. Storing(t)' /\ ~Step(t, "active")' /\ thread'[t].snap = layout'
    BY <1>1, <1>2, <1>3 DEF Storing, Step
  <2> QED
    BY <1>4, <2>1 DEF Faithful, Storing, Step
<1> QED
  BY <1>4, <1>5 DEF StoreInv, OneSnapshot

LEMMA SaveRowsKeeps ==
  ASSUME WholeInv, WholeInv', StoreInv, NEW t \in Threads, SaveRows(t) PROVE StoreInv'
<1> "active" \in Steps /\ ThreadsOK /\ IsThread(thread[t]) /\ ThreadsOK
  BY DEF WholeInv, ThreadsOK, Steps
<1> DEFINE next == MovedTo(thread[t], "active")
<1>1. next.pc = "active" /\ next.snap = thread[t].snap
  BY ONLY IsThread(thread[t]), "active" \in Steps, MovedToFacts
<1>2. Goto(t, next) /\ UNCHANGED <<layout, ready, crossed>> /\ Step(t, "rows")
  BY DEF SaveRows, MovedTo
<1> HIDE DEF next
<1>3. thread'[t] = next /\ \A u \in Threads \ {t} : thread'[u] = thread[u]
  BY <1>2 DEF Goto, ThreadsOK
<1>4. disk'.ws = thread[t].snap.ws
  <2>1. disk = [ws |-> disk.ws, active |-> disk.active]
    BY DEF WholeInv, LayoutsOK, Sound, Typed
  <2>2. disk' = [disk EXCEPT !.ws = thread[t].snap.ws]
    BY DEF SaveRows
  <2> QED
    BY ONLY <2>1, <2>2
<1>5. /\ \A u \in Threads : Storing(u)' <=> Storing(u)
      /\ Storing(t) /\ Storing(t)'
      /\ AnyAt("snapshot")' <=> AnyAt("snapshot")
      /\ AtStart' <=> AtStart
  <2> "boot" \in Threads
    BY DEF Threads
  <2> QED
    BY <1>1, <1>2, <1>3 DEF Storing, Step, AnyAt, AtStart
<1>6. OneSnapshot' <=> OneSnapshot
  BY <1>5 DEF OneSnapshot
<1>7. ASSUME OneSnapshot, Faithful PROVE Faithful'
  <2>1. \A u \in Threads : Storing(u)' => u = t
    BY <1>5, <1>7 DEF OneSnapshot
  <2>2. disk'.ws = layout'.ws /\ thread'[t].snap = layout'
    BY <1>1, <1>2, <1>3, <1>4, <1>5, <1>7 DEF Faithful
  <2>3. \A u \in Threads : Step(u, "active") => Storing(u)
    BY DEF Step, Storing
  <2>4. \A u \in Threads : Step(u, "active")' => Storing(u)'
    BY DEF Step, Storing
  <2> QED
    BY <1>5, <2>1, <2>2, <2>4 DEF Faithful
<1> QED
  BY <1>2, <1>5, <1>6, <1>7 DEF StoreInv

LEMMA SaveActiveKeeps ==
  ASSUME WholeInv, WholeInv', StoreInv, NEW t \in Threads, SaveActive(t) PROVE StoreInv'
<1> ThreadsOK /\ IsThread(thread[t]) /\ thread[t].then \in After /\ After \subseteq Steps
  BY DEF WholeInv, ThreadsOK, IsThread, After, Steps
<1> DEFINE next == MovedWith(thread[t], thread[t].then, Nothing)
<1>1. next.pc = thread[t].then
  BY ONLY IsThread(thread[t]), thread[t].then \in After, After \subseteq Steps, MovedWithFacts
<1>2. Goto(t, next) /\ UNCHANGED <<layout, ready, crossed>> /\ Step(t, "active")
  BY DEF SaveActive, MovedWith
<1> HIDE DEF next
<1>3. thread'[t] = next /\ \A u \in Threads \ {t} : thread'[u] = thread[u]
  BY <1>2 DEF Goto, ThreadsOK
<1>4. disk = [ws |-> disk.ws, active |-> disk.active] /\ layout = [ws |-> layout.ws, active |-> layout.active]
  BY DEF WholeInv, LayoutsOK, Sound, Typed
<1>5. disk' = [ws |-> disk.ws, active |-> thread[t].snap.active]
  <2>1. disk' = [disk EXCEPT !.active = thread[t].snap.active]
    BY DEF SaveActive
  <2> QED
    BY ONLY <1>4, <2>1
<1>6. /\ Storing(t) /\ ~Storing(t)'
      /\ \A u \in Threads : Storing(u)' => Storing(u)
      /\ AnyAt("snapshot")' <=> AnyAt("snapshot")
      /\ AtStart' <=> AtStart
  <2> "boot" \in Threads
    BY DEF Threads
  <2> QED
    BY <1>1, <1>2, <1>3 DEF Storing, Step, AnyAt, AtStart, After
<1>7. OneSnapshot => OneSnapshot'
  BY <1>6 DEF OneSnapshot
<1>8. ASSUME OneSnapshot, Faithful PROVE Faithful'
  <2>1. \A u \in Threads : ~Storing(u)'
    BY <1>6, <1>8 DEF OneSnapshot
  <2>2. thread[t].snap = layout /\ disk.ws = layout.ws
    BY <1>2, <1>6, <1>8 DEF Faithful
  <2>3. disk' = layout'
    BY <1>2, <1>4, <1>5, <2>2
  <2>4. \A u \in Threads : Step(u, "active")' => Storing(u)'
    BY DEF Step, Storing
  <2> QED
    BY <2>1, <2>3, <2>4 DEF Faithful
<1> QED
  BY <1>2, <1>6, <1>7, <1>8 DEF StoreInv

\* Every step of main and of core is of those kinds.
LEMMA GoesRest ==
  /\ AtRest(Idle)
  /\ \A pc \in {"find", "tab", "tab_or_workspace", "workspace", "panel", "open"} : \A s : AtRest(Goes(pc, s))
  /\ \A pc \in {"find", "tab", "tab_or_workspace", "panel", "open"} : \A s, place : AtRest(GoesTo(pc, s, place))
BY DEF Goes, GoesTo, Idle, AtRest

LEMMA CommandMoves ==
  ASSUME WindowCommand PROVE Moves("main") /\ UNCHANGED <<disk, crossed>>
<1> DEFINE Writes == \E L, next : Write("main", L, next)
           Rests  == UNCHANGED layout /\ \E next : Goto("main", next) /\ AtRest(next)
<1>1. Command /\ (Writes \/ Rests \/ UNCHANGED <<layout, thread>>)
  <2>1. ASSUME NEW L, Now(L) PROVE Writes
    BY <2>1 DEF Now
  <2>2. ASSUME NEW L, NEW s, Show(s, L) PROVE Writes
    BY <2>2 DEF Show
  <2>3. ASSUME NEW L, NEW S, End(S, L) PROVE Writes
    BY <2>3 DEF End
  <2>4. ASSUME NEW s \in Sessions, CreateWorkspaceCmd(s) \/ SplitPaneCmd(s) PROVE Command /\ Writes
    BY <2>2, <2>4 DEF CreateWorkspaceCmd, SplitPaneCmd
  <2>5. CloseTabCmd \/ ClosePaneCmd \/ CloseWorkspaceCmd => Command /\ Writes
    BY <2>3 DEF CloseTabCmd, ClosePaneCmd, CloseWorkspaceCmd
  <2>6. ActivateWorkspaceCmd \/ ActivateTabCmd \/ MoveTabCmd \/ FocusPaneCmd => Command /\ Writes
    BY <2>1 DEF ActivateWorkspaceCmd, ActivateTabCmd, MoveTabCmd, FocusPaneCmd
  <2>7. OpenSideCmd \/ SidePanelCmd \/ OpenAgentViewerCmd \/ OpenViewTabCmd \/ OpenDockerDashboardCmd
          => Command /\ Writes
    BY <2>1 DEF OpenSideCmd, SidePanelCmd, OpenAgentViewerCmd, OpenViewTabCmd, OpenDockerDashboardCmd
  <2>8. DisposeCmd => Command /\ Rests
    <3>1. DisposeCmd => Command /\ UNCHANGED layout /\ \E s : Goto("main", Goes("find", s))
      BY DEF DisposeCmd, Goes
    <3> QED
      BY <3>1, GoesRest
  <2>9. OpenSessionCmd => Command /\ Rests
    <3>1. OpenSessionCmd => /\ Command /\ UNCHANGED layout
                            /\ \E s, place : Goto("main", GoesTo("open", s, place)) \/ Goto("main", Goes("tab", s))
      BY DEF OpenSessionCmd, Goes, GoesTo
    <3> QED
      BY <3>1, GoesRest
  <2>10. SpawnTabCmd => Command /\ (Writes \/ Rests)
    <3>1. SpawnTabCmd => /\ Command
                         /\ \/ UNCHANGED layout /\ \E pc \in {"tab_or_workspace", "workspace"} :
                                 \E s : Goto("main", Goes(pc, s))
                            \/ Writes
      BY DEF SpawnTabCmd, Goes
    <3> QED
      BY <3>1, GoesRest
  <2>11. StartSessionCmd => Command /\ UNCHANGED <<layout, thread>>
    BY DEF StartSessionCmd
  <2> HIDE DEF Writes, Rests
  <2> QED
    BY <2>4, <2>5, <2>6, <2>7, <2>8, <2>9, <2>10, <2>11 DEF WindowCommand
<1>2. AtRest(thread["main"]) /\ UNCHANGED <<disk, crossed>>
  BY <1>1 DEF Command, Step, AtRest
<1> QED
  BY <1>1, <1>2 DEF Moves

LEMMA MainMoves ==
  ASSUME FocusFound \/ PlaceInTab \/ PlaceInWorkspace \/ EndClosed PROVE Moves("main") /\ UNCHANGED <<disk, crossed>>
<1>1. UNCHANGED <<disk, crossed>> /\ AtRest(thread["main"])
  BY DEF FocusFound, PlaceInTab, PlaceInWorkspace, EndClosed, Later, AtRest, Step
<1>2. (\E L : Write("main", L, Idle)) \/ (UNCHANGED layout /\ Goto("main", Idle))
  BY DEF FocusFound, PlaceInTab, PlaceInWorkspace, EndClosed
<1> QED
  BY <1>1, <1>2, GoesRest DEF Moves

LEMMA DisposalMoves ==
  ASSUME WholeInv, NEW t \in {"main", "core"}, FindPane(t) \/ CloseFound(t) \/ CloseSides(t)
  PROVE  Moves(t) /\ UNCHANGED <<disk, crossed>>
<1>1. UNCHANGED <<disk, crossed>> /\ AtRest(thread[t])
  BY DEF FindPane, CloseFound, CloseSides, Later, AtRest, Step
<1>2. IsThread(thread[t]) /\ "sides" \in Steps
  BY HeldFacts DEF Steps
<1>3. CASE FindPane(t)
  <2>1. UNCHANGED layout /\ (Goto(t, MovedTo(thread[t], "sides")) \/ \E pane : Goto(t, Closes(thread[t], pane)))
    BY <1>3 DEF FindPane, MovedTo, Closes
  <2>2. MovedTo(thread[t], "sides").pc = "sides" /\ \A pane : Closes(thread[t], pane).pc = "close"
    BY ONLY <1>2, MovedToFacts, ClosesFacts
  <2>3. AtRest(MovedTo(thread[t], "sides")) /\ \A pane : AtRest(Closes(thread[t], pane))
    BY <2>2 DEF AtRest
  <2> QED
    BY <1>1, <2>1, <2>3 DEF Moves
<1>4. CASE CloseFound(t) \/ CloseSides(t)
  <2>1. (\E L, next : Write(t, L, next)) \/ (UNCHANGED layout /\ Goto(t, Idle))
    BY <1>4 DEF CloseFound, CloseSides
  <2> QED
    BY <1>1, <2>1, GoesRest DEF Moves
<1> QED
  BY <1>3, <1>4

LEMMA CoreMoves ==
  ASSUME Core \/ ShowPanel PROVE Moves("core") /\ UNCHANGED <<disk, crossed>>
<1>1. UNCHANGED <<disk, crossed>> /\ AtRest(thread["core"])
  BY DEF Core, ShowPanel, Later, AtRest, Step
<1>2. CASE ShowPanel
  <2>1. (\E L : Write("core", L, Idle)) \/ (UNCHANGED layout /\ Goto("core", Idle))
    BY <1>2 DEF ShowPanel
  <2> QED
    BY <1>1, <2>1, GoesRest DEF Moves
<1>3. CASE Core
  <2>1. PICK s \in Sessions : Exit(s) \/ Coordinate(s)
    BY <1>3 DEF Core
  <2>2. \/ UNCHANGED <<layout, thread>>
        \/ UNCHANGED layout /\ (Goto("core", Goes("find", s)) \/ Goto("core", Goes("panel", s)))
        \/ \E L, next : Write("core", L, next)
    BY <2>1 DEF Exit, Coordinate, Goes
  <2> QED
    BY <1>1, <2>2, GoesRest DEF Moves
<1> QED
  BY <1>2, <1>3

\* Starting again.
LEMMA RestartKeeps == thread = Booting => StoreInv
<1> SUFFICES ASSUME thread = Booting PROVE StoreInv
  OBVIOUS
<1>1. \A t \in Threads : ~Storing(t)
  BY BootingIs DEF Storing
<1>2. AtStart
  BY BootingIs DEF AtStart, Step
<1> QED
  BY <1>1, <1>2 DEF StoreInv, OneSnapshot

LEMMA BootKeeps ==
  ASSUME WholeInv, WholeInv', StoreInv, Restart \/ Resume \/ ReadStored \/ Load \/ MarkReady PROVE StoreInv'
<1> "boot" \in Threads /\ ThreadsOK /\ ThreadsOK' /\ IsThread(thread'["boot"])
  BY DEF Threads, WholeInv, ThreadsOK
<1>1. CASE Restart
  <2>1. (thread = Booting)'
    BY <1>1 DEF Restart
  <2>2. (thread = Booting)' => StoreInv'
    BY RestartKeeps, PTL
  <2> QED
    BY <2>1, <2>2
<1>2. CASE Resume
  <2>1. PICK S : Goto("boot", Loads(S))
    BY <1>2 DEF Resume, Loads
  <2>2. Loads(S).pc = "load"
    BY DEF Loads, Idle
  <2>3. thread'["boot"].pc = "load" /\ \A u \in Threads \ {"boot"} : thread'[u] = thread[u]
    BY <2>1, <2>2 DEF Goto, ThreadsOK
  <2>4. AtStart' /\ crossed' = crossed
    BY <1>2, <2>3 DEF AtStart, Step, Resume
  <2>5. \A u \in Threads : Storing(u)' => Storing(u)
    BY <2>3 DEF Storing
  <2> QED
    BY <2>4, <2>5 DEF StoreInv, OneSnapshot
<1>5. CASE ReadStored
  <2>1. PICK stored : Goto("boot", MovedWith(thread["boot"], "loaded", stored))
    BY <1>5 DEF ReadStored, MovedWith
  <2>2. MovedWith(thread["boot"], "loaded", stored).pc = "loaded"
    <3>1. IsThread(thread["boot"]) /\ "loaded" \in Steps
      BY DEF ThreadsOK, Steps
    <3> QED
      BY ONLY <3>1, MovedWithFacts
  <2>3. thread'["boot"].pc = "loaded" /\ \A u \in Threads \ {"boot"} : thread'[u] = thread[u]
    BY <2>1, <2>2 DEF Goto, ThreadsOK
  <2>4. AtStart' /\ crossed' = crossed
    BY <1>5, <2>3 DEF AtStart, ReadStored
  <2>5. \A u \in Threads : Storing(u)' => Storing(u)
    BY <2>3 DEF Storing
  <2> QED
    BY <2>4, <2>5 DEF StoreInv, OneSnapshot
<1>3. CASE Load
  <2>1. PICK L : Write("boot", L, Then("ready"))
    BY <1>3 DEF Load, Then
  <2>2. IsThread(Then("ready"))
    <3>1. Then("ready") = Work("idle", "ready", Nothing, Nothing, Nothing, {})
      BY IdleIs
    <3>2. "idle" \in Steps /\ "ready" \in After
      BY DEF Steps, After
    <3> QED
      BY ONLY <3>1, <3>2, WorkFacts
  <2>3. /\ thread'["boot"].pc = "snapshot"
        /\ \A u \in Threads \ {"boot"} : thread'[u] = Lost(thread[u], L)
    BY <2>1, <2>2, WriteThreads
  <2>4. \A u \in Threads \ {"boot"} : thread'[u].pc = thread[u].pc
    BY <2>3, LostFacts DEF ThreadsOK, SameHeld
  <2>5. \A u \in Threads : Storing(u)' => Storing(u)
    BY <2>3, <2>4 DEF Storing
  <2>6. AnyAt("snapshot")' /\ crossed' = crossed
    BY <1>3, <2>3 DEF AnyAt, Step, Load
  <2> QED
    BY <2>5, <2>6 DEF StoreInv, OneSnapshot
<1>4. CASE MarkReady
  <2>1. Goto("boot", Idle) /\ UNCHANGED <<layout, disk, crossed>> /\ Step("boot", "ready")
    BY <1>4 DEF MarkReady
  <2>2. thread'["boot"].pc = "idle" /\ \A u \in Threads \ {"boot"} : thread'[u] = thread[u]
    BY <2>1, NextFacts DEF Goto, ThreadsOK
  <2>3. \A u \in Threads : /\ Storing(u)' <=> Storing(u)
                           /\ Step(u, "snapshot")' <=> Step(u, "snapshot")
                           /\ Step(u, "active")' <=> Step(u, "active")
                           /\ Storing(u) => thread'[u] = thread[u]
    BY <2>1, <2>2 DEF Storing, Step
  <2>4. ~AtStart
    BY <2>1 DEF AtStart, Step
  <2>5. (OneSnapshot => OneSnapshot') /\ (AnyAt("snapshot")' <=> AnyAt("snapshot"))
    BY <2>3 DEF OneSnapshot, AnyAt
  <2>6. Faithful => Faithful'
    BY <2>1, <2>3 DEF Faithful
  <2> QED
    BY <2>1, <2>4, <2>5, <2>6 DEF StoreInv
<1> QED
  BY <1>1, <1>2, <1>3, <1>4, <1>5

LEMMA StoreStep ==
  ASSUME WholeInv, WholeInv', StoreInv, [Next]_vars PROVE StoreInv'
<1>1. CASE UNCHANGED vars
  BY <1>1 DEF vars, StoreInv, OneSnapshot, Faithful, Storing, Step, AnyAt, AtStart
<1> "main" \in {"main", "core"} /\ "core" \in {"main", "core"}
  OBVIOUS
<1>2. CASE WindowCommand
  BY <1>2, CommandMoves, MovesKeep
<1>3. CASE FocusFound \/ PlaceInTab \/ PlaceInWorkspace \/ EndClosed
  BY <1>3, MainMoves, MovesKeep
<1>4. CASE Core \/ ShowPanel
  BY <1>4, CoreMoves, MovesKeep
<1>5. ASSUME NEW t \in {"main", "core"}, FindPane(t) \/ CloseFound(t) \/ CloseSides(t) PROVE StoreInv'
  BY <1>5, DisposalMoves, MovesKeep
<1>6. ASSUME NEW t \in Threads, Snapshot(t) \/ SaveRows(t) \/ SaveActive(t) PROVE StoreInv'
  BY <1>6, SnapshotKeeps, SaveRowsKeeps, SaveActiveKeeps
<1>7. CASE Restart \/ Resume \/ ReadStored \/ Load \/ MarkReady
  BY <1>7, BootKeeps
<1> QED
  BY <1>1, <1>2, <1>3, <1>4, <1>5, <1>6, <1>7 DEF Next

\* Whoever stores the layout, in whatever order the threads do: when no thread is at work and
\* no two snapshots have crossed, what is stored is what is shown, so nothing the user did is
\* undone by starting again (layout/mod.rs, `persist`).
THEOREM StoredIsShown == Spec => []SavedIsCurrent
<1>1. Init => StoreInv
  BY RestartKeeps DEF Init
<1>2. WholeInv /\ StoreInv => SavedIsCurrent
  <2> SUFFICES ASSUME WholeInv, StoreInv, ready, ~crossed, \A t \in Threads : Step(t, "idle") PROVE disk = layout
    BY DEF SavedIsCurrent
  <2>1. ~AtStart /\ \A t \in Threads : ~Storing(t) /\ ~Step(t, "snapshot")
    BY DEF AtStart, Step, Storing, Threads
  <2> QED
    BY <2>1 DEF StoreInv, AnyAt, Faithful
<1>3. WholeInv /\ WholeInv' /\ StoreInv /\ [Next]_vars => StoreInv'
  BY StoreStep
<1> QED
  BY <1>1, <1>2, <1>3, LayoutIsWhole, PTL DEF Spec

-----------------------------------------------------------------------------
\* What is loaded.

LEMMA PlacedPane ==
  ASSUME NEW L, Sound(L), NEW x \in PanesOf(L) PROVE x \in Panes(Sessions)
<1>1. PICK p \in Places(L) : x \in PaneSet(TabAt(L, p).root)
  BY PanesFacts
<1>2. TabAt(L, p).root \in Trees
  BY TabAtFacts, TabFacts DEF Sound
<1> QED
  BY <1>1, <1>2, TreeFacts

\* Whatever the window and the core have put into the layout before: when the boot has read
\* what was stored when the program ended, each pane of a session that is still listed, or was
\* opened again, comes back (issue #50, layout/mod.rs, `load_remapped`).
THEOREM BootKeepsWhatIsStored == Spec => BootKeepsLayout
<1>1. WholeInv /\ [Next]_vars => [Load /\ thread["boot"].snap = left => AllKept]_vars
  <2> SUFFICES ASSUME WholeInv, Load, thread["boot"].snap = left, NEW pane \in PanesOf(left)
               PROVE  LET s   == pane.session
                          now == IF s \in DOMAIN fresh THEN fresh[s] ELSE s
                      IN  now \in thread["boot"].ending => [pane EXCEPT !.session = now] \in PanesOf(layout')
    BY DEF AllKept
  <2> DEFINE valid == thread["boot"].ending
             now == IF pane.session \in DOMAIN fresh THEN fresh[pane.session] ELSE pane.session
             back == [pane EXCEPT !.session = now]
  <2>1. Sound(left) /\ \A y : y \in PanesOf(layout') <=>
                          \E x \in PanesOf(left) : y = Again(x, fresh) /\ y.session \in valid
    BY LoadIs
  <2>2. pane \in Panes(Sessions)
    BY <2>1, PlacedPane
  <2>3. back = Again(pane, fresh) /\ back.session = now
    BY <2>2 DEF Again, Panes, Leaf, Viewer
  <2> HIDE DEF valid, now, back
  <2>4. now \in valid => back \in PanesOf(layout')
    BY <2>1, <2>3
  <2> QED
    BY <2>4 DEF now, back, valid
<1> QED
  BY <1>1, LayoutIsWhole, PTL DEF Spec, BootKeepsLayout

LEMMA SoundStored ==
  ASSUME NEW L, Sound(L) PROVE IsStored(L, Sessions)
<1>1. L = [ws |-> L.ws, active |-> L.active] /\ L.ws \in Seq(Spaces) /\ L.active \in Names /\ Apart(L)
  BY DEF Sound, Typed
<1>2. ASSUME NEW i \in DOMAIN L.ws PROVE IsWorkspace(L.ws[i], Sessions)
  <2> DEFINE w == L.ws[i]
  <2>1. w \in Spaces
    BY <1>1
  <2> HIDE DEF w
  <2>2. ASSUME NEW j \in DOMAIN w.tabs PROVE IsTab(w.tabs[j], Sessions)
    <3> DEFINE tab == w.tabs[j]
    <3>1. tab \in Tabs
      BY <2>1 DEF Spaces
    <3> HIDE DEF tab
    <3>2. /\ tab \in TabFields /\ tab.root \in Trees
          /\ IF tab.view = Nothing THEN DOMAIN tab.root # {} /\ tab.pane \in Panes(Sessions)
             ELSE tab.root = NoPanes
      BY <3>1 DEF Tabs, TabFields
    <3>3. IsTree(tab.root) /\ IsInjective(tab.root) /\ PaneSet(tab.root) \subseteq Panes(Sessions)
      BY <3>2, TreeFacts
    <3>4. IsTab(tab, Sessions)
      BY <3>2, <3>3 DEF IsTab, TabFields, Pages
    <3> QED
      BY <3>4 DEF tab
  <2>3. w.tabs \in Seq(Range(w.tabs))
    <3> DEFINE s == w.tabs
    <3>1. s \in Seq(Tabs)
      BY <2>1 DEF Spaces
    <3> HIDE DEF s
    <3>2. s \in Seq(Range(s))
      BY <3>1 DEF Range
    <3> QED
      BY <3>2 DEF s
  <2>4. IsWorkspace(w, Sessions)
    BY <2>1, <2>2, <2>3 DEF IsWorkspace, Spaces, IsSide, SidePanels, SideKinds, Names
  <2> QED
    BY <2>4 DEF w
<1>3. L.ws \in Seq(Range(L.ws))
  <2> DEFINE s == L.ws
  <2>1. s \in Seq(Spaces)
    BY <1>1
  <2> HIDE DEF s
  <2>2. s \in Seq(Range(s))
    BY <2>1 DEF Range
  <2> QED
    BY <2>2 DEF s
<1> QED
  BY <1>1, <1>2, <1>3 DEF IsStored, Apart, Names

\* What is stored, at any step, is what an earlier run may have stored: what LayoutAssumption
\* asks of the layout the program starts with holds again of the one it leaves, so it need
\* only be true of the first, which is empty.
THEOREM StoredAgain == Spec => []IsStored(disk, Sessions)
<1>1. WholeInv => IsStored(disk, Sessions)
  BY SoundStored DEF WholeInv, LayoutsOK
<1> QED
  BY <1>1, LayoutIsWhole, PTL

-----------------------------------------------------------------------------
\* The panels of a layout, which only two methods open.

\* A layout as far as its panels go, and its panels
Paneled(L) ==
  /\ "ws" \in DOMAIN L /\ "active" \in DOMAIN L
  /\ Len(L.ws) \in Nat /\ L.ws = [i \in 1..Len(L.ws) |-> L.ws[i]]
  /\ \A i \in DOMAIN L.ws : "side" \in DOMAIN L.ws[i]
PanelsOf(L) == {L.ws[i].side : i \in DOMAIN L.ws}

\* M has the panels of L, some of them closed, and X.
Opens(L, M, X) == Paneled(M) /\ PanelsOf(M) \subseteq PanelsOf(L) \cup X \cup {Nothing}

\* Opening composes, and a layout opens to itself.
LEMMA OpensTwice ==
  /\ \A L, X : Paneled(L) => Opens(L, L, X)
  /\ \A L, M, N, X : Opens(L, M, X) /\ Opens(M, N, {}) => Opens(L, N, X)
  /\ \A L, M, N, X : Opens(L, M, {}) /\ Opens(M, N, X) => Opens(L, N, X)
BY DEF Opens

LEMMA SoundPaneled ==
  ASSUME NEW L, Sound(L) PROVE Paneled(L)
<1>1. L = [ws |-> L.ws, active |-> L.active] /\ L.ws \in Seq(Spaces)
  BY DEF Sound, Typed
<1>2. "ws" \in DOMAIN L /\ "active" \in DOMAIN L
  <2>1. DOMAIN L = {"ws", "active"}
    BY <1>1
  <2> QED
    BY <2>1
<1>3. \A w \in Spaces : "side" \in DOMAIN w
  BY SpaceFacts
<1>4. Len(L.ws) \in Nat /\ L.ws = [i \in 1..Len(L.ws) |-> L.ws[i]] /\ \A i \in DOMAIN L.ws : L.ws[i] \in Spaces
  BY <1>1
<1> QED
  BY <1>2, <1>3, <1>4 DEF Paneled

\* What a workspace is given beside its panel
LEMMA SpaceSides ==
  ASSUME NEW w, "side" \in DOMAIN w
  PROVE  /\ \A x : [w EXCEPT !.tabs = x].side = w.side /\ [w EXCEPT !.tab = x].side = w.side
                   /\ [w EXCEPT !.side = x].side = x
         /\ \A x, y : [w EXCEPT !.tabs = x, !.tab = y].side = w.side
         /\ CloseSide(w).side = Nothing /\ Expand(w).side = w.side
         /\ \A x : "side" \in DOMAIN [w EXCEPT !.tabs = x] /\ "side" \in DOMAIN [w EXCEPT !.tab = x]
                   /\ "side" \in DOMAIN [w EXCEPT !.side = x]
         /\ \A x, y : "side" \in DOMAIN [w EXCEPT !.tabs = x, !.tab = y]
         /\ "side" \in DOMAIN CloseSide(w) /\ "side" \in DOMAIN Expand(w)
<1>2. \A x : [w EXCEPT !.tabs = x].side = w.side /\ [w EXCEPT !.tab = x].side = w.side
             /\ [w EXCEPT !.side = x].side = x
  OBVIOUS
<1>3. \A x, y : [w EXCEPT !.tabs = x, !.tab = y].side = w.side
  OBVIOUS
<1>4. CloseSide(w).side = Nothing /\ Expand(w).side = w.side
  BY DEF CloseSide, Expand
<1>5. "side" \in DOMAIN CloseSide(w) /\ "side" \in DOMAIN Expand(w)
  BY DEF CloseSide, Expand
<1> QED
  BY <1>2, <1>3, <1>4, <1>5

\* The workspaces of M are some of L, with other panels.
LEMMA OpensFrom ==
  ASSUME NEW L, NEW M, Paneled(L), "ws" \in DOMAIN M, "active" \in DOMAIN M, NEW n \in Nat, NEW ws, M.ws = ws,
         ws = [i \in 1..n |-> ws[i]], NEW X,
         \A i \in 1..n : /\ "side" \in DOMAIN ws[i]
                         /\ ws[i].side \in X \cup {Nothing} \cup PanelsOf(L)
  PROVE  Opens(L, M, X)
<1>1. DOMAIN ws = 1..n /\ Len(ws) = n
  BY LenProperties DEF Paneled
<1> QED
  BY <1>1 DEF Opens, Paneled, PanelsOf

\* One workspace is another; or keeps its panel, or closes it.
LEMMA OpensWith ==
  ASSUME NEW L, Paneled(L), NEW i, NEW w, "side" \in DOMAIN w, NEW X, w.side \in X \cup {Nothing} \cup PanelsOf(L)
  PROVE  Opens(L, WithSpace(L, i, w), X)
<1> DEFINE M == WithSpace(L, i, w)
           ws == [L.ws EXCEPT ![i] = w]
           n == Len(L.ws)
<1>1. M = [ws |-> ws, active |-> L.active]
  BY DEF WithSpace
<1>2. DOMAIN L.ws = 1..n /\ n \in Nat /\ \A k \in DOMAIN L.ws : "side" \in DOMAIN L.ws[k] /\ L.ws[k].side \in PanelsOf(L)
  BY DEF Paneled, PanelsOf
<1>3. ws = [k \in 1..n |-> ws[k]] /\ \A k \in 1..n : ws[k] \in {w, L.ws[k]}
  BY <1>2
<1> HIDE DEF ws, n
<1>4. "ws" \in DOMAIN M /\ "active" \in DOMAIN M /\ M.ws = ws
  BY <1>1
<1> HIDE DEF M
<1>5. \A k \in 1..n : "side" \in DOMAIN ws[k] /\ ws[k].side \in X \cup {Nothing} \cup PanelsOf(L)
  BY <1>2, <1>3
<1> QED
  BY ONLY Paneled(L), <1>2, <1>3, <1>4, <1>5, OpensFrom DEF M

LEMMA OpensWithSame ==
  ASSUME NEW L, Paneled(L), NEW i \in DOMAIN L.ws, NEW w, "side" \in DOMAIN w, w.side \in {L.ws[i].side, Nothing}
  PROVE  Opens(L, WithSpace(L, i, w), {})
<1>1. L.ws[i].side \in PanelsOf(L)
  BY DEF PanelsOf
<1> QED
  BY <1>1, OpensWith

\* What is active shows no panel.
LEMMA OpensActive ==
  ASSUME NEW L, Paneled(L), NEW id PROVE Opens(L, [L EXCEPT !.active = id], {})
<1> DEFINE M == [L EXCEPT !.active = id]
<1>1. DOMAIN M = DOMAIN L /\ M.ws = L.ws
  BY DEF Paneled
<1> HIDE DEF M
<1> QED
  BY <1>1 DEF Opens, Paneled, PanelsOf, M

\* Panels are closed where they must be.
LEMMA OpensClosing ==
  ASSUME NEW L, Paneled(L), NEW C
  PROVE  LET M == [L EXCEPT !.ws = [i \in DOMAIN L.ws |-> IF i \in C THEN CloseSide(L.ws[i]) ELSE L.ws[i]]]
         IN  /\ Opens(L, M, {})
             /\ \A x \in PanelsOf(M) : x = Nothing \/ \E i \in DOMAIN L.ws \ C : x = L.ws[i].side
<1> DEFINE ws == [i \in DOMAIN L.ws |-> IF i \in C THEN CloseSide(L.ws[i]) ELSE L.ws[i]]
           M == [L EXCEPT !.ws = ws]
           n == Len(L.ws)
<1>1. "ws" \in DOMAIN M /\ "active" \in DOMAIN M /\ M.ws = ws
  <2> HIDE DEF ws
  <2> QED
    BY DEF Paneled
<1>2. DOMAIN L.ws = 1..n /\ n \in Nat /\ \A k \in DOMAIN L.ws : "side" \in DOMAIN L.ws[k] /\ L.ws[k].side \in PanelsOf(L)
  BY DEF Paneled, PanelsOf
<1>3. ws = [k \in 1..n |-> ws[k]] /\ \A k \in 1..n : ws[k] = IF k \in C THEN CloseSide(L.ws[k]) ELSE L.ws[k]
  BY <1>2
<1> HIDE DEF ws, n, M
<1>4. \A k \in 1..n : /\ "side" \in DOMAIN ws[k]
                      /\ IF k \in C THEN ws[k].side = Nothing ELSE ws[k].side = L.ws[k].side
  BY <1>2, <1>3, SpaceSides
<1>5. \A k \in 1..n : "side" \in DOMAIN ws[k] /\ ws[k].side \in {} \cup {Nothing} \cup PanelsOf(L)
  BY <1>2, <1>4
<1>6. Opens(L, M, {})
  BY ONLY Paneled(L), <1>1, <1>2, <1>3, <1>5, OpensFrom
<1>7. DOMAIN ws = 1..n
  BY <1>3
<1>8. \A x \in PanelsOf(M) : x = Nothing \/ \E i \in DOMAIN L.ws \ C : x = L.ws[i].side
  BY <1>1, <1>2, <1>4, <1>7 DEF PanelsOf
<1> QED
  BY <1>6, <1>8 DEF M, ws

\* `drop_stale_diff_views` only closes.
LEMMA OpensSwept ==
  ASSUME NEW L, Paneled(L) PROVE Opens(L, Swept(L), {})
<1> DEFINE C == {i \in DOMAIN L.ws : IsStale(L.ws[i])}
           M == [L EXCEPT !.ws = [i \in DOMAIN L.ws |-> IF i \in C THEN CloseSide(L.ws[i]) ELSE L.ws[i]]]
<1>1. Opens(L, M, {})
  <2> HIDE DEF C
  <2> QED
    BY OpensClosing
<1>2. [i \in DOMAIN L.ws |-> IF i \in C THEN CloseSide(L.ws[i]) ELSE L.ws[i]]
        = [i \in DOMAIN L.ws |-> IF IsStale(L.ws[i]) THEN CloseSide(L.ws[i]) ELSE L.ws[i]]
  OBVIOUS
<1>3. Swept(L) = M
  BY <1>2 DEF Swept
<1> QED
  BY <1>1, <1>3

\* `session_disposed` closes the panels of its session in every workspace.
LEMMA OpensDisposed ==
  ASSUME NEW L, Paneled(L), NEW s
  PROVE  /\ Opens(L, DisposedSide(L, s), {})
         /\ \A k \in {"diff", "files", "agents"} : Nothing # Side(k, s) => Side(k, s) \notin PanelsOf(DisposedSide(L, s))
<1> DEFINE of == {Side(k, s) : k \in {"diff", "files", "agents"}}
           C == {i \in DOMAIN L.ws : L.ws[i].side \in of}
           M == [L EXCEPT !.ws = [i \in DOMAIN L.ws |-> IF i \in C THEN CloseSide(L.ws[i]) ELSE L.ws[i]]]
<1>1. Opens(L, M, {}) /\ \A x \in PanelsOf(M) : x = Nothing \/ \E i \in DOMAIN L.ws \ C : x = L.ws[i].side
  <2> HIDE DEF C
  <2> QED
    BY OpensClosing
<1>2. DisposedSide(L, s) = M
  <2>1. [i \in DOMAIN L.ws |-> IF i \in C THEN CloseSide(L.ws[i]) ELSE L.ws[i]]
          = [i \in DOMAIN L.ws |-> IF L.ws[i].side \in of THEN CloseSide(L.ws[i]) ELSE L.ws[i]]
    OBVIOUS
  <2> QED
    BY <2>1 DEF DisposedSide
<1> HIDE DEF M
<1>3. \A x \in of : Nothing # x => x \notin PanelsOf(M)
  BY <1>1
<1> QED
  BY <1>1, <1>2, <1>3

\* A new workspace has no panel.
LEMMA OpensNew ==
  ASSUME NEW L, Paneled(L), NEW M, NEW id, NEW docker, NEW tab, "ws" \in DOMAIN M, "active" \in DOMAIN M,
         M.ws = Append(L.ws, Workspace(id, docker, tab))
  PROVE  Opens(L, M, {})
<1> DEFINE w == Workspace(id, docker, tab)
           n == Len(L.ws)
<1>1. "side" \in DOMAIN w /\ w.side = Nothing
  BY DEF Workspace
<1> HIDE DEF w
<1>2. DOMAIN L.ws = 1..n /\ n \in Nat /\ \A k \in DOMAIN L.ws : "side" \in DOMAIN L.ws[k] /\ L.ws[k].side \in PanelsOf(L)
  BY DEF Paneled, PanelsOf
<1>3. PICK ws : ws = Append(L.ws, w)
  OBVIOUS
<1>4. ws = [k \in 1..(n + 1) |-> ws[k]] /\ \A k \in 1..(n + 1) : ws[k] \in {w} \cup {L.ws[j] : j \in 1..n}
  <2> DEFINE S == {w} \cup {L.ws[j] : j \in 1..n}
  <2>1. PICK u : u = L.ws
    OBVIOUS
  <2>2. u \in [1..n -> S] /\ w \in S
    BY <2>1 DEF Paneled
  <2>3. ws = Append(u, w)
    BY <1>3, <2>1
  <2> HIDE DEF S, w, n
  <2>4. u \in Seq(S) /\ Len(u) = n
    BY <1>2, <2>1, <2>2
  <2>5. ws \in Seq(S) /\ Len(ws) = n + 1
    BY ONLY <2>2, <2>3, <2>4
  <2>6. ws = [k \in 1..(n + 1) |-> ws[k]] /\ \A k \in 1..(n + 1) : ws[k] \in S
    BY <1>2, <2>5
  <2> QED
    BY <2>6 DEF S
<1>5. \A k \in 1..(n + 1) : "side" \in DOMAIN ws[k] /\ ws[k].side \in {} \cup {Nothing} \cup PanelsOf(L)
  BY <1>1, <1>2, <1>4
<1>6. M.ws = ws /\ n + 1 \in Nat
  BY <1>2, <1>3 DEF w
<1> QED
  BY ONLY Paneled(L), "ws" \in DOMAIN M, "active" \in DOMAIN M, <1>4, <1>5, <1>6, OpensFrom

\* A workspace goes.
LEMMA OpensWithout ==
  ASSUME NEW L, Paneled(L), NEW i \in DOMAIN L.ws
  PROVE  Opens(L, WithoutWorkspace(L, i), {})
<1> DEFINE M == WithoutWorkspace(L, i)
           n == Len(L.ws)
           S == {L.ws[k] : k \in 1..n}
<1>1. DOMAIN L.ws = 1..n /\ n \in Nat /\ \A k \in DOMAIN L.ws : "side" \in DOMAIN L.ws[k] /\ L.ws[k].side \in PanelsOf(L)
  BY DEF Paneled, PanelsOf
<1>2. L.ws \in Seq(S)
  <2>1. L.ws \in [1..n -> S]
    BY DEF Paneled
  <2> HIDE DEF S
  <2> QED
    BY <1>1, <2>1
<1>3. PICK ws : ws = RemoveAt(L.ws, i)
  OBVIOUS
<1>4. /\ ws \in Seq(S) /\ Len(ws) = n - 1
      /\ \A j \in 1..n - 1 : ws[j] = IF j < i THEN L.ws[j] ELSE L.ws[j + 1]
  BY <1>2, <1>3, RemoveAtFacts
<1>5. n - 1 \in Nat /\ ws = [k \in 1..n - 1 |-> ws[k]]
  BY <1>1, <1>4
<1>6. \A k \in 1..n - 1 : ws[k] \in S
  BY <1>4, <1>5
<1>7. \A k \in 1..n - 1 : "side" \in DOMAIN ws[k] /\ ws[k].side \in {} \cup {Nothing} \cup PanelsOf(L)
  BY <1>1, <1>6
<1>8. "ws" \in DOMAIN M /\ "active" \in DOMAIN M /\ M.ws = ws
  BY <1>3 DEF WithoutWorkspace
<1> HIDE DEF M
<1>9. Opens(L, M, {})
  BY ONLY Paneled(L), <1>5, <1>7, <1>8, OpensFrom
<1> QED
  BY <1>9 DEF M

LEMMA SpaceOf ==
  ASSUME NEW L, Paneled(L), NEW i \in DOMAIN L.ws
  PROVE  "side" \in DOMAIN L.ws[i] /\ L.ws[i].side \in PanelsOf(L)
BY DEF Paneled, PanelsOf

\* One workspace has other tabs, or another active.
LEMMA OpensTabs ==
  ASSUME NEW L, Paneled(L), NEW i \in DOMAIN L.ws
  PROVE  /\ \A x : Opens(L, WithSpace(L, i, [L.ws[i] EXCEPT !.tabs = x]), {})
                   /\ Opens(L, WithSpace(L, i, [L.ws[i] EXCEPT !.tab = x]), {})
         /\ \A x, y : Opens(L, WithSpace(L, i, [L.ws[i] EXCEPT !.tabs = x, !.tab = y]), {})
         /\ Opens(L, WithSpace(L, i, CloseSide(L.ws[i])), {})
         /\ Opens(L, WithSpace(L, i, Expand(L.ws[i])), {})
         /\ \A x : Opens(L, WithSpace(L, i, [L.ws[i] EXCEPT !.side = x]), {x})
<1>1. PICK w : w = L.ws[i] /\ "side" \in DOMAIN w
  BY SpaceOf
<1>2. ASSUME NEW v, "side" \in DOMAIN v, v.side \in {w.side, Nothing} PROVE Opens(L, WithSpace(L, i, v), {})
  BY <1>1, <1>2, OpensWithSame
<1>3. ASSUME NEW v, "side" \in DOMAIN v PROVE Opens(L, WithSpace(L, i, v), {v.side})
  BY <1>3, OpensWith
<1>4. \A x : Opens(L, WithSpace(L, i, [w EXCEPT !.tabs = x]), {}) /\ Opens(L, WithSpace(L, i, [w EXCEPT !.tab = x]), {})
  BY <1>1, <1>2, SpaceSides
<1>5. \A x, y : Opens(L, WithSpace(L, i, [w EXCEPT !.tabs = x, !.tab = y]), {})
  BY <1>1, <1>2, SpaceSides
<1>6. Opens(L, WithSpace(L, i, CloseSide(w)), {}) /\ Opens(L, WithSpace(L, i, Expand(w)), {})
  BY <1>1, <1>2, SpaceSides
<1>7. \A x : Opens(L, WithSpace(L, i, [w EXCEPT !.side = x]), {x})
  <2> TAKE x
  <2>1. PICK v : v = [w EXCEPT !.side = x]
    OBVIOUS
  <2>2. "side" \in DOMAIN v /\ v.side = x
    BY <1>1, <2>1, SpaceSides
  <2>3. Opens(L, WithSpace(L, i, v), {v.side})
    BY <1>3, <2>2
  <2> QED
    BY <2>1, <2>2, <2>3
<1> QED
  BY <1>1, <1>4, <1>5, <1>6, <1>7

\* The workspaces are as many.
LEMMA SpaceStays ==
  ASSUME NEW L, NEW i, NEW w PROVE DOMAIN WithSpace(L, i, w).ws = DOMAIN L.ws
BY DEF WithSpace

LEMMA OpensWithTab ==
  ASSUME NEW L, Paneled(L), NEW p, p[1] \in DOMAIN L.ws, NEW tab
  PROVE  Opens(L, WithTab(L, p, tab), {}) /\ DOMAIN WithTab(L, p, tab).ws = DOMAIN L.ws
<1>1. WithTab(L, p, tab) = WithSpace(L, p[1], [L.ws[p[1]] EXCEPT !.tabs = [L.ws[p[1]].tabs EXCEPT ![p[2]] = tab]])
  <2>1. PICK w : w = L.ws[p[1]] /\ "side" \in DOMAIN w
    BY SpaceOf
  <2>2. [w EXCEPT !.tabs = [@ EXCEPT ![p[2]] = tab]] = [w EXCEPT !.tabs = [w.tabs EXCEPT ![p[2]] = tab]]
    OBVIOUS
  <2> QED
    BY <2>1, <2>2 DEF WithTab
<1> QED
  BY <1>1, OpensTabs, SpaceStays

LEMMA OpensActivate ==
  ASSUME NEW L, Paneled(L), NEW p, p[1] \in DOMAIN L.ws
  PROVE  Opens(L, Activate(L, p), {})
<1>1. PICK M : M = WithSpace(L, p[1], [L.ws[p[1]] EXCEPT !.tab = TabAt(L, p).id])
  OBVIOUS
<1>2. Opens(L, M, {})
  BY <1>1, OpensTabs
<1>3. Opens(M, [M EXCEPT !.active = L.ws[p[1]].id], {})
  BY <1>2, OpensActive DEF Opens
<1>4. Activate(L, p) = [M EXCEPT !.active = L.ws[p[1]].id]
  BY <1>1 DEF Activate
<1> QED
  BY <1>2, <1>3, <1>4, OpensTwice

LEMMA OpensFocus ==
  ASSUME NEW L, Paneled(L), NEW p, p[1] \in DOMAIN L.ws, NEW pane
  PROVE  Opens(L, Focus(L, p, pane), {})
<1>1. PICK M : M = WithTab(L, p, [TabAt(L, p) EXCEPT !.pane = pane])
  OBVIOUS
<1>2. Opens(L, M, {}) /\ p[1] \in DOMAIN M.ws
  BY <1>1, OpensWithTab
<1>3. Opens(M, Activate(M, p), {})
  BY <1>2, OpensActivate DEF Opens
<1> QED
  BY <1>1, <1>2, <1>3, OpensTwice DEF Focus

LEMMA ThenSweeps ==
  ASSUME NEW L, NEW M, NEW X, Opens(L, M, X) PROVE Opens(L, Swept(M), X)
BY OpensSwept, OpensTwice DEF Opens

LEMMA OpensWithoutTab ==
  ASSUME NEW L, Paneled(L), NEW p, p[1] \in DOMAIN L.ws
  PROVE  Opens(L, WithoutTab(L, p), {})
<1>1. PICK rest : rest = RemoveAt(L.ws[p[1]].tabs, p[2])
  OBVIOUS
<1>2. PICK w : w = L.ws[p[1]] /\ "side" \in DOMAIN w
  BY SpaceOf
<1>3. PICK to : to = IF w.tab = w.tabs[p[2]].id THEN Neighbour(rest, p[2]) ELSE w.tab
  OBVIOUS
<1>4. PICK M : M = WithSpace(L, p[1], [w EXCEPT !.tabs = rest, !.tab = to])
  OBVIOUS
<1>5. Opens(L, M, {}) /\ p[1] \in DOMAIN M.ws
  BY <1>2, <1>4, OpensTabs, SpaceStays
<1>6. Opens(M, WithoutWorkspace(M, p[1]), {})
  BY <1>5, OpensWithout DEF Opens
<1>7. WithoutTab(L, p) = IF rest = <<>> THEN WithoutWorkspace(M, p[1]) ELSE M
  BY <1>1, <1>2, <1>3, <1>4 DEF WithoutTab
<1> QED
  BY <1>5, <1>6, <1>7, OpensTwice

-----------------------------------------------------------------------------
\* What each method opens

LEMMA OpensWorkspace ==
  ASSUME NEW L, Paneled(L), NEW tab PROVE Opens(L, WithWorkspace(L, tab), {})
<1>1. PICK M : M = WithWorkspace(L, tab)
  OBVIOUS
<1>2. "ws" \in DOMAIN M /\ "active" \in DOMAIN M /\ M.ws = Append(L.ws, Workspace(tab.id, FALSE, tab))
  BY <1>1 DEF WithWorkspace
<1>3. PICK no : no = FALSE
  OBVIOUS
<1>4. M.ws = Append(L.ws, Workspace(tab.id, no, tab))
  BY <1>2, <1>3
<1>5. PICK id : id = tab.id
  OBVIOUS
<1>6. M.ws = Append(L.ws, Workspace(id, no, tab))
  BY <1>4, <1>5
<1>7. Opens(L, M, {})
  BY <1>2, <1>6, OpensNew
<1> QED
  BY <1>1, <1>7

LEMMA OpensCreate ==
  ASSUME NEW L, Sound(L), NEW new, NEW s
  PROVE  Opens(L, CreateWorkspace(L, new, s), {}) /\ \A i \in DOMAIN L.ws : Opens(L, CreateTab(L, new, s, i), {})
<1>1. Paneled(L)
  BY SoundPaneled
<1>2. Opens(L, CreateWorkspace(L, new, s), {})
  BY <1>1, OpensWorkspace DEF CreateWorkspace
<1>3. ASSUME NEW i \in DOMAIN L.ws PROVE Opens(L, CreateTab(L, new, s, i), {})
  <2>1. PICK w : w = L.ws[i] /\ "side" \in DOMAIN w
    BY <1>1, SpaceOf
  <2>2. PICK tabs : tabs = Append(w.tabs, SessionTab(new, s))
    OBVIOUS
  <2>3. PICK M : M = WithSpace(L, i, [w EXCEPT !.tabs = tabs, !.tab = new])
    OBVIOUS
  <2>4. Opens(L, M, {})
    BY <1>1, <2>1, <2>3, OpensTabs
  <2>5. Opens(M, [M EXCEPT !.active = w.id], {})
    BY <2>4, OpensActive DEF Opens
  <2>6. CreateTab(L, new, s, i) = Swept([M EXCEPT !.active = w.id])
    BY <2>1, <2>2, <2>3 DEF CreateTab
  <2> QED
    BY <2>4, <2>5, <2>6, OpensTwice, ThenSweeps
<1> QED
  BY <1>2, <1>3

LEMMA OpensView ==
  ASSUME NEW L, Sound(L), NEW new, NEW view PROVE Opens(L, OpenViewTab(L, new, view), {})
<1>1. Paneled(L)
  BY SoundPaneled
<1>2. PICK at : at = {p \in Places(L) : TabAt(L, p).view = view}
  OBVIOUS
<1>3. CASE at = {}
  BY <1>1, <1>2, <1>3, OpensWorkspace DEF OpenViewTab
<1>4. CASE at # {}
  <2>1. PICK p : p = CHOOSE q \in at : TRUE
    OBVIOUS
  <2>2. p \in at
    BY <1>4, <2>1
  <2>3. p[1] \in DOMAIN L.ws
    BY <1>2, <2>2, PlaceFacts
  <2>4. OpenViewTab(L, new, view) = Activate(L, p)
    BY <1>2, <1>4, <2>1 DEF OpenViewTab
  <2> QED
    BY <1>1, <2>3, <2>4, OpensActivate
<1> QED
  BY <1>3, <1>4

LEMMA OpensDocker ==
  ASSUME NEW L, Sound(L), NEW new, IsNew(L, new)
  PROVE  Opens(L, EnsureDocker(L, new), {}) /\ Opens(L, OpenDockerDashboard(L, new), {})
<1>1. Paneled(L)
  BY SoundPaneled
<1>2. PICK tab : tab = ViewTab(new, ContainersView)
  OBVIOUS
<1>3. PICK i : i = DockerIndex(L)
  OBVIOUS
<1>4. Opens(L, EnsureDocker(L, new), {})
  <2>1. CASE i = 0
    <3>1. PICK M : M = EnsureDocker(L, new)
      OBVIOUS
    <3>2. PICK yes : yes = TRUE
      OBVIOUS
    <3>3. M = [L EXCEPT !.ws = Append(L.ws, Workspace(new, yes, tab))]
      BY <1>2, <1>3, <2>1, <3>1, <3>2 DEF EnsureDocker
    <3>4. PICK seq : seq = Append(L.ws, Workspace(new, yes, tab))
      OBVIOUS
    <3>5. M = [L EXCEPT !.ws = seq]
      BY <3>3, <3>4
    <3>6. "ws" \in DOMAIN M /\ "active" \in DOMAIN M /\ M.ws = seq
      BY <1>1, <3>5 DEF Paneled
    <3>7. Opens(L, M, {})
      BY <1>1, <3>4, <3>6, OpensNew
    <3> QED
      BY <3>1, <3>7
  <2>2. CASE i # 0
    <3>1. i \in DOMAIN L.ws
      BY <1>3, <2>2, IndexFacts DEF Sound
    <3>2. PICK w : w = L.ws[i] /\ "side" \in DOMAIN w
      BY <1>1, <3>1, SpaceOf
    <3>3. CASE \E j \in DOMAIN w.tabs : w.tabs[j].view = ContainersView
      BY <1>1, <1>3, <2>2, <3>2, <3>3, OpensTwice DEF EnsureDocker
    <3>4. CASE ~ \E j \in DOMAIN w.tabs : w.tabs[j].view = ContainersView
      <4>1. PICK tabs, to : tabs = <<tab>> \o w.tabs /\ to = IF w.tab = Nothing THEN new ELSE w.tab
        OBVIOUS
      <4>2. EnsureDocker(L, new) = WithSpace(L, i, [w EXCEPT !.tabs = tabs, !.tab = to])
        BY <1>2, <1>3, <2>2, <3>2, <3>4, <4>1 DEF EnsureDocker
      <4>3. \A x, y : Opens(L, WithSpace(L, i, [w EXCEPT !.tabs = x, !.tab = y]), {})
        BY <1>1, <3>1, <3>2, OpensTabs
      <4>4. Opens(L, WithSpace(L, i, [w EXCEPT !.tabs = tabs, !.tab = to]), {})
        BY <4>3
      <4> QED
        BY <4>2, <4>4
    <3> QED
      BY <3>3, <3>4
  <2> QED
    BY <2>1, <2>2
<1>5. Opens(L, OpenDockerDashboard(L, new), {})
  <2>1. PICK M : M = EnsureDocker(L, new)
    OBVIOUS
  <2>2. PICK k : k = DockerIndex(M)
    OBVIOUS
  <2>3. k \in DOMAIN M.ws
    BY <2>1, <2>2, EnsureDockerBecomes
  <2>4. PICK j : j = FirstIn({n \in DOMAIN M.ws[k].tabs : M.ws[k].tabs[n].view = ContainersView})
    OBVIOUS
  <2>0. PICK p : p = <<k, j>>
    OBVIOUS
  <2>5. p = <<k, j>> /\ p[1] = k
    BY <2>0
  <2>6. OpenDockerDashboard(L, new) = Activate(M, p)
    BY <2>1, <2>2, <2>4, <2>5 DEF OpenDockerDashboard
  <2>7. Opens(M, Activate(M, p), {})
    BY <1>4, <2>1, <2>3, <2>5, OpensActivate DEF Opens
  <2> QED
    BY <1>4, <2>1, <2>6, <2>7, OpensTwice
<1> QED
  BY <1>4, <1>5

LEMMA OpensMoves ==
  ASSUME NEW L, Sound(L), NEW p \in Places(L)
  PROVE  /\ Opens(L, ActivateTab(L, p), {}) /\ \A to : Opens(L, MoveTab(L, p, to), {})
         /\ Opens(L, Swept(WithoutTab(L, p)), {})
         /\ \A pane : Opens(L, Focus(L, p, pane), {}) /\ Opens(L, Swept(Focus(L, p, pane)), {})
<1>1. Paneled(L) /\ p[1] \in DOMAIN L.ws
  BY SoundPaneled, PlaceFacts
<1>2. Opens(L, ActivateTab(L, p), {}) /\ Opens(L, Swept(WithoutTab(L, p)), {})
  BY <1>1, OpensActivate, OpensWithoutTab, ThenSweeps DEF ActivateTab
<1>3. \A pane : Opens(L, Focus(L, p, pane), {}) /\ Opens(L, Swept(Focus(L, p, pane)), {})
  BY <1>1, OpensFocus, ThenSweeps
<1>4. \A to : Opens(L, MoveTab(L, p, to), {})
  BY <1>1, OpensTabs DEF MoveTab
<1> QED
  BY <1>2, <1>3, <1>4

LEMMA OpensPanes ==
  ASSUME NEW L, Sound(L), NEW pane \in PanesOf(L)
  PROVE  /\ Opens(L, ClosePane(L, pane), {})
         /\ \A s : Opens(L, SplitPane(L, pane, s), {})
         /\ Opens(L, Swept(Focus(L, PlaceOfPane(L, pane), pane)), {})
<1>1. PICK p : p = PlaceOfPane(L, pane) /\ p \in Places(L)
  BY PlaceOfPaneFacts
<1>2. Paneled(L) /\ p[1] \in DOMAIN L.ws
  BY <1>1, SoundPaneled, PlaceFacts
<1>3. Opens(L, Swept(Focus(L, PlaceOfPane(L, pane), pane)), {})
  BY <1>1, <1>2, OpensFocus, ThenSweeps
<1>4. Opens(L, ClosePane(L, pane), {})
  <2>1. PICK root : root = Keep(TabAt(L, p).root, PaneSet(TabAt(L, p).root) \ {pane})
    OBVIOUS
  <2>2. \E tab : ClosePane(L, pane) = Swept(IF DOMAIN root = {} THEN WithoutTab(L, p) ELSE WithTab(L, p, tab))
    BY <1>1, <2>1 DEF ClosePane
  <2>3. PICK tab : ClosePane(L, pane) = Swept(IF DOMAIN root = {} THEN WithoutTab(L, p) ELSE WithTab(L, p, tab))
    BY <2>2
  <2> QED
    BY <1>2, <2>3, OpensWithoutTab, OpensWithTab, ThenSweeps
<1>5. ASSUME NEW s PROVE Opens(L, SplitPane(L, pane, s), {})
  <2>1. \E tab : SplitPane(L, pane, s) = Swept(Focus(WithTab(L, p, tab), p, Leaf(s)))
    BY <1>1 DEF SplitPane
  <2>2. PICK tab : SplitPane(L, pane, s) = Swept(Focus(WithTab(L, p, tab), p, Leaf(s)))
    BY <2>1
  <2>3. PICK M, x : M = WithTab(L, p, tab) /\ x = Leaf(s)
    OBVIOUS
  <2>4. Opens(L, M, {}) /\ p[1] \in DOMAIN M.ws
    BY <1>2, <2>3, OpensWithTab
  <2>5. Opens(M, Focus(M, p, x), {})
    BY <2>4, OpensFocus DEF Opens
  <2> QED
    BY <2>2, <2>3, <2>4, <2>5, OpensTwice, ThenSweeps
<1> QED
  BY <1>3, <1>4, <1>5

\* The panel of a session is opened beside its terminal, which is there.
LEMMA OpensSide ==
  ASSUME NEW L, Sound(L), NEW s, IsPlaced(L, s), NEW kind
  PROVE  Opens(L, OpenSide(L, s, kind), {Side(kind, s)})
<1>1. PICK p : p = PlaceOfPane(L, Leaf(s)) /\ p \in Places(L)
  BY PlaceOfPaneFacts DEF IsPlaced
<1>2. Paneled(L) /\ p[1] \in DOMAIN L.ws
  BY <1>1, SoundPaneled, PlaceFacts
<1>3. PICK M, x, leaf : M = WithSpace(L, p[1], [L.ws[p[1]] EXCEPT !.side = x]) /\ x = Side(kind, s) /\ leaf = Leaf(s)
  OBVIOUS
<1>4. Opens(L, M, {x}) /\ p[1] \in DOMAIN M.ws
  BY <1>2, <1>3, OpensTabs, SpaceStays
<1>5. Opens(M, Focus(M, p, leaf), {})
  BY <1>4, OpensFocus DEF Opens
<1>6. OpenSide(L, s, kind) = Focus(M, p, leaf)
  BY <1>1, <1>3 DEF OpenSide
<1> QED
  BY <1>3, <1>4, <1>5, <1>6, OpensTwice

LEMMA OpensSidePanel ==
  ASSUME NEW L, Sound(L), NEW i \in DOMAIN L.ws
  PROVE  /\ Opens(L, ToggleQueue(L, i), {AgentQueue})
         /\ Opens(L, WithSpace(L, i, CloseSide(L.ws[i])), {})
         /\ Opens(L, WithSpace(L, i, Expand(L.ws[i])), {})
<1>1. Paneled(L)
  BY SoundPaneled
<1>2. PICK w : w = L.ws[i] /\ "side" \in DOMAIN w
  BY <1>1, SpaceOf
<1>3. Opens(L, WithSpace(L, i, CloseSide(w)), {}) /\ Opens(L, WithSpace(L, i, Expand(w)), {})
      /\ \A x : Opens(L, WithSpace(L, i, [w EXCEPT !.side = x]), {x})
  BY <1>1, <1>2, OpensTabs
<1>4. Opens(L, WithSpace(L, i, [w EXCEPT !.side = AgentQueue]), {AgentQueue})
  BY <1>3
<1>5. ToggleQueue(L, i) \in {WithSpace(L, i, CloseSide(w)), WithSpace(L, i, [w EXCEPT !.side = AgentQueue])}
  BY <1>2 DEF ToggleQueue
<1>6. Opens(L, WithSpace(L, i, CloseSide(w)), {AgentQueue})
  BY <1>3 DEF Opens
<1> QED
  BY <1>2, <1>3, <1>4, <1>5, <1>6

\* The agents panel opens only where the terminal of its agent is.
LEMMA OpensViewer ==
  ASSUME NEW L, Sound(L), NEW s
  PROVE  /\ Opens(L, EnsureViewer(L, s), {})
         /\ InActiveWorkspace(L, s) # {} => Opens(L, OpenAgentViewer(L, s), {})
         /\ EnsurePanel(L, s) = L \/ (Leaf(s) \in PanesOf(L) /\ Opens(L, EnsurePanel(L, s), {Side("agents", s)}))
<1>1. Paneled(L) /\ Opens(L, L, {})
  BY SoundPaneled, OpensTwice
<1>2. ASSUME NEW p \in Places(L)
      PROVE  Opens(L, BesideLeaf(L, p, s), {}) /\ DOMAIN BesideLeaf(L, p, s).ws = DOMAIN L.ws /\ p[1] \in DOMAIN L.ws
  <2>1. p[1] \in DOMAIN L.ws
    BY PlaceFacts
  <2> QED
    BY <1>1, <2>1, OpensWithTab DEF BesideLeaf
<1>3. Opens(L, EnsureViewer(L, s), {})
  <2>1. CASE InActiveTab(L, s) = {}
    BY <1>1, <2>1 DEF EnsureViewer
  <2>2. CASE InActiveTab(L, s) # {}
    <3>1. PICK p : p = CHOOSE q \in InActiveTab(L, s) : TRUE
      OBVIOUS
    <3>2. p \in Places(L)
      BY <2>2, <3>1 DEF InActiveTab
    <3>3. EnsureViewer(L, s) \in {L, BesideLeaf(L, p, s)}
      BY <3>1 DEF EnsureViewer
    <3> QED
      BY <1>1, <1>2, <3>2, <3>3
  <2> QED
    BY <2>1, <2>2
<1>4. ASSUME InActiveWorkspace(L, s) # {} PROVE Opens(L, OpenAgentViewer(L, s), {})
  <2>1. PICK p : p = CHOOSE q \in InActiveWorkspace(L, s) : TRUE
    OBVIOUS
  <2>2. p \in Places(L)
    BY <1>4, <2>1 DEF InActiveWorkspace
  <2>3. PICK M : M = IF Viewer(s) \in PanesOf(L) THEN L ELSE BesideLeaf(L, p, s)
    OBVIOUS
  <2>4. Opens(L, M, {}) /\ p[1] \in DOMAIN M.ws
    BY <1>1, <1>2, <2>2, <2>3
  <2>5. PICK id : id = TabAt(L, p).id
    OBVIOUS
  <2>6. Opens(M, WithSpace(M, p[1], [M.ws[p[1]] EXCEPT !.tab = id]), {})
    BY <2>4, OpensTabs DEF Opens
  <2>7. OpenAgentViewer(L, s) = WithSpace(M, p[1], [M.ws[p[1]] EXCEPT !.tab = id])
    BY <2>1, <2>3, <2>5 DEF OpenAgentViewer
  <2> QED
    BY <2>4, <2>6, <2>7, OpensTwice
<1>5. EnsurePanel(L, s) = L \/ (Leaf(s) \in PanesOf(L) /\ Opens(L, EnsurePanel(L, s), {Side("agents", s)}))
  <2>1. PICK i : i = WsIndex(L, L.active)
    OBVIOUS
  <2>2. CASE InActiveWorkspace(L, s) = {} \/ L.ws[i].side # Nothing
    BY <2>1, <2>2 DEF EnsurePanel
  <2>3. CASE ~(InActiveWorkspace(L, s) = {} \/ L.ws[i].side # Nothing)
    <3>1. PICK p \in Places(L) : L.ws[p[1]].id = L.active /\ Leaf(s) \in PaneSet(TabAt(L, p).root)
      BY <2>3 DEF InActiveWorkspace
    <3>2. L.active \in WsIds(L)
      BY <3>1, PlaceFacts DEF WsIds
    <3>3. i \in DOMAIN L.ws
      BY <2>1, <3>2, IndexFacts DEF Sound
    <3>4. PICK x : x = Side("agents", s)
      OBVIOUS
    <3>5. EnsurePanel(L, s) = WithSpace(L, i, [L.ws[i] EXCEPT !.side = x])
      BY <2>1, <2>3, <3>4 DEF EnsurePanel
    <3>6. Opens(L, EnsurePanel(L, s), {x})
      BY <1>1, <3>3, <3>5, OpensTabs
    <3> QED
      BY <3>1, <3>4, <3>6, PanesFacts
  <2> QED
    BY <2>2, <2>3
<1> QED
  BY <1>3, <1>4, <1>5

\* The panels that are loaded are of valid sessions, or the queue.
LEMMA LoadedSides ==
  ASSUME NEW L, Sound(L), NEW remap, IsRemap(remap, L), NEW valid, NEW saved
  PROVE  \A x \in PanelsOf(Loaded(Rows(L.ws), saved, valid, remap)) :
           x = Nothing \/ x.session = Nothing \/ x.session \in valid
<1>1. PICK N : N = AgainLayout(L, remap) /\ Sound(N)
  BY AgainLayoutIs
<1>2. PICK ws : ws = Workspaces(Rows(N.ws), valid)
  OBVIOUS
<1>3. ws = [i \in DOMAIN N.ws |-> NewSpace(N.ws[i], valid)]
  BY <1>1, <1>2, WorkspacesAre
<1>4. Loaded(Rows(L.ws), saved, valid, remap) = ActiveIn(ws, saved)
  BY <1>1, <1>2, RowsAgain DEF Loaded
<1>5. ActiveIn(ws, saved).ws = ws
  BY DEF ActiveIn
<1>6. ASSUME NEW w PROVE LET x == NewSpace(w, valid).side IN x = Nothing \/ x.session = Nothing \/ x.session \in valid
  BY DEF NewSpace, WorkspaceOf
<1>7. \A i \in DOMAIN ws : ws[i] = NewSpace(N.ws[i], valid)
  BY <1>3
<1> QED
  BY <1>4, <1>5, <1>6, <1>7 DEF PanelsOf

-----------------------------------------------------------------------------
\* A disposed session has nothing left, whatever is shown next.

\* The panels a disposed session may not keep.
Owned(s) == {Side(kind, s) : kind \in {"diff", "files", "agents"}}

\* Nothing of the sessions D is in L.
Free(L, D) ==
  \A s \in D : PanesOf(L) \cap {Leaf(s), Viewer(s)} = {} /\ PanelsOf(L) \cap Owned(s) = {}

ForgottenInv == disposed \subseteq Sessions /\ Free(layout, disposed)

\* A write whose new panes S and panels X are of no forgotten session.
LEMMA StillForgotten ==
  ASSUME ForgottenInv, NEW L, NEW S, NEW X, layout' = L, PanesOf(L) \subseteq PanesOf(layout) \cup S,
         Opens(layout, L, X), disposed' \subseteq disposed,
         \A s \in disposed' : S \cap {Leaf(s), Viewer(s)} = {} /\ X \cap Owned(s) = {}
  PROVE  ForgottenInv'
<1>1. ASSUME NEW s \in disposed' PROVE PanesOf(L) \cap {Leaf(s), Viewer(s)} = {} /\ PanelsOf(L) \cap Owned(s) = {}
  <2>1. s \in Sessions /\ PanesOf(layout) \cap {Leaf(s), Viewer(s)} = {} /\ PanelsOf(layout) \cap Owned(s) = {}
    BY DEF ForgottenInv, Free
  <2>2. Nothing \notin Owned(s)
    BY <2>1, LayoutAssumption DEF Owned
  <2>3. PanelsOf(L) \subseteq PanelsOf(layout) \cup X \cup {Nothing}
    BY DEF Opens
  <2> QED
    BY <2>1, <2>2, <2>3
<1>2. PanesOf(layout') = PanesOf(L) /\ PanelsOf(layout') = PanelsOf(L) /\ disposed' \subseteq Sessions
  BY DEF ForgottenInv
<1> QED
  BY <1>1, <1>2 DEF ForgottenInv, Free

\* Nothing is shown.
LEMMA NothingShown ==
  ASSUME ForgottenInv, NEW L, layout' = L, Becomes(layout, L, {}), Opens(layout, L, {}), disposed' \subseteq disposed
  PROVE  ForgottenInv'
BY StillForgotten DEF Becomes

LEMMA SameShown ==
  ASSUME ForgottenInv, UNCHANGED <<layout, disposed>> PROVE ForgottenInv'
BY DEF ForgottenInv

LEMMA NowForgets ==
  ASSUME ForgottenInv, NEW L, Now(L), Becomes(layout, L, {}), Opens(layout, L, {}) PROVE ForgottenInv'
BY NothingShown DEF Now, Write

LEMMA EndForgets ==
  ASSUME ForgottenInv, NEW L, NEW S, End(S, L), Becomes(layout, L, {}), Opens(layout, L, {}) PROVE ForgottenInv'
BY NothingShown DEF End, Write

\* The panes of one session are not those of another.
LEMMA LeafOwned == \A s, x : s # x => {Leaf(s), Viewer(s)} \cap {Leaf(x), Viewer(x)} = {}
BY LeafSession

\* A session is shown, and is no longer one to forget.
LEMMA WriteShows ==
  ASSUME ForgottenInv, NEW s, NEW L, layout' = L, Becomes(layout, L, {Leaf(s)}), Opens(layout, L, {}),
         disposed' = disposed \ {s}
  PROVE  ForgottenInv'
<1>1. \A x \in disposed' : {Leaf(s)} \cap {Leaf(x), Viewer(x)} = {}
  BY LeafOwned
<1>2. PICK S : S = {Leaf(s)}
  OBVIOUS
<1>3. PanesOf(L) \subseteq PanesOf(layout) \cup S /\ disposed' \subseteq disposed
  BY <1>2 DEF Becomes
<1>4. PICK X : X = {}
  OBVIOUS
<1>5. Opens(layout, L, X) /\ \A x \in disposed' : S \cap {Leaf(x), Viewer(x)} = {} /\ X \cap Owned(x) = {}
  BY <1>1, <1>2, <1>4
<1>6. ForgottenInv /\ layout' = L
  OBVIOUS
<1> QED
  BY ONLY <1>3, <1>5, <1>6, StillForgotten

LEMMA ShowCommandsForget ==
  ASSUME WholeInv, ForgottenInv, NEW s \in Sessions, CreateWorkspaceCmd(s) \/ SplitPaneCmd(s) PROVE ForgottenInv'
<1>1. CASE CreateWorkspaceCmd(s)
  <2>1. Becomes(layout, CreateWorkspace(layout, New, s), {Leaf(s)})
    BY <1>1, NewFacts, CreateWorkspaceBecomes DEF CreateWorkspaceCmd
  <2>2. Opens(layout, CreateWorkspace(layout, New, s), {})
    BY NewFacts, OpensCreate
  <2>3. layout' = CreateWorkspace(layout, New, s) /\ disposed' = disposed \ {s}
    BY <1>1 DEF CreateWorkspaceCmd, Show, Write
  <2> QED
    BY <2>1, <2>2, <2>3, WriteShows
<1>2. CASE SplitPaneCmd(s)
  <2>1. PICK at \in PanesOf(layout) : at.kind = "leaf" /\ Show(s, SplitPane(layout, at, s))
    BY <1>2 DEF SplitPaneCmd
  <2>2. Becomes(layout, SplitPane(layout, at, s), {Leaf(s)})
    BY <1>2, NewFacts, SplitPaneBecomes DEF SplitPaneCmd
  <2>3. Opens(layout, SplitPane(layout, at, s), {})
    BY NewFacts, OpensPanes
  <2>4. layout' = SplitPane(layout, at, s) /\ disposed' = disposed \ {s}
    BY <2>1 DEF Show, Write
  <2> QED
    BY <2>2, <2>3, <2>4, WriteShows
<1> QED
  BY <1>1, <1>2

LEMMA CloseCommandsForget ==
  ASSUME WholeInv, ForgottenInv, CloseTabCmd \/ ClosePaneCmd \/ CloseWorkspaceCmd PROVE ForgottenInv'
<1>1. CASE CloseTabCmd
  <2>1. PICK p \in Places(layout) : \E S : End(S, Swept(WithoutTab(layout, p)))
    BY <1>1 DEF CloseTabCmd
  <2>2. Becomes(layout, Swept(WithoutTab(layout, p)), {}) /\ Opens(layout, Swept(WithoutTab(layout, p)), {})
    BY NewFacts, WithoutTabBecomes, ThenSwept, OpensMoves
  <2> QED
    BY <2>1, <2>2, EndForgets
<1>2. CASE ClosePaneCmd
  <2>1. PICK pane \in PanesOf(layout) : \E S : End(S, ClosePane(layout, pane))
    BY <1>2 DEF ClosePaneCmd
  <2>2. Becomes(layout, ClosePane(layout, pane), {}) /\ Opens(layout, ClosePane(layout, pane), {})
    BY NewFacts, ClosePaneBecomes, OpensPanes
  <2> QED
    BY <2>1, <2>2, EndForgets
<1>3. CASE CloseWorkspaceCmd
  <2>1. PICK i \in DOMAIN layout.ws : \E S : End(S, WithoutWorkspace(layout, i))
    BY <1>3 DEF CloseWorkspaceCmd
  <2>2. Becomes(layout, WithoutWorkspace(layout, i), {}) /\ Opens(layout, WithoutWorkspace(layout, i), {})
    BY NewFacts, WithoutWorkspaceBecomes, OpensWithout, SoundPaneled
  <2> QED
    BY <2>1, <2>2, EndForgets
<1> QED
  BY <1>1, <1>2, <1>3

LEMMA FocusCommandsForget ==
  ASSUME WholeInv, ForgottenInv, ActivateWorkspaceCmd \/ ActivateTabCmd \/ MoveTabCmd \/ FocusPaneCmd PROVE ForgottenInv'
<1>1. CASE ActivateWorkspaceCmd
  <2>1. PICK id \in WsIds(layout) \ {layout.active} : Now([layout EXCEPT !.active = id])
    BY <1>1 DEF ActivateWorkspaceCmd
  <2>2. Becomes(layout, [layout EXCEPT !.active = id], {}) /\ Opens(layout, [layout EXCEPT !.active = id], {})
    BY NewFacts, ActivateWorkspaceBecomes, OpensActive, SoundPaneled
  <2> QED
    BY <2>1, <2>2, NowForgets
<1>2. CASE ActivateTabCmd
  <2>1. PICK p \in Places(layout) : Now(ActivateTab(layout, p))
    BY <1>2 DEF ActivateTabCmd
  <2>2. Becomes(layout, ActivateTab(layout, p), {}) /\ Opens(layout, ActivateTab(layout, p), {})
    BY NewFacts, ActivateTabBecomes, OpensMoves
  <2> QED
    BY <2>1, <2>2, NowForgets
<1>3. CASE MoveTabCmd
  <2>0. PICK p \in Places(layout) : \E to \in DOMAIN layout.ws[p[1]].tabs : Now(MoveTab(layout, p, to))
    BY <1>3 DEF MoveTabCmd
  <2>1. PICK to \in DOMAIN layout.ws[p[1]].tabs : Now(MoveTab(layout, p, to))
    BY <2>0
  <2>2. Becomes(layout, MoveTab(layout, p, to), {}) /\ Opens(layout, MoveTab(layout, p, to), {})
    BY NewFacts, MoveTabBecomes, OpensMoves
  <2> QED
    BY <2>1, <2>2, NowForgets
<1>4. CASE FocusPaneCmd
  <2>1. PICK pane \in PanesOf(layout) : Now(Swept(Focus(layout, PlaceOfPane(layout, pane), pane)))
    BY <1>4 DEF FocusPaneCmd
  <2>2. /\ Becomes(layout, Swept(Focus(layout, PlaceOfPane(layout, pane), pane)), {})
        /\ Opens(layout, Swept(Focus(layout, PlaceOfPane(layout, pane), pane)), {})
    BY NewFacts, FocusPaneBecomes, OpensPanes
  <2> QED
    BY <2>1, <2>2, NowForgets
<1> QED
  BY <1>1, <1>2, <1>3, <1>4

\* A panel of a session is not one of another, nor is the queue of the agents.
LEMMA PanelOwned ==
  /\ \A kind, s, x : s # x => {Side(kind, s)} \cap Owned(x) = {}
  /\ \A x : {AgentQueue} \cap Owned(x) = {}
<1>1. \A kind, s : Side(kind, s).kind = kind /\ Side(kind, s).session = s
  BY DEF Side
<1>2. \A x : \A y \in Owned(x) : y.session = x /\ y.kind # "queue"
  BY <1>1 DEF Owned
<1>3. AgentQueue.kind = "queue"
  BY DEF AgentQueue, Side
<1> QED
  BY <1>1, <1>2, <1>3

\* What is placed is not forgotten.
LEMMA PlacedKept == ForgottenInv => \A s : Leaf(s) \in PanesOf(layout) => s \notin disposed
BY DEF ForgottenInv, Free

\* A write that may open the panels X, of sessions that are placed.
LEMMA PanelShown ==
  ASSUME ForgottenInv, NEW L, NEW X, layout' = L, Becomes(layout, L, {}), Opens(layout, L, X), UNCHANGED disposed,
         \A x \in disposed : X \cap Owned(x) = {}
  PROVE  ForgottenInv'
<1>1. PICK S : S = {}
  OBVIOUS
<1>2. PanesOf(L) \subseteq PanesOf(layout) \cup S /\ disposed' \subseteq disposed
  BY <1>1 DEF Becomes
<1>3. \A x \in disposed' : S \cap {Leaf(x), Viewer(x)} = {} /\ X \cap Owned(x) = {}
  BY <1>1
<1>4. ForgottenInv /\ layout' = L /\ Opens(layout, L, X)
  OBVIOUS
<1> QED
  BY ONLY <1>2, <1>3, <1>4, StillForgotten

LEMMA PanelCommandsForget ==
  ASSUME WholeInv, ForgottenInv, OpenSideCmd \/ SidePanelCmd PROVE ForgottenInv'
<1>1. CASE OpenSideCmd
  <2>1. PICK s \in Sessions, kind \in {"diff", "files", "agents", "tunnels"} :
          IsPlaced(layout, s) /\ Now(OpenSide(layout, s, kind))
    BY <1>1 DEF OpenSideCmd
  <2>2. Becomes(layout, OpenSide(layout, s, kind), {})
    BY <2>1, NewFacts, OpenSideBecomes DEF SideKinds
  <2>3. Opens(layout, OpenSide(layout, s, kind), {Side(kind, s)})
    BY <2>1, NewFacts, OpensSide
  <2>4. s \notin disposed
    BY <2>1, PlacedKept DEF IsPlaced
  <2>5. layout' = OpenSide(layout, s, kind) /\ UNCHANGED disposed
    BY <2>1 DEF Now, Write
  <2>6. \A x \in disposed : {Side(kind, s)} \cap Owned(x) = {}
    BY <2>4, PanelOwned
  <2> QED
    BY <2>2, <2>3, <2>5, <2>6, PanelShown
<1>2. CASE SidePanelCmd
  <2>1. PICK i \in DOMAIN layout.ws :
          \/ Now(ToggleQueue(layout, i))
          \/ Now(WithSpace(layout, i, CloseSide(layout.ws[i])))
          \/ Now(WithSpace(layout, i, Expand(layout.ws[i])))
    BY <1>2 DEF SidePanelCmd
  <2>2. /\ Becomes(layout, ToggleQueue(layout, i), {})
        /\ Becomes(layout, WithSpace(layout, i, CloseSide(layout.ws[i])), {})
        /\ Becomes(layout, WithSpace(layout, i, Expand(layout.ws[i])), {})
    BY NewFacts, SidePanelBecomes
  <2>3. /\ Opens(layout, ToggleQueue(layout, i), {AgentQueue})
        /\ Opens(layout, WithSpace(layout, i, CloseSide(layout.ws[i])), {})
        /\ Opens(layout, WithSpace(layout, i, Expand(layout.ws[i])), {})
    BY NewFacts, OpensSidePanel
  <2>4. CASE Now(ToggleQueue(layout, i))
    <3>1. layout' = ToggleQueue(layout, i) /\ UNCHANGED disposed
      BY <2>4 DEF Now, Write
    <3> QED
      BY <2>2, <2>3, <3>1, PanelOwned, PanelShown
  <2> QED
    BY <2>1, <2>2, <2>3, <2>4, NowForgets
<1> QED
  BY <1>1, <1>2

LEMMA PageCommandsForget ==
  ASSUME WholeInv, ForgottenInv, OpenViewTabCmd \/ OpenDockerDashboardCmd PROVE ForgottenInv'
<1>1. CASE OpenViewTabCmd
  <2>1. PICK view \in Views : Now(OpenViewTab(layout, New, view))
    BY <1>1 DEF OpenViewTabCmd
  <2>2. Becomes(layout, OpenViewTab(layout, New, view), {}) /\ Opens(layout, OpenViewTab(layout, New, view), {})
    BY NewFacts, OpenViewTabBecomes, OpensView
  <2> QED
    BY <2>1, <2>2, NowForgets
<1>2. CASE OpenDockerDashboardCmd
  <2>2. Becomes(layout, OpenDockerDashboard(layout, New), {}) /\ Opens(layout, OpenDockerDashboard(layout, New), {})
    BY NewFacts, OpenDockerDashboardBecomes, OpensDocker
  <2> QED
    BY <1>2, <2>2, NowForgets DEF OpenDockerDashboardCmd
<1> QED
  BY <1>1, <1>2

\* A viewer comes beside a terminal of its session.
LEMMA ViewerShown ==
  ASSUME ForgottenInv, NEW s, NEW L, layout' = L, Becomes(layout, L, {Viewer(s)}), Opens(layout, L, {}),
         UNCHANGED disposed, Leaf(s) \in PanesOf(layout)
  PROVE  ForgottenInv'
<1>1. \A x \in disposed' : {Viewer(s)} \cap {Leaf(x), Viewer(x)} = {}
  BY PlacedKept, LeafOwned
<1>2. PICK S : S = {Viewer(s)}
  OBVIOUS
<1>3. PanesOf(L) \subseteq PanesOf(layout) \cup S /\ disposed' \subseteq disposed
  BY <1>2 DEF Becomes
<1>4. PICK X : X = {}
  OBVIOUS
<1>5. Opens(layout, L, X) /\ \A x \in disposed' : S \cap {Leaf(x), Viewer(x)} = {} /\ X \cap Owned(x) = {}
  BY <1>1, <1>2, <1>4
<1>6. ForgottenInv /\ layout' = L
  OBVIOUS
<1> QED
  BY ONLY <1>3, <1>5, <1>6, StillForgotten

LEMMA ViewerCommandForgets ==
  ASSUME WholeInv, ForgottenInv, OpenAgentViewerCmd PROVE ForgottenInv'
<1>1. PICK a \in Agents : InActiveWorkspace(layout, a) # {} /\ Now(OpenAgentViewer(layout, a))
  BY DEF OpenAgentViewerCmd
<1>2. a \in Sessions
  BY DEF Sessions
<1>3. Becomes(layout, OpenAgentViewer(layout, a), {Viewer(a)})
  BY <1>1, <1>2, NewFacts, OpenAgentViewerBecomes
<1>4. Leaf(a) \in PanesOf(layout)
  BY <1>1, PanesFacts DEF InActiveWorkspace
<1>5. Opens(layout, OpenAgentViewer(layout, a), {})
  BY <1>1, NewFacts, OpensViewer
<1>6. layout' = OpenAgentViewer(layout, a) /\ UNCHANGED disposed
  BY <1>1 DEF Now, Write
<1> QED
  BY <1>3, <1>4, <1>5, <1>6, ViewerShown

LEMMA SpawnForgets ==
  ASSUME WholeInv, ForgottenInv, SpawnTabCmd PROVE ForgottenInv'
<1>1. UNCHANGED disposed /\ (UNCHANGED layout \/ layout' = EnsureDocker(layout, New))
  BY DEF SpawnTabCmd, Write
<1>2. Becomes(layout, EnsureDocker(layout, New), {}) /\ Opens(layout, EnsureDocker(layout, New), {})
  BY NewFacts, EnsureDockerBecomes, OpensDocker
<1> QED
  BY <1>1, <1>2, SameShown, NothingShown

LEMMA CommandForgets ==
  ASSUME WholeInv, ForgottenInv, WindowCommand PROVE ForgottenInv'
<1>1. CASE \E s \in Sessions : CreateWorkspaceCmd(s) \/ SplitPaneCmd(s)
  BY <1>1, ShowCommandsForget
<1>2. CASE CloseTabCmd \/ ClosePaneCmd \/ CloseWorkspaceCmd
  BY <1>2, CloseCommandsForget
<1>3. CASE ActivateWorkspaceCmd \/ ActivateTabCmd \/ MoveTabCmd \/ FocusPaneCmd
  BY <1>3, FocusCommandsForget
<1>4. CASE OpenSideCmd \/ SidePanelCmd
  BY <1>4, PanelCommandsForget
<1>5. CASE OpenAgentViewerCmd
  BY <1>5, ViewerCommandForgets
<1>6. CASE OpenViewTabCmd \/ OpenDockerDashboardCmd
  BY <1>6, PageCommandsForget
<1>7. CASE DisposeCmd \/ OpenSessionCmd \/ StartSessionCmd
  BY <1>7, SameShown DEF DisposeCmd, OpenSessionCmd, StartSessionCmd
<1>8. CASE SpawnTabCmd
  BY <1>8, SpawnForgets
<1> QED
  BY <1>1, <1>2, <1>3, <1>4, <1>5, <1>6, <1>7, <1>8 DEF WindowCommand

\* `open_session` focuses, be it there or not, and shows nothing new.
LEMMA FocusFoundForgets ==
  ASSUME WholeInv, ForgottenInv, FocusFound PROVE ForgottenInv'
<1> DEFINE to == thread["main"].place
           s  == thread["main"].session
           i  == WsIndex(layout, to.ws)
           j  == IF i = 0 THEN 0 ELSE TabIndex(layout.ws[i], to.tab)
           gone == [layout EXCEPT !.active = to.ws]
           stray == [WithSpace(layout, i, [layout.ws[i] EXCEPT !.tab = to.tab]) EXCEPT !.active = to.ws]
           there == Focus(layout, <<i, j>>, Leaf(s))
           M == IF i = 0 THEN gone ELSE IF j = 0 THEN stray ELSE there
<1>1. layout' = Swept(M) /\ UNCHANGED disposed
  BY DEF FocusFound, Write
<1>2. PanesOf(layout') \subseteq PanesOf(layout)
  BY FocusFoundWhole
<1>3. Paneled(layout)
  BY NewFacts, SoundPaneled
<1>4. i # 0 => i \in DOMAIN layout.ws
  BY NewFacts, IndexFacts DEF Sound
<1> HIDE DEF i, j, to, s
<1>5. Opens(layout, gone, {})
  BY <1>3, OpensActive
<1>6. ASSUME i # 0 PROVE Opens(layout, stray, {})
  <2>1. PICK N : N = WithSpace(layout, i, [layout.ws[i] EXCEPT !.tab = to.tab])
    OBVIOUS
  <2>2. Opens(layout, N, {})
    BY <1>3, <1>4, <1>6, <2>1, OpensTabs
  <2>3. Opens(N, [N EXCEPT !.active = to.ws], {})
    BY <2>2, OpensActive DEF Opens
  <2> QED
    BY <2>1, <2>2, <2>3, OpensTwice
<1>7. ASSUME i # 0 PROVE Opens(layout, there, {})
  <2>1. PICK p : p = <<i, j>>
    OBVIOUS
  <2>2. p[1] = i
    BY <2>1
  <2> QED
    BY <1>3, <1>4, <1>7, <2>1, <2>2, OpensFocus
<1>8. Opens(layout, M, {})
  BY <1>5, <1>6, <1>7
<1> HIDE DEF M
<1>9. Opens(layout, Swept(M), {})
  BY <1>8, ThenSweeps
<1>10. PICK L : L = Swept(M)
  OBVIOUS
<1>11. PICK no : no = {}
  OBVIOUS
<1>12. /\ ForgottenInv /\ layout' = L /\ PanesOf(L) \subseteq PanesOf(layout) \cup no /\ Opens(layout, L, no)
       /\ disposed' \subseteq disposed
       /\ \A x \in disposed' : no \cap {Leaf(x), Viewer(x)} = {} /\ no \cap Owned(x) = {}
  BY <1>1, <1>2, <1>9, <1>10, <1>11
<1> QED
  BY ONLY <1>12, StillForgotten

LEMMA PlaceInTabForgets ==
  ASSUME WholeInv, ForgottenInv, PlaceInTab PROVE ForgottenInv'
<1> DEFINE th == thread["main"]
           s  == th.session
           to == IF th.place = Nothing THEN layout.active ELSE th.place.ws
           i  == WsIndex(layout, to)
<1>1. /\ th.pc \in {"tab", "tab_or_workspace"}
      /\ \/ /\ ~IsPlaced(layout, s) /\ i # 0 /\ layout' = CreateTab(layout, New, s, i)
            /\ disposed' = disposed \ {s}
         \/ /\ ~IsPlaced(layout, s) /\ layout' = CreateWorkspace(layout, New, s)
            /\ disposed' = disposed \ {s}
         \/ UNCHANGED <<layout, disposed>>
  BY DEF PlaceInTab, Write
<1>2. s \in Sessions
  <2>1. HeldOK(th, Unshown, slipped)
    BY DEF WholeInv, Threads
  <2> QED
    BY <1>1, <2>1 DEF HeldOK
<1>3. i # 0 => i \in DOMAIN layout.ws
  BY NewFacts, IndexFacts DEF Sound
<1> HIDE DEF i, s
<1>4. CASE /\ ~IsPlaced(layout, s) /\ i # 0 /\ layout' = CreateTab(layout, New, s, i)
           /\ disposed' = disposed \ {s}
  <2>1. Becomes(layout, CreateTab(layout, New, s, i), {Leaf(s)})
    BY <1>2, <1>3, <1>4, NewFacts, CreateTabBecomes
  <2>2. Opens(layout, CreateTab(layout, New, s, i), {})
    BY <1>3, <1>4, NewFacts, OpensCreate
  <2> QED
    BY <1>4, <2>1, <2>2, WriteShows
<1>5. CASE /\ ~IsPlaced(layout, s) /\ layout' = CreateWorkspace(layout, New, s)
           /\ disposed' = disposed \ {s}
  <2>1. Becomes(layout, CreateWorkspace(layout, New, s), {Leaf(s)})
    BY <1>2, <1>5, NewFacts, CreateWorkspaceBecomes
  <2>2. Opens(layout, CreateWorkspace(layout, New, s), {})
    BY NewFacts, OpensCreate
  <2> QED
    BY <1>5, <2>1, <2>2, WriteShows
<1> QED
  BY <1>1, <1>4, <1>5, SameShown

LEMMA PlaceInWorkspaceForgets ==
  ASSUME WholeInv, ForgottenInv, PlaceInWorkspace PROVE ForgottenInv'
<1>1. PICK s, L : s = thread["main"].session /\ L = CreateWorkspace(layout, New, s)
  OBVIOUS
<1>2. Step("main", "workspace") /\ ~IsPlaced(layout, s) /\ layout' = L /\ disposed' = disposed \ {s}
  BY <1>1 DEF PlaceInWorkspace, Write
<1>3. s \in Sessions
  <2>1. HeldOK(thread["main"], Unshown, slipped)
    BY DEF WholeInv, Threads
  <2> QED
    BY <1>1, <1>2, <2>1 DEF HeldOK, Step
<1>4. Becomes(layout, L, {Leaf(s)}) /\ Opens(layout, L, {})
  BY <1>1, <1>2, <1>3, NewFacts, CreateWorkspaceBecomes, OpensCreate
<1> QED
  BY <1>2, <1>4, WriteShows

LEMMA CloseFoundForgets ==
  ASSUME WholeInv, ForgottenInv, NEW t \in {"main", "core"}, CloseFound(t) PROVE ForgottenInv'
<1>1. /\ Step(t, "close") /\ UNCHANGED disposed
      /\ \/ UNCHANGED layout
         \/ thread[t].pane # Nothing /\ layout' = ClosePane(layout, thread[t].pane)
  BY DEF CloseFound, Write
<1>2. ASSUME thread[t].pane # Nothing, layout' = ClosePane(layout, thread[t].pane) PROVE ForgottenInv'
  <2>1. PICK pane : pane = thread[t].pane
    OBVIOUS
  <2>2. pane \in PanesOf(layout)
    BY <1>1, <1>2, <2>1, HeldFacts DEF FoundOK, Step
  <2>3. Becomes(layout, ClosePane(layout, pane), {}) /\ Opens(layout, ClosePane(layout, pane), {})
    BY <2>2, NewFacts, ClosePaneBecomes, OpensPanes
  <2> QED
    BY <1>1, <1>2, <2>1, <2>3, NothingShown
<1> QED
  BY <1>1, <1>2, SameShown

\* What is disposed of now has no pane, or is not forgotten; and its panels are closed.
LEMMA CloseSidesForgets ==
  ASSUME WholeInv, ForgottenInv, NEW t \in {"main", "core"}, CloseSides(t) PROVE ForgottenInv'
<1>1. PICK s, L : s = thread[t].session /\ L = DisposedSide(layout, s)
  OBVIOUS
<1>2. Step(t, "sides") /\ layout' = L /\ disposed' = (disposed \cup {s}) \ Shown(L)
  BY <1>1 DEF CloseSides, Write
<1>3. s \in Sessions
  BY <1>1, <1>2, HeldFacts DEF Step
<1>4. Paneled(layout)
  BY NewFacts, SoundPaneled
<1>5. Opens(layout, L, {})
  BY <1>1, <1>4, OpensDisposed
<1>6. PanelsOf(L) \cap Owned(s) = {}
  <2>1. \A kind \in {"diff", "files", "agents"} : Side(kind, s) \notin PanelsOf(DisposedSide(layout, s))
    BY <1>3, <1>4, OpensDisposed, LayoutAssumption
  <2> QED
    BY <1>1, <2>1 DEF Owned
<1>7. ASSUME NEW x \in disposed PROVE PanelsOf(L) \cap Owned(x) = {}
  <2>1. x \in Sessions /\ PanelsOf(layout) \cap Owned(x) = {}
    BY DEF ForgottenInv, Free
  <2>2. Nothing \notin Owned(x)
    BY <2>1, LayoutAssumption DEF Owned
  <2> QED
    BY <1>5, <2>1, <2>2 DEF Opens
<1>8. ASSUME NEW x \in disposed' PROVE PanesOf(L) \cap {Leaf(x), Viewer(x)} = {}
  <2>1. x \notin Shown(L)
    BY <1>2
  <2> QED
    BY <2>1, LeafSession DEF Shown
<1>9. disposed' \subseteq Sessions
  BY <1>2, <1>3 DEF ForgottenInv
<1> QED
  BY <1>2, <1>6, <1>7, <1>8, <1>9 DEF ForgottenInv, Free

\* A hook puts a viewer beside a terminal, never without one.
LEMMA CoreForgets ==
  ASSUME WholeInv, ForgottenInv, Core PROVE ForgottenInv'
<1>1. UNCHANGED disposed
  BY DEF Core
<1>2. UNCHANGED layout \/ \E s \in Sessions : layout' = EnsureViewer(layout, s) /\ layout' # layout
  BY DEF Core, Exit, Coordinate, Write
<1>3. ASSUME NEW s \in Sessions, layout' = EnsureViewer(layout, s), layout' # layout PROVE ForgottenInv'
  <2>1. PICK p : p \in InActiveTab(layout, s)
    BY <1>3 DEF EnsureViewer
  <2>2. Leaf(s) \in PanesOf(layout)
    BY <2>1, PanesFacts DEF InActiveTab
  <2>3. Becomes(layout, EnsureViewer(layout, s), {Viewer(s)}) /\ Opens(layout, EnsureViewer(layout, s), {})
    BY NewFacts, EnsureViewerBecomes, OpensViewer
  <2> QED
    BY <1>1, <1>3, <2>2, <2>3, ViewerShown
<1> QED
  BY <1>1, <1>2, <1>3, SameShown

LEMMA ShowPanelForgets ==
  ASSUME WholeInv, ForgottenInv, ShowPanel PROVE ForgottenInv'
<1>1. PICK s, L : s = thread["core"].session /\ L = EnsurePanel(layout, s)
  OBVIOUS
<1>2. Step("core", "panel") /\ layout' = L /\ UNCHANGED disposed
  BY <1>1 DEF ShowPanel, Write
<1>3. s \in Sessions
  BY <1>1, <1>2, HeldFacts DEF Step
<1>4. Becomes(layout, L, {})
  BY <1>1, <1>3, NewFacts, EnsurePanelBecomes
<1>5. L = layout \/ (Leaf(s) \in PanesOf(layout) /\ Opens(layout, L, {Side("agents", s)}))
  BY <1>1, NewFacts, OpensViewer
<1>6. ASSUME Leaf(s) \in PanesOf(layout), Opens(layout, L, {Side("agents", s)}) PROVE ForgottenInv'
  <2>1. \A x \in disposed : {Side("agents", s)} \cap Owned(x) = {}
    BY <1>6, PlacedKept, PanelOwned
  <2> QED
    BY <1>2, <1>4, <1>6, <2>1, PanelShown
<1> QED
  BY <1>2, <1>5, <1>6, SameShown

-----------------------------------------------------------------------------
\* Starting again.

LEMMA EmptyFree == \A D : Free(Empty, D)
<1>1. PanesOf(Empty) = {} /\ PanelsOf(Empty) = {}
  BY EmptySound DEF PanelsOf, Empty
<1> QED
  BY <1>1 DEF Free

\* What is loaded is of sessions the boot found valid, and these are no longer forgotten.
LEMMA LoadForgets ==
  ASSUME WholeInv, ForgottenInv, Load PROVE ForgottenInv'
<1>1. PICK valid, snap, L : /\ valid = thread["boot"].ending /\ snap = thread["boot"].snap
                            /\ L = Loaded(Rows(snap.ws), snap.active, valid, fresh)
  OBVIOUS
<1>2. layout' = L /\ disposed' = disposed \ valid
  BY <1>1 DEF Load, Write
<1>3. Sound(snap) /\ IsRemap(fresh, snap)
  BY <1>1, LoadIs
<1>4. \A y \in PanesOf(L) : y.session \in valid
  BY <1>1, <1>2, LoadIs
<1>5. \A x \in PanelsOf(L) : x = Nothing \/ x.session = Nothing \/ x.session \in valid
  BY <1>1, <1>3, LoadedSides
<1>6. ASSUME NEW s \in disposed'
      PROVE  PanesOf(L) \cap {Leaf(s), Viewer(s)} = {} /\ PanelsOf(L) \cap Owned(s) = {}
  <2>1. s \in Sessions /\ s \notin valid /\ s # Nothing
    BY <1>2, LayoutAssumption DEF ForgottenInv
  <2>2. \A x \in Owned(s) : x.session = s /\ x # Nothing
    BY <2>1, LayoutAssumption DEF Owned, Side
  <2> QED
    BY <1>4, <1>5, <2>1, <2>2, LeafSession
<1> QED
  BY <1>2, <1>6 DEF ForgottenInv, Free

\* Every step.
LEMMA NextForgets == WholeInv /\ ForgottenInv /\ [Next]_vars => ForgottenInv'
<1> SUFFICES ASSUME WholeInv, ForgottenInv, [Next]_vars PROVE ForgottenInv'
  OBVIOUS
<1>1. CASE WindowCommand
  BY <1>1, CommandForgets
<1>2. CASE FocusFound
  BY <1>2, FocusFoundForgets
<1>3. CASE PlaceInTab
  BY <1>3, PlaceInTabForgets
<1>4. CASE PlaceInWorkspace \/ EndClosed
  BY <1>4, PlaceInWorkspaceForgets, SameShown DEF EndClosed
<1>5. CASE Core
  BY <1>5, CoreForgets
<1>6. CASE ShowPanel
  BY <1>6, ShowPanelForgets
<1>7. CASE \E t \in {"main", "core"} : FindPane(t) \/ CloseFound(t) \/ CloseSides(t)
  <2>1. \A t \in {"main", "core"} : FindPane(t) => ForgottenInv'
    BY SameShown DEF FindPane
  <2> QED
    BY <1>7, <2>1, CloseFoundForgets, CloseSidesForgets
<1>8. CASE \E t \in Threads : Snapshot(t) \/ SaveRows(t) \/ SaveActive(t)
  BY <1>8, SameShown DEF Snapshot, SaveRows, SaveActive
<1>9. CASE Restart
  <2>1. layout' = Empty /\ disposed' = disposed
    BY <1>9 DEF Restart
  <2> QED
    BY <2>1, EmptyFree DEF ForgottenInv
<1>10. CASE Resume \/ ReadStored \/ MarkReady
  BY <1>10, SameShown DEF Resume, ReadStored, MarkReady
<1>11. CASE Load
  BY <1>11, LoadForgets
<1>12. CASE UNCHANGED vars
  BY <1>12, SameShown DEF vars
<1> QED
  BY <1>1, <1>2, <1>3, <1>4, <1>5, <1>6, <1>7, <1>8, <1>9, <1>10, <1>11, <1>12 DEF Next

LEMMA InitForgets == Init => ForgottenInv
BY EmptyFree DEF Init, ForgottenInv

LEMMA NothingLeft == ForgottenInv => DisposedLeavesNothing
BY DEF ForgottenInv, Free, DisposedLeavesNothing, PanelsOf, Owned

\* A session the layout was told to forget has no pane and no panel of its changes, files or
\* agents, on whatever thread the others show, split, load or answer a hook meanwhile: none
\* of them opens a panel for a session that is not placed, and what is loaded is of sessions
\* the boot found valid.
THEOREM ForgottenStaysForgotten == Spec => []DisposedLeavesNothing
<1>1. Spec => []WholeInv
  BY LayoutIsWhole
<1>2. Spec => []ForgottenInv
  BY <1>1, InitForgets, NextForgets, PTL DEF Spec
<1> QED
  BY <1>2, NothingLeft, PTL
=============================================================================
