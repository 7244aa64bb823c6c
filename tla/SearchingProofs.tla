-------------------------- MODULE SearchingProofs --------------------------
(***************************************************************************)
(* Proofs about the maximizers, for every landscape of rewards, every set of   *)
(* genomes, any size of elite and population: the maximum is the best visited,     *)
(* the elite are the best visited, and the fittest genome is what is reported.       *)
(* Sorting is what std::sort promises, so the first part is about counting: the       *)
(* k-th reward in order is the one that fewer than k are below.  The elite is          *)
(* described by how many of it are as good as any given reward (AreBest), which         *)
(* sorting keeps, and which replacing the worst changes by one.  The loops that          *)
(* kill clones are recursive functions, each shown to be the loop it stands for;            *)
(* what they have left so far is described by the places it was bred at (Left,                *)
(* Cleared, InSearch).                                                                         *)
(***************************************************************************)
EXTENDS Searching, Inductions, FiniteSetTheorems, FunctionTheorems

-----------------------------------------------------------------------------
(* Counting                                                                  *)

\* the numbers up to n are n
LEMMA NumbersUpTo ==
    ASSUME NEW n \in Nat
    PROVE  IsFiniteSet(1 .. n) /\ Cardinality(1 .. n) = n
BY FS_Interval

\* a part of a finite set is no larger, and as large only if it is the whole
LEMMA Parts ==
    ASSUME NEW S, IsFiniteSet(S), NEW T, T \subseteq S
    PROVE  /\ IsFiniteSet(T) /\ Cardinality(T) \in Nat /\ Cardinality(S) \in Nat
           /\ Cardinality(T) <= Cardinality(S) /\ (Cardinality(S) = Cardinality(T) => S = T)
BY FS_Subset, FS_CardinalityType

\* sets without a common element count together
LEMMA Disjoint ==
    ASSUME NEW S, IsFiniteSet(S), NEW T, IsFiniteSet(T), S \cap T = {}
    PROVE  /\ IsFiniteSet(S \cup T)
           /\ Cardinality(S \cup T) = Cardinality(S) + Cardinality(T)
<1>1. IsFiniteSet(S \cup T)
  BY FS_Union
<1>2. Cardinality(S \cup T) = Cardinality(S) + Cardinality(T) - Cardinality(S \cap T)
  BY FS_Union
<1>3. Cardinality(S \cap T) = 0
  BY FS_EmptySet
<1>4. Cardinality(S) \in Nat /\ Cardinality(T) \in Nat
  BY FS_CardinalityType
<1> QED
  BY <1>1, <1>2, <1>3, <1>4

-----------------------------------------------------------------------------
(* Sorting: the indices of a population                                       *)

\* before is a strict linear order of the numbers up to n
Linear(n, before) ==
    /\ \A i \in 1 .. n : <<i, i>> \notin before
    /\ \A i, j \in 1 .. n : i # j => <<i, j>> \in before \/ <<j, i>> \in before
    /\ \A i, j, k \in 1 .. n : <<i, j>> \in before /\ <<j, k>> \in before => <<i, k>> \in before

\* what precedes i is a part of what precedes a later j
LEMMA PredGrows ==
    ASSUME NEW n \in Nat, NEW before, Linear(n, before), NEW i \in 1 .. n
    PROVE  /\ Cardinality(Pred(n, before, i)) \in 0 .. n - 1
           /\ \A j \in 1 .. n : <<i, j>> \in before =>
                 Cardinality(Pred(n, before, i)) < Cardinality(Pred(n, before, j))
<1>1. IsFiniteSet(1 .. n) /\ Cardinality(1 .. n) = n
  BY FS_Interval
<1>2. ASSUME NEW k \in 1 .. n
      PROVE  /\ IsFiniteSet(Pred(n, before, k)) /\ Cardinality(Pred(n, before, k)) \in Nat
             /\ IsFiniteSet(Pred(n, before, k) \cup {k})
             /\ Cardinality(Pred(n, before, k) \cup {k}) = Cardinality(Pred(n, before, k)) + 1
  <2>1. Pred(n, before, k) \in SUBSET (1 .. n) /\ k \notin Pred(n, before, k)
    BY DEF Pred, Linear
  <2> QED
    BY <1>1, <2>1, FS_Subset, FS_AddElement, FS_CardinalityType
<1>3. Cardinality(Pred(n, before, i) \cup {i}) <= n
  <2>1. Pred(n, before, i) \cup {i} \in SUBSET (1 .. n)
    BY DEF Pred
  <2> QED
    BY <1>1, <2>1, FS_Subset
<1>4. ASSUME NEW j \in 1 .. n, <<i, j>> \in before
      PROVE  Cardinality(Pred(n, before, i) \cup {i}) <= Cardinality(Pred(n, before, j))
  <2>1. Pred(n, before, i) \cup {i} \in SUBSET Pred(n, before, j)
    BY <1>4 DEF Pred, Linear
  <2> QED
    BY <1>2, <2>1, FS_Subset
<1>5. Cardinality(Pred(n, before, i)) \in 0 .. n - 1
  BY <1>2, <1>3
<1>6. ASSUME NEW j \in 1 .. n, <<i, j>> \in before
      PROVE  Cardinality(Pred(n, before, i)) < Cardinality(Pred(n, before, j))
  <2>1. Cardinality(Pred(n, before, i)) + 1 <= Cardinality(Pred(n, before, j))
    BY <1>2, <1>4, <1>6
  <2>2. Cardinality(Pred(n, before, i)) \in Nat /\ Cardinality(Pred(n, before, j)) \in Nat
    BY <1>2
  <2> QED
    BY <2>1, <2>2
<1> QED
  BY <1>5, <1>6

\* std::sort puts every number in one place, and the first before all others
LEMMA OrderingIsRight ==
    ASSUME NEW n \in Nat, NEW before, Linear(n, before)
    PROVE  /\ Ordering(n, before) \in [1 .. n -> 1 .. n]
           /\ \A j \in 1 .. n : j = Ordering(n, before)[1] \/ <<Ordering(n, before)[1], j>> \in before
<1> DEFINE place == [i \in 1 .. n |-> Cardinality(Pred(n, before, i)) + 1]
<1>1. place \in [1 .. n -> 1 .. n]
  BY PredGrows
<1>2. ASSUME NEW i \in 1 .. n, NEW j \in 1 .. n, i # j PROVE place[i] # place[j]
  <2>1. <<i, j>> \in before \/ <<j, i>> \in before
    BY <1>2 DEF Linear
  <2> QED
    BY <2>1, PredGrows
<1>3. place \in Surjection(1 .. n, 1 .. n)
  <2>1. place \in Injection(1 .. n, 1 .. n)
    BY <1>1, <1>2, Fun_IsInj
  <2> QED
    BY <2>1, FS_Injection, FS_Interval
<1>4. \A k \in 1 .. n : \E i \in 1 .. n : place[i] = k
  BY <1>3 DEF Surjection
<1>5. ASSUME NEW k \in 1 .. n
      PROVE  /\ Ordering(n, before)[k] \in 1 .. n
             /\ Cardinality(Pred(n, before, Ordering(n, before)[k])) = k - 1
  <2>1. \E i \in 1 .. n : Cardinality(Pred(n, before, i)) = k - 1
    BY <1>4, PredGrows
  <2> QED
    BY <2>1 DEF Ordering
<1>6. ASSUME NEW j \in 1 .. n, j # Ordering(n, before)[1]
      PROVE  <<Ordering(n, before)[1], j>> \in before
  <2>1. 1 \in 1 .. n
    OBVIOUS
  <2>2. <<j, Ordering(n, before)[1]>> \notin before
    BY <1>5, <2>1, PredGrows
  <2> QED
    BY <1>5, <1>6, <2>1, <2>2 DEF Linear
<1> QED
  BY <1>5, <1>6 DEF Ordering

-----------------------------------------------------------------------------
(* Sorting: rewards                                                           *)

\* a sequence of rewards is a function on the numbers up to its length
LEMMA RewardsTypes ==
    ASSUME NEW s \in Seq(Nat)
    PROVE  /\ Len(s) \in Nat /\ DOMAIN s = 1 .. Len(s) /\ \A i \in 1 .. Len(s) : s[i] \in Nat
           /\ IsFiniteSet(DOMAIN s) /\ Cardinality(DOMAIN s) = Len(s)
<1>1. Len(s) \in Nat /\ DOMAIN s = 1 .. Len(s) /\ s \in [1 .. Len(s) -> Nat]
  BY SeqIsFunction
<1>2. IsFiniteSet(1 .. Len(s)) /\ Cardinality(1 .. Len(s)) = Len(s)
  BY <1>1, NumbersUpTo
<1> QED
  BY <1>1, <1>2

\* how many are below v
LEMMA BelowTypes ==
    ASSUME NEW s \in Seq(Nat), NEW v \in Int
    PROVE  Below(s, v) \in Nat /\ Len(s) \in Nat /\ Below(s, v) <= Len(s)
<1>1. IsFiniteSet(DOMAIN s) /\ Cardinality(DOMAIN s) = Len(s) /\ Len(s) \in Nat
  BY RewardsTypes
<1>2. {i \in DOMAIN s : s[i] < v} \subseteq DOMAIN s
  OBVIOUS
<1> QED
  BY <1>1, <1>2, Parts DEF Below

\* ... grows with v
LEMMA BelowGrows ==
    ASSUME NEW s \in Seq(Nat), NEW v \in Int, NEW w \in Int, v <= w
    PROVE  Below(s, v) <= Below(s, w)
<1>1. {i \in DOMAIN s : s[i] < v} \subseteq {i \in DOMAIN s : s[i] < w}
  BY RewardsTypes
<1>2. IsFiniteSet({i \in DOMAIN s : s[i] < w})
  BY RewardsTypes, Parts
<1> QED
  BY <1>1, <1>2, Parts DEF Below

\* the rewards from v on are the others
LEMMA AtLeastIsRest ==
    ASSUME NEW s \in Seq(Nat), NEW v \in Int
    PROVE  AtLeast(s, v) = Len(s) - Below(s, v)
<1> DEFINE low == {i \in DOMAIN s : s[i] < v}
           high == {i \in DOMAIN s : s[i] >= v}
<1>1. IsFiniteSet(DOMAIN s) /\ Cardinality(DOMAIN s) = Len(s)
  BY RewardsTypes
<1>2. \A i \in DOMAIN s : s[i] < v <=> ~(s[i] >= v)
  <2>1. \A i \in DOMAIN s : s[i] \in Nat
    BY RewardsTypes
  <2> QED
    BY <2>1
<1>3. low \cup high = DOMAIN s /\ low \cap high = {}
  BY <1>2
<1> HIDE DEF low, high
<1>4. low \subseteq DOMAIN s /\ high \subseteq DOMAIN s
  BY <1>3
<1>5. IsFiniteSet(low) /\ IsFiniteSet(high) /\ Cardinality(low) \in Nat /\ Cardinality(high) \in Nat
  BY <1>1, <1>4, Parts
<1>6. Len(s) = Cardinality(low) + Cardinality(high)
  BY <1>1, <1>3, <1>5, Disjoint
<1>7. Cardinality(high) = Len(s) - Cardinality(low)
  BY <1>5, <1>6
<1> QED
  BY <1>7 DEF AtLeast, Below, low, high

\* rewards have a bound
LEMMA RewardsBounded ==
    ASSUME NEW s \in Seq(Nat)
    PROVE  \E b \in Nat : \A i \in DOMAIN s : s[i] < b
<1> DEFINE T == {m \in 0 .. Len(s) : \E b \in Nat : \A i \in 1 .. m : s[i] < b}
<1>0. Len(s) \in Nat /\ DOMAIN s = 1 .. Len(s) /\ \A i \in 1 .. Len(s) : s[i] \in Nat
  BY RewardsTypes
<1>1. 0 \in T
  BY <1>0
<1>2. ASSUME NEW m \in 0 .. Len(s) - 1, m \in T PROVE m + 1 \in T
  <2>1. PICK b \in Nat : \A i \in 1 .. m : s[i] < b
    BY <1>2
  <2>2. m + 1 \in 1 .. Len(s)
    BY <1>0
  <2> DEFINE c == IF s[m + 1] < b THEN b ELSE s[m + 1] + 1
  <2>3. c \in Nat /\ \A i \in 1 .. m + 1 : s[i] < c
    <3>1. s[m + 1] \in Nat
      BY <1>0, <2>2
    <3>2. c \in Nat /\ b <= c /\ s[m + 1] < c
      BY <3>1
    <3> HIDE DEF c
    <3>3. ASSUME NEW i \in 1 .. m + 1 PROVE s[i] < c
      <4>1. i = m + 1 \/ i \in 1 .. m
        OBVIOUS
      <4>2. CASE i \in 1 .. m
        <5>1. s[i] < b /\ i \in 1 .. Len(s)
          BY <1>0, <2>1, <4>2
        <5>2. s[i] \in Nat
          BY <1>0, <5>1
        <5> QED
          BY <3>2, <5>1, <5>2
      <4> QED
        BY <3>2, <4>1, <4>2
    <3> QED
      BY <3>2, <3>3
  <2>4. \E d \in Nat : \A i \in 1 .. m + 1 : s[i] < d
    <3> HIDE DEF c
    <3> QED
      BY <2>3
  <2>5. m + 1 \in 0 .. Len(s)
    BY <1>0
  <2> QED
    BY <2>4, <2>5
<1>3. \A m \in 0 .. Len(s) : m \in T
  <2> HIDE DEF T
  <2> QED
    BY <1>0, <1>1, <1>2, UpTo
<1>4. Len(s) \in T
  <2>1. Len(s) \in 0 .. Len(s)
    BY <1>0
  <2> QED
    BY <1>3, <2>1
<1> QED
  BY <1>0, <1>4

\* the k-th reward is there
LEMMA RewardAtPlace ==
    ASSUME NEW s \in Seq(Nat), NEW k \in 1 .. Len(s)
    PROVE  \E v \in Range(s) : Below(s, v) < k /\ Below(s, v + 1) >= k
<1> DEFINE T == {u \in Nat : Below(s, u) >= k}
<1>0. Len(s) \in Nat /\ DOMAIN s = 1 .. Len(s) /\ \A i \in 1 .. Len(s) : s[i] \in Nat
  BY RewardsTypes
<1>1. T # {}
  <2>1. PICK b \in Nat : \A i \in DOMAIN s : s[i] < b
    BY RewardsBounded
  <2>2. {i \in DOMAIN s : s[i] < b} = 1 .. Len(s)
    BY <1>0, <2>1
  <2>3. Below(s, b) = Len(s)
    BY <1>0, <2>2, NumbersUpTo DEF Below
  <2> QED
    BY <1>0, <2>3
<1>2. PICK u \in Nat : Below(s, u) >= k /\ \A w \in T : u <= w
  <2>1. T \in SUBSET Nat
    OBVIOUS
  <2> QED
    BY <1>1, <2>1, LeastNumber
<1>3. u # 0
  <2>1. {i \in DOMAIN s : s[i] < 0} = {}
    BY <1>0
  <2>2. Below(s, 0) = 0
    BY <2>1, FS_EmptySet DEF Below
  <2> QED
    BY <1>0, <1>2, <2>2
<1>4. PICK v \in Nat : v + 1 = u
  BY <1>2, <1>3
<1>5. Below(s, v) \in Nat /\ Below(s, u) \in Nat
  <2>1. v \in Int /\ u \in Int
    BY <1>2
  <2> QED
    BY <2>1, BelowTypes
<1>6. Below(s, v) < k
  <2>1. v \notin T
    BY <1>2, <1>4
  <2> QED
    BY <1>0, <1>5, <2>1
<1>7. {i \in DOMAIN s : s[i] < u} # {i \in DOMAIN s : s[i] < v}
  <2>1. Below(s, u) # Below(s, v)
    BY <1>0, <1>2, <1>5, <1>6
  <2> QED
    BY <2>1 DEF Below
<1>8. PICK i \in DOMAIN s : s[i] = v
  BY <1>0, <1>2, <1>4, <1>7
<1> QED
  BY <1>2, <1>4, <1>6, <1>8 DEF Range

\* fewer than k are below w just if the k-th is not
SortedAt(s) ==
    /\ Sorted(s) \in Seq(Range(s)) /\ Len(Sorted(s)) = Len(s)
    /\ \A k \in 1 .. Len(s) : Sorted(s)[k] \in Range(s)
    /\ \A k \in 1 .. Len(s) : \A w \in Int : Sorted(s)[k] >= w <=> Below(s, w) < k

\* std::sort of rewards
LEMMA SortedIsRight ==
    ASSUME NEW s \in Seq(Nat)
    PROVE  SortedAt(s)
<1>0. Len(s) \in Nat /\ Range(s) \in SUBSET Nat
  BY RewardsTypes DEF Range
<1>1. ASSUME NEW k \in 1 .. Len(s)
      PROVE  /\ Sorted(s)[k] \in Range(s)
             /\ Below(s, Sorted(s)[k]) < k /\ Below(s, Sorted(s)[k] + 1) >= k
  BY RewardAtPlace DEF Sorted
<1>2. Sorted(s) \in [1 .. Len(s) -> Range(s)]
  BY <1>1 DEF Sorted
<1>3. Sorted(s) \in Seq(Range(s)) /\ Len(Sorted(s)) = Len(s)
  BY <1>0, <1>2, FunctionIsSeq
<1>4. ASSUME NEW k \in 1 .. Len(s), NEW w \in Int
      PROVE  Sorted(s)[k] >= w <=> Below(s, w) < k
  <2>1. PICK v \in Nat : v = Sorted(s)[k]
    BY <1>0, <1>1
  <2>2. PICK x \in Int : x = v + 1
    OBVIOUS
  <2>0. Below(s, v) < k /\ Below(s, x) >= k
    BY <1>1, <2>1, <2>2
  <2>3. Below(s, w) \in Nat /\ Below(s, v) \in Nat /\ Below(s, x) \in Nat
    <3>1. \A y \in Int : Below(s, y) \in Nat
      BY BelowTypes
    <3>2. v \in Int
      OBVIOUS
    <3> QED
      BY <3>1, <3>2
  <2>4. v >= w => Below(s, w) <= Below(s, v)
    BY BelowGrows
  <2>5. ~(v >= w) => Below(s, x) <= Below(s, w)
    BY <2>2, BelowGrows
  <2>6. v >= w <=> Below(s, w) < k
    BY <1>0, <2>0, <2>3, <2>4, <2>5
  <2> QED
    BY <2>1, <2>6
<1> QED
  BY <1>1, <1>3, <1>4 DEF SortedAt

\* sorting loses no reward
LEMMA SortedKeepsRange ==
    ASSUME NEW s \in Seq(Nat)
    PROVE  Range(Sorted(s)) = Range(s)
<1>0. Len(s) \in Nat /\ DOMAIN s = 1 .. Len(s) /\ \A i \in 1 .. Len(s) : s[i] \in Nat
  BY RewardsTypes
<1>1. SortedAt(s) /\ DOMAIN Sorted(s) = 1 .. Len(s)
  BY SortedIsRight DEF Sorted
<1>2. ASSUME NEW i \in 1 .. Len(s) PROVE \E k \in 1 .. Len(s) : Sorted(s)[k] = s[i]
  <2> DEFINE v == s[i]
             k == Below(s, v + 1)
  <2>1. v \in Nat /\ v + 1 \in Nat
    BY <1>0
  <2>2. k \in 0 .. Len(s) /\ Below(s, v) \in 0 .. Len(s) /\ Below(s, v) <= k
    <3>1. v \in Int /\ v + 1 \in Int /\ v <= v + 1
      BY <2>1
    <3>2. /\ k \in Nat /\ k <= Len(s) /\ Len(s) \in Nat
          /\ Below(s, v) \in Nat /\ Below(s, v) <= Len(s)
      BY <3>1, BelowTypes
    <3>3. Below(s, v) <= k
      BY <3>1, BelowGrows
    <3> QED
      BY <3>2, <3>3
  <2>3. Below(s, v) # k
    <3> DEFINE A == {j \in DOMAIN s : s[j] < v}
               B == {j \in DOMAIN s : s[j] < v + 1}
    <3>1. A \in SUBSET B /\ i \in B /\ i \notin A
      BY <1>0, <2>1
    <3>2. IsFiniteSet(B)
      BY RewardsTypes, Parts
    <3>3. Cardinality(A) # Cardinality(B)
      <4> HIDE DEF A, B
      <4> QED
        BY <3>1, <3>2, FS_Subset
    <3> QED
      BY <3>3 DEF Below
  <2>4. k \in 1 .. Len(s) /\ Below(s, v) < k
    BY <1>0, <2>2, <2>3
  <2>5. Sorted(s)[k] >= v /\ ~(Sorted(s)[k] >= v + 1) /\ Sorted(s)[k] \in Range(s)
    <3> HIDE DEF k, v
    <3>1. ~(k < k)
      BY <2>4
    <3> QED
      BY <1>1, <2>1, <2>4, <3>1 DEF SortedAt, k
  <2>6. Sorted(s)[k] \in Nat
    BY <1>0, <2>5 DEF Range
  <2>7. Sorted(s)[k] = v
    <3> HIDE DEF k, v
    <3> QED
      BY <2>1, <2>5, <2>6
  <2> QED
    BY <2>4, <2>7
<1>3. ASSUME NEW v \in Range(Sorted(s)) PROVE v \in Range(s)
  BY <1>1 DEF SortedAt, Range
<1>4. ASSUME NEW v \in Range(s) PROVE v \in Range(Sorted(s))
  BY <1>0, <1>1, <1>2 DEF Range
<1> QED
  BY <1>3, <1>4

\* ... nor how many there are from v on
LEMMA SortedKeepsAtLeast ==
    ASSUME NEW s \in Seq(Nat), NEW v \in Int
    PROVE  AtLeast(Sorted(s), v) = AtLeast(s, v)
<1>1. SortedAt(s) /\ Len(s) \in Nat /\ Below(s, v) \in 0 .. Len(s) /\ DOMAIN Sorted(s) = 1 .. Len(s)
  BY SortedIsRight, BelowTypes DEF Sorted
<1>2. {k \in DOMAIN Sorted(s) : Sorted(s)[k] >= v} = {k \in 1 .. Len(s) : Below(s, v) < k}
  BY <1>1 DEF SortedAt
<1>3. {k \in 1 .. Len(s) : Below(s, v) < k} = Below(s, v) + 1 .. Len(s)
  BY <1>1
<1>4. Cardinality(Below(s, v) + 1 .. Len(s)) = Len(s) - Below(s, v)
  BY <1>1, FS_Interval
<1> QED
  BY <1>2, <1>3, <1>4, AtLeastIsRest DEF AtLeast

\* and it puts the lowest first
LEMMA SortedFirstIsLowest ==
    ASSUME NEW s \in Seq(Nat), NEW k \in 1 .. Len(s)
    PROVE  Sorted(s)[1] <= Sorted(s)[k]
<1>1. SortedAt(s) /\ Len(s) \in Nat /\ 1 \in 1 .. Len(s) /\ Range(s) \in SUBSET Nat
  BY SortedIsRight, SeqIsFunction DEF Range
<1>2. PICK v \in Nat : v = Sorted(s)[1]
  BY <1>1 DEF SortedAt
<1>3. PICK w \in Nat : w = Sorted(s)[k]
  BY <1>1 DEF SortedAt
<1>4. Below(s, v) \in Nat
  <2>1. v \in Int
    OBVIOUS
  <2> QED
    BY <2>1, BelowTypes
<1>5. Below(s, v) < 1
  BY <1>1, <1>2 DEF SortedAt
<1>6. Below(s, v) < k
  BY <1>4, <1>5
<1>7. w >= v
  BY <1>1, <1>3, <1>6 DEF SortedAt
<1> QED
  BY <1>2, <1>3, <1>7

-----------------------------------------------------------------------------
(* The best points                                                            *)

\* no more are as good as v than there are
LEMMA AtLeastTypes ==
    ASSUME NEW s \in Seq(Nat), NEW v \in Int
    PROVE  AtLeast(s, v) \in Nat /\ Len(s) \in Nat /\ AtLeast(s, v) <= Len(s)
<1>1. Below(s, v) \in Nat /\ Len(s) \in Nat /\ Below(s, v) <= Len(s)
  BY BelowTypes
<1>2. AtLeast(s, v) = Len(s) - Below(s, v)
  BY AtLeastIsRest
<1> QED
  BY <1>1, <1>2

\* the rewards of two sequences count together
LEMMA AtLeastConcat ==
    ASSUME NEW s \in Seq(Nat), NEW t \in Seq(Nat), NEW v \in Int
    PROVE  AtLeast(s \o t, v) = AtLeast(s, v) + AtLeast(t, v)
<1> DEFINE m == Len(s)
           n == Len(t)
           A == {i \in 1 .. m : s[i] >= v}
           B == {i \in 1 .. n : t[i] >= v}
           C == {i \in m + 1 .. m + n : t[i - m] >= v}
           f == [i \in B |-> m + i]
<1>1. /\ m \in Nat /\ DOMAIN s = 1 .. m /\ s \in [1 .. m -> Nat]
      /\ n \in Nat /\ DOMAIN t = 1 .. n /\ t \in [1 .. n -> Nat]
  BY SeqIsFunction
<1>2. s \o t \in [1 .. m + n -> Nat] /\ Joins(s \o t, s, m, t, n)
  <2> HIDE DEF m, n
  <2> QED
    BY <1>1, ConcatIsFunction
<1>3. {i \in DOMAIN (s \o t) : (s \o t)[i] >= v} = A \cup C
  <2>1. DOMAIN (s \o t) = 1 .. m + n /\ 1 .. m + n = (1 .. m) \cup (m + 1 .. m + n)
    BY <1>1, <1>2
  <2>2. \A i \in 1 .. m : (s \o t)[i] = s[i]
    BY <1>2 DEF Joins
  <2>3. ASSUME NEW i \in m + 1 .. m + n PROVE (s \o t)[i] = t[i - m]
    <3>1. i - m \in 1 .. n /\ m + (i - m) = i
      BY <1>1
    <3>2. (s \o t)[m + (i - m)] = t[i - m]
      BY <1>2, <3>1 DEF Joins
    <3> QED
      BY <3>1, <3>2
  <2> HIDE DEF m, n
  <2> QED
    BY <2>1, <2>2, <2>3
<1>4. A \cap C = {}
  BY <1>1
<1>5. IsFiniteSet(A) /\ IsFiniteSet(B)
  <2>1. IsFiniteSet(1 .. m) /\ IsFiniteSet(1 .. n)
    BY <1>1, NumbersUpTo
  <2>2. A \subseteq 1 .. m /\ B \subseteq 1 .. n
    OBVIOUS
  <2> HIDE DEF A, B, m, n
  <2> QED
    BY <2>1, <2>2, Parts
<1>6. IsFiniteSet(C) /\ Cardinality(C) = Cardinality(B)
  <2>1. f \in [B -> C]
    BY <1>1
  <2>2. \A a, b \in B : f[a] = f[b] => a = b
    BY <1>1
  <2>3. ASSUME NEW c \in C PROVE \E b \in B : f[b] = c
    <3>1. c - m \in B /\ m + (c - m) = c
      BY <1>1
    <3> QED
      BY <3>1
  <2> HIDE DEF f, B, C
  <2>4. f \in Bijection(B, C)
    BY <2>1, <2>2, <2>3, Fun_IsBij
  <2> QED
    BY <1>5, <2>4, FS_Bijection DEF ExistsBijection
<1>7. Cardinality(A \cup C) = Cardinality(A) + Cardinality(C)
  <2> HIDE DEF A, C
  <2> QED
    BY <1>4, <1>5, <1>6, Disjoint
<1>8. AtLeast(s, v) = Cardinality(A) /\ AtLeast(t, v) = Cardinality(B)
  BY <1>1 DEF AtLeast
<1>9. AtLeast(s \o t, v) = Cardinality(A \cup C)
  BY <1>3 DEF AtLeast
<1> QED
  <2> HIDE DEF A, B, C
  <2> QED
    BY <1>6, <1>7, <1>8, <1>9

One(x, v) == IF x >= v THEN 1 ELSE 0

\* one more reward counts if it is as good as v
LEMMA AtLeastAppend ==
    ASSUME NEW s \in Seq(Nat), NEW x \in Nat, NEW v \in Int
    PROVE  Append(s, x) \in Seq(Nat) /\ AtLeast(Append(s, x), v) = AtLeast(s, v) + One(x, v)
<1>1. Append(s, x) = s \o <<x>> /\ <<x>> \in Seq(Nat)
  BY AppendIsConcat
<1>2. {i \in DOMAIN <<x>> : <<x>>[i] >= v} = IF x >= v THEN {1} ELSE {}
  OBVIOUS
<1>3. AtLeast(<<x>>, v) = One(x, v)
  BY <1>2, FS_EmptySet, FS_Singleton DEF AtLeast, One
<1> QED
  <2>1. AtLeast(s \o <<x>>, v) = AtLeast(s, v) + AtLeast(<<x>>, v)
    BY <1>1, AtLeastConcat
  <2>2. Append(s, x) \in Seq(Nat)
    BY AppendProperties
  <2> QED
    BY <1>1, <1>3, <2>1, <2>2

\* what replaces the first
LEMMA AtLeastReplaced ==
    ASSUME NEW s \in Seq(Nat), Len(s) >= 1, NEW x \in Nat, NEW v \in Int
    PROVE  /\ [s EXCEPT ![1] = x] \in Seq(Nat) /\ Len([s EXCEPT ![1] = x]) = Len(s)
           /\ AtLeast([s EXCEPT ![1] = x], v) = AtLeast(s, v) - One(s[1], v) + One(x, v)
<1> DEFINE t == [s EXCEPT ![1] = x]
           D == {i \in 2 .. Len(s) : s[i] >= v}
<1>1. Len(s) \in Nat /\ DOMAIN s = 1 .. Len(s) /\ s \in [1 .. Len(s) -> Nat]
  BY SeqIsFunction
<1>2. t \in [1 .. Len(s) -> Nat] /\ t[1] = x /\ \A i \in 2 .. Len(s) : t[i] = s[i]
  BY <1>1
<1>3. t \in Seq(Nat) /\ Len(t) = Len(s)
  <2> HIDE DEF t
  <2> QED
    BY <1>1, <1>2, FunctionIsSeq
<1>4. IsFiniteSet(D) /\ 1 \notin D /\ Cardinality(D) \in Nat
  <2>1. D \subseteq 1 .. Len(s) /\ IsFiniteSet(1 .. Len(s))
    BY <1>1, NumbersUpTo
  <2> QED
    BY <2>1, Parts
<1>5. Cardinality(D \cup {1}) = Cardinality(D) + 1
  BY <1>4, FS_AddElement
<1>6. ASSUME NEW r \in [1 .. Len(s) -> Nat], \A i \in 2 .. Len(s) : r[i] = s[i]
      PROVE  AtLeast(r, v) = Cardinality(D) + One(r[1], v)
  <2>1. {i \in DOMAIN r : r[i] >= v} = IF r[1] >= v THEN D \cup {1} ELSE D
    BY <1>1, <1>6
  <2> HIDE DEF D
  <2>2. AtLeast(r, v) = Cardinality(IF r[1] >= v THEN D \cup {1} ELSE D)
    BY <2>1 DEF AtLeast
  <2> QED
    BY <1>4, <1>5, <2>2 DEF One
<1>7. AtLeast(t, v) = Cardinality(D) + One(x, v) /\ AtLeast(s, v) = Cardinality(D) + One(s[1], v)
  <2> HIDE DEF t, D
  <2> QED
    BY <1>1, <1>2, <1>6
<1>8. AtLeast(t, v) = AtLeast(s, v) - One(s[1], v) + One(x, v)
  <2> HIDE DEF t, D
  <2> QED
    BY <1>4, <1>7 DEF One
<1> QED
  BY <1>3, <1>8

\* sorting stays within a set of rewards
LEMMA SortedWithin ==
    ASSUME NEW S \in SUBSET Nat, NEW s \in Seq(S)
    PROVE  /\ s \in Seq(Nat) /\ Sorted(s) \in Seq(S) /\ Sorted(s) \in Seq(Nat)
           /\ Len(Sorted(s)) = Len(s)
<1>1. Len(s) \in Nat /\ s \in [1 .. Len(s) -> S]
  BY SeqIsFunction
<1>2. s \in [1 .. Len(s) -> Nat]
  BY <1>1
<1>3. s \in Seq(Nat)
  BY <1>1, <1>2, FunctionIsSeq
<1>4. SortedAt(s) /\ Range(s) \subseteq S
  BY <1>1, <1>3, SortedIsRight DEF Range
<1>5. Sorted(s) \in [1 .. Len(s) -> S]
  BY <1>4 DEF SortedAt, Sorted
<1>6. Sorted(s) \in [1 .. Len(s) -> Nat]
  BY <1>5
<1> QED
  BY <1>1, <1>3, <1>5, <1>6, FunctionIsSeq

LowestFirst(s) == \A i \in DOMAIN s : s[1] <= s[i]

\* so does all that is sorted
LEMMA SortedStartsLowest ==
    ASSUME NEW s \in Seq(Nat)
    PROVE  LowestFirst(Sorted(s))
<1>1. DOMAIN Sorted(s) = 1 .. Len(s)
  BY DEF Sorted
<1> QED
  BY <1>1, SortedFirstIsLowest DEF LowestFirst

\* all are as good as the worst
LEMMA LowestCounts ==
    ASSUME NEW s \in Seq(Nat), LowestFirst(s), Len(s) >= 1, NEW v \in Int
    PROVE  /\ s[1] \in Nat
           /\ s[1] >= v => AtLeast(s, v) = Len(s)
           /\ ~(s[1] >= v) => AtLeast(s, v) < Len(s)
<1>1. Len(s) \in Nat /\ DOMAIN s = 1 .. Len(s) /\ \A i \in 1 .. Len(s) : s[i] \in Nat
  BY RewardsTypes
<1>2. IsFiniteSet(1 .. Len(s)) /\ Cardinality(1 .. Len(s)) = Len(s)
  BY <1>1, NumbersUpTo
<1> DEFINE A == {i \in DOMAIN s : s[i] >= v}
<1>3. 1 \in DOMAIN s /\ s[1] \in Nat
  BY <1>1
<1>4. s[1] >= v => A = 1 .. Len(s)
  BY <1>1, <1>3 DEF LowestFirst
<1>5. ~(s[1] >= v) => A # 1 .. Len(s)
  BY <1>1, <1>3
<1>6. A \subseteq 1 .. Len(s)
  BY <1>1
<1>7. AtLeast(s, v) = Cardinality(A)
  BY DEF AtLeast
<1> HIDE DEF A
<1>8. Cardinality(A) \in Nat /\ Cardinality(A) <= Len(s) /\ (Cardinality(A) = Len(s) => A = 1 .. Len(s))
  BY <1>2, <1>6, Parts
<1> QED
  BY <1>1, <1>2, <1>3, <1>4, <1>5, <1>7, <1>8

\* the lesser of two
LEMMA LeastOfTwo ==
    ASSUME NEW a \in Int, NEW b \in Int
    PROVE  Min({a, b}) = IF a <= b THEN a ELSE b
BY DEF Min

\* The best K of what has been seen, a of which are as good as v.
AreBest(s, v, a) == AtLeast(s, v) = IF K <= a THEN K ELSE a

\* One more is seen.
LEMMA KeptTypes ==
    ASSUME NEW S \in SUBSET Nat, NEW s \in Seq(S), LowestFirst(s), Len(s) <= K, NEW x \in S
    PROVE  Kept(s, x) \in Seq(S) /\ LowestFirst(Kept(s, x)) /\ Len(Kept(s, x)) <= K
<1>1. Len(s) \in Nat /\ K \in Nat \ {0} /\ s \in Seq(Nat)
  BY SeqIsFunction, SortedWithin, SearchingAssumption
<1>2. CASE Len(s) < K
  <2>1. Append(s, x) \in Seq(S) /\ Len(Append(s, x)) = Len(s) + 1
    BY AppendProperties
  <2>2. Kept(s, x) = Sorted(Append(s, x))
    BY <1>2 DEF Kept
  <2>3. Append(s, x) \in Seq(Nat) /\ Sorted(Append(s, x)) \in Seq(S)
        /\ Len(Sorted(Append(s, x))) = Len(s) + 1
    BY <2>1, SortedWithin
  <2>4. LowestFirst(Sorted(Append(s, x)))
    BY <2>3, SortedStartsLowest
  <2> QED
    BY <1>1, <1>2, <2>2, <2>3, <2>4
<1>3. CASE ~(Len(s) < K) /\ x > s[1]
  <2> DEFINE t == [s EXCEPT ![1] = x]
  <2>1. s \in [1 .. Len(s) -> S]
    BY SeqIsFunction
  <2>2. t \in [1 .. Len(s) -> S]
    BY <2>1
  <2>3. Kept(s, x) = Sorted(t)
    BY <1>3 DEF Kept
  <2> HIDE DEF t
  <2>4. t \in Seq(S) /\ Len(t) = Len(s)
    BY <1>1, <2>2, FunctionIsSeq
  <2> QED
    BY <2>3, <2>4, SortedWithin, SortedStartsLowest
<1>4. CASE ~(Len(s) < K) /\ ~(x > s[1])
  BY <1>4 DEF Kept
<1> QED
  BY <1>2, <1>3, <1>4

\* What is kept are the K best of what has been seen and this one.
LEMMA KeptAreBest ==
    ASSUME NEW s \in Seq(Nat), LowestFirst(s), Len(s) <= K, NEW x \in Nat,
           NEW v \in Int, NEW a \in Nat, AreBest(s, v, a)
    PROVE  AreBest(Kept(s, x), v, a + One(x, v))
<1>1. K \in Nat \ {0} /\ Len(s) \in Nat /\ AtLeast(s, v) \in Nat /\ AtLeast(s, v) <= Len(s)
  BY AtLeastTypes, SearchingAssumption
<1>2. AtLeast(s, v) = IF K <= a THEN K ELSE a
  BY DEF AreBest
<1>3. CASE Len(s) < K
  <2>1. Kept(s, x) = Sorted(Append(s, x))
    BY <1>3 DEF Kept
  <2>2. AtLeast(Kept(s, x), v) = AtLeast(s, v) + One(x, v)
    <3>1. Append(s, x) \in Seq(Nat) /\ AtLeast(Append(s, x), v) = AtLeast(s, v) + One(x, v)
      BY AtLeastAppend
    <3>2. AtLeast(Sorted(Append(s, x)), v) = AtLeast(Append(s, x), v)
      BY <3>1, SortedKeepsAtLeast
    <3> QED
      BY <2>1, <3>1, <3>2
  <2> QED
    BY <1>1, <1>2, <1>3, <2>2 DEF AreBest, One
<1>4. CASE Len(s) = K
  <2>1. /\ s[1] \in Nat
        /\ s[1] >= v => AtLeast(s, v) = K
        /\ ~(s[1] >= v) => AtLeast(s, v) < K
    BY <1>1, <1>4, LowestCounts
  <2>2. CASE x > s[1]
    <3>1. Kept(s, x) = Sorted([s EXCEPT ![1] = x])
      BY <1>1, <1>4, <2>2 DEF Kept
    <3>2. AtLeast(Kept(s, x), v) = AtLeast(s, v) - One(s[1], v) + One(x, v)
      <4> DEFINE t == [s EXCEPT ![1] = x]
      <4>1. t \in Seq(Nat) /\ AtLeast(t, v) = AtLeast(s, v) - One(s[1], v) + One(x, v)
        <5>1. Len(s) >= 1
          BY <1>1, <1>4
        <5> QED
          BY <5>1, AtLeastReplaced
      <4> HIDE DEF t
      <4>2. AtLeast(Sorted(t), v) = AtLeast(t, v)
        BY <4>1, SortedKeepsAtLeast
      <4> QED
        BY <3>1, <4>1, <4>2 DEF t
    <3> QED
      BY <1>1, <1>2, <2>1, <2>2, <3>2 DEF AreBest, One
  <2>3. CASE ~(x > s[1])
    <3>1. Kept(s, x) = s
      BY <1>1, <1>4, <2>3 DEF Kept
    <3> QED
      BY <1>1, <1>2, <2>1, <2>3, <3>1 DEF AreBest, One
  <2> QED
    BY <2>2, <2>3
<1> QED
  BY <1>1, <1>3, <1>4

\* The best are filled up to K.
LEMMA FilledUp ==
    ASSUME NEW S \in SUBSET Nat, NEW s \in Seq(S), Len(s) <= K, NEW more \in [1 .. K - Len(s) -> S]
    PROVE  /\ more \in Seq(S) /\ s \o more \in Seq(S) /\ Sorted(s \o more) \in Seq(S)
           /\ LowestFirst(Sorted(s \o more)) /\ Len(Sorted(s \o more)) <= K
           /\ \A v \in Int : \A a \in Nat :
                 AreBest(s, v, a) => AreBest(Sorted(s \o more), v, a + AtLeast(more, v))
<1>1. K \in Nat /\ Len(s) \in Nat /\ K - Len(s) \in Nat /\ s \in Seq(Nat)
  BY SeqIsFunction, SortedWithin, SearchingAssumption
<1>2. more \in Seq(S) /\ Len(more) = K - Len(s)
  BY <1>1, FunctionIsSeq
<1>3. s \o more \in Seq(S) /\ Len(s \o more) = K /\ more \in Seq(Nat)
  <2>1. s \o more \in Seq(S) /\ Len(s \o more) = Len(s) + Len(more)
    BY <1>2, ConcatProperties
  <2>2. more \in Seq(Nat)
    BY <1>2, SortedWithin
  <2> QED
    BY <1>1, <1>2, <2>1, <2>2
<1>4. Sorted(s \o more) \in Seq(S) /\ Len(Sorted(s \o more)) = K /\ s \o more \in Seq(Nat)
  BY <1>3, SortedWithin
<1>5. LowestFirst(Sorted(s \o more))
  BY <1>4, SortedStartsLowest
<1>6. ASSUME NEW v \in Int, NEW a \in Nat, AreBest(s, v, a)
      PROVE  AreBest(Sorted(s \o more), v, a + AtLeast(more, v))
  <2>1. AtLeast(Sorted(s \o more), v) = AtLeast(s, v) + AtLeast(more, v)
    <3>1. AtLeast(Sorted(s \o more), v) = AtLeast(s \o more, v)
      BY <1>4, SortedKeepsAtLeast
    <3>2. AtLeast(s \o more, v) = AtLeast(s, v) + AtLeast(more, v)
      BY <1>1, <1>3, AtLeastConcat
    <3> QED
      BY <3>1, <3>2
  <2>2. /\ AtLeast(s, v) \in Nat /\ AtLeast(s, v) <= Len(s)
        /\ AtLeast(more, v) \in Nat /\ AtLeast(more, v) <= K - Len(s)
    BY <1>1, <1>2, <1>3, AtLeastTypes
  <2>3. AtLeast(s, v) = IF K <= a THEN K ELSE a
    BY <1>6 DEF AreBest
  <2> QED
    BY <1>1, <2>1, <2>2, <2>3 DEF AreBest
<1> QED
  BY <1>1, <1>2, <1>3, <1>4, <1>5, <1>6

-----------------------------------------------------------------------------
(* A generation                                                              *)

\* The fittest is one of the population, no genome of which is fitter.
LEMMA FittestIsBest ==
    ASSUME NEW pop \in Seq(Genes), Len(pop) >= 1
    PROVE  /\ Ranked(pop) \in [1 .. Len(pop) -> 1 .. Len(pop)]
           /\ Fittest(pop) \in Genes
           /\ \A g \in Range(pop) : Value[Fittest(pop)] >= Value[g]
<1> DEFINE n == Len(pop)
           worth(i) == Value[pop[i]]
<1>1. n \in Nat /\ DOMAIN pop = 1 .. n /\ \A i \in 1 .. n : pop[i] \in Genes
  BY SeqIsFunction
<1>2. \A i \in 1 .. n : worth(i) \in Nat
  BY <1>1, GeneticAssumption
<1>3. \A i, j \in 1 .. n : <<i, j>> \in Fitter(pop) <=>
        worth(i) > worth(j) \/ (worth(i) = worth(j) /\ i > j)
  BY DEF Fitter
<1>4. Linear(n, Fitter(pop))
  <2> HIDE DEF worth
  <2>1. \A i \in 1 .. n : <<i, i>> \notin Fitter(pop)
    BY <1>2, <1>3
  <2>2. \A i, j \in 1 .. n : i # j => <<i, j>> \in Fitter(pop) \/ <<j, i>> \in Fitter(pop)
    BY <1>2, <1>3
  <2>3. \A i, j, k \in 1 .. n : <<i, j>> \in Fitter(pop) /\ <<j, k>> \in Fitter(pop)
                                   => <<i, k>> \in Fitter(pop)
    BY <1>2, <1>3
  <2> QED
    BY <2>1, <2>2, <2>3 DEF Linear
<1>5. /\ Ranked(pop) \in [1 .. n -> 1 .. n]
      /\ \A j \in 1 .. n : j = Ranked(pop)[1] \/ <<Ranked(pop)[1], j>> \in Fitter(pop)
  <2> HIDE DEF worth, n
  <2>1. /\ Ordering(n, Fitter(pop)) \in [1 .. n -> 1 .. n]
        /\ \A j \in 1 .. n : j = Ordering(n, Fitter(pop))[1]
                                \/ <<Ordering(n, Fitter(pop))[1], j>> \in Fitter(pop)
    BY <1>1, <1>4, OrderingIsRight
  <2> QED
    BY <2>1 DEF Ranked, n
<1>6. PICK f \in 1 .. n : f = Ranked(pop)[1]
  <2>1. 1 \in 1 .. n
    BY <1>1
  <2> QED
    BY <1>5, <2>1
<1>7. \A j \in 1 .. n : worth(f) >= worth(j)
  <2> SUFFICES ASSUME NEW j \in 1 .. n PROVE worth(f) >= worth(j)
    OBVIOUS
  <2> HIDE DEF worth
  <2>1. worth(f) \in Nat /\ worth(j) \in Nat
    BY <1>2
  <2>2. j = f \/ <<f, j>> \in Fitter(pop)
    BY <1>5, <1>6
  <2> QED
    BY <1>3, <2>1, <2>2
<1>8. Fittest(pop) = pop[f]
  BY <1>6 DEF Fittest
<1> QED
  BY <1>1, <1>5, <1>7, <1>8 DEF Range

\* there is a pair to breed
LEMMA PairsTypes ==
    Pairs \in Nat \ {0}
<1> DEFINE a == Survivors[1]
           b == Survivors[2]
           m == PopSize * a + 2 * b - 1
           q == m \div (2 * b)
<1>1. a \in Nat /\ b \in Nat \ {0} /\ PopSize \in Nat
  BY GeneticAssumption
<1> HIDE DEF a, b
<1>2. PopSize * a \in Nat
  BY <1>1
<1>3. m \in Nat /\ 2 * b \in Nat \ {0}
  BY <1>1, <1>2
<1> HIDE DEF m
<1>4. q \in Nat
  <2> DEFINE d == 2 * b
  <2>1. d \in Nat \ {0}
    BY <1>3
  <2> HIDE DEF d
  <2>2. m \div d \in Nat
    BY <1>3, <2>1
  <2> QED
    BY <2>2 DEF d
<1> HIDE DEF q
<1>5. Max({1, q}) = IF q > 1 THEN q ELSE 1
  BY <1>4 DEF Max
<1>6. Pairs = Max({1, q})
  BY DEF Pairs, q, m, a, b
<1> QED
  BY <1>4, <1>5, <1>6

\* all pairs have two children
LEMMA BredTypes ==
    ASSUME NEW pop, NEW new \in Bred(pop)
    PROVE  new \in Seq(Genes) /\ Len(new) >= 2
<1>1. Pairs \in Nat \ {0}
  BY PairsTypes
<1>2. PICK fs \in [1 .. Pairs -> Genes \X Genes] :
        new = [i \in 1 .. 2 * Pairs |-> fs[(i + 1) \div 2][IF i % 2 = 1 THEN 1 ELSE 2]]
  BY DEF Bred
<1>3. ASSUME NEW i \in 1 .. 2 * Pairs
      PROVE  fs[(i + 1) \div 2][IF i % 2 = 1 THEN 1 ELSE 2] \in Genes
  <2>1. (i + 1) \div 2 \in 1 .. Pairs
    BY <1>1
  <2>2. fs[(i + 1) \div 2] \in Genes \X Genes
    BY <1>2, <2>1
  <2> QED
    BY <2>2
<1>4. new \in [1 .. 2 * Pairs -> Genes]
  BY <1>2, <1>3
<1>5. 2 * Pairs \in Nat /\ 2 * Pairs >= 2
  BY <1>1
<1> QED
  BY <1>4, <1>5, FunctionIsSeq

-----------------------------------------------------------------------------
(* The loops that kill clones                                                 *)

\* r is s without its j-th element.
IsWithout(r, s, j) == \A k \in 1 .. Len(s) - 1 : r[k] = IF k < j THEN s[k] ELSE s[k + 1]

\* Kill moves those behind up by one
LEMMA Removed ==
    ASSUME NEW S, NEW s \in Seq(S), NEW j \in 1 .. Len(s)
    PROVE  /\ RemoveAt(s, j) \in Seq(S) /\ Len(RemoveAt(s, j)) = Len(s) - 1
           /\ IsWithout(RemoveAt(s, j), s, j)
<1> DEFINE n == Len(s)
           a == SubSeq(s, 1, j - 1)
           b == SubSeq(s, j + 1, n)
<1>1. n \in Nat /\ \A i \in 1 .. n : s[i] \in S
  BY SeqIsFunction
<1>2. /\ a \in Seq(S) /\ Len(a) = j - 1 /\ \A k \in 1 .. j - 1 : a[k] = s[k]
  <2>1. j - 1 \in Int /\ 1 \in Int /\ \A k \in 1 .. j - 1 : s[k] \in S
    BY <1>1
  <2>2. /\ a \in Seq(S) /\ Len(a) = IF 1 <= j - 1 THEN (j - 1) - 1 + 1 ELSE 0
        /\ \A k \in 1 .. (j - 1) - 1 + 1 : a[k] = s[1 + k - 1]
    <3> HIDE DEF n
    <3> QED
      BY <2>1, SubSeqProperties
  <2> HIDE DEF a, b, n
  <2>3. Len(a) = j - 1 /\ (j - 1) - 1 + 1 = j - 1
    BY <1>1, <2>2
  <2>4. \A k \in 1 .. j - 1 : 1 + k - 1 = k
    BY <1>1
  <2> QED
    BY <2>2, <2>3, <2>4
<1>3. /\ b \in Seq(S) /\ Len(b) = n - j /\ \A k \in 1 .. n - j : b[k] = s[j + k]
  <2>1. j + 1 \in Int /\ n \in Int /\ \A k \in j + 1 .. n : s[k] \in S
    BY <1>1
  <2>2. /\ b \in Seq(S) /\ Len(b) = IF j + 1 <= n THEN n - (j + 1) + 1 ELSE 0
        /\ \A k \in 1 .. n - (j + 1) + 1 : b[k] = s[(j + 1) + k - 1]
    <3> HIDE DEF n
    <3> QED
      BY <2>1, SubSeqProperties
  <2> HIDE DEF a, b, n
  <2>5. n \in Nat /\ j \in 1 .. n
    BY <1>1 DEF n
  <2>3. Len(b) = n - j /\ n - (j + 1) + 1 = n - j
    BY <2>2, <2>5
  <2>4. \A k \in 1 .. n - j : (j + 1) + k - 1 = j + k
    BY <1>1
  <2> QED
    BY <2>2, <2>3, <2>4
<1>4. RemoveAt(s, j) = a \o b
  BY DEF RemoveAt
<1> HIDE DEF a, b
<1>5. /\ a \o b \in Seq(S) /\ Len(a \o b) = Len(a) + Len(b)
      /\ \A k \in 1 .. Len(a) + Len(b) : (a \o b)[k] = IF k <= Len(a) THEN a[k] ELSE b[k - Len(a)]
  BY <1>2, <1>3, ConcatProperties
<1>6. Len(a) + Len(b) = n - 1
  BY <1>1, <1>2, <1>3
<1>7. ASSUME NEW k \in 1 .. n - 1 PROVE (a \o b)[k] = IF k < j THEN s[k] ELSE s[k + 1]
  <2>1. CASE k < j
    BY <1>1, <1>2, <1>5, <1>6, <2>1
  <2>2. CASE ~(k < j)
    <3>1. k - (j - 1) \in 1 .. n - j /\ j + (k - (j - 1)) = k + 1 /\ ~(k <= j - 1)
      BY <1>1, <2>2
    <3>2. (a \o b)[k] = b[k - (j - 1)]
      BY <1>2, <1>5, <1>6, <3>1
    <3> QED
      BY <1>3, <2>2, <3>1, <3>2
  <2> QED
    BY <2>1, <2>2
<1> QED
  BY <1>4, <1>5, <1>6, <1>7 DEF IsWithout

\* the states of the loop over j
Searches(i) == {s \in [j : Nat, clones : Nat, pop : Seq(Genes)] : i < s.j /\ i <= Len(s.pop)}

\* the loop over j stays behind i, and leaves i in the population
LEMMA SearchedTypes ==
    ASSUME NEW i \in Nat, NEW s \in Searches(i)
    PROVE  Searched(i, s) \in Searches(i)
<1>1. s.j \in Nat /\ s.clones \in Nat /\ s.pop \in Seq(Genes) /\ i < s.j /\ i <= Len(s.pop)
  BY DEF Searches
<1>2. CASE s.j <= Len(s.pop)
  <2>1. s.j \in 1 .. Len(s.pop) /\ Len(s.pop) \in Nat
    BY <1>1, <1>2, SeqIsFunction
  <2>2. RemoveAt(s.pop, s.j) \in Seq(Genes) /\ Len(RemoveAt(s.pop, s.j)) = Len(s.pop) - 1
    BY <1>1, <2>1, Removed
  <2>3. [j |-> AfterKill(s.j), clones |-> s.clones + 1, pop |-> RemoveAt(s.pop, s.j)] \in Searches(i)
    BY <1>1, <2>1, <2>2 DEF Searches, AfterKill
  <2> DEFINE next == [s EXCEPT !.j = @ + 1]
  <2>4. next \in Searches(i) /\ [next EXCEPT !.clones = @ + 1] \in Searches(i)
    <3>1. PICK a \in Nat, b \in Nat, c \in Seq(Genes) : s = [j |-> a, clones |-> b, pop |-> c]
      BY DEF Searches
    <3>2. next = [j |-> a + 1, clones |-> b, pop |-> c]
      BY <3>1
    <3> HIDE DEF next
    <3>3. [next EXCEPT !.clones = @ + 1] = [j |-> a + 1, clones |-> b + 1, pop |-> c]
      BY <3>2
    <3>4. i < a + 1 /\ i <= Len(c) /\ a + 1 \in Nat /\ b + 1 \in Nat
      BY <1>1, <3>1
    <3>5. [j |-> a + 1, clones |-> b, pop |-> c] \in Searches(i)
      BY <3>4 DEF Searches
    <3>6. [j |-> a + 1, clones |-> b + 1, pop |-> c] \in Searches(i)
      BY <3>4 DEF Searches
    <3> QED
      BY <3>2, <3>3, <3>5, <3>6
  <2> QED
    BY <2>3, <2>4 DEF Searched
<1>3. CASE ~(s.j <= Len(s.pop))
  <2>1. s.j > Len(s.pop)
    BY <1>1, <1>3, SeqIsFunction
  <2> QED
    BY <2>1 DEF Searched
<1> QED
  BY <1>2, <1>3

\* what the loop over j goes through
SearchRuns(after, i, pop) ==
    /\ after[0] = [j |-> i + 1, clones |-> 0, pop |-> pop]
    /\ \A k \in 1 .. Len(pop) - i : after[k] = Searched(i, after[k - 1])
    /\ WithoutClonesOf(i, pop) = after[Len(pop) - i].pop

\* the recursive function is this loop
LEMMA SearchIsLoop ==
    ASSUME NEW pop \in Seq(Genes), NEW i \in Nat, i <= Len(pop)
    PROVE  \E after \in [0 .. Len(pop) - i -> Searches(i)] : SearchRuns(after, i, pop)
<1> DEFINE n == Len(pop) - i
           S == Searches(i)
           first == [j |-> i + 1, clones |-> 0, pop |-> pop]
           step == [ks \in (1 .. n) \X S |-> Searched(i, ks[2])]
           Body(h, k) == IF k = 0 THEN first ELSE Searched(i, h[k - 1])
<1>0. n \in Nat
  BY SeqIsFunction
<1>1. first \in S /\ step \in [(1 .. n) \X S -> S]
  <2>1. first \in S
    BY DEF Searches
  <2>2. \A ks \in (1 .. n) \X S : Searched(i, ks[2]) \in S
    BY SearchedTypes
  <2> QED
    BY <2>1, <2>2
<1>2. PICK f \in [0 .. n -> S] : IsLoop(f, n, first, step)
  <2> HIDE DEF S, step, n, first
  <2> QED
    BY <1>0, <1>1, LoopExists
<1>3. f[0] = first /\ \A k \in 1 .. n : f[k] = Searched(i, f[k - 1])
  <2> HIDE DEF S, n, first
  <2>1. \A k \in 1 .. n : k - 1 \in 0 .. n /\ f[k - 1] \in S
    BY <1>0
  <2>2. \A k \in 1 .. n : f[k] = Searched(i, f[k - 1])
    BY <1>2, <2>1 DEF IsLoop
  <2> QED
    BY <1>2, <2>2 DEF IsLoop
<1>4. f = [k \in 0 .. n |-> Body(f, k)]
  <2> HIDE DEF S, n, first
  <2> QED
    BY <1>0, <1>3
<1> DEFINE F == CHOOSE h : h = [k \in 0 .. n |-> Body(h, k)]
<1>5. F = [k \in 0 .. n |-> Body(F, k)]
  <2> HIDE DEF S, n, first, Body
  <2> QED
    BY <1>4
<1>6. WithoutClonesOf(i, pop) = F[n].pop
  BY DEF WithoutClonesOf
<1> HIDE DEF F
<1>7. Agree(F, f, n)
  <2>1. F[0] = first /\ \A k \in 1 .. n : F[k] = Searched(i, F[k - 1])
    <3> HIDE DEF S, n, first
    <3> QED
      BY <1>0, <1>5
  <2>2. Follows(F, n, S, first, step)
    <3> HIDE DEF S, n, first
    <3> QED
      BY <2>1 DEF Follows
  <2> HIDE DEF S, step, Body, n, first
  <2> QED
    BY <1>0, <1>1, <1>2, <2>2, SameLoop
<1>8. WithoutClonesOf(i, pop) = f[n].pop
  <2> HIDE DEF S, step, Body, n, first
  <2> QED
    BY <1>0, <1>6, <1>7 DEF Agree
<1>9. SearchRuns(f, i, pop)
  BY <1>3, <1>8 DEF SearchRuns
<1> QED
  BY <1>2, <1>9

\* at least i genomes are left
LEMMA WithoutClonesTypes ==
    ASSUME NEW pop \in Seq(Genes), NEW i \in Nat, i <= Len(pop)
    PROVE  WithoutClonesOf(i, pop) \in Seq(Genes) /\ i <= Len(WithoutClonesOf(i, pop))
<1>1. PICK after \in [0 .. Len(pop) - i -> Searches(i)] : SearchRuns(after, i, pop)
  BY SearchIsLoop
<1>2. Len(pop) - i \in 0 .. Len(pop) - i
  BY SeqIsFunction
<1>3. after[Len(pop) - i] \in Searches(i) /\ WithoutClonesOf(i, pop) = after[Len(pop) - i].pop
  BY <1>1, <1>2 DEF SearchRuns
<1> QED
  BY <1>3 DEF Searches

\* what the loop over i goes through
Pass(i, pop) == IF i >= Len(pop) THEN pop ELSE WithoutClonesOf(i, pop)

Populations == {pop \in Seq(Genes) : Len(pop) >= 1}

\* so no pass of the loop over i empties the population
LEMMA PassTypes ==
    ASSUME NEW i \in Nat \ {0}, NEW pop \in Populations
    PROVE  Pass(i, pop) \in Populations
<1>1. pop \in Seq(Genes) /\ Len(pop) >= 1 /\ Len(pop) \in Nat
  BY SeqIsFunction DEF Populations
<1>2. CASE i >= Len(pop)
  BY <1>2 DEF Pass
<1>3. CASE ~(i >= Len(pop))
  <2>1. i <= Len(pop)
    BY <1>1, <1>3
  <2>2. WithoutClonesOf(i, pop) \in Seq(Genes) /\ i <= Len(WithoutClonesOf(i, pop))
    BY <1>1, <2>1, WithoutClonesTypes
  <2>3. Len(WithoutClonesOf(i, pop)) \in Nat
    BY <2>2, SeqIsFunction
  <2> QED
    BY <1>3, <2>2, <2>3 DEF Pass, Populations
<1> QED
  BY <1>2, <1>3

PruningRuns(after, pop) ==
    /\ after[0] = pop
    /\ \A i \in 1 .. Len(pop) - 1 : after[i] = Pass(i, after[i - 1])
    /\ Pruned(pop) = after[Len(pop) - 1]

\* the recursive function is this loop
LEMMA PruningIsLoop ==
    ASSUME NEW pop \in Populations
    PROVE  \E after \in [0 .. Len(pop) - 1 -> Populations] : PruningRuns(after, pop)
<1> DEFINE n == Len(pop) - 1
           S == Populations
           step == [ks \in (1 .. n) \X S |-> Pass(ks[1], ks[2])]
           Body(h, i) == IF i = 0 THEN pop ELSE IF i >= Len(h[i - 1]) THEN h[i - 1]
                         ELSE WithoutClonesOf(i, h[i - 1])
<1>0. n \in Nat
  BY SeqIsFunction DEF Populations
<1>1. step \in [(1 .. n) \X S -> S]
  <2>1. \A ks \in (1 .. n) \X S : Pass(ks[1], ks[2]) \in S
    BY PassTypes
  <2> QED
    BY <2>1
<1>2. PICK f \in [0 .. n -> S] : IsLoop(f, n, pop, step)
  <2> HIDE DEF step, n
  <2> QED
    BY <1>0, <1>1, LoopExists
<1>3. f[0] = pop /\ \A i \in 1 .. n : f[i] = Pass(i, f[i - 1])
  <2> HIDE DEF S, n
  <2>1. \A i \in 1 .. n : i - 1 \in 0 .. n /\ f[i - 1] \in S
    BY <1>0
  <2>2. \A i \in 1 .. n : f[i] = Pass(i, f[i - 1])
    BY <1>2, <2>1 DEF IsLoop
  <2> QED
    BY <1>2, <2>2 DEF IsLoop
<1>4. f = [i \in 0 .. n |-> Body(f, i)]
  <2> HIDE DEF S, n
  <2> QED
    BY <1>0, <1>3 DEF Pass
<1> DEFINE F == CHOOSE h : h = [i \in 0 .. n |-> Body(h, i)]
<1>5. F = [i \in 0 .. n |-> Body(F, i)]
  <2> HIDE DEF S, n, Body
  <2> QED
    BY <1>4
<1>6. Pruned(pop) = F[n]
  BY DEF Pruned
<1> HIDE DEF F
<1>7. Agree(F, f, n)
  <2>1. F[0] = pop /\ \A i \in 1 .. n : F[i] = Pass(i, F[i - 1])
    <3> HIDE DEF S, n
    <3> QED
      BY <1>0, <1>5 DEF Pass
  <2>2. Follows(F, n, S, pop, step)
    <3> HIDE DEF S, n
    <3> QED
      BY <2>1 DEF Follows
  <2> HIDE DEF step, Body, n
  <2> QED
    BY <1>0, <1>1, <1>2, <2>2, SameLoop
<1>8. Pruned(pop) = f[n]
  <2> HIDE DEF S, step, Body, n
  <2> QED
    BY <1>0, <1>6, <1>7 DEF Agree
<1>9. PruningRuns(f, pop)
  BY <1>3, <1>8 DEF PruningRuns
<1> QED
  BY <1>2, <1>9

\* a population is left
LEMMA PrunedTypes ==
    ASSUME NEW pop \in Populations
    PROVE  Pruned(pop) \in Populations
<1>1. PICK after \in [0 .. Len(pop) - 1 -> Populations] : PruningRuns(after, pop)
  BY PruningIsLoop
<1>2. Len(pop) - 1 \in 0 .. Len(pop) - 1
  BY SeqIsFunction DEF Populations
<1> QED
  BY <1>1, <1>2 DEF PruningRuns

-----------------------------------------------------------------------------
(* Numbers in order                                                          *)

Numbers(D) == D \in SUBSET Nat /\ IsFiniteSet(D)

\* the places of a set's numbers go up with them
LEMMA PlaceGrows ==
    ASSUME NEW D, Numbers(D), NEW x \in D, NEW y \in D
    PROVE  /\ Place(D, x) \in 1 .. Cardinality(D) /\ Cardinality(D) \in Nat
           /\ x < y <=> Place(D, x) < Place(D, y)
           /\ x = y <=> Place(D, x) = Place(D, y)
<1>0. D \in SUBSET Nat /\ IsFiniteSet(D) /\ x \in Nat /\ y \in Nat
  BY DEF Numbers
<1>1. ASSUME NEW u \in D PROVE Place(D, u) \in 1 .. Cardinality(D) /\ Cardinality(D) \in Nat
  <2> DEFINE A == {i \in D : i <= u}
  <2>1. A \subseteq D /\ {u} \subseteq A
    BY <1>0
  <2>2. Cardinality({u}) = 1
    BY FS_Singleton
  <2> HIDE DEF A
  <2>3. /\ IsFiniteSet(A) /\ Cardinality(A) \in Nat /\ Cardinality(D) \in Nat
        /\ Cardinality(A) <= Cardinality(D)
    BY <1>0, <2>1, Parts
  <2>4. Cardinality({u}) <= Cardinality(A)
    BY <2>1, <2>3, Parts
  <2> QED
    BY <2>2, <2>3, <2>4 DEF Place, A
<1>2. ASSUME NEW u \in D, NEW v \in D, u < v PROVE Place(D, u) < Place(D, v)
  <2> DEFINE A == {i \in D : i <= u}
             B == {i \in D : i <= v}
  <2>0. u \in Nat /\ v \in Nat
    BY <1>0
  <2>5. \A i \in D : i \in Nat
    BY <1>0
  <2>6. v \in B /\ v \notin A /\ B \subseteq D
    BY <1>2, <2>0
  <2>1. A \subseteq B /\ v \in B /\ v \notin A /\ B \subseteq D
    <3>1. \A i \in D : i <= u => i <= v
      BY <1>2, <2>0, <2>5
    <3> QED
      BY <2>6, <3>1
  <2> HIDE DEF A, B
  <2>2. IsFiniteSet(B)
    BY <1>0, <2>1, Parts
  <2>3. Cardinality(A) <= Cardinality(B) /\ Cardinality(A) # Cardinality(B)
    BY <2>1, <2>2, Parts
  <2>4. Cardinality(A) = Place(D, u) /\ Cardinality(B) = Place(D, v)
    BY DEF A, B, Place
  <2> QED
    BY <1>1, <2>3, <2>4
<1>3. x < y \/ x = y \/ y < x
  BY <1>0
<1>4. Place(D, x) \in Nat /\ Place(D, y) \in Nat
  BY <1>1
<1>5. x < y => Place(D, x) < Place(D, y)
  BY <1>2
<1>6. y < x => Place(D, y) < Place(D, x)
  BY <1>2
<1>7. ~(x < y /\ y < x) /\ (x < y => x # y) /\ (y < x => x # y)
  BY <1>0
<1> QED
  BY <1>1, <1>3, <1>4, <1>5, <1>6, <1>7

Nth(D, k) == CHOOSE j \in D : Place(D, j) = k

\* every place is that of one number
LEMMA NthIsRight ==
    ASSUME NEW D, Numbers(D)
    PROVE  /\ \A k \in 1 .. Cardinality(D) : Nth(D, k) \in D /\ Place(D, Nth(D, k)) = k
           /\ \A x \in D : Nth(D, Place(D, x)) = x
<1> DEFINE n == Cardinality(D)
           f == [x \in D |-> Place(D, x)]
<1>1. n \in Nat /\ IsFiniteSet(D) /\ IsFiniteSet(1 .. n) /\ Cardinality(1 .. n) = n
  BY FS_CardinalityType, NumbersUpTo DEF Numbers
<1>2. f \in [D -> 1 .. n] /\ \A x, y \in D : f[x] = f[y] => x = y
  BY PlaceGrows
<1>3. \A k \in 1 .. n : \E x \in D : Place(D, x) = k
  <2> HIDE DEF f, n
  <2>1. f \in Injection(D, 1 .. n)
    BY <1>2, Fun_IsInj
  <2>2. f \in Surjection(D, 1 .. n)
    BY <1>1, <2>1, FS_Injection DEF n
  <2>3. \A k \in 1 .. n : \E x \in D : f[x] = k
    BY <2>2 DEF Surjection
  <2> QED
    BY <2>3 DEF f
<1>4. \A k \in 1 .. n : Nth(D, k) \in D /\ Place(D, Nth(D, k)) = k
  BY <1>3 DEF Nth
<1>5. ASSUME NEW x \in D PROVE Nth(D, Place(D, x)) = x
  <2>1. Nth(D, Place(D, x)) \in D /\ Place(D, Nth(D, Place(D, x))) = Place(D, x)
    BY DEF Nth
  <2> QED
    BY <2>1, PlaceGrows
<1> QED
  BY <1>4, <1>5

\* a number that is taken away moves those above it down
LEMMA PlaceRemoved ==
    ASSUME NEW D, Numbers(D), NEW d \in D
    PROVE  /\ Numbers(D \ {d}) /\ Cardinality(D) \in Nat /\ Cardinality(D \ {d}) = Cardinality(D) - 1
           /\ \A x \in D \ {d} :
                 Place(D \ {d}, x) = IF x < d THEN Place(D, x) ELSE Place(D, x) - 1
<1>0. D \in SUBSET Nat /\ IsFiniteSet(D) /\ Cardinality(D) \in Nat
  BY FS_CardinalityType DEF Numbers
<1>1. IsFiniteSet(D \ {d}) /\ Cardinality(D \ {d}) = Cardinality(D) - 1
  BY <1>0, FS_RemoveElement
<1>2. ASSUME NEW x \in D \ {d}
      PROVE  Place(D \ {d}, x) = IF x < d THEN Place(D, x) ELSE Place(D, x) - 1
  <2> DEFINE A == {i \in D : i <= x}
             B == {i \in D \ {d} : i <= x}
  <2>0. x \in Nat /\ d \in Nat
    BY <1>0
  <2>1. CASE x < d
    <3>1. A = B
      BY <1>0, <2>0, <2>1
    <3> QED
      BY <2>1, <3>1 DEF Place
  <2>2. CASE ~(x < d)
    <3>1. d \in A /\ B = A \ {d} /\ A \subseteq D
      BY <1>0, <2>0, <2>2
    <3> HIDE DEF A, B
    <3>2. IsFiniteSet(A)
      BY <1>0, <3>1, Parts
    <3>3. Cardinality(B) = Cardinality(A) - 1
      BY <3>1, <3>2, FS_RemoveElement
    <3> QED
      BY <2>2, <3>3 DEF Place, A, B
  <2> QED
    BY <2>1, <2>2
<1> QED
  BY <1>0, <1>1, <1>2 DEF Numbers

\* the first m of a set are m
LEMMA FirstPlaces ==
    ASSUME NEW D, Numbers(D), NEW m \in Nat, m <= Cardinality(D)
    PROVE  /\ IsFiniteSet({x \in D : Place(D, x) <= m})
           /\ Cardinality({x \in D : Place(D, x) <= m}) = m
<1> DEFINE F == {x \in D : Place(D, x) <= m}
           f == [x \in F |-> Place(D, x)]
<1>1. Cardinality(D) \in Nat
  BY FS_CardinalityType DEF Numbers
<1>2. IsFiniteSet(F)
  <2>1. F \subseteq D /\ IsFiniteSet(D)
    BY DEF Numbers
  <2> HIDE DEF F
  <2> QED
    BY <2>1, Parts
<1>3. f \in [F -> 1 .. m] /\ \A x, y \in F : f[x] = f[y] => x = y
  BY <1>1, PlaceGrows
<1>4. ASSUME NEW k \in 1 .. m PROVE \E x \in F : f[x] = k
  <2>1. k \in 1 .. Cardinality(D)
    BY <1>1
  <2>2. Nth(D, k) \in D /\ Place(D, Nth(D, k)) = k
    BY <2>1, NthIsRight
  <2> QED
    BY <2>2
<1>5. Cardinality(1 .. m) = Cardinality(F)
  <2> HIDE DEF f, F
  <2>1. f \in Bijection(F, 1 .. m)
    BY <1>3, <1>4, Fun_IsBij
  <2> QED
    BY <1>2, <2>1, FS_Bijection DEF ExistsBijection
<1> QED
  <2> HIDE DEF F
  <2>1. Cardinality(F) = m /\ IsFiniteSet(F)
    BY <1>2, <1>5, NumbersUpTo
  <2> QED
    BY <2>1 DEF F

-----------------------------------------------------------------------------
(* What is left of a population                                              *)

\* what is left is a population, the k-th of it the k-th of D
LEMMA ThoseTypes ==
    ASSUME NEW b \in Seq(Genes), NEW D \in SUBSET (1 .. Len(b))
    PROVE  /\ Numbers(D) /\ Cardinality(D) \in Nat
           /\ Those(b, D) \in Seq(Genes) /\ Len(Those(b, D)) = Cardinality(D)
           /\ \A k \in 1 .. Cardinality(D) : Nth(D, k) \in D /\ Those(b, D)[k] = b[Nth(D, k)]
           /\ \A x \in D : Place(D, x) \in 1 .. Cardinality(D) /\ Those(b, D)[Place(D, x)] = b[x]
<1>1. Len(b) \in Nat /\ b \in [1 .. Len(b) -> Genes]
  BY SeqIsFunction
<1>2. Numbers(D) /\ Cardinality(D) \in Nat
  <2>1. IsFiniteSet(1 .. Len(b)) /\ D \in SUBSET Nat
    BY <1>1, NumbersUpTo
  <2> QED
    BY <2>1, Parts DEF Numbers
<1>3. \A k \in 1 .. Cardinality(D) : Nth(D, k) \in D /\ Those(b, D)[k] = b[Nth(D, k)]
  BY <1>2, NthIsRight DEF Those, Nth
<1>4. Those(b, D) \in [1 .. Cardinality(D) -> Genes]
  <2>1. \A k \in 1 .. Cardinality(D) : Those(b, D)[k] \in Genes
    BY <1>1, <1>3
  <2>2. Those(b, D) = [k \in 1 .. Cardinality(D) |-> Those(b, D)[k]]
    BY DEF Those
  <2> QED
    BY <2>1, <2>2
<1>5. \A x \in D : Place(D, x) \in 1 .. Cardinality(D) /\ Those(b, D)[Place(D, x)] = b[x]
  BY <1>2, <1>3, PlaceGrows, NthIsRight
<1> QED
  BY <1>2, <1>3, <1>4, <1>5, FunctionIsSeq

\* Kill
LEMMA ThoseRemoved ==
    ASSUME NEW b \in Seq(Genes), NEW D \in SUBSET (1 .. Len(b)), NEW d \in D
    PROVE  RemoveAt(Those(b, D), Place(D, d)) = Those(b, D \ {d})
<1> DEFINE n == Cardinality(D)
           E == D \ {d}
           s == Those(b, D)
           j == Place(D, d)
           r == RemoveAt(s, j)
<1>1. /\ Numbers(D) /\ n \in Nat /\ s \in Seq(Genes) /\ Len(s) = n /\ j \in 1 .. n
      /\ \A x \in D : Place(D, x) \in 1 .. n /\ s[Place(D, x)] = b[x]
  BY ThoseTypes
<1>2. r \in Seq(Genes) /\ Len(r) = n - 1 /\ IsWithout(r, s, j)
  <2> HIDE DEF s, j
  <2>1. RemoveAt(s, j) \in Seq(Genes) /\ Len(RemoveAt(s, j)) = Len(s) - 1 /\ IsWithout(RemoveAt(s, j), s, j)
    BY <1>1, Removed
  <2> QED
    BY <1>1, <2>1
<1>3. /\ Numbers(E) /\ Cardinality(E) = n - 1
      /\ \A x \in E : Place(E, x) = IF x < d THEN Place(D, x) ELSE Place(D, x) - 1
  BY <1>1, PlaceRemoved
<1>4. /\ Those(b, E) \in Seq(Genes) /\ Len(Those(b, E)) = n - 1
      /\ \A k \in 1 .. n - 1 : Nth(E, k) \in E /\ Place(E, Nth(E, k)) = k /\ Those(b, E)[k] = b[Nth(E, k)]
  <2>1. E \in SUBSET (1 .. Len(b))
    OBVIOUS
  <2> HIDE DEF E
  <2> QED
    BY <1>3, <2>1, ThoseTypes, NthIsRight
<1>5. ASSUME NEW k \in 1 .. n - 1 PROVE r[k] = Those(b, E)[k]
  <2> DEFINE x == Nth(E, k)
  <2>1. x \in D /\ x # d /\ x \in E /\ Place(E, x) = k /\ Those(b, E)[k] = b[x]
    BY <1>4
  <2> HIDE DEF x
  <2>2. r[k] = IF k < j THEN s[k] ELSE s[k + 1]
    BY <1>1, <1>2 DEF IsWithout
  <2>3. x < d <=> Place(D, x) < j
    BY <1>1, <2>1, PlaceGrows
  <2>4. Place(D, x) # j /\ Place(D, x) \in 1 .. n /\ s[Place(D, x)] = b[x]
    BY <1>1, <2>1, PlaceGrows
  <2>5. k = IF x < d THEN Place(D, x) ELSE Place(D, x) - 1
    BY <1>3, <2>1
  <2>6. CASE x < d
    <3>1. k = Place(D, x) /\ k < j
      BY <2>3, <2>5, <2>6
    <3> QED
      BY <2>1, <2>2, <2>4, <3>1
  <2>7. CASE ~(x < d)
    <3>1. k + 1 = Place(D, x) /\ ~(k < j)
      <4>1. PICK p \in 1 .. n : p = Place(D, x)
        BY <2>4
      <4>2. p # j /\ ~(p < j) /\ k = p - 1
        BY <2>3, <2>4, <2>5, <2>7, <4>1
      <4> HIDE DEF j
      <4> QED
        BY <1>1, <4>1, <4>2
    <3> QED
      BY <2>1, <2>2, <2>4, <3>1
  <2> QED
    BY <2>6, <2>7
<1>6. r \in [1 .. n - 1 -> Genes] /\ Those(b, E) \in [1 .. n - 1 -> Genes]
  <2> HIDE DEF r, E, n
  <2> QED
    BY <1>2, <1>4, SeqIsFunction
<1>7. r = Those(b, E)
  <2> HIDE DEF r, E, n
  <2>1. \A k \in 1 .. n - 1 : r[k] = Those(b, E)[k]
    BY <1>5
  <2> DEFINE t == Those(b, E)
             N == 1 .. n - 1
  <2>2. r \in [N -> Genes] /\ t \in [N -> Genes] /\ \A k \in N : r[k] = t[k]
    BY <1>6, <2>1
  <2> HIDE DEF t, N
  <2>3. r = t
    BY <2>2
  <2> QED
    BY <2>3 DEF t
<1> QED
  BY <1>7

\* all that was bred
LEMMA ThoseWhole ==
    ASSUME NEW b \in Seq(Genes)
    PROVE  Those(b, 1 .. Len(b)) = b
<1> DEFINE n == Len(b)
           D == 1 .. n
<1>1. n \in Nat /\ b \in [1 .. n -> Genes] /\ Cardinality(D) = n
  BY SeqIsFunction, NumbersUpTo
<1>2. ASSUME NEW x \in D PROVE Place(D, x) = x
  <2>1. {i \in D : i <= x} = 1 .. x
    BY <1>1
  <2>2. x \in Nat
    BY <1>1
  <2> QED
    BY <2>1, <2>2, NumbersUpTo DEF Place
<1>3. /\ Those(b, D) \in Seq(Genes) /\ Len(Those(b, D)) = n
      /\ \A x \in D : Those(b, D)[x] = b[x]
  <2>1. D \in SUBSET (1 .. Len(b))
    OBVIOUS
  <2> HIDE DEF D
  <2> QED
    BY <1>1, <1>2, <2>1, ThoseTypes
<1>4. Those(b, D) \in [1 .. n -> Genes]
  <2> HIDE DEF D, n
  <2> QED
    BY <1>3, SeqIsFunction
<1> QED
  <2> HIDE DEF n
  <2>1. Those(b, D) = b
    BY <1>1, <1>3, <1>4
  <2> QED
    BY <2>1 DEF n

-----------------------------------------------------------------------------
(* The loops leave the first three of each                                   *)

\* the places of the genome at d
Kin(b, d) == {x \in DOMAIN b : b[x] = b[d]}

\* one of the first three is among the first three of its kind
LEMMA KinTypes ==
    ASSUME NEW b \in Seq(Genes), NEW d \in 1 .. Len(b)
    PROVE  /\ Numbers(Kin(b, d)) /\ d \in Kin(b, d)
           /\ d \in First(b) <=> Place(Kin(b, d), d) <= 3
           /\ \A x \in Kin(b, d) : x \in 1 .. Len(b) /\ b[x] = b[d] /\ Kin(b, x) = Kin(b, d)
<1>1. Len(b) \in Nat /\ DOMAIN b = 1 .. Len(b)
  BY SeqIsFunction
<1>2. Numbers(Kin(b, d))
  <2>1. IsFiniteSet(1 .. Len(b)) /\ 1 .. Len(b) \in SUBSET Nat
    BY <1>1, NumbersUpTo
  <2>2. Kin(b, d) \subseteq 1 .. Len(b)
    BY <1>1 DEF Kin
  <2> QED
    BY <2>1, <2>2, Parts DEF Numbers
<1>3. {i \in 1 .. d : b[i] = b[d]} = {i \in Kin(b, d) : i <= d}
  BY <1>1 DEF Kin
<1>4. d \in First(b) <=> Place(Kin(b, d), d) <= 3
  <2>1. d \in First(b) <=> Cardinality({i \in 1 .. d : b[i] = b[d]}) <= MaxClones + 1
    BY <1>1 DEF First
  <2>2. Cardinality({i \in 1 .. d : b[i] = b[d]}) = Place(Kin(b, d), d)
    BY <1>3 DEF Place
  <2>3. MaxClones + 1 = 3
    BY DEF MaxClones
  <2> QED
    BY <2>1, <2>2, <2>3
<1>5. \A x \in Kin(b, d) : x \in 1 .. Len(b) /\ b[x] = b[d] /\ Kin(b, x) = Kin(b, d)
  BY <1>1 DEF Kin
<1>6. d \in Kin(b, d)
  BY <1>1 DEF Kin
<1> QED
  BY <1>2, <1>4, <1>5, <1>6

\* what is not one of the first three comes after them
LEMMA ThreeBefore ==
    ASSUME NEW b \in Seq(Genes), NEW d \in 1 .. Len(b), d \notin First(b)
    PROVE  \E S \in SUBSET First(b) :
              IsFiniteSet(S) /\ Cardinality(S) = 3 /\ \A x \in S : x < d /\ b[x] = b[d]
<1> DEFINE C == Kin(b, d)
           S == {x \in C : Place(C, x) <= 3}
<1>1. /\ Numbers(C) /\ d \in C /\ ~(Place(C, d) <= 3)
      /\ \A x \in C : x \in 1 .. Len(b) /\ b[x] = b[d] /\ Kin(b, x) = C
  BY KinTypes
<1>2. Place(C, d) \in 1 .. Cardinality(C) /\ Cardinality(C) \in Nat
  <2> HIDE DEF C
  <2> QED
    BY <1>1, PlaceGrows
<1>3. IsFiniteSet(S) /\ Cardinality(S) = 3
  <2>1. 3 \in Nat /\ 3 <= Cardinality(C)
    BY <1>1, <1>2
  <2> HIDE DEF C
  <2> QED
    BY <1>1, <2>1, FirstPlaces
<1>4. ASSUME NEW x \in S PROVE x \in First(b) /\ x < d /\ b[x] = b[d]
  <2>1. x \in C /\ Place(C, x) <= 3 /\ x \in 1 .. Len(b) /\ b[x] = b[d] /\ Kin(b, x) = C
    BY <1>1
  <2>2. x \in First(b)
    BY <2>1, KinTypes
  <2>3. Place(C, x) \in 1 .. Cardinality(C) /\ (x < d <=> Place(C, x) < Place(C, d))
    <3> HIDE DEF C
    <3> QED
      BY <1>1, <2>1, PlaceGrows
  <2>4. x < d
    BY <1>1, <1>2, <2>1, <2>3
  <2> QED
    BY <2>1, <2>2, <2>4
<1>5. S \in SUBSET First(b)
  BY <1>4
<1> HIDE DEF S
<1> QED
  BY <1>3, <1>4, <1>5

\* ... and what comes after three of its kind is not one of them
LEMMA AfterThree ==
    ASSUME NEW b \in Seq(Genes), NEW d \in 1 .. Len(b), NEW S \in SUBSET (1 .. Len(b)),
           IsFiniteSet(S), Cardinality(S) >= 3, \A x \in S : x < d /\ b[x] = b[d]
    PROVE  d \notin First(b)
<1> DEFINE C == Kin(b, d)
           A == {i \in C : i <= d}
<1>1. Len(b) \in Nat /\ DOMAIN b = 1 .. Len(b)
  BY SeqIsFunction
<1>2. Numbers(C) /\ d \in C /\ (d \in First(b) <=> Place(C, d) <= 3)
  BY KinTypes
<1>3. d \notin S /\ IsFiniteSet(S \cup {d}) /\ Cardinality(S \cup {d}) = Cardinality(S) + 1
      /\ Cardinality(S) \in Nat
  <2>1. d \notin S
    BY <1>1
  <2> QED
    BY <2>1, FS_AddElement, FS_CardinalityType
<1>4. S \cup {d} \subseteq A
  BY <1>1 DEF Kin
<1>5. A \subseteq C /\ IsFiniteSet(C)
  BY <1>2 DEF Numbers
<1> HIDE DEF A, C
<1>6. IsFiniteSet(A) /\ Cardinality(A) \in Nat
  BY <1>5, Parts
<1>7. Cardinality(S \cup {d}) <= Cardinality(A)
  BY <1>4, <1>6, Parts
<1>8. Cardinality(A) = Place(C, d)
  BY DEF A, Place
<1> QED
  BY <1>2, <1>3, <1>6, <1>7, <1>8

\* D is left of b: the first of each genome are, and what shares its genome with one of
\* the first i left is one of them.
Left(b, D) == D \in SUBSET (1 .. Len(b)) /\ First(b) \subseteq D
Cleared(b, D, i) ==
    \A d, e \in D : Place(D, e) <= i /\ b[d] = b[e] => d \in First(b)

\* before the clones of the i-th are searched, those before it and it have been kept
LEMMA KeptSoFar ==
    ASSUME NEW b \in Seq(Genes), NEW D, Left(b, D), NEW i \in Nat \ {0}, Cleared(b, D, i - 1),
           NEW e \in D, Place(D, e) = i, NEW d \in D, b[d] = b[e], Place(D, d) <= i
    PROVE  d \in First(b)
<1>1. D \in SUBSET (1 .. Len(b)) /\ First(b) \subseteq D /\ Numbers(D)
  BY ThoseTypes DEF Left
<1>2. \A x, y \in D : /\ Place(D, x) \in Nat
                      /\ x < y <=> Place(D, x) < Place(D, y)
                      /\ x = y <=> Place(D, x) = Place(D, y)
  BY <1>1, PlaceGrows
<1>3. CASE Place(D, d) # i
  <2>1. Place(D, d) <= i - 1
    BY <1>2, <1>3
  <2> QED
    BY <2>1 DEF Cleared
<1>4. CASE Place(D, d) = i
  <2>1. SUFFICES ASSUME d \notin First(b) PROVE FALSE
    OBVIOUS
  <2>2. PICK S \in SUBSET First(b) :
           IsFiniteSet(S) /\ Cardinality(S) = 3 /\ \A x \in S : x < d /\ b[x] = b[d]
    BY <1>1, <2>1, ThreeBefore
  <2>3. S # {}
    BY <2>2, FS_EmptySet
  <2>4. PICK x \in S : x < d /\ b[x] = b[d]
    BY <2>2, <2>3
  <2>5. x \in D /\ Place(D, x) < i
    <3>1. x \in D
      BY <1>1
    <3>2. Place(D, x) < Place(D, d)
      BY <1>2, <2>4, <3>1
    <3> QED
      BY <1>4, <3>1, <3>2
  <2>6. Place(D, x) <= i - 1
    BY <1>2, <2>5
  <2> QED
    BY <2>1, <2>4, <2>5, <2>6 DEF Cleared
<1> QED
  BY <1>3, <1>4

\* those of the genome at e that come after it, and before the j-th
Between(b, D, e, j) == {x \in D : b[x] = b[e] /\ Place(D, e) < Place(D, x) /\ Place(D, x) < j}

\* The search for the clones of the i-th, which is the one that was bred at e.
InSearch(b, D, i, e, s) ==
    /\ Left(b, D) /\ s.pop = Those(b, D) /\ Cleared(b, D, i - 1)
    /\ e \in D /\ Place(D, e) = i
    /\ \A x \in D : b[x] = b[e] /\ Place(D, x) < s.j => x \in First(b)
    /\ Cardinality(Between(b, D, e, s.j)) = IF s.clones < MaxClones THEN s.clones ELSE MaxClones

\* nothing but the i-th itself has been found when the search for its clones begins
LEMMA SearchBegins ==
    ASSUME NEW b \in Seq(Genes), NEW D, Left(b, D), NEW i \in Nat \ {0}, i <= Cardinality(D),
           Cleared(b, D, i - 1)
    PROVE  InSearch(b, D, i, Nth(D, i), [j |-> i + 1, clones |-> 0, pop |-> Those(b, D)])
<1> DEFINE e == Nth(D, i)
           s == [j |-> i + 1, clones |-> 0, pop |-> Those(b, D)]
<1>1. D \in SUBSET (1 .. Len(b)) /\ Numbers(D) /\ Cardinality(D) \in Nat
  BY ThoseTypes DEF Left
<1>2. e \in D /\ Place(D, e) = i
  <2>1. i \in 1 .. Cardinality(D)
    BY <1>1
  <2> QED
    BY <1>1, <2>1, NthIsRight
<1> HIDE DEF e
<1>3. \A x \in D : Place(D, x) \in Nat
  BY <1>1, PlaceGrows
<1>4. ASSUME NEW x \in D, b[x] = b[e], Place(D, x) < i + 1 PROVE x \in First(b)
  <2>1. Place(D, x) <= i
    BY <1>3, <1>4
  <2> QED
    BY <1>2, <1>4, <2>1, KeptSoFar
<1>5. Between(b, D, e, i + 1) = {}
  BY <1>2, <1>3 DEF Between
<1>6. Cardinality(Between(b, D, e, i + 1)) = 0
  BY <1>5, FS_EmptySet
<1>7. s.pop = Those(b, D) /\ s.j = i + 1 /\ s.clones = 0 /\ 0 < MaxClones
  BY DEF MaxClones
<1> HIDE DEF s
<1>8. InSearch(b, D, i, e, s)
  BY <1>2, <1>4, <1>6, <1>7 DEF InSearch
<1> QED
  BY <1>8 DEF s, e

\* what comes next is among the first of its genome if fewer than two clones were found
LEMMA CloneIsKept ==
    ASSUME NEW b \in Seq(Genes), NEW D, NEW i \in Nat \ {0}, NEW e, NEW s \in Searches(i),
           InSearch(b, D, i, e, s), NEW d \in D, Place(D, d) = s.j, b[d] = b[e],
           s.clones < MaxClones
    PROVE  d \in First(b)
<1>1. D \in SUBSET (1 .. Len(b)) /\ First(b) \subseteq D /\ Numbers(D) /\ e \in D /\ Place(D, e) = i
  BY ThoseTypes DEF InSearch, Left
<1>2. \A x, y \in D : /\ Place(D, x) \in Nat
                      /\ x < y <=> Place(D, x) < Place(D, y)
                      /\ x = y <=> Place(D, x) = Place(D, y)
  BY <1>1, PlaceGrows
<1>3. SUFFICES ASSUME d \notin First(b) PROVE FALSE
  OBVIOUS
<1>4. PICK S \in SUBSET First(b) :
         IsFiniteSet(S) /\ Cardinality(S) = 3 /\ \A x \in S : x < d /\ b[x] = b[d]
  BY <1>1, <1>3, ThreeBefore
<1> DEFINE B == Between(b, D, e, s.j)
<1>5. IsFiniteSet(B) /\ e \notin B /\ Cardinality(B) = s.clones /\ s.clones \in Nat
  <2>1. B \subseteq D /\ IsFiniteSet(D)
    BY <1>1 DEF Between, Numbers
  <2>2. e \notin B
    BY <1>1, <1>2 DEF Between
  <2>3. Cardinality(B) = s.clones /\ s.clones \in Nat
    BY DEF InSearch, Searches
  <2> HIDE DEF B
  <2> QED
    BY <2>1, <2>2, <2>3, Parts
<1>6. ASSUME NEW x \in S PROVE x \in B \cup {e}
  <2>1. x \in D /\ b[x] = b[e] /\ Place(D, x) < s.j
    <3>1. x \in D /\ x < d /\ b[x] = b[d]
      BY <1>1, <1>4
    <3> QED
      BY <1>2, <3>1
  <2>2. ~(Place(D, x) < i)
    <3>1. SUFFICES ASSUME Place(D, x) < i PROVE FALSE
      OBVIOUS
    <3>2. Place(D, x) <= i - 1
      BY <1>2, <2>1, <3>1
    <3> QED
      BY <1>3, <2>1, <3>2 DEF InSearch, Cleared
  <2>3. x = e \/ Place(D, e) < Place(D, x)
    BY <1>1, <1>2, <2>1, <2>2
  <2> QED
    BY <2>1, <2>3 DEF Between
<1>7. S \subseteq B \cup {e} /\ IsFiniteSet(B \cup {e}) /\ Cardinality(B \cup {e}) = s.clones + 1
  <2> HIDE DEF B
  <2> QED
    BY <1>5, <1>6, FS_AddElement
<1>8. Cardinality(S) <= Cardinality(B \cup {e})
  <2> HIDE DEF B
  <2> QED
    BY <1>7, Parts
<1>9. s.clones < 2
  BY DEF MaxClones
<1> HIDE DEF B
<1> QED
  BY <1>4, <1>5, <1>7, <1>8, <1>9

\* ... and is not if two were
LEMMA CloneIsSurplus ==
    ASSUME NEW b \in Seq(Genes), NEW D, NEW i \in Nat \ {0}, NEW e, NEW s \in Searches(i),
           InSearch(b, D, i, e, s), NEW d \in D, Place(D, d) = s.j, b[d] = b[e],
           ~(s.clones < MaxClones)
    PROVE  d \notin First(b)
<1>1. D \in SUBSET (1 .. Len(b)) /\ Numbers(D) /\ e \in D /\ Place(D, e) = i /\ i < s.j
  BY ThoseTypes DEF InSearch, Left, Searches
<1>2. \A x, y \in D : Place(D, x) \in Nat /\ (x < y <=> Place(D, x) < Place(D, y))
  BY <1>1, PlaceGrows
<1> DEFINE B == Between(b, D, e, s.j)
<1>3. B \subseteq D /\ IsFiniteSet(D) /\ e \notin B
  BY <1>1, <1>2 DEF Between, Numbers
<1>4. Cardinality(B) = 2
  BY DEF InSearch, MaxClones
<1>5. IsFiniteSet(B \cup {e}) /\ Cardinality(B \cup {e}) = 3
  <2> HIDE DEF B
  <2>1. IsFiniteSet(B)
    BY <1>3, Parts
  <2>2. IsFiniteSet(B \cup {e}) /\ Cardinality(B \cup {e}) = Cardinality(B) + 1
    BY <1>3, <2>1, FS_AddElement
  <2> QED
    BY <1>4, <2>2
<1>6. ASSUME NEW x \in B \cup {e} PROVE x \in D /\ x < d /\ b[x] = b[d]
  <2>1. x \in D /\ b[x] = b[e] /\ Place(D, x) < s.j
    BY <1>1 DEF Between
  <2> QED
    BY <1>2, <2>1
<1> HIDE DEF B
<1>7. B \cup {e} \in SUBSET (1 .. Len(b)) /\ d \in 1 .. Len(b)
  BY <1>1, <1>3
<1>8. Cardinality(B \cup {e}) >= 3
  BY <1>5
<1> QED
  BY <1>5, <1>6, <1>7, <1>8, AfterThree

\* one pass of the loop over j
LEMMA SearchedCases ==
    ASSUME NEW i \in Nat, NEW s \in Searches(i), s.j <= Len(s.pop)
    PROVE  /\ s.j \in Nat /\ s.clones \in Nat /\ Len(s.pop) \in Nat
           /\ s.pop[i] # s.pop[s.j] =>
                 Searched(i, s) = [j |-> s.j + 1, clones |-> s.clones, pop |-> s.pop]
           /\ s.pop[i] = s.pop[s.j] /\ s.clones < MaxClones =>
                 Searched(i, s) = [j |-> s.j + 1, clones |-> s.clones + 1, pop |-> s.pop]
           /\ s.pop[i] = s.pop[s.j] /\ ~(s.clones < MaxClones) =>
                 Searched(i, s) = [j |-> s.j, clones |-> s.clones + 1, pop |-> RemoveAt(s.pop, s.j)]
<1>1. PICK a \in Nat, c \in Nat, p \in Seq(Genes) : s = [j |-> a, clones |-> c, pop |-> p]
  BY DEF Searches
<1> DEFINE next == [s EXCEPT !.j = @ + 1]
<1>2. next = [j |-> a + 1, clones |-> c, pop |-> p]
  BY <1>1
<1>3. [next EXCEPT !.clones = @ + 1] = [j |-> a + 1, clones |-> c + 1, pop |-> p]
  <2> HIDE DEF next
  <2> QED
    BY <1>2
<1>4. s.j = a /\ s.clones = c /\ s.pop = p /\ Len(p) \in Nat /\ a <= Len(p)
  BY <1>1, SeqIsFunction
<1>5. ~(s.j > Len(s.pop))
  BY <1>4
<1>6. s.pop[i] # s.pop[s.j] => Searched(i, s) = next
  BY <1>5 DEF Searched
<1>7. s.pop[i] = s.pop[s.j] /\ s.clones < MaxClones => Searched(i, s) = [next EXCEPT !.clones = @ + 1]
  BY <1>5 DEF Searched
<1>8. s.pop[i] = s.pop[s.j] /\ ~(s.clones < MaxClones) =>
        Searched(i, s) = [j |-> s.j, clones |-> s.clones + 1, pop |-> RemoveAt(s.pop, s.j)]
  BY <1>5 DEF Searched, AfterKill
<1> QED
  <2> HIDE DEF next
  <2> QED
    BY <1>2, <1>3, <1>4, <1>6, <1>7, <1>8

\* what is searched next is nearer to the end by one
Nearer1(s, t) == t.j + Len(s.pop) = s.j + 1 + Len(t.pop)

\* One pass of the loop over j keeps the first three, and kills nothing else.
LEMMA SearchGoesOn ==
    ASSUME NEW b \in Seq(Genes), NEW D, NEW i \in Nat \ {0}, NEW e, NEW s \in Searches(i),
           InSearch(b, D, i, e, s), s.j <= Len(s.pop)
    PROVE  Nearer1(s, Searched(i, s)) /\ \E E : InSearch(b, E, i, e, Searched(i, s))
<1>1. /\ D \in SUBSET (1 .. Len(b)) /\ First(b) \subseteq D /\ Cleared(b, D, i - 1)
      /\ s.pop = Those(b, D) /\ e \in D /\ Place(D, e) = i /\ i < s.j
      /\ \A x \in D : b[x] = b[e] /\ Place(D, x) < s.j => x \in First(b)
      /\ Cardinality(Between(b, D, e, s.j)) = IF s.clones < MaxClones THEN s.clones ELSE MaxClones
  BY DEF InSearch, Left, Searches
<1>2. /\ Numbers(D) /\ Cardinality(D) \in Nat /\ Len(s.pop) = Cardinality(D)
      /\ \A k \in 1 .. Cardinality(D) : Nth(D, k) \in D /\ s.pop[k] = b[Nth(D, k)]
      /\ \A x \in D : s.pop[Place(D, x)] = b[x]
  BY <1>1, ThoseTypes
<1>3. \A x, y \in D : /\ Place(D, x) \in Nat
                      /\ x < y <=> Place(D, x) < Place(D, y)
                      /\ x = y <=> Place(D, x) = Place(D, y)
  BY <1>2, PlaceGrows
<1>4. s.j \in Nat /\ s.clones \in Nat /\ s.j \in 1 .. Cardinality(D)
  <2>1. s.j \in Nat /\ s.clones \in Nat
    BY DEF Searches
  <2> QED
    BY <1>1, <1>2, <2>1
<1>5. PICK d \in D : Place(D, d) = s.j /\ s.pop[s.j] = b[d]
  BY <1>2, <1>4, NthIsRight
<1>6. s.pop[i] = b[e]
  BY <1>1, <1>2
<1> DEFINE B == Between(b, D, e, s.j)
           C == Between(b, D, e, s.j + 1)
<1>7. IsFiniteSet(B) /\ Cardinality(B) \in Nat /\ d \notin B
  <2>1. B \subseteq D /\ IsFiniteSet(D) /\ d \notin B
    BY <1>2, <1>3, <1>5 DEF Between, Numbers
  <2> HIDE DEF B
  <2> QED
    BY <2>1, Parts
<1>8. \A x \in D : Place(D, x) < s.j + 1 <=> Place(D, x) < s.j \/ x = d
  <2> TAKE x \in D
  <2>1. Place(D, x) \in Nat
    BY <1>3
  <2>2. x = d <=> Place(D, x) = s.j
    BY <1>3, <1>5
  <2> QED
    BY <1>4, <2>1, <2>2
<1>9. Place(D, e) < Place(D, d)
  BY <1>1, <1>5
<1>10. CASE b[d] # b[e]
  <2> DEFINE t == [j |-> s.j + 1, clones |-> s.clones, pop |-> s.pop]
  <2>1. Searched(i, s) = t
    BY <1>5, <1>6, <1>10, SearchedCases
  <2>2. B = C
    BY <1>8, <1>10 DEF Between
  <2>3. \A x \in D : b[x] = b[e] /\ Place(D, x) < s.j + 1 => x \in First(b)
    BY <1>1, <1>8, <1>10
  <2>4. t.j = s.j + 1 /\ t.clones = s.clones /\ t.pop = s.pop
    OBVIOUS
  <2> HIDE DEF t
  <2>5. Cardinality(Between(b, D, e, t.j)) = IF t.clones < MaxClones THEN t.clones ELSE MaxClones
    BY <1>1, <2>2, <2>4
  <2>6. InSearch(b, D, i, e, t)
    BY <1>1, <2>3, <2>4, <2>5 DEF InSearch, Left
  <2>7. Nearer1(s, t)
    BY <1>2, <1>4, <2>4 DEF Nearer1
  <2> QED
    BY <2>1, <2>6, <2>7
<1>11. CASE b[d] = b[e] /\ s.clones < MaxClones
  <2> DEFINE t == [j |-> s.j + 1, clones |-> s.clones + 1, pop |-> s.pop]
  <2>1. Searched(i, s) = t
    BY <1>5, <1>6, <1>11, SearchedCases
  <2>2. C = B \cup {d}
    BY <1>8, <1>9, <1>11 DEF Between
  <2>3. Cardinality(C) = s.clones + 1
    <3> HIDE DEF C
    <3>1. Cardinality(B) = s.clones
      BY <1>1, <1>11
    <3> HIDE DEF B
    <3>2. Cardinality(B \cup {d}) = Cardinality(B) + 1
      BY <1>7, FS_AddElement
    <3> QED
      BY <2>2, <3>1, <3>2
  <2>4. d \in First(b)
    BY <1>5, <1>11, CloneIsKept
  <2>5. \A x \in D : b[x] = b[e] /\ Place(D, x) < s.j + 1 => x \in First(b)
    BY <1>1, <1>8, <2>4
  <2>6. t.j = s.j + 1 /\ t.clones = s.clones + 1 /\ t.pop = s.pop
    OBVIOUS
  <2> HIDE DEF t
  <2>7. Cardinality(Between(b, D, e, t.j)) = IF t.clones < MaxClones THEN t.clones ELSE MaxClones
    <3>1. Cardinality(Between(b, D, e, t.j)) = s.clones + 1
      BY <2>3, <2>6
    <3> QED
      BY <1>4, <1>11, <2>6, <3>1 DEF MaxClones
  <2>8. InSearch(b, D, i, e, t)
    BY <1>1, <2>5, <2>6, <2>7 DEF InSearch, Left
  <2>9. Nearer1(s, t)
    BY <1>2, <1>4, <2>6 DEF Nearer1
  <2> QED
    BY <2>1, <2>8, <2>9
<1>12. CASE b[d] = b[e] /\ ~(s.clones < MaxClones)
  <2> DEFINE t == [j |-> s.j, clones |-> s.clones + 1, pop |-> RemoveAt(s.pop, s.j)]
             E == D \ {d}
  <2>1. Searched(i, s) = t
    BY <1>5, <1>6, <1>12, SearchedCases
  <2>2. d \notin First(b)
    BY <1>5, <1>12, CloneIsSurplus
  <2>3. /\ Numbers(E) /\ Cardinality(E) = Cardinality(D) - 1
        /\ \A x \in E : Place(E, x) = IF x < d THEN Place(D, x) ELSE Place(D, x) - 1
    BY <1>2, PlaceRemoved
  <2>4. t.j = s.j /\ t.clones = s.clones + 1 /\ t.pop = Those(b, E)
    BY <1>1, <1>5, ThoseRemoved
  <2> HIDE DEF t
  <2>5. E \in SUBSET (1 .. Len(b)) /\ First(b) \subseteq E /\ e \in E
    BY <1>1, <1>5, <2>2
  <2>6. \A x \in E : /\ x \in D /\ Place(E, x) \in Nat /\ Place(D, x) \in Nat
                     /\ Place(E, x) < s.j <=> Place(D, x) < s.j
                     /\ Place(D, x) < s.j => Place(E, x) = Place(D, x)
    <3> TAKE x \in E
    <3>1. x \in D /\ x # d
      OBVIOUS
    <3>2. PICK p \in Nat : p = Place(D, x)
      BY <1>3, <3>1
    <3>3. p # s.j /\ (x < d <=> p < s.j)
      BY <1>3, <1>5, <3>1, <3>2
    <3>4. Place(E, x) = IF p < s.j THEN p ELSE p - 1
      BY <2>3, <3>2, <3>3
    <3>5. p < s.j \/ p > s.j
      BY <1>4, <3>2, <3>3
    <3> HIDE DEF E
    <3> QED
      BY <1>4, <3>1, <3>2, <3>4, <3>5
  <2>7. Place(E, e) = i
    BY <1>1, <2>5, <2>6
  <2>8. Cleared(b, E, i - 1)
    <3>1. ASSUME NEW x \in E, NEW y \in E, Place(E, y) <= i - 1, b[x] = b[y] PROVE x \in First(b)
      <4>1. x \in D /\ y \in D /\ Place(E, y) \in Nat
        BY <2>6
      <4>2. Place(E, y) < s.j
        BY <1>1, <1>4, <3>1, <4>1
      <4>3. Place(D, y) <= i - 1
        BY <2>6, <3>1, <4>2
      <4> QED
        BY <1>1, <3>1, <4>1, <4>3 DEF Cleared
    <3> QED
      BY <3>1 DEF Cleared
  <2>9. \A x \in E : b[x] = b[e] /\ Place(E, x) < s.j => x \in First(b)
    BY <1>1, <2>6
  <2>10. Between(b, E, e, s.j) = B
    <3>1. \A x \in E : x \in Between(b, E, e, s.j) <=> x \in B
      <4> HIDE DEF E
      <4> QED
        BY <1>1, <2>6, <2>7 DEF Between
    <3>2. B \subseteq E /\ Between(b, E, e, s.j) \subseteq E
      BY <1>7 DEF Between
    <3> HIDE DEF B, E
    <3> QED
      BY <3>1, <3>2
  <2>11. Cardinality(Between(b, E, e, t.j)) = IF t.clones < MaxClones THEN t.clones ELSE MaxClones
    <3>1. Cardinality(B) = MaxClones
      BY <1>1, <1>12
    <3>2. ~(t.clones < MaxClones)
      BY <1>4, <1>12, <2>4 DEF MaxClones
    <3> HIDE DEF B, E
    <3> QED
      BY <2>4, <2>10, <3>1, <3>2
  <2>12. InSearch(b, E, i, e, t)
    <3> HIDE DEF E
    <3> QED
      BY <2>4, <2>5, <2>7, <2>8, <2>9, <2>11 DEF InSearch, Left
  <2>13. Nearer1(s, t)
    <3>1. Len(Those(b, E)) = Cardinality(E)
      <4> HIDE DEF E
      <4> QED
        BY <2>5, ThoseTypes
    <3> HIDE DEF E
    <3> QED
      BY <1>2, <1>4, <2>3, <2>4, <3>1 DEF Nearer1
  <2> QED
    BY <2>1, <2>12, <2>13
<1> QED
  BY <1>10, <1>11, <1>12

\* the loop over j has run through what is left when it ends
LEMMA SearchEnds ==
    ASSUME NEW b \in Seq(Genes), NEW D, Left(b, D), NEW i \in Nat \ {0}, i <= Cardinality(D),
           Cleared(b, D, i - 1)
    PROVE  \E E : Left(b, E) /\ Cleared(b, E, i) /\ WithoutClonesOf(i, Those(b, D)) = Those(b, E)
<1> DEFINE pop == Those(b, D)
           n == Len(pop) - i
           e == Nth(D, i)
<1>1. pop \in Seq(Genes) /\ Len(pop) \in Nat /\ Len(pop) = Cardinality(D)
  BY ThoseTypes DEF Left
<1>2. n \in Nat
  BY <1>1
<1>3. PICK after \in [0 .. n -> Searches(i)] : SearchRuns(after, i, pop)
  BY <1>1, SearchIsLoop
<1>4. /\ after[0] = [j |-> i + 1, clones |-> 0, pop |-> pop]
      /\ \A k \in 1 .. n : after[k] = Searched(i, after[k - 1])
      /\ WithoutClonesOf(i, pop) = after[n].pop
  BY <1>3 DEF SearchRuns
<1>5. InSearch(b, D, i, e, after[0])
  BY <1>4, SearchBegins
<1> HIDE DEF e
<1> DEFINE Reached(s, k) == s.j > Len(s.pop) \/ s.j + Len(pop) = i + 1 + k + Len(s.pop)
           T == {k \in 0 .. n : Reached(after[k], k) /\ \E E : InSearch(b, E, i, e, after[k])}
<1>6. 0 \in T
  <2>1. after[0].j = i + 1 /\ after[0].pop = pop
    BY <1>4
  <2>2. Reached(after[0], 0)
    <3>1. PICK p \in Nat : p = Len(pop)
      BY <1>1
    <3>2. i + 1 + p = i + 1 + 0 + p
      OBVIOUS
    <3> QED
      BY <2>1, <3>1, <3>2
  <2> HIDE DEF Reached
  <2> QED
    BY <1>2, <1>5, <2>2
<1>7. ASSUME NEW k \in 0 .. n - 1, k \in T PROVE k + 1 \in T
  <2>1. k \in 0 .. n /\ k + 1 \in 1 .. n /\ k + 1 \in 0 .. n /\ (k + 1) - 1 = k /\ k \in Nat
    BY <1>2
  <2>2. PICK s \in Searches(i) : s = after[k]
    BY <1>3, <2>1
  <2>3. after[k + 1] = Searched(i, s)
    BY <1>4, <2>1, <2>2
  <2>4. PICK E : InSearch(b, E, i, e, s)
    BY <1>7, <2>2
  <2>5. Reached(s, k)
    BY <1>7, <2>2
  <2>6. s.j \in Nat /\ Len(s.pop) \in Nat
    BY SeqIsFunction DEF Searches
  <2>7. CASE s.j > Len(s.pop)
    <3>1. Searched(i, s) = s
      BY <2>7 DEF Searched
    <3>2. Reached(after[k + 1], k + 1) /\ InSearch(b, E, i, e, after[k + 1])
      BY <2>3, <2>4, <2>7, <3>1
    <3> HIDE DEF Reached
    <3> QED
      BY <2>1, <3>2
  <2>8. CASE ~(s.j > Len(s.pop))
    <3>1. s.j <= Len(s.pop)
      BY <2>6, <2>8
    <3>2. Nearer1(s, Searched(i, s)) /\ \E F : InSearch(b, F, i, e, Searched(i, s))
      BY <2>4, <3>1, SearchGoesOn
    <3>3. PICK t \in Searches(i) : t = after[k + 1]
      BY <1>3, <2>1
    <3>4. t.j \in Nat /\ Len(t.pop) \in Nat
      BY SeqIsFunction DEF Searches
    <3>5. Reached(t, k + 1)
      <4>1. t.j + Len(s.pop) = s.j + 1 + Len(t.pop)
        BY <2>3, <3>2, <3>3 DEF Nearer1
      <4>2. s.j + Len(pop) = i + 1 + k + Len(s.pop)
        BY <2>5, <2>8
      <4>3. t.j + Len(pop) = i + 1 + (k + 1) + Len(t.pop)
        <5>1. PICK a \in Nat, c \in Nat, p \in Nat, q \in Nat, r \in Nat :
                 a = s.j /\ c = t.j /\ p = Len(s.pop) /\ q = Len(t.pop) /\ r = Len(pop)
          BY <1>1, <2>6, <3>4
        <5>2. c + p = a + 1 + q /\ a + r = i + 1 + k + p
          BY <4>1, <4>2, <5>1
        <5>3. c + r = i + 1 + (k + 1) + q
          BY <2>1, <5>2
        <5> QED
          BY <5>1, <5>3
      <4> QED
        BY <4>3
    <3> HIDE DEF Reached
    <3> QED
      BY <2>1, <2>3, <3>2, <3>3, <3>5
  <2> QED
    BY <2>7, <2>8
<1>8. n \in T
  <2>1. \A k \in 0 .. n : k \in T
    <3> HIDE DEF T, n
    <3> QED
      BY <1>2, <1>6, <1>7, UpTo
  <2>2. n \in 0 .. n
    BY <1>2
  <2> HIDE DEF T, n
  <2> QED
    BY <2>1, <2>2
<1>9. PICK s \in Searches(i) : s = after[n]
  <2>1. n \in 0 .. n
    BY <1>2
  <2> HIDE DEF n
  <2> QED
    BY <1>3, <2>1
<1>10. PICK E : InSearch(b, E, i, e, s)
  BY <1>8, <1>9
<1>11. s.j > Len(s.pop)
  <2>1. Reached(s, n)
    BY <1>8, <1>9
  <2>2. s.j \in Nat /\ Len(s.pop) \in Nat
    BY SeqIsFunction DEF Searches
  <2>3. PICK p \in Nat, q \in Nat, a \in Nat : p = Len(pop) /\ q = Len(s.pop) /\ a = s.j
    BY <1>1, <2>2
  <2>4. a > q \/ a + p = i + 1 + (p - i) + q
    BY <2>1, <2>3
  <2>5. a > q
    BY <2>4
  <2> QED
    BY <2>3, <2>5
<1>12. /\ Left(b, E) /\ s.pop = Those(b, E) /\ Cleared(b, E, i - 1) /\ e \in E /\ Place(E, e) = i
       /\ \A x \in E : b[x] = b[e] /\ Place(E, x) < s.j => x \in First(b)
  BY <1>10 DEF InSearch
<1>13. /\ Numbers(E) /\ Len(s.pop) = Cardinality(E) /\ Cardinality(E) \in Nat
       /\ \A x \in E : Place(E, x) \in 1 .. Cardinality(E)
  BY <1>12, ThoseTypes DEF Left
<1>14. ASSUME NEW x \in E, NEW y \in E, Place(E, y) <= i, b[x] = b[y] PROVE x \in First(b)
  <2>1. CASE Place(E, y) = i
    <3>1. y = e
      BY <1>12, <1>13, <2>1, PlaceGrows
    <3>2. Place(E, x) < s.j
      <4>1. s.j \in Nat
        BY DEF Searches
      <4> QED
        BY <1>11, <1>13, <4>1
    <3> QED
      BY <1>12, <1>14, <3>1, <3>2
  <2>2. CASE Place(E, y) # i
    <3>1. Place(E, y) <= i - 1
      BY <1>13, <1>14, <2>2
    <3> QED
      BY <1>12, <1>14, <3>1 DEF Cleared
  <2> QED
    BY <2>1, <2>2
<1>15. Cleared(b, E, i)
  BY <1>14 DEF Cleared
<1>16. WithoutClonesOf(i, pop) = Those(b, E)
  BY <1>4, <1>9, <1>12
<1> QED
  BY <1>12, <1>15, <1>16

\* one pass of the loop over i
LEMMA PassClears ==
    ASSUME NEW b \in Seq(Genes), NEW D, Left(b, D), NEW i \in Nat \ {0}, Cleared(b, D, i - 1)
    PROVE  \E E : Left(b, E) /\ Cleared(b, E, i) /\ Pass(i, Those(b, D)) = Those(b, E)
<1>1. /\ Numbers(D) /\ Cardinality(D) \in Nat /\ Len(Those(b, D)) = Cardinality(D)
      /\ \A x \in D : Place(D, x) \in 1 .. Cardinality(D)
  BY ThoseTypes DEF Left
<1>2. CASE i >= Cardinality(D)
  <2>1. Pass(i, Those(b, D)) = Those(b, D)
    BY <1>1, <1>2 DEF Pass
  <2>2. ASSUME NEW x \in D, NEW y \in D, Place(D, y) <= i, b[x] = b[y] PROVE x \in First(b)
    <3>1. CASE Place(D, y) <= i - 1
      BY <2>2, <3>1 DEF Cleared
    <3>2. CASE ~(Place(D, y) <= i - 1)
      <4>1. Place(D, y) = i /\ Place(D, x) <= i
        BY <1>1, <1>2, <2>2, <3>2
      <4> QED
        BY <2>2, <4>1, KeptSoFar
    <3> QED
      BY <3>1, <3>2
  <2>3. Cleared(b, D, i)
    BY <2>2 DEF Cleared
  <2> QED
    BY <2>1, <2>3
<1>3. CASE ~(i >= Cardinality(D))
  <2>1. Pass(i, Those(b, D)) = WithoutClonesOf(i, Those(b, D)) /\ i <= Cardinality(D)
    BY <1>1, <1>3 DEF Pass
  <2>2. \E E : Left(b, E) /\ Cleared(b, E, i) /\ WithoutClonesOf(i, Those(b, D)) = Those(b, E)
    BY <2>1, SearchEnds
  <2> QED
    BY <2>1, <2>2
<1> QED
  BY <1>2, <1>3

\* What Kill leaves are the first of each genome.
LEMMA PrunedIsFirst ==
    ASSUME NEW b \in Populations
    PROVE  Pruned(b) = FirstOfEach(b)
<1>1. b \in Seq(Genes) /\ Len(b) \in Nat /\ Len(b) >= 1 /\ DOMAIN b = 1 .. Len(b)
  BY SeqIsFunction DEF Populations
<1> DEFINE n == Len(b) - 1
<1>2. n \in Nat
  BY <1>1
<1>3. PICK after \in [0 .. n -> Populations] : PruningRuns(after, b)
  BY PruningIsLoop
<1>4. /\ after[0] = b /\ Pruned(b) = after[n]
      /\ \A i \in 1 .. n : after[i] = Pass(i, after[i - 1])
  BY <1>3 DEF PruningRuns
<1> DEFINE T == {i \in 0 .. n : \E D : Left(b, D) /\ Cleared(b, D, i) /\ after[i] = Those(b, D)}
<1>5. 0 \in T
  <2>1. Left(b, 1 .. Len(b))
    BY <1>1 DEF Left, First
  <2>2. Cleared(b, 1 .. Len(b), 0)
    <3>1. \A x \in 1 .. Len(b) : Place(1 .. Len(b), x) \in 1 .. Cardinality(1 .. Len(b))
      BY <1>1, ThoseTypes
    <3>2. \A x \in 1 .. Len(b) : ~(Place(1 .. Len(b), x) <= 0)
      BY <3>1
    <3> QED
      BY <3>2 DEF Cleared
  <2>3. after[0] = Those(b, 1 .. Len(b))
    BY <1>1, <1>4, ThoseWhole
  <2> QED
    BY <1>2, <2>1, <2>2, <2>3
<1>6. ASSUME NEW i \in 0 .. n - 1, i \in T PROVE i + 1 \in T
  <2>1. i \in 0 .. n /\ i + 1 \in 1 .. n /\ i + 1 \in 0 .. n /\ (i + 1) - 1 = i /\ i + 1 \in Nat \ {0}
    BY <1>2
  <2>2. PICK D : Left(b, D) /\ Cleared(b, D, i) /\ after[i] = Those(b, D)
    BY <1>6
  <2>3. after[i + 1] = Pass(i + 1, Those(b, D))
    BY <1>4, <2>1, <2>2
  <2>4. \E E : Left(b, E) /\ Cleared(b, E, i + 1) /\ Pass(i + 1, Those(b, D)) = Those(b, E)
    BY <1>1, <2>1, <2>2, PassClears
  <2> QED
    BY <2>1, <2>3, <2>4
<1>7. n \in T
  <2>1. \A i \in 0 .. n : i \in T
    <3> HIDE DEF T, n
    <3> QED
      BY <1>2, <1>5, <1>6, UpTo
  <2>2. n \in 0 .. n
    BY <1>2
  <2> HIDE DEF T, n
  <2> QED
    BY <2>1, <2>2
<1>8. PICK D : Left(b, D) /\ Cleared(b, D, n) /\ after[n] = Those(b, D)
  BY <1>7
<1>9. /\ D \in SUBSET (1 .. Len(b)) /\ First(b) \subseteq D /\ Cardinality(D) \in Nat
      /\ \A x \in D : Place(D, x) \in 1 .. Cardinality(D)
  BY <1>1, <1>8, ThoseTypes DEF Left
<1>10. Cardinality(D) <= Len(b)
  <2> DEFINE all == 1 .. Len(b)
  <2>1. IsFiniteSet(all) /\ Cardinality(all) = Len(b) /\ D \subseteq all
    BY <1>1, <1>9, NumbersUpTo
  <2> HIDE DEF all
  <2>2. Cardinality(D) <= Cardinality(all)
    BY <2>1, Parts
  <2> QED
    BY <2>1, <2>2
<1>11. ASSUME NEW x \in D PROVE x \in First(b)
  <2>1. CASE Place(D, x) <= n
    BY <1>8, <2>1 DEF Cleared
  <2>2. CASE ~(Place(D, x) <= n)
    <3>1. Place(D, x) = Len(b) /\ Len(b) \in Nat \ {0} /\ Place(D, x) <= Len(b)
      BY <1>1, <1>9, <1>10, <2>2
    <3> QED
      BY <1>1, <1>8, <3>1, KeptSoFar
  <2> QED
    BY <2>1, <2>2
<1>12. D = First(b)
  BY <1>9, <1>11
<1>13. FirstOfEach(b) = Those(b, First(b))
  BY DEF FirstOfEach
<1> QED
  BY <1>4, <1>8, <1>12, <1>13

-----------------------------------------------------------------------------
(* The inductive invariant                                                    *)

Records == [at : Points, value : Rewards]

\* what Test changes
FoundTypes ==
    /\ maximum \in Points /\ maximumValue \in Rewards \cup {Lowest}
    /\ visited \in Seq(Rewards) /\ best \in Seq(Rewards) /\ history \in Seq(Records)
    /\ unmoving \in 0 .. Unmoving
    /\ population \in Seq(Genes) /\ bred \in Seq(Genes)

\* Only the genetic algorithm has a population.
PopulationInv ==
    /\ method = "GA" => population \in Populations
    /\ method # "GA" => bred = <<>>

\* Without a target random search begins with no maximum and no history.
IsHighest(m, S) == m \in S /\ \A y \in S : m >= y
RecordInv ==
    method \in {"random", "gradient"} =>
        \/ method = "random" /\ history = <<>> /\ visited = <<>> /\ maximumValue = Lowest
        \/ /\ history # <<>> /\ maximumValue = Value[maximum] /\ maximum = Last(history).at
           /\ IsHighest(maximumValue, Range(visited) \cup {history[1].value})

\* The best are in order, and no more than K.
BestInv ==
    method \in {"power", "adaptive", "donut"} =>
        /\ LowestFirst(best) /\ Len(best) <= K
        /\ \A v \in Rewards : AreBest(best, v, AtLeast(visited, v))

SearchInv == SearchTypes /\ PopulationInv /\ RecordInv /\ BestInv

\* the lowest value is below all rewards
LEMMA RewardsAreNat ==
    /\ Rewards \in SUBSET Nat /\ Lowest \notin Nat /\ Lowest \in Int
    /\ \A v \in Rewards : v \in Nat /\ v > Lowest
    /\ \A p \in Points : Value[p] \in Rewards /\ Record(p) \in Records
<1>1. Value \in [Points -> Nat]
  BY GeneticAssumption DEF Points
<1>2. Rewards \in SUBSET Nat /\ \A p \in Points : Value[p] \in Rewards
  BY <1>1 DEF Rewards, Range, Points
<1>3. Lowest \notin Nat /\ Lowest \in Int /\ \A v \in Rewards : v \in Nat /\ v > Lowest
  BY <1>2 DEF Lowest
<1>4. \A p \in Points : Record(p) \in Records
  BY <1>2 DEF Record, Records
<1> QED
  BY <1>2, <1>3, <1>4

\* the type invariant in parts: what Test changes, and the rest
LEMMA TypesAreFound ==
    SearchTypes <=> /\ method \in Methods \cup {None} /\ FoundTypes
                    /\ age \in 0 .. MaxAge /\ {converged, alive} \subseteq BOOLEAN
BY DEF SearchTypes, FoundTypes, Records

\* sequences of rewards and of records
LEMMA FoundSeqs ==
    ASSUME NEW s \in Seq(Rewards), NEW t \in Seq(Rewards)
    PROVE  /\ s \in Seq(Nat) /\ s \o t \in Seq(Rewards) /\ s \o t \in Seq(Nat)
           /\ Sorted(s \o t) \in Seq(Rewards)
<1>1. Rewards \in SUBSET Nat /\ s \o t \in Seq(Rewards)
  BY RewardsAreNat, ConcatProperties
<1> QED
  BY <1>1, SortedWithin

\* history keeps its first record and gets a last one
LEMMA HistoryGrows ==
    ASSUME history \in Seq(Records), NEW p \in Points
    PROVE  /\ Append(history, Record(p)) \in Seq(Records) /\ Append(history, Record(p)) # <<>>
           /\ Last(Append(history, Record(p))) = Record(p)
           /\ history # <<>> => Append(history, Record(p))[1] = history[1]
           /\ history = <<>> => Append(history, Record(p))[1] = Record(p)
<1>1. Record(p) \in Records
  BY RewardsAreNat
<1>2. /\ Append(history, Record(p)) \in Seq(Records)
      /\ Len(Append(history, Record(p))) = Len(history) + 1
      /\ \A k \in 1 .. Len(history) : Append(history, Record(p))[k] = history[k]
      /\ Append(history, Record(p))[Len(history) + 1] = Record(p)
  BY <1>1, AppendProperties
<1>3. Len(history) \in Nat /\ (history = <<>> <=> Len(history) = 0)
  BY EmptySeq, SeqIsFunction
<1> QED
  BY <1>2, <1>3 DEF Last

-----------------------------------------------------------------------------
(* Train                                                                     *)

\* before the first Maximize
LEMMA InitIsSound ==
    ASSUME Init
    PROVE  SearchInv
<1>1. Origin \in Points /\ {Unmoving, MaxAge} \subseteq Nat
  BY SearchingAssumption DEF Points
<1>2. SearchTypes
  <2>1. <<>> \in Seq(Rewards) /\ <<>> \in Seq(Genes) /\ <<>> \in Seq([at : Points, value : Rewards])
    OBVIOUS
  <2> QED
    BY <1>1, <2>1 DEF Init, SearchTypes
<1>3. method = None /\ bred = <<>>
  BY DEF Init
<1>4. None \notin AllMethods
  BY SearchingAssumption
<1> QED
  BY <1>2, <1>3, <1>4 DEF SearchInv, PopulationInv, RecordInv, BestInv, AllMethods

\* The record of the point started from is the highest.
LEMMA StartIsHighest ==
    ASSUME NEW p \in Points, Start(p), visited' = <<>>
    PROVE  /\ maximum' \in Points /\ maximumValue' \in Rewards /\ history' \in Seq(Records)
           /\ RecordInv'
<1>1. maximum' = p /\ maximumValue' = Value[p] /\ history' = <<Record(p)>>
  BY DEF Start
<1>2. Record(p) \in Records /\ Value[p] \in Rewards /\ Value[p] \in Nat
  BY RewardsAreNat
<1>3. Last(<<Record(p)>>) = Record(p)
  BY DEF Last
<1>4. Record(p).at = p /\ Record(p).value = Value[p]
  BY DEF Record
<1>5. Range(<<>>) = {}
  BY DEF Range
<1>6. IsHighest(maximumValue', Range(visited') \cup {(history[1].value)'})
  BY <1>1, <1>2, <1>4, <1>5 DEF IsHighest
<1> QED
  BY <1>1, <1>2, <1>3, <1>4, <1>6 DEF RecordInv

\* the new maximizer of each method satisfies the invariant
LEMMA MaximizeIsSound ==
    ASSUME SearchInv, NEW m \in Methods, NEW start \in Targets \cup {None}, Maximize(m, start)
    PROVE  SearchInv'
<1>1. /\ method' = m /\ visited' = <<>> /\ best' = <<>> /\ unmoving' = 0 /\ age' = 0
      /\ converged' = FALSE /\ alive' = alive /\ Train(m, start)
  BY DEF Maximize, Train
<1>2. m \in AllMethods /\ {Unmoving, MaxAge} \subseteq Nat /\ K \in Nat
      /\ Origin \in Points /\ Targets \subseteq Points
  BY SearchingAssumption DEF Points
<1>3. (\E p \in Points : Start(p)) \/ (m # "gradient" /\ \E ps \in SUBSET Points : StartNowhere(ps))
  <2>1. CASE start # None
    BY <1>1, <1>2, <2>1 DEF Train
  <2>2. CASE start = None /\ m = "gradient"
    BY <1>1, <2>2 DEF Train
  <2>3. CASE start = None /\ m = "random"
    <3>1. StartNowhere({Origin})
      BY <1>1, <2>3 DEF Train
    <3> QED
      BY <1>2, <2>3, <3>1
  <2>4. CASE start = None /\ m # "gradient" /\ m # "random"
    <3>1. StartNowhere(Points)
      BY <1>1, <2>4 DEF Train
    <3> QED
      BY <2>4, <3>1
  <2> QED
    BY <2>1, <2>2, <2>3, <2>4
<1>4. /\ maximum' \in Points /\ maximumValue' \in Rewards \cup {Lowest} /\ history' \in Seq(Records)
      /\ RecordInv'
  <2>1. CASE \E p \in Points : Start(p)
    BY <1>1, <2>1, StartIsHighest
  <2>2. CASE m # "gradient" /\ \E ps \in SUBSET Points : StartNowhere(ps)
    BY <1>1, <2>2 DEF StartNowhere, RecordInv
  <2> QED
    BY <1>3, <2>1, <2>2
<1>5. /\ population' \in Seq(Genes) /\ bred' = <<>> /\ bred' \in Seq(Genes)
      /\ m = "GA" => population' \in Populations
  <2>1. <<>> \in Seq(Genes)
    OBVIOUS
  <2>2. CASE m = "GA"
    <3>1. population' \in [1 .. PopSize -> Genes] /\ bred' = <<>>
      BY <2>2 DEF Maximize, Generate
    <3>2. PopSize \in Nat /\ PopSize >= 2
      BY GeneticAssumption
    <3>3. population' \in Seq(Genes) /\ Len(population') = PopSize
      BY <3>1, <3>2, FunctionIsSeq
    <3> QED
      BY <2>1, <3>1, <3>2, <3>3 DEF Populations
  <2>3. CASE m # "GA"
    BY <2>1, <2>3 DEF Maximize
  <2> QED
    BY <2>2, <2>3
<1>6. PopulationInv'
  BY <1>1, <1>5 DEF PopulationInv
<1>7. BestInv'
  <2>1. \A v : AtLeast(<<>>, v) = 0
    <3>1. \A v : {i \in DOMAIN <<>> : <<>>[i] >= v} = {}
      OBVIOUS
    <3> QED
      BY <3>1, FS_EmptySet DEF AtLeast
  <2>2. LowestFirst(<<>>) /\ Len(<<>>) = 0
    BY DEF LowestFirst
  <2> QED
    BY <1>1, <1>2, <2>1, <2>2 DEF BestInv, AreBest
<1>8. SearchTypes'
  <2>1. <<>> \in Seq(Rewards)
    OBVIOUS
  <2>2. FoundTypes'
    BY <1>1, <1>2, <1>4, <1>5, <2>1 DEF FoundTypes
  <2>3. {converged', alive'} \subseteq BOOLEAN
    BY <1>1 DEF SearchInv, SearchTypes
  <2> QED
    BY <1>1, <1>2, <2>2, <2>3, TypesAreFound DEF SearchTypes, FoundTypes, Records
<1> QED
  BY <1>4, <1>6, <1>7, <1>8 DEF SearchInv

\* stopping and resuming touches nothing of it
LEMMA ContinueIsSound ==
    ASSUME SearchInv, MaximizeContinue
    PROVE  SearchInv'
<1>1. /\ UNCHANGED <<method, maximum, maximumValue, visited, best, history, unmoving, age, alive,
                     population, bred>>
      /\ converged' = ~converged
  BY DEF MaximizeContinue, GA
<1>2. SearchTypes'
  <2>1. {converged', alive'} \subseteq BOOLEAN
    BY <1>1 DEF SearchInv, SearchTypes
  <2> QED
    BY <1>1, <2>1 DEF SearchInv, SearchTypes
<1>3. PopulationInv' /\ RecordInv' /\ BestInv'
  BY <1>1 DEF SearchInv, PopulationInv, RecordInv, BestInv
<1> QED
  BY <1>2, <1>3 DEF SearchInv

-----------------------------------------------------------------------------
(* Test                                                                      *)

\* a point visited is sorted in, and counts once
LEMMA VisitOne ==
    ASSUME visited \in Seq(Rewards), NEW v \in Rewards, Visit(<<v>>)
    PROVE  /\ visited' \in Seq(Rewards) /\ Range(visited') = Range(visited) \cup {v}
           /\ \A w \in Int : AtLeast(visited', w) = AtLeast(visited, w) + One(v, w)
<1>1. <<v>> \in Seq(Rewards) /\ v \in Nat /\ visited \in Seq(Nat)
  BY RewardsAreNat, FoundSeqs
<1> DEFINE s == visited \o <<v>>
<1>2. visited' = Sorted(s)
  BY DEF Visit
<1>3. s = Append(visited, v)
  BY AppendIsConcat
<1>4. s \in Seq(Nat) /\ Sorted(s) \in Seq(Rewards)
  BY <1>1, FoundSeqs
<1>5. Range(s) = Range(visited) \cup {v}
  <2>1. /\ DOMAIN s = 1 .. Len(visited) + 1 /\ DOMAIN visited = 1 .. Len(visited) /\ Len(visited) \in Nat
        /\ \A k \in 1 .. Len(visited) : s[k] = visited[k]
        /\ s[Len(visited) + 1] = v
    BY <1>3, AppendProperties, SeqIsFunction
  <2> HIDE DEF s
  <2>2. Len(visited) + 1 \in DOMAIN s /\ DOMAIN visited \subseteq DOMAIN s
    BY <2>1
  <2>3. \A k \in DOMAIN s : s[k] \in Range(visited) \cup {v}
    BY <2>1 DEF Range
  <2>4. v \in Range(s) /\ \A k \in DOMAIN visited : visited[k] \in Range(s)
    BY <2>1, <2>2 DEF Range
  <2> QED
    BY <2>3, <2>4 DEF Range
<1>6. \A w \in Int : AtLeast(s, w) = AtLeast(visited, w) + One(v, w)
  BY <1>1, <1>3, AtLeastAppend
<1> HIDE DEF s
<1> QED
  BY <1>2, <1>4, <1>5, <1>6, SortedKeepsRange, SortedKeepsAtLeast

\* the first of the history, once p has been visited
LEMMA BetterIsTaken ==
    ASSUME FoundTypes, RecordInv, method \in {"random", "gradient"}, NEW p \in Points, TakeBetter(p),
           Range(visited') = Range(visited) \cup {Value[p]},
           NEW h, h = IF history = <<>> THEN Value[p] ELSE history[1].value
    PROVE  /\ maximum' \in Points /\ maximumValue' \in Rewards /\ maximumValue' = Value[maximum']
           /\ maximum' = IF Value[p] > maximumValue THEN p ELSE maximum
           /\ history = <<>> => maximum' = p
           /\ IsHighest(maximumValue', Range(visited') \cup {h})
<1>1. Value[p] \in Rewards /\ Value[p] \in Nat /\ Value[p] > Lowest
  BY RewardsAreNat
<1>2. CASE history = <<>>
  <2>1. visited = <<>> /\ maximumValue = Lowest
    BY <1>2 DEF RecordInv
  <2>2. maximum' = p /\ maximumValue' = Value[p] /\ Value[p] > maximumValue
    BY <1>1, <2>1 DEF TakeBetter
  <2>3. Range(visited') = {Value[p]}
    <3>1. Range(<<>>) = {}
      BY DEF Range
    <3> QED
      BY <2>1, <3>1
  <2> QED
    BY <1>1, <1>2, <2>2, <2>3 DEF IsHighest
<1>3. CASE history # <<>>
  <2> DEFINE S == Range(visited) \cup {h}
  <2>1. /\ maximumValue = Value[maximum] /\ IsHighest(maximumValue, S)
    BY <1>3 DEF RecordInv
  <2>2. maximum \in Points /\ maximumValue \in Rewards /\ maximumValue \in Nat
    BY <2>1, RewardsAreNat DEF FoundTypes
  <2>3. S \subseteq Nat
    <3>1. Len(history) \in Nat /\ Len(history) # 0 /\ history \in [1 .. Len(history) -> Records]
      BY <1>3, SeqIsFunction, EmptySeq DEF FoundTypes
    <3>2. history[1].value \in Nat
      <4>1. 1 \in 1 .. Len(history)
        BY <3>1
      <4>2. history[1] \in Records
        BY <3>1, <4>1
      <4>3. history[1].value \in Rewards
        BY <4>2 DEF Records
      <4> QED
        BY <4>3, RewardsAreNat
    <3>3. visited \in Seq(Nat)
      BY FoundSeqs DEF FoundTypes
    <3>4. Range(visited) \subseteq Nat
      BY <3>3, SeqIsFunction DEF Range
    <3> QED
      BY <1>3, <3>2, <3>4
  <2>4. Range(visited') \cup {h} = S \cup {Value[p]}
    OBVIOUS
  <2> HIDE DEF S
  <2>5. CASE Value[p] > maximumValue
    <3>1. maximum' = p /\ maximumValue' = Value[p]
      BY <2>5 DEF TakeBetter
    <3>2. ASSUME NEW y \in S PROVE Value[p] >= y
      <4>1. maximumValue >= y /\ y \in Nat
        BY <2>1, <2>3 DEF IsHighest
      <4> QED
        BY <1>1, <2>2, <2>5, <4>1
    <3>3. IsHighest(maximumValue', S \cup {Value[p]})
      BY <1>1, <3>1, <3>2 DEF IsHighest
    <3> QED
      BY <1>1, <1>3, <2>4, <2>5, <3>1, <3>3
  <2>6. CASE ~(Value[p] > maximumValue)
    <3>1. maximum' = maximum /\ maximumValue' = maximumValue
      BY <2>6 DEF TakeBetter
    <3>2. maximumValue >= Value[p]
      BY <1>1, <2>2, <2>6
    <3>3. IsHighest(maximumValue', S \cup {Value[p]})
      BY <2>1, <3>1, <3>2 DEF IsHighest
    <3> QED
      BY <1>3, <2>1, <2>2, <2>4, <2>6, <3>1, <3>3
  <2> QED
    BY <2>5, <2>6
<1> QED
  BY <1>2, <1>3

TestInv == FoundTypes /\ PopulationInv /\ RecordInv /\ BestInv

\* random search: the maximum stays the highest, also when it begins with none
LEMMA ExploreIsSound ==
    ASSUME TestInv, UNCHANGED method, Explore
    PROVE  TestInv'
<1>1. PICK p \in Points : Visit(<<Value[p]>>) /\ TakeBetter(p)
  BY DEF Explore
<1>2. /\ method = "random" /\ history' = Append(history, Record(maximum'))
      /\ UNCHANGED <<best, unmoving, population, bred>>
  BY DEF Explore, GA
<1>3. FoundTypes /\ RecordInv /\ Value[p] \in Rewards
  BY RewardsAreNat DEF TestInv
<1>4. visited' \in Seq(Rewards) /\ Range(visited') = Range(visited) \cup {Value[p]}
  BY <1>1, <1>3, VisitOne DEF FoundTypes
<1>5. /\ maximum' \in Points /\ maximumValue' \in Rewards /\ maximumValue' = Value[maximum']
      /\ history = <<>> => maximum' = p
      /\ IsHighest(maximumValue', Range(visited') \cup
                     {IF history = <<>> THEN Value[p] ELSE history[1].value})
  BY <1>1, <1>2, <1>3, <1>4, BetterIsTaken
<1>6. /\ history' \in Seq(Records) /\ history' # <<>> /\ Last(history') = Record(maximum')
      /\ history # <<>> => history'[1] = history[1]
      /\ history = <<>> => history'[1] = Record(maximum')
  BY <1>2, <1>3, <1>5, HistoryGrows DEF FoundTypes
<1>7. FoundTypes'
  BY <1>2, <1>3, <1>4, <1>5, <1>6 DEF FoundTypes
<1>8. RecordInv'
  <2>1. history'[1].value = IF history = <<>> THEN Value[p] ELSE history[1].value
    BY <1>5, <1>6 DEF Record
  <2>2. maximum' = Last(history').at
    BY <1>6 DEF Record
  <2> QED
    BY <1>5, <1>6, <2>1, <2>2 DEF RecordInv
<1>9. PopulationInv' /\ BestInv'
  BY <1>2 DEF TestInv, PopulationInv, BestInv
<1> QED
  BY <1>7, <1>8, <1>9 DEF TestInv

\* gradient: the history grows with the maximum only
LEMMA ClimbIsSound ==
    ASSUME TestInv, UNCHANGED method, Climb
    PROVE  TestInv'
<1>1. PICK p \in Points :
        /\ Visit(<<Value[p]>>) /\ TakeBetter(p)
        /\ history' = IF Value[p] > maximumValue THEN Append(history, Record(p)) ELSE history
        /\ unmoving' = 0 \/ (unmoving < Unmoving /\ unmoving' = unmoving + 1)
  BY DEF Climb
<1>2. method = "gradient" /\ UNCHANGED <<best, population, bred>>
  BY DEF Climb, GA
<1>3. FoundTypes /\ RecordInv /\ Value[p] \in Rewards
  BY RewardsAreNat DEF TestInv
<1>4. visited' \in Seq(Rewards) /\ Range(visited') = Range(visited) \cup {Value[p]}
  BY <1>1, <1>3, VisitOne DEF FoundTypes
<1>5. history # <<>> /\ maximum = Last(history).at
  BY <1>2, <1>3 DEF RecordInv
<1>6. /\ maximum' \in Points /\ maximumValue' \in Rewards /\ maximumValue' = Value[maximum']
      /\ maximum' = IF Value[p] > maximumValue THEN p ELSE maximum
      /\ IsHighest(maximumValue', Range(visited') \cup {history[1].value})
  <2>1. history[1].value = IF history = <<>> THEN Value[p] ELSE history[1].value
    BY <1>5
  <2> QED
    BY <1>1, <1>2, <1>3, <1>4, <2>1, BetterIsTaken
<1>7. /\ history' \in Seq(Records) /\ history' # <<>> /\ maximum' = Last(history').at
      /\ history'[1] = history[1]
  <2>1. CASE Value[p] > maximumValue
    <3>1. history' = Append(history, Record(p)) /\ maximum' = p
      BY <1>1, <1>6, <2>1
    <3> QED
      BY <1>3, <1>5, <3>1, HistoryGrows DEF FoundTypes, Record
  <2>2. CASE ~(Value[p] > maximumValue)
    BY <1>1, <1>3, <1>5, <1>6, <2>2 DEF FoundTypes
  <2> QED
    BY <2>1, <2>2
<1>8. FoundTypes'
  <2>1. unmoving' \in 0 .. Unmoving
    BY <1>1, <1>3, SearchingAssumption DEF FoundTypes
  <2> QED
    BY <1>2, <1>3, <1>4, <1>6, <1>7, <2>1 DEF FoundTypes
<1>9. RecordInv' /\ PopulationInv' /\ BestInv'
  BY <1>2, <1>6, <1>7 DEF TestInv, RecordInv, PopulationInv, BestInv
<1> QED
  BY <1>8, <1>9 DEF TestInv

\* a visit that is kept: what has been filled up first, and then v
LEMMA SampleIsSound ==
    ASSUME NEW s \in Seq(Rewards), LowestFirst(s), Len(s) <= K, NEW v \in Rewards,
           NEW w \in Int, NEW a \in Nat, AreBest(s, w, a)
    PROVE  AreBest(Kept(s, v), w, a + One(v, w))
<1>1. s \in Seq(Nat) /\ v \in Nat
  BY RewardsAreNat, FoundSeqs
<1> QED
  BY <1>1, KeptAreBest

\* PoWER and Donut: filling up, then a visit, keep the best
LEMMA SampleBestIsSound ==
    ASSUME TestInv, UNCHANGED method, SampleBest
    PROVE  TestInv'
<1>1. /\ method \in {"power", "adaptive", "donut"} /\ maximum' \in Points
      /\ history' = Append(history, Record(maximum'))
      /\ UNCHANGED <<maximumValue, unmoving, population, bred>>
  BY DEF SampleBest, GA
<1>2. /\ FoundTypes /\ visited \in Seq(Rewards) /\ best \in Seq(Rewards) /\ visited \in Seq(Nat)
      /\ LowestFirst(best) /\ Len(best) <= K /\ Rewards \in SUBSET Nat
      /\ \A w \in Rewards : AreBest(best, w, AtLeast(visited, w))
  BY <1>1, RewardsAreNat, FoundSeqs DEF TestInv, BestInv, FoundTypes
<1>3. ASSUME NEW v \in Rewards, Visit(<<v>>), best' = Kept(best, v)
      PROVE  /\ visited' \in Seq(Rewards) /\ best' \in Seq(Rewards)
             /\ LowestFirst(best') /\ Len(best') <= K
             /\ \A w \in Int : w \in Rewards => AreBest(best', w, AtLeast(visited', w))
  <2>1. /\ visited' \in Seq(Rewards)
        /\ \A w \in Int : AtLeast(visited', w) = AtLeast(visited, w) + One(v, w)
    BY <1>2, <1>3, VisitOne
  <2>2. best' \in Seq(Rewards) /\ LowestFirst(best') /\ Len(best') <= K
    BY <1>2, <1>3, KeptTypes
  <2>3. ASSUME NEW w \in Int, w \in Rewards PROVE AreBest(best', w, AtLeast(visited', w))
    <3>1. AtLeast(visited, w) \in Nat /\ AreBest(best, w, AtLeast(visited, w))
      BY <1>2, <2>3, AtLeastTypes
    <3> QED
      BY <1>2, <1>3, <2>1, <3>1, SampleIsSound
  <2> QED
    BY <2>1, <2>2, <2>3
<1>4. ASSUME NEW more \in [1 .. K - Len(best) -> Rewards], NEW v \in Rewards,
             Visit(Append(more, v)), best' = Kept(Sorted(best \o more), v)
      PROVE  /\ visited' \in Seq(Rewards) /\ best' \in Seq(Rewards)
             /\ LowestFirst(best') /\ Len(best') <= K
             /\ \A w \in Int : w \in Rewards => AreBest(best', w, AtLeast(visited', w))
  <2> DEFINE filled == Sorted(best \o more)
             seen == Append(more, v)
  <2>1. /\ more \in Seq(Rewards) /\ filled \in Seq(Rewards) /\ LowestFirst(filled) /\ Len(filled) <= K
        /\ \A w \in Int : \A a \in Nat :
              AreBest(best, w, a) => AreBest(filled, w, a + AtLeast(more, w))
    BY <1>2, FilledUp
  <2>2. seen \in Seq(Rewards) /\ seen \in Seq(Nat) /\ more \in Seq(Nat) /\ v \in Nat
    <3>1. seen \in Seq(Rewards)
      BY <2>1, AppendProperties
    <3> HIDE DEF seen
    <3> QED
      BY <1>2, <2>1, <3>1, FoundSeqs
  <2>3. visited' = Sorted(visited \o seen)
    BY <1>4 DEF Visit
  <2>4. \A w \in Int : AtLeast(seen, w) = AtLeast(more, w) + One(v, w)
    BY <2>2, AtLeastAppend
  <2> HIDE DEF filled, seen
  <2>5. visited \o seen \in Seq(Nat) /\ visited' \in Seq(Rewards)
    BY <1>2, <2>2, <2>3, FoundSeqs
  <2>6. best' \in Seq(Rewards) /\ LowestFirst(best') /\ Len(best') <= K
    BY <1>2, <1>4, <2>1, KeptTypes DEF filled
  <2>7. ASSUME NEW w \in Int, w \in Rewards PROVE AreBest(best', w, AtLeast(visited', w))
    <3>1. AtLeast(visited, w) \in Nat /\ AreBest(best, w, AtLeast(visited, w)) /\ AtLeast(more, w) \in Nat
      BY <1>2, <2>2, <2>7, AtLeastTypes
    <3>2. AtLeast(visited', w) = AtLeast(visited, w) + AtLeast(seen, w)
      <4>1. visited \in Seq(Nat)
        BY <1>2
      <4>2. AtLeast(visited \o seen, w) = AtLeast(visited, w) + AtLeast(seen, w)
        BY <2>2, <4>1, AtLeastConcat
      <4>3. AtLeast(Sorted(visited \o seen), w) = AtLeast(visited \o seen, w)
        BY <2>5, SortedKeepsAtLeast
      <4> QED
        BY <2>3, <4>2, <4>3
    <3>3. AreBest(filled, w, AtLeast(visited, w) + AtLeast(more, w))
      BY <2>1, <3>1
    <3>4. AreBest(Kept(filled, v), w, (AtLeast(visited, w) + AtLeast(more, w)) + One(v, w))
      <4> DEFINE a == AtLeast(visited, w) + AtLeast(more, w)
      <4>1. a \in Nat /\ AreBest(filled, w, a)
        BY <3>1, <3>3
      <4> HIDE DEF a
      <4>2. AreBest(Kept(filled, v), w, a + One(v, w))
        BY <2>1, <4>1, SampleIsSound
      <4> QED
        BY <4>2 DEF a
    <3>5. AtLeast(visited', w) = (AtLeast(visited, w) + AtLeast(more, w)) + One(v, w)
      BY <2>4, <3>1, <3>2 DEF One
    <3> QED
      BY <1>4, <3>4, <3>5 DEF filled
  <2> QED
    BY <2>5, <2>6, <2>7
<1>5. /\ visited' \in Seq(Rewards) /\ best' \in Seq(Rewards)
      /\ LowestFirst(best') /\ Len(best') <= K
      /\ \A w \in Int : w \in Rewards => AreBest(best', w, AtLeast(visited', w))
  BY <1>3, <1>4 DEF SampleBest
<1>6. FoundTypes'
  <2>1. history' \in Seq(Records)
    BY <1>1, <1>2, HistoryGrows DEF FoundTypes
  <2> QED
    BY <1>1, <1>2, <1>5, <2>1 DEF FoundTypes
<1>7. BestInv'
  <2>1. \A w \in Rewards : AreBest(best', w, AtLeast(visited', w))
    BY <1>2, <1>5
  <2> QED
    BY <1>5, <2>1 DEF BestInv
<1>8. PopulationInv' /\ RecordInv'
  BY <1>1 DEF TestInv, PopulationInv, RecordInv
<1> QED
  BY <1>6, <1>7, <1>8 DEF TestInv

\* the genetic algorithm has a population, whatever Kill removes
LEMMA BreedIsSound ==
    ASSUME TestInv, UNCHANGED method, Breed
    PROVE  TestInv'
<1>1. /\ method = "GA" /\ NextGen /\ maximum' = Fittest(population) /\ maximumValue' = Value[maximum']
      /\ history' = Append(history, Record(maximum')) /\ UNCHANGED <<visited, best, unmoving>>
  BY DEF Breed
<1>2. FoundTypes /\ population \in Seq(Genes) /\ Len(population) >= 1
  BY <1>1 DEF TestInv, PopulationInv, Populations
<1>3. maximum' \in Points /\ maximumValue' \in Rewards
  <2>1. Fittest(population) \in Genes
    BY <1>2, FittestIsBest
  <2> QED
    BY <1>1, <2>1, RewardsAreNat, GeneticAssumption DEF Points
<1>4. bred' \in Seq(Genes) /\ population' \in Populations
  <2>1. PICK filled \in Filled(population) : bred' \in Bred(filled)
    BY <1>1 DEF NextGen
  <2>2. bred' \in Populations
    BY <2>1, BredTypes DEF Populations
  <2> QED
    BY <1>1, <2>2, PrunedTypes DEF NextGen, Populations
<1>5. FoundTypes'
  <2>1. history' \in Seq(Records)
    BY <1>1, <1>2, <1>3, HistoryGrows DEF FoundTypes
  <2> QED
    BY <1>1, <1>2, <1>3, <1>4, <2>1 DEF FoundTypes, Populations
<1>6. PopulationInv' /\ RecordInv' /\ BestInv'
  BY <1>1, <1>4 DEF PopulationInv, RecordInv, BestInv
<1> QED
  BY <1>5, <1>6 DEF TestInv

\* Test, of whichever method
LEMMA TestIsSound ==
    ASSUME TestInv, UNCHANGED method, Test
    PROVE  TestInv'
<1>1. CASE UNCHANGED <<visited, best, maximum, maximumValue, history, unmoving, GA>>
  BY <1>1 DEF GA, TestInv, FoundTypes, PopulationInv, RecordInv, BestInv
<1>2. CASE ClimbNoMore
  BY <1>1, <1>2 DEF ClimbNoMore
<1> QED
  BY <1>1, <1>2, ExploreIsSound, ClimbIsSound, SampleBestIsSound, BreedIsSound DEF Test

\* and the iteration around it
LEMMA MaximizationIsSound ==
    ASSUME SearchInv, Maximization
    PROVE  SearchInv'
<1>1. TestInv /\ UNCHANGED method /\ Test
  BY TypesAreFound DEF SearchInv, TestInv, Maximization
<1>2. TestInv'
  BY <1>1, TestIsSound
<1>3. method' \in Methods \cup {None}
  BY <1>1 DEF SearchInv, SearchTypes
<1>4. age' \in 0 .. MaxAge
  <2>1. age \in 0 .. MaxAge /\ MaxAge \in Nat
    BY SearchingAssumption DEF SearchInv, SearchTypes
  <2> QED
    BY <2>1 DEF Maximization, Aged
<1>5. {converged', alive'} \subseteq BOOLEAN
  <2>1. alive' = (history' # <<>>)
        /\ converged' = (converged \/ Stuck \/ Value[maximum'] >= StopValue \/ age >= MaxAge)
    BY DEF Maximization
  <2> QED
    BY <2>1
<1> QED
  BY <1>2, <1>3, <1>4, <1>5, TypesAreFound DEF SearchInv, TestInv, SearchTypes, FoundTypes, Records

-----------------------------------------------------------------------------
(* Theorems                                                                  *)

\* every step keeps the invariant
LEMMA SearchStep ==
    ASSUME SearchInv, [Next]_vars
    PROVE  SearchInv'
<1>1. CASE UNCHANGED vars
  BY <1>1 DEF vars, SearchInv, SearchTypes, PopulationInv, RecordInv, BestInv
<1>2. CASE Next
  BY <1>2, MaximizeIsSound, ContinueIsSound, MaximizationIsSound DEF Next
<1> QED
  BY <1>1, <1>2

\* The inductive invariant of the maximizers.
LEMMA SearchInvHolds == Spec => []SearchInv
<1>1. Init => SearchInv
  BY InitIsSound
<1>2. SearchInv /\ [Next]_vars => SearchInv'
  BY SearchStep
<1> QED
  BY <1>1, <1>2, PTL DEF Spec

\* The types are right, also those of the genomes bred, of which Kill removes some while
\* it goes over them.
THEOREM SearchTypesHold == Spec => []SearchTypes
<1>1. SearchInv => SearchTypes
  BY DEF SearchInv
<1> QED
  BY <1>1, SearchInvHolds, PTL

\* the highest is the maximum
LEMMA HighestIsMax ==
    ASSUME NEW S \in SUBSET Nat, NEW m, IsHighest(m, S)
    PROVE  m = Max(S)
<1>1. m \in S /\ \A y \in S : m >= y
  BY DEF IsHighest
<1>2. \A x \in S : (\A y \in S : x >= y) => x = m
  BY <1>1
<1>3. Max(S) \in S /\ \A y \in S : Max(S) >= y
  BY <1>1 DEF Max
<1> QED
  BY <1>2, <1>3

\* What random search and gradient report is the best of what they visited and of what
\* they started from, however often they were stopped and resumed: Test compares each
\* point with the maximum only.
THEOREM RecordIsAlwaysBest == Spec => []RecordIsBest
<1>1. SearchInv => RecordIsBest
  <2> SUFFICES ASSUME SearchInv, method \in {"random", "gradient"}, history # <<>>
               PROVE  /\ maximumValue = Value[maximum] /\ maximum = Last(history).at
                      /\ maximumValue = Max(Range(visited) \cup {history[1].value})
    BY DEF RecordIsBest
  <2>1. /\ maximumValue = Value[maximum] /\ maximum = Last(history).at
        /\ IsHighest(maximumValue, Range(visited) \cup {history[1].value})
    BY DEF SearchInv, RecordInv
  <2>2. Range(visited) \cup {history[1].value} \in SUBSET Nat
    <3>1. visited \in Seq(Rewards) /\ history \in Seq(Records) /\ Rewards \in SUBSET Nat
      BY TypesAreFound, RewardsAreNat DEF SearchInv, FoundTypes
    <3>2. Range(visited) \in SUBSET Rewards
      BY <3>1, SeqIsFunction DEF Range
    <3>3. history[1] \in Records
      <4>1. Len(history) \in Nat /\ Len(history) # 0
        BY <3>1, EmptySeq, SeqIsFunction
      <4> QED
        BY <3>1, <4>1, SeqIsFunction
    <3> QED
      BY <3>1, <3>2, <3>3 DEF Records
  <2>3. maximumValue = Max(Range(visited) \cup {history[1].value})
    BY <2>1, <2>2, HighestIsMax
  <2> QED
    BY <2>1, <2>3
<1> QED
  BY <1>1, SearchInvHolds, PTL

\* PoWER and Donut keep the K best of all they visited: each new one is only compared
\* with the worst of those kept.
THEOREM EliteIsAlwaysBestVisited == Spec => []EliteIsBestVisited
<1>1. SearchInv => EliteIsBestVisited
  <2> SUFFICES ASSUME SearchInv, method \in {"power", "adaptive", "donut"}, NEW v \in Rewards
               PROVE  AtLeast(best, v) = Min({K, AtLeast(visited, v)})
    BY DEF EliteIsBestVisited
  <2>1. AreBest(best, v, AtLeast(visited, v))
    BY DEF SearchInv, BestInv
  <2>2. visited \in Seq(Nat) /\ v \in Int
    <3>1. visited \in Seq(Rewards) /\ Rewards \in SUBSET Nat
      BY RewardsAreNat DEF SearchInv, SearchTypes
    <3> QED
      BY <3>1, SortedWithin
  <2>3. AtLeast(visited, v) \in Int /\ K \in Int
    BY <2>2, AtLeastTypes, SearchingAssumption
  <2> QED
    BY <2>1, <2>3, LeastOfTwo DEF AreBest
<1> QED
  BY <1>1, SearchInvHolds, PTL

\* What the genetic algorithm reports is as good as any genome of the generation it
\* ranks, and only it breeds.
THEOREM FittestIsAlwaysReported == Spec => FittestIsReported
<1>1. ASSUME SearchInv, [Next]_vars
      PROVE  [(bred' # <<>> /\ history' # history) =>
                 \A g \in Range(population) : Value[maximum'] >= Value[g]]_vars
  <2> SUFFICES ASSUME Next, bred' # <<>>, history' # history, NEW g \in Range(population)
               PROVE  Value[maximum'] >= Value[g]
    BY <1>1
  <2>1. SearchInv
    BY <1>1
  <2>2. Maximization
    <3>1. ASSUME NEW m \in Methods, NEW start \in Targets \cup {None}, Maximize(m, start)
          PROVE  bred' = <<>>
      BY <3>1 DEF Maximize, Generate
    <3>2. MaximizeContinue => history' = history
      BY DEF MaximizeContinue
    <3> QED
      BY <3>1, <3>2 DEF Next
  <2>3. method = "GA"
    <3>1. method # "GA" => bred = <<>>
      BY <2>1 DEF SearchInv, PopulationInv
    <3>2. Breed => method = "GA"
      BY DEF Breed
    <3>3. Explore \/ Climb \/ SampleBest => bred' = bred
      BY DEF Explore, Climb, SampleBest, GA
    <3>4. ClimbNoMore => history' = history
      BY DEF ClimbNoMore
    <3> QED
      BY <2>2, <3>1, <3>2, <3>3, <3>4 DEF Maximization, Test
  <2>4. Breed
    BY <2>2, <2>3 DEF Maximization, Test, Explore, Climb, ClimbNoMore, SampleBest, Stuck
  <2>5. population \in Seq(Genes) /\ Len(population) >= 1
    BY <2>1, <2>3 DEF SearchInv, PopulationInv, Populations
  <2> QED
    BY <2>4, <2>5, FittestIsBest DEF Breed
<1>2. SearchInv /\ [Next]_vars =>
        [(bred' # <<>> /\ history' # history) =>
            \A g \in Range(population) : Value[maximum'] >= Value[g]]_vars
  BY <1>1
<1> QED
  BY <1>2, SearchInvHolds, PTL DEF Spec, FittestIsReported

\* between generations the population is what was bred, without surplus clones
PrunedInv == bred # <<>> => bred \in Populations /\ population = Pruned(bred)

\* ... which every step keeps: only Breed changes either
LEMMA PrunedStep ==
    ASSUME PrunedInv, [Next]_vars
    PROVE  PrunedInv'
<1>1. CASE UNCHANGED GA
  BY <1>1 DEF GA, PrunedInv
<1>2. CASE UNCHANGED vars
  BY <1>1, <1>2 DEF vars, GA
<1>3. CASE MaximizeContinue
  BY <1>1, <1>3 DEF MaximizeContinue
<1>4. ASSUME NEW m \in Methods, NEW start \in Targets \cup {None}, Maximize(m, start)
      PROVE  PrunedInv'
  <2>1. bred' = <<>>
    BY <1>4 DEF Maximize, Generate
  <2> QED
    BY <2>1 DEF PrunedInv
<1>5. CASE Maximization
  <2>1. Test
    BY <1>5 DEF Maximization
  <2>2. CASE Breed
    <3>1. PICK filled \in Filled(population) : bred' \in Bred(filled)
      BY <2>2 DEF Breed, NextGen
    <3>2. bred' \in Populations
      <4>1. PICK new \in Bred(filled) : new = bred'
        BY <3>1
      <4>2. new \in Seq(Genes) /\ Len(new) >= 2
        BY BredTypes
      <4>3. Len(new) >= 1
        BY <4>2, SeqIsFunction
      <4> QED
        BY <4>1, <4>2, <4>3 DEF Populations
    <3>3. population' = Pruned(bred')
      BY <2>2 DEF Breed, NextGen
    <3> QED
      BY <3>2, <3>3 DEF PrunedInv
  <2>3. CASE ~Breed
    BY <1>1, <2>1, <2>3 DEF Test, Explore, Climb, ClimbNoMore, SampleBest
  <2> QED
    BY <2>2, <2>3
<1> QED
  BY <1>2, <1>3, <1>4, <1>5 DEF Next

\* The two loops of NextGen over a vector that Kill shortens under them leave the first
\* three of each genome bred, in order: none is lost, and no clone is passed over.
THEOREM OnlyClonesEverDie == Spec => []OnlyClonesDie
<1>1. Init => PrunedInv
  BY DEF Init, PrunedInv
<1>2. PrunedInv /\ [Next]_vars => PrunedInv'
  BY PrunedStep
<1>3. PrunedInv => OnlyClonesDie
  BY PrunedIsFirst DEF PrunedInv, OnlyClonesDie
<1> QED
  BY <1>1, <1>2, <1>3, PTL DEF Spec
=============================================================================
