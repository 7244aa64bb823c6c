------------------------- MODULE ClusteringProofs -------------------------
(***************************************************************************)
(* Proofs about the clustering algorithms, for every set of places, any    *)
(* norm and any number of samples and clusters: the types, with the        *)
(* arithmetic of the means they rest on (powers, sums and distances are    *)
(* loops over the coordinates or over the points); the extent and the      *)
(* count of the clusters that QT clustering gathers; and that K-means      *)
(* leaves every point in the cluster of the mean nearest to it.            *)
(***************************************************************************)
EXTENDS Clustering, Inductions, FiniteSetTheorems

-----------------------------------------------------------------------------
(* Arithmetic.                                                               *)

\* a power is a loop
PowerRun(f, p, n) == f[0] = 1 /\ \A j \in 1 .. n : f[j] = f[j - 1] * p

\* Power(p, n) is the last value of such a loop.
LEMMA PowerLoop ==
    ASSUME NEW p \in Nat, NEW n \in Nat
    PROVE  \E f \in [0 .. n -> Nat] : PowerRun(f, p, n) /\ Power(p, n) = f[n]
<1> DEFINE step == [kq \in (1 .. n) \X Nat |-> kq[2] * p]
           Body(h, j) == IF j = 0 THEN 1 ELSE h[j - 1] * p
<1>1. \A q \in Nat : q * p \in Nat
  OBVIOUS
<1>2. 1 \in Nat /\ step \in [(1 .. n) \X Nat -> Nat]
  BY <1>1
<1>3. PICK f \in [0 .. n -> Nat] : IsLoop(f, n, 1, step)
  <2> HIDE DEF step
  <2> QED
    BY <1>2, LoopExists
<1>4. PowerRun(f, p, n)
  <2>1. \A j \in 1 .. n : j - 1 \in 0 .. n /\ f[j - 1] \in Nat
    OBVIOUS
  <2>2. \A j \in 1 .. n : f[j] = f[j - 1] * p
    BY <1>3, <2>1 DEF IsLoop
  <2>3. f[0] = 1
    BY <1>3 DEF IsLoop
  <2> QED
    BY <2>2, <2>3 DEF PowerRun
<1>5. f = [j \in 0 .. n |-> Body(f, j)]
  BY <1>4 DEF PowerRun
<1> DEFINE F == CHOOSE h : h = [j \in 0 .. n |-> Body(h, j)]
<1>6. F = [j \in 0 .. n |-> Body(F, j)]
  BY <1>5
<1>7. Power(p, n) = F[n]
  BY DEF Power
<1> HIDE DEF F
<1>8. Agree(F, f, n)
  <2>1. F[0] = 1 /\ \A j \in 1 .. n : F[j] = F[j - 1] * p
    BY <1>6
  <2>2. Follows(F, n, Nat, 1, step)
    BY <2>1 DEF Follows
  <2> HIDE DEF step, Body
  <2> QED
    BY <1>2, <1>3, <2>2, SameLoop
<1> QED
  BY <1>4, <1>7, <1>8 DEF Agree

\* the recursion of powers
LEMMA PowerSteps ==
    ASSUME NEW p \in Nat, NEW n \in Nat
    PROVE  Power(p, 0) = 1 /\ Power(p, n) \in Nat /\ Power(p, n + 1) = Power(p, n) * p
<1>1. PICK f \in [0 .. n + 1 -> Nat] : PowerRun(f, p, n + 1) /\ Power(p, n + 1) = f[n + 1]
  <2>1. n + 1 \in Nat
    OBVIOUS
  <2> QED
    BY <2>1, PowerLoop
<1>2. PICK g \in [0 .. n -> Nat] : PowerRun(g, p, n) /\ Power(p, n) = g[n]
  BY PowerLoop
<1> DEFINE Same == {k \in 0 .. n : f[k] = g[k]}
<1>3. 0 \in Same
  BY <1>1, <1>2 DEF PowerRun
<1>4. ASSUME NEW k \in 0 .. n - 1, k \in Same PROVE k + 1 \in Same
  <2>1. k + 1 \in 1 .. n /\ k + 1 \in 1 .. n + 1 /\ (k + 1) - 1 = k
    OBVIOUS
  <2>2. f[k + 1] = f[k] * p /\ g[k + 1] = g[k] * p
    BY <1>1, <1>2, <2>1 DEF PowerRun
  <2> QED
    BY <1>4, <2>1, <2>2
<1>5. f[n] = g[n]
  <2> HIDE DEF Same
  <2>1. \A k \in 0 .. n : k \in Same
    BY <1>3, <1>4, UpTo
  <2> QED
    BY <2>1 DEF Same
<1>6. f[n + 1] = f[n] * p
  <2>1. n + 1 \in 1 .. n + 1 /\ (n + 1) - 1 = n
    OBVIOUS
  <2> QED
    BY <1>1, <2>1 DEF PowerRun
<1>7. Power(p, 0) = 1
  <2>1. PICK h \in [0 .. 0 -> Nat] : PowerRun(h, p, 0) /\ Power(p, 0) = h[0]
    BY PowerLoop
  <2> QED
    BY <2>1 DEF PowerRun
<1> QED
  BY <1>1, <1>2, <1>5, <1>6, <1>7

\* a power of a number is one
LEMMA PowerType ==
    ASSUME NEW p \in Nat, NEW n \in Nat
    PROVE  Power(p, n) \in Nat /\ (p # 0 => Power(p, n) # 0)
<1> DEFINE T == {k \in Nat : Power(p, k) \in Nat /\ (p # 0 => Power(p, k) # 0)}
<1>1. 0 \in T
  BY PowerSteps
<1>2. ASSUME NEW k \in Nat, k \in T PROVE k + 1 \in T
  <2>1. Power(p, k + 1) = Power(p, k) * p
    BY PowerSteps
  <2>2. PICK a \in Nat : a = Power(p, k) /\ (p # 0 => a # 0)
    BY <1>2
  <2>3. a * p \in Nat /\ (p # 0 => a * p # 0)
    BY <2>2
  <2> QED
    BY <2>1, <2>2, <2>3
<1> QED
  <2> HIDE DEF T
  <2>1. n \in T
    BY <1>1, <1>2, Induction
  <2> QED
    BY <2>1 DEF T

\* the power of a product
LEMMA PowerOfProduct ==
    ASSUME NEW a \in Nat, NEW b \in Nat, NEW n \in Nat
    PROVE  Power(a * b, n) = Power(a, n) * Power(b, n)
<1> DEFINE T == {k \in Nat : Power(a * b, k) = Power(a, k) * Power(b, k)}
<1>0. a * b \in Nat
  OBVIOUS
<1>1. 0 \in T
  BY <1>0, PowerSteps
<1>2. ASSUME NEW k \in Nat, k \in T PROVE k + 1 \in T
  <2>1. PICK x \in Nat : x = Power(a, k)
    BY PowerSteps
  <2>2. PICK y \in Nat : y = Power(b, k)
    BY PowerSteps
  <2>3. Power(a, k + 1) = x * a /\ Power(b, k + 1) = y * b
    BY <2>1, <2>2, PowerSteps
  <2>4. Power(a * b, k + 1) = (x * y) * (a * b)
    <3> DEFINE c == a * b
    <3>1. c \in Nat /\ Power(c, k) = x * y
      BY <1>0, <1>2, <2>1, <2>2
    <3> HIDE DEF c
    <3>2. Power(c, k + 1) = (x * y) * c
      BY <3>1, PowerSteps
    <3> QED
      BY <3>2 DEF c
  <2>5. (x * y) * (a * b) = (x * a) * (y * b)
    OBVIOUS
  <2> QED
    BY <2>3, <2>4, <2>5
<1> QED
  <2> HIDE DEF T
  <2>1. n \in T
    BY <1>1, <1>2, Induction
  <2> QED
    BY <2>1 DEF T

\* powers grow
LEMMA PowersGrow ==
    ASSUME NEW a \in Nat, NEW b \in Nat, a <= b, NEW n \in Nat
    PROVE  Power(a, n) <= Power(b, n)
<1> DEFINE T == {k \in Nat : Power(a, k) <= Power(b, k)}
<1>1. 0 \in T
  BY PowerSteps
<1>2. ASSUME NEW k \in Nat, k \in T PROVE k + 1 \in T
  <2>1. PICK x \in Nat : x = Power(a, k)
    BY PowerSteps
  <2>2. PICK y \in Nat : y = Power(b, k)
    BY PowerSteps
  <2>3. Power(a, k + 1) = x * a /\ Power(b, k + 1) = y * b
    BY <2>1, <2>2, PowerSteps
  <2>4. x <= y
    BY <1>2, <2>1, <2>2
  <2>5. x * a <= y * a /\ y * a <= y * b
    BY <2>4
  <2>6. x * a \in Nat /\ y * a \in Nat /\ y * b \in Nat
    OBVIOUS
  <2> QED
    BY <2>3, <2>5, <2>6
<1> QED
  <2> HIDE DEF T
  <2>1. n \in T
    BY <1>1, <1>2, Induction
  <2> QED
    BY <2>1 DEF T

\* A power lies above its tangent: t^(n+1) >= s^(n+1) + (n+1) s^n (t - s).
LEMMA PowerAboveTangent ==
    ASSUME NEW s \in Nat, NEW t \in Nat, NEW n \in Nat
    PROVE  Power(s, n + 1) + (n + 1) * Power(s, n) * (t - s) <= Power(t, n + 1)
<1> DEFINE T == {k \in Nat : Power(s, k + 1) + (k + 1) * Power(s, k) * (t - s) <= Power(t, k + 1)}
<1>1. 0 \in T
  <2>1. Power(s, 0) = 1 /\ Power(t, 0) = 1 /\ Power(s, 0 + 1) = 1 * s /\ Power(t, 0 + 1) = 1 * t
    BY PowerSteps
  <2>2. 1 * s + (0 + 1) * 1 * (t - s) <= 1 * t
    OBVIOUS
  <2> QED
    BY <2>1, <2>2
<1>2. ASSUME NEW k \in Nat, k \in T PROVE k + 1 \in T
  <2>1. PICK x \in Nat : x = Power(s, k)
    BY PowerSteps
  <2>2. PICK y \in Nat : y = Power(t, k + 1)
    BY PowerSteps
  <2>3. /\ Power(s, k + 1) = x * s /\ Power(s, (k + 1) + 1) = (x * s) * s
        /\ Power(t, (k + 1) + 1) = y * t
    BY <2>1, <2>2, PowerSteps
  <2>4. x * s + (k + 1) * x * (t - s) <= y
    BY <1>2, <2>1, <2>2, <2>3
  <2>5. ((x * s) + (k + 1) * x * (t - s)) * t <= y * t
    <3> DEFINE z == (x * s) + (k + 1) * x * (t - s)
    <3>1. z \in Int /\ z <= y
      BY <2>4
    <3> HIDE DEF z
    <3>2. z * t <= y * t
      BY <3>1
    <3> QED
      BY <3>2 DEF z
  <2>6. (x * s) * s + ((k + 1) + 1) * (x * s) * (t - s)
        = ((x * s) + (k + 1) * x * (t - s)) * t - (k + 1) * x * ((t - s) * (t - s))
    OBVIOUS
  <2>7. (k + 1) * x * ((t - s) * (t - s)) \in Nat
    <3>1. \A d \in Int : d * d \in Nat
      OBVIOUS
    <3>2. PICK q \in Nat : q = (t - s) * (t - s)
      BY <3>1
    <3>3. (k + 1) * x \in Nat
      OBVIOUS
    <3>4. \A a, b \in Nat : a * b \in Nat
      OBVIOUS
    <3> QED
      BY <3>2, <3>3, <3>4
  <2>8. (x * s) * s + ((k + 1) + 1) * (x * s) * (t - s) <= y * t
    <3>1. PICK z \in Int : z = ((x * s) + (k + 1) * x * (t - s)) * t
      OBVIOUS
    <3>2. PICK r \in Nat : r = (k + 1) * x * ((t - s) * (t - s))
      BY <2>7
    <3>3. PICK w \in Int : w = y * t
      OBVIOUS
    <3>4. z <= w => z - r <= w
      OBVIOUS
    <3> QED
      BY <2>5, <2>6, <3>1, <3>2, <3>3, <3>4
  <2> QED
    BY <2>3, <2>8
<1> QED
  <2> HIDE DEF T
  <2>1. n \in T
    BY <1>1, <1>2, Induction
  <2> QED
    BY <2>1 DEF T

\* the sum of some points is a loop over all
SumRun(f, c, owners, d) ==
    /\ f[0] = 0
    /\ \A k \in 1 .. Len(points) : f[k] = IF owners[k] = c THEN f[k - 1] + points[k][d] ELSE f[k - 1]

\* A coordinate summed over a cluster is the last value of such a loop.
LEMMA SumLoop ==
    ASSUME points \in Seq(Grid), NEW c, NEW owners, NEW d \in 1 .. 2
    PROVE  \E f \in [0 .. Len(points) -> Nat] :
             SumRun(f, c, owners, d) /\ SumOf(c, owners, d) = f[Len(points)]
<1> DEFINE n == Len(points)
           Pass(x, k) == IF owners[k] = c THEN x + points[k][d] ELSE x
           step == [kx \in (1 .. n) \X Nat |-> Pass(kx[2], kx[1])]
           Body(h, k) == IF k = 0 THEN 0
                         ELSE IF owners[k] = c THEN h[k - 1] + points[k][d] ELSE h[k - 1]
<1>1. n \in Nat /\ \A k \in 1 .. n : points[k] \in Grid
  BY SeqIsFunction
<1>2. \A k \in 1 .. n : points[k][d] \in Nat
  BY <1>1, ClusteringAssumption
<1>3. 0 \in Nat /\ step \in [(1 .. n) \X Nat -> Nat]
  BY <1>2
<1>4. PICK f \in [0 .. n -> Nat] : IsLoop(f, n, 0, step)
  <2> HIDE DEF n, step
  <2> QED
    BY <1>1, <1>3, LoopExists
<1>5. SumRun(f, c, owners, d)
  <2>1. \A k \in 1 .. n : k - 1 \in 0 .. n /\ f[k - 1] \in Nat
    BY <1>1
  <2>2. \A k \in 1 .. n : f[k] = Pass(f[k - 1], k)
    BY <1>4, <2>1 DEF IsLoop
  <2>3. f[0] = 0
    BY <1>4 DEF IsLoop
  <2> QED
    BY <2>2, <2>3 DEF SumRun
<1>6. f = [k \in 0 .. n |-> Body(f, k)]
  BY <1>1, <1>5 DEF SumRun
<1> DEFINE F == CHOOSE h : h = [k \in 0 .. n |-> Body(h, k)]
<1>7. F = [k \in 0 .. n |-> Body(F, k)]
  BY <1>6
<1>8. SumOf(c, owners, d) = F[n]
  BY DEF SumOf
<1> HIDE DEF F
<1>9. Agree(F, f, n)
  <2> HIDE DEF n
  <2>1. F[0] = 0 /\ \A k \in 1 .. n : F[k] = Pass(F[k - 1], k)
    BY <1>1, <1>7
  <2>2. Follows(F, n, Nat, 0, step)
    BY <2>1 DEF Follows
  <2> HIDE DEF step, Body, Pass
  <2> QED
    BY <1>1, <1>3, <1>4, <2>2, SameLoop
<1> QED
  BY <1>1, <1>5, <1>8, <1>9 DEF Agree

\* the sum of some points is a place
LEMMA SumType ==
    ASSUME points \in Seq(Grid), NEW c, NEW owners, NEW d \in 1 .. 2
    PROVE  SumOf(c, owners, d) \in Nat
<1>1. Len(points) \in Nat
  BY SeqIsFunction
<1> QED
  BY <1>1, SumLoop

\* the points of a cluster up to k
OwnUpTo(c, owners, k) == {i \in 1 .. k : owners[i] = c}

\* ... are counted one by one
LEMMA Counting ==
    ASSUME NEW c, NEW owners, NEW k \in Nat
    PROVE  /\ Cardinality(OwnUpTo(c, owners, 0)) = 0
           /\ Cardinality(OwnUpTo(c, owners, k)) \in Nat
           /\ Cardinality(OwnUpTo(c, owners, k + 1))
                = IF owners[k + 1] = c THEN Cardinality(OwnUpTo(c, owners, k)) + 1
                  ELSE Cardinality(OwnUpTo(c, owners, k))
<1> DEFINE own == OwnUpTo(c, owners, k)
<1>1. OwnUpTo(c, owners, 0) = {}
  BY DEF OwnUpTo
<1>2. IsFiniteSet(own) /\ Cardinality(own) \in Nat
  <2>1. IsFiniteSet(1 .. k) /\ own \subseteq 1 .. k
    BY FS_Interval DEF OwnUpTo
  <2> HIDE DEF own
  <2> QED
    BY <2>1, FS_Subset, FS_CardinalityType
<1>3. CASE owners[k + 1] = c
  <2>1. OwnUpTo(c, owners, k + 1) = own \cup {k + 1} /\ k + 1 \notin own
    BY <1>3 DEF OwnUpTo
  <2> HIDE DEF own
  <2>2. Cardinality(own \cup {k + 1}) = Cardinality(own) + 1
    BY <1>2, <2>1, FS_AddElement
  <2> QED
    BY <1>1, <1>2, <1>3, <2>1, <2>2, FS_EmptySet DEF own
<1>4. CASE owners[k + 1] # c
  <2>1. OwnUpTo(c, owners, k + 1) = own
    BY <1>4 DEF OwnUpTo
  <2> HIDE DEF own
  <2> QED
    BY <1>1, <1>2, <1>4, <2>1, FS_EmptySet DEF own
<1> QED
  BY <1>3, <1>4

-----------------------------------------------------------------------------
(* Means.                                                                    *)

MeanType == [sum : Nat \X Nat, of : Nat \ {0}]

\* the greater of two numbers is the one or the other
LEMMA MaxOfTwo ==
    ASSUME NEW a \in Nat, NEW b \in Nat
    PROVE  Max({a, b}) \in Nat /\ a <= Max({a, b}) /\ b <= Max({a, b})
<1>1. \E x \in {a, b} : \A y \in {a, b} : x >= y
  OBVIOUS
<1> QED
  BY <1>1 DEF Max

\* the mean of some points is a sum with its count
LEMMA MeanOfType ==
    ASSUME points \in Seq(Grid), NEW c, NEW owners
    PROVE  MeanOf(c, owners) \in MeanType
<1> DEFINE own == {i \in DOMAIN points : owners[i] = c}
<1>1. Cardinality(own) \in Nat
  <2>1. IsFiniteSet(1 .. Len(points)) /\ DOMAIN points = 1 .. Len(points)
    BY SeqIsFunction, FS_Interval
  <2> QED
    BY <2>1, FS_Subset, FS_CardinalityType
<1>2. Max({1, Cardinality(own)}) \in Nat \ {0}
  <2> HIDE DEF own
  <2> QED
    BY <1>1, MaxOfTwo
<1>3. <<SumOf(c, owners, 1), SumOf(c, owners, 2)>> \in Nat \X Nat
  BY SumType
<1> QED
  BY <1>2, <1>3 DEF MeanOf, Mean, MeanType

\* the places are means of one point
LEMMA MeansType == Means \subseteq MeanType
BY ClusteringAssumption DEF Means, Mean, MeanType

\* mean j of ms is in new too, unless it lies upon one before it there
KeptOrUpon(ms, new, j) == new[j] = ms[j] \/ \E l \in 1 .. j - 1 : SameMean(ms[j], new[l])

\* Drawing means anew leaves as many, and all but those that lay upon one before them.
LEMMA SuperposedType ==
    ASSUME NEW n \in Nat, NEW ms \in [1 .. n -> MeanType], NEW new \in Superposed(ms)
    PROVE  new \in Seq(MeanType) /\ Len(new) = n /\ \A j \in 1 .. n : KeptOrUpon(ms, new, j)
<1> DEFINE S == SUBSET Seq(MeanType)
           Redraws(q, k) == IF \E j \in DOMAIN q : SameMean(ms[k], q[j]) THEN Means ELSE {ms[k]}
           Pass(x, k) == UNION {{Append(q, m) : m \in Redraws(q, k)} : q \in x}
           step == [kx \in (1 .. n) \X S |-> Pass(kx[2], kx[1])]
           Body(h, k) == IF k = 0 THEN {<<>>} ELSE Pass(h[k - 1], k)
<1>0. Len(ms) = n
  BY FunctionIsSeq
<1>1. ASSUME NEW x \in S, NEW k \in 1 .. n, NEW q \in x, NEW m \in Redraws(q, k)
      PROVE  Append(q, m) \in Seq(MeanType) /\ Len(Append(q, m)) = Len(q) + 1
  <2>1. m \in MeanType /\ q \in Seq(MeanType)
    BY <1>1, MeansType
  <2> QED
    BY <2>1, AppendProperties
<1>2. \A x \in S, k \in 1 .. n : Pass(x, k) \in S
  BY <1>1
<1>3. {<<>>} \in S /\ step \in [(1 .. n) \X S -> S]
  <2>1. <<>> \in Seq(MeanType)
    BY EmptySeq
  <2> HIDE DEF Pass
  <2> QED
    BY <1>2, <2>1
<1>4. PICK f \in [0 .. n -> S] : IsLoop(f, n, {<<>>}, step)
  <2> HIDE DEF S, step
  <2> QED
    BY <1>3, LoopExists
<1>5. ASSUME NEW k \in 1 .. n PROVE k - 1 \in 0 .. n /\ f[k - 1] \in S /\ f[k] = Pass(f[k - 1], k)
  <2>1. k - 1 \in 0 .. n /\ f[k - 1] \in S /\ <<k, f[k - 1]>> \in (1 .. n) \X S
    OBVIOUS
  <2> HIDE DEF Pass
  <2> QED
    BY <1>4, <2>1 DEF IsLoop
<1>6. f = [k \in 0 .. n |-> Body(f, k)]
  <2>1. f[0] = {<<>>}
    BY <1>4 DEF IsLoop
  <2> HIDE DEF Pass
  <2> QED
    BY <1>5, <2>1
<1> DEFINE F == CHOOSE h : h = [k \in 0 .. n |-> Body(h, k)]
<1>7. F = [k \in 0 .. n |-> Body(F, k)]
  BY <1>6
<1>8. Superposed(ms) = F[n]
  BY <1>0 DEF Superposed
<1> HIDE DEF F
<1>9. Agree(F, f, n)
  <2> HIDE DEF Pass
  <2>0. 0 \in 0 .. n /\ Body(F, 0) = {<<>>}
        /\ \A k \in 1 .. n : k \in 0 .. n /\ Body(F, k) = Pass(F[k - 1], k)
    OBVIOUS
  <2>1. F[0] = {<<>>} /\ \A k \in 1 .. n : F[k] = Pass(F[k - 1], k)
    <3> HIDE DEF Body
    <3> QED
      BY <1>7, <2>0
  <2>2. Follows(F, n, S, {<<>>}, step)
    BY <2>1 DEF Follows
  <2> HIDE DEF step, Body, S
  <2> QED
    BY <1>3, <1>4, <2>2, SameLoop
<1>10. \A k \in 0 .. n : \A q \in f[k] : Len(q) = k /\ \A j \in 1 .. k : KeptOrUpon(ms, q, j)
  <2> DEFINE Good(q, k) == Len(q) = k /\ \A j \in 1 .. k : KeptOrUpon(ms, q, j)
             T == {k \in 0 .. n : \A q \in f[k] : Good(q, k)}
  <2>1. 0 \in T
    BY <1>4, EmptySeq DEF IsLoop
  <2>2. ASSUME NEW k \in 0 .. n - 1, k \in T PROVE k + 1 \in T
    <3>1. k + 1 \in 1 .. n /\ (k + 1) - 1 = k /\ f[k] \in S
      OBVIOUS
    <3>2. f[k + 1] = Pass(f[k], k + 1)
      <4> HIDE DEF Pass
      <4> QED
        BY <1>5, <3>1
    <3>3. ASSUME NEW q \in f[k + 1] PROVE Good(q, k + 1)
      <4>0. PICK p \in f[k] : \E m \in Redraws(p, k + 1) : q = Append(p, m)
        BY <3>2
      <4>1. PICK m \in Redraws(p, k + 1) : q = Append(p, m)
        BY <4>0
      <4>2. Len(p) = k /\ (\A j \in 1 .. k : KeptOrUpon(ms, p, j)) /\ p \in Seq(MeanType)
        BY <2>2, <3>1
      <4>3. m \in MeanType
        BY <3>1, <4>1, MeansType
      <4>4. Len(q) = k + 1 /\ q[k + 1] = m /\ \A j \in 1 .. k : q[j] = p[j]
        <5>1. q = Append(p, m)
          BY <4>1
        <5>2. /\ Len(Append(p, m)) = Len(p) + 1 /\ Append(p, m)[Len(p) + 1] = m
              /\ \A j \in 1 .. Len(p) : Append(p, m)[j] = p[j]
          BY <4>2, <4>3, AppendProperties
        <5> QED
          BY <4>2, <5>1, <5>2
      <4>5. ASSUME NEW j \in 1 .. k PROVE KeptOrUpon(ms, q, j)
        <5>1. \A l \in 1 .. j - 1 : l \in 1 .. k
          OBVIOUS
        <5> QED
          BY <4>2, <4>4, <5>1 DEF KeptOrUpon
      <4>6. KeptOrUpon(ms, q, k + 1)
        <5>1. CASE \E l \in DOMAIN p : SameMean(ms[k + 1], p[l])
          <6>1. PICK l \in 1 .. k : SameMean(ms[k + 1], p[l])
            BY <4>2, <5>1, SeqIsFunction
          <6>2. l \in 1 .. (k + 1) - 1 /\ SameMean(ms[k + 1], q[l])
            BY <3>1, <4>4, <6>1
          <6> QED
            BY <6>2 DEF KeptOrUpon
        <5>2. CASE ~\E l \in DOMAIN p : SameMean(ms[k + 1], p[l])
          BY <4>1, <4>4, <5>2 DEF KeptOrUpon
        <5> QED
          BY <5>1, <5>2
      <4>7. \A j \in 1 .. k + 1 : j \in 1 .. k \/ j = k + 1
        OBVIOUS
      <4> QED
        BY <4>4, <4>5, <4>6, <4>7
    <3> HIDE DEF Good
    <3> QED
      BY <3>1, <3>3
  <2> HIDE DEF T
  <2>3. \A k \in 0 .. n : k \in T
    BY <2>1, <2>2, UpTo
  <2> QED
    BY <2>3 DEF T
<1>11. new \in f[n] /\ f[n] \in S
  BY <1>8, <1>9 DEF Agree
<1> QED
  BY <1>10, <1>11

-----------------------------------------------------------------------------
(* The nearest mean.                                                         *)

\* distances are numbers, on a scale that is not 0
LEMMA DistanceType ==
    ASSUME NEW x \in Grid, NEW m \in MeanType, NEW norm \in Nat
    PROVE  Distance(x, m, norm) \in Nat /\ Scale(m, norm) \in Nat \ {0}
<1>1. Off(x, m, 1) \in Nat /\ Off(x, m, 2) \in Nat
  <2>1. /\ x[1] \in Nat /\ x[2] \in Nat /\ m.of \in Nat \ {0}
        /\ m.sum[1] \in Nat /\ m.sum[2] \in Nat
    BY ClusteringAssumption DEF MeanType
  <2>2. \A a, b, c \in Nat : a * b - c \in Int
    OBVIOUS
  <2>3. x[1] * m.of - m.sum[1] \in Int /\ x[2] * m.of - m.sum[2] \in Int
    BY <2>1, <2>2
  <2> QED
    BY <2>3 DEF Off
<1>2. Scale(m, norm) \in Nat \ {0}
  <2>1. m.of \in Nat /\ m.of # 0
    BY DEF MeanType
  <2>2. (IF norm = 0 THEN 1 ELSE norm) \in Nat
    OBVIOUS
  <2> QED
    BY <2>1, <2>2, PowerType DEF Scale
<1>3. CASE norm = 0
  BY <1>1, <1>2, <1>3, MaxOfTwo DEF Distance
<1>4. CASE norm # 0
  <2>1. Power(Off(x, m, 1), norm) \in Nat /\ Power(Off(x, m, 2), norm) \in Nat
    BY <1>1, PowerType
  <2> QED
    BY <1>2, <1>4, <2>1 DEF Distance
<1> QED
  BY <1>3, <1>4

\* p/a <= q/b <= r/c
LEMMA Fractions ==
    ASSUME NEW p \in Nat, NEW q \in Nat, NEW r \in Nat,
           NEW a \in Nat \ {0}, NEW b \in Nat \ {0}, NEW c \in Nat \ {0},
           p * b <= q * a, q * c <= r * b
    PROVE  p * c <= r * a
<1>1. p * b * c <= q * a * c
  OBVIOUS
<1>2. q * c * a <= r * b * a
  OBVIOUS
<1>3. (p * c) * b <= (r * a) * b
  BY <1>1, <1>2
<1> QED
  BY <1>3

\* mean l of ms is no farther from x than mean j
NoFarther(x, ms, norm, l, j) == ~Nearer(x, ms[j], ms[l], norm)

\* The means are ordered by their distance.
LEMMA DistancesOrder ==
    ASSUME NEW x \in Grid, NEW norm \in Nat, NEW n \in Nat, NEW ms \in [1 .. n -> MeanType],
           NEW i \in 1 .. n, NEW j \in 1 .. n, NEW l \in 1 .. n
    PROVE  /\ NoFarther(x, ms, norm, i, j) \/ NoFarther(x, ms, norm, j, i)
           /\ NoFarther(x, ms, norm, i, j) /\ NoFarther(x, ms, norm, j, l)
              => NoFarther(x, ms, norm, i, l)
<1> DEFINE D(k) == Distance(x, ms[k], norm)
           E(k) == Scale(ms[k], norm)
<1>1. \A k \in 1 .. n : D(k) \in Nat /\ E(k) \in Nat \ {0}
  BY DistanceType
<1>2. \A k, o \in 1 .. n : NoFarther(x, ms, norm, k, o) <=> ~(D(o) * E(k) < D(k) * E(o))
  BY DEF NoFarther, Nearer
<1> HIDE DEF D, E
<1>3. \A a, b, c, d \in Nat : a * b \in Int /\ (~(a * b < c * d) <=> c * d <= a * b)
  OBVIOUS
<1>4. \A k, o \in 1 .. n : NoFarther(x, ms, norm, k, o) <=> D(k) * E(o) <= D(o) * E(k)
  BY <1>1, <1>2, <1>3
<1>5. NoFarther(x, ms, norm, i, j) \/ NoFarther(x, ms, norm, j, i)
  <2>1. D(i) * E(j) <= D(j) * E(i) \/ D(j) * E(i) <= D(i) * E(j)
    <3>1. D(i) * E(j) \in Int /\ D(j) * E(i) \in Int
      BY <1>1, <1>3
    <3> QED
      BY <3>1
  <2> QED
    BY <1>4, <2>1
<1>6. ASSUME NoFarther(x, ms, norm, i, j), NoFarther(x, ms, norm, j, l)
      PROVE  NoFarther(x, ms, norm, i, l)
  <2>1. D(i) * E(j) <= D(j) * E(i) /\ D(j) * E(l) <= D(l) * E(j)
    BY <1>4, <1>6
  <2>2. D(i) * E(l) <= D(l) * E(i)
    BY <1>1, <2>1, Fractions
  <2> QED
    BY <1>4, <2>2
<1> QED
  BY <1>5, <1>6

\* mean c is the first of those nearest to x
IsFirstNearest(x, ms, norm, n, c) ==
    \A l \in 1 .. n : ~Nearer(x, ms[l], ms[c], norm) /\ (l < c => Nearer(x, ms[c], ms[l], norm))

\* FindSmallest finds the first of the nearest means.
LEMMA SmallestIsFound ==
    ASSUME NEW x \in Grid, NEW norm \in Nat, NEW n \in Nat \ {0}, NEW ms \in [1 .. n -> MeanType]
    PROVE  /\ FindSmallest(x, ms, norm) \in 1 .. n
           /\ IsFirstNearest(x, ms, norm, n, FindSmallest(x, ms, norm))
<1> DEFINE First(j, k) == \A l \in 1 .. k : /\ NoFarther(x, ms, norm, j, l)
                                            /\ l < j => ~NoFarther(x, ms, norm, l, j)
           T == {k \in 1 .. n : \E j \in 1 .. k : First(j, k)}
<1>1. 1 \in T
  <2>1. NoFarther(x, ms, norm, 1, 1)
    BY DistancesOrder
  <2> QED
    BY <2>1
<1>2. ASSUME NEW k \in 1 .. n - 1, k \in T PROVE k + 1 \in T
  <2>1. PICK j \in 1 .. k : First(j, k)
    BY <1>2
  <2>2. k + 1 \in 1 .. n /\ j \in 1 .. n /\ \A l \in 1 .. k : l \in 1 .. n
    OBVIOUS
  <2>3. NoFarther(x, ms, norm, k + 1, k + 1)
    BY <2>2, DistancesOrder
  <2>4. CASE NoFarther(x, ms, norm, j, k + 1)
    <3>1. First(j, k + 1)
      <4>1. \A l \in 1 .. k + 1 : l \in 1 .. k \/ (l = k + 1 /\ ~(l < j))
        OBVIOUS
      <4> QED
        BY <2>1, <2>4, <4>1
    <3> QED
      BY <2>2, <3>1
  <2>5. CASE ~NoFarther(x, ms, norm, j, k + 1)
    <3>1. NoFarther(x, ms, norm, k + 1, j)
      BY <2>2, <2>5, DistancesOrder
    <3>2. ASSUME NEW l \in 1 .. k
          PROVE  NoFarther(x, ms, norm, k + 1, l) /\ ~NoFarther(x, ms, norm, l, k + 1)
      <4>1. NoFarther(x, ms, norm, j, l) /\ l \in 1 .. n
        BY <2>1, <2>2
      <4>2. NoFarther(x, ms, norm, k + 1, l)
        BY <2>2, <3>1, <4>1, DistancesOrder
      <4>3. NoFarther(x, ms, norm, l, k + 1) => NoFarther(x, ms, norm, j, k + 1)
        BY <2>2, <4>1, DistancesOrder
      <4> QED
        BY <2>5, <4>2, <4>3
    <3>3. First(k + 1, k + 1)
      <4>1. \A l \in 1 .. k + 1 : l \in 1 .. k \/ (l = k + 1 /\ ~(l < k + 1))
        OBVIOUS
      <4> QED
        BY <2>3, <3>2, <4>1
    <3> HIDE DEF First
    <3> QED
      BY <2>2, <3>3
  <2> QED
    BY <2>4, <2>5
<1>3. n \in T
  <2> HIDE DEF T
  <2>1. 1 \in Nat /\ 1 <= n
    OBVIOUS
  <2>2. \A k \in 1 .. n : k \in T
    BY <1>1, <1>2, <2>1, InductionUpTo
  <2> QED
    BY <2>2
<1>4. \E j \in 1 .. n : IsFirstNearest(x, ms, norm, n, j)
  BY <1>3 DEF NoFarther, IsFirstNearest
<1>5. FindSmallest(x, ms, norm) = CHOOSE j \in 1 .. n : IsFirstNearest(x, ms, norm, n, j)
  BY DEF FindSmallest, IsFirstNearest
<1> QED
  BY <1>4, <1>5

-----------------------------------------------------------------------------
(* What gathers.                                                             *)

TrainingType == points \in Seq(Grid) /\ owner \in [1 .. Len(points) -> Nat] /\ Len(points) \in Nat

\* The found clusters are numbered up to Found.
LEMMA FoundIsGreatest ==
    ASSUME TrainingType
    PROVE  /\ Found \in Nat /\ \A i \in 1 .. Len(points) : owner[i] <= Found
           /\ Found \in {0} \cup Range(owner)
<1> DEFINE n == Len(points)
           T == {k \in 0 .. n : \E m \in Nat : \A i \in 1 .. k : owner[i] <= m}
           taken == {0} \cup Range(owner)
<1>0. n \in Nat /\ owner \in [1 .. n -> Nat] /\ DOMAIN owner = 1 .. n
  BY DEF TrainingType
<1>1. 0 \in T
  BY <1>0
<1>2. ASSUME NEW k \in 0 .. n - 1, k \in T PROVE k + 1 \in T
  <2>1. PICK m \in Nat : \A i \in 1 .. k : owner[i] <= m
    BY <1>2
  <2>2. k + 1 \in 1 .. n /\ k + 1 \in 0 .. n /\ owner[k + 1] \in Nat
    BY <1>0
  <2> DEFINE o == IF owner[k + 1] <= m THEN m ELSE owner[k + 1]
  <2>3. o \in Nat /\ \A i \in 1 .. k + 1 : owner[i] <= o
    <3>1. \A i \in 1 .. k + 1 : (i \in 1 .. k \/ i = k + 1) /\ i \in 1 .. n /\ owner[i] \in Nat
      BY <1>0, <2>2
    <3> QED
      BY <2>1, <2>2, <3>1
  <2> HIDE DEF o
  <2> QED
    BY <2>2, <2>3
<1>3. PICK m \in Nat : \A i \in 1 .. n : owner[i] <= m
  <2> HIDE DEF T, n
  <2>1. \A k \in 0 .. n : k \in T
    BY <1>0, <1>1, <1>2, UpTo
  <2>2. n \in T
    BY <1>0, <2>1
  <2> QED
    BY <2>2 DEF T
<1>4. taken \in SUBSET Nat /\ taken # {} /\ \A y \in taken : y <= m
  BY <1>0, <1>3 DEF Range
<1>5. \E x \in taken : \A y \in taken : y <= x
  <2>1. taken \in SUBSET Int /\ m \in Int
    BY <1>4
  <2> HIDE DEF taken
  <2> QED
    BY <1>4, <2>1, GreatestNumber
<1>6. Found \in taken /\ \A y \in taken : y <= Found
  <2>1. \E x \in taken : \A y \in taken : x >= y
    BY <1>4, <1>5
  <2> HIDE DEF taken
  <2>2. Max(taken) \in taken /\ \A y \in taken : Max(taken) >= y
    BY <2>1 DEF Max
  <2> QED
    BY <1>4, <2>2 DEF Found, taken
<1> QED
  BY <1>0, <1>4, <1>6 DEF Range

\* how far points are apart
LEMMA ApartType ==
    ASSUME TrainingType
    PROVE  \A i, j \in 1 .. Len(points), d \in 1 .. 2 :
             Apart(i, j, d) \in Nat /\ Apart(i, j, d) = Apart(j, i, d) /\ Apart(i, i, d) = 0
<1>1. \A i \in 1 .. Len(points), d \in 1 .. 2 : points[i][d] \in Nat
  <2>1. \A i \in 1 .. Len(points) : points[i] \in Grid
    BY SeqIsFunction DEF TrainingType
  <2> QED
    BY <2>1, ClusteringAssumption
<1> SUFFICES ASSUME NEW i \in 1 .. Len(points), NEW j \in 1 .. Len(points), NEW d \in 1 .. 2
             PROVE  Apart(i, j, d) \in Nat /\ Apart(i, j, d) = Apart(j, i, d) /\ Apart(i, i, d) = 0
  OBVIOUS
<1>2. PICK a \in Nat : a = points[i][d]
  BY <1>1
<1>3. PICK b \in Nat : b = points[j][d]
  BY <1>1
<1>4. /\ Apart(i, j, d) = IF a - b < 0 THEN -(a - b) ELSE a - b
      /\ Apart(j, i, d) = IF b - a < 0 THEN -(b - a) ELSE b - a
      /\ Apart(i, i, d) = IF a - a < 0 THEN -(a - a) ELSE a - a
  BY <1>2, <1>3 DEF Apart
<1> QED
  BY <1>4

\* a group that may become a cluster
Group(g) ==
    /\ g \subseteq 1 .. Len(points)
    /\ \A j \in g : owner[j] = 0
    /\ \A j, k \in g, d \in 1 .. 2 : Apart(j, k, d) <= option.extent

\* What gathers around a point that is free may become a cluster.
LEMMA GatheredIsGroup ==
    ASSUME TrainingType, option.extent \in Nat, NEW i \in 1 .. Len(points), owner[i] = 0
    PROVE  Group(Gathered(i))
<1> DEFINE n == Len(points)
           S == SUBSET (1 .. n)
           Pass(g, k) == g \cup {j \in {k} : owner[j] = 0 /\ Fits(j, g, option.extent)}
           step == [kg \in (1 .. n) \X S |-> Pass(kg[2], kg[1])]
           Body(h, k) == IF k = 0 THEN {i} ELSE Pass(h[k - 1], k)
<1>0. n \in Nat
  BY DEF TrainingType
<1>1. {i} \in S /\ step \in [(1 .. n) \X S -> S]
  OBVIOUS
<1>2. PICK f \in [0 .. n -> S] : IsLoop(f, n, {i}, step)
  <2> HIDE DEF n, S, step
  <2> QED
    BY <1>0, <1>1, LoopExists
<1>3. ASSUME NEW k \in 1 .. n PROVE k - 1 \in 0 .. n /\ f[k - 1] \in S /\ f[k] = Pass(f[k - 1], k)
  <2>1. k - 1 \in 0 .. n /\ f[k - 1] \in S /\ <<k, f[k - 1]>> \in (1 .. n) \X S
    BY <1>0
  <2> HIDE DEF Pass, n
  <2> QED
    BY <1>2, <2>1 DEF IsLoop
<1>4. f = [k \in 0 .. n |-> Body(f, k)]
  <2>1. f[0] = {i}
    BY <1>2 DEF IsLoop
  <2> HIDE DEF Pass, n
  <2> QED
    BY <1>3, <2>1
<1> DEFINE F == CHOOSE h : h = [k \in 0 .. n |-> Body(h, k)]
<1>5. F = [k \in 0 .. n |-> Body(F, k)]
  <2> HIDE DEF Body, n
  <2> QED
    BY <1>4
<1>6. Gathered(i) = F[n]
  BY DEF Gathered
<1> HIDE DEF F
<1>7. Agree(F, f, n)
  <2> HIDE DEF Pass, n
  <2>1. 0 \in 0 .. n /\ Body(F, 0) = {i}
        /\ \A k \in 1 .. n : k \in 0 .. n /\ Body(F, k) = Pass(F[k - 1], k)
    BY <1>0
  <2>2. F[0] = {i} /\ \A k \in 1 .. n : F[k] = Pass(F[k - 1], k)
    <3> HIDE DEF Body
    <3> QED
      BY <1>5, <2>1
  <2>3. Follows(F, n, S, {i}, step)
    BY <2>2 DEF Follows
  <2> HIDE DEF step, Body, S
  <2> QED
    BY <1>0, <1>1, <1>2, <2>3, SameLoop
<1>8. \A k \in 0 .. n : Group(f[k])
  <2> DEFINE T == {k \in 0 .. n : Group(f[k])}
  <2>1. 0 \in T
    <3>1. f[0] = {i}
      BY <1>2 DEF IsLoop
    <3>2. Group({i})
      BY ApartType DEF Group
    <3> QED
      BY <1>0, <3>1, <3>2
  <2>2. ASSUME NEW k \in 0 .. n - 1, k \in T PROVE k + 1 \in T
    <3>1. k + 1 \in 1 .. n /\ (k + 1) - 1 = k /\ k + 1 \in 0 .. n
      BY <1>0
    <3>2. f[k + 1] = Pass(f[k], k + 1)
      <4> HIDE DEF Pass
      <4> QED
        BY <1>3, <3>1
    <3>3. Group(f[k])
      BY <2>2
    <3>4. Group(f[k + 1])
      <4>1. CASE owner[k + 1] = 0 /\ Fits(k + 1, f[k], option.extent)
        <5>1. f[k + 1] = f[k] \cup {k + 1}
          BY <3>2, <4>1
        <5>2. ASSUME NEW j \in f[k], NEW d \in 1 .. 2
              PROVE  Apart(k + 1, j, d) <= option.extent /\ Apart(j, k + 1, d) <= option.extent
          <6>1. Apart(k + 1, j, d) <= option.extent /\ j \in 1 .. n
            BY <3>3, <4>1 DEF Fits, Group
          <6> QED
            BY <3>1, <6>1, ApartType
        <5>3. \A d \in 1 .. 2 : Apart(k + 1, k + 1, d) <= option.extent
          BY <3>1, ApartType
        <5> QED
          BY <3>1, <3>3, <4>1, <5>1, <5>2, <5>3 DEF Group
      <4>2. CASE ~(owner[k + 1] = 0 /\ Fits(k + 1, f[k], option.extent))
        <5>1. f[k + 1] = f[k]
          BY <3>2, <4>2
        <5> QED
          BY <3>3, <5>1
      <4> QED
        BY <4>1, <4>2
    <3> QED
      BY <3>1, <3>4
  <2> HIDE DEF T, n
  <2>3. \A k \in 0 .. n : k \in T
    BY <1>0, <2>1, <2>2, UpTo
  <2> QED
    BY <2>3 DEF T
<1> QED
  BY <1>0, <1>6, <1>7, <1>8 DEF Agree

-----------------------------------------------------------------------------
(* The inductive invariant.                                                  *)

\* what the types of the data and of a training are, and what its model has
TrainingInv ==
    /\ ClusterTypes
    /\ model = "KM" => option \in Nat /\ points # <<>> /\ means # <<>>
    /\ model = "QT" => option \in [extent : Nat, count : Nat]
    /\ at \in {"update", "pass"} => model = "KM"
    /\ at = "update" => left # 0
    /\ at = "gather" => model = "QT"

\* before the first training there are no points
LEMMA TrainingInit == Init => TrainingInv
<1> SUFFICES ASSUME Init PROVE TrainingInv
  OBVIOUS
<1>1. samples \in Seq(Grid)
  <2>1. PICK n \in 0 .. MaxSamples : samples \in [1 .. n -> Grid]
    BY DEF Init
  <2>2. n \in Nat
    BY ClusteringAssumption
  <2> QED
    BY <2>1, <2>2, FunctionIsSeq
<1>2. points \in Seq(Grid) /\ owner \in Seq(Nat) /\ Len(owner) = Len(points)
      /\ means \in Seq([sum : Nat \X Nat, of : Nat \ {0}])
  BY EmptySeq DEF Init
<1> QED
  BY <1>1, <1>2 DEF Init, TrainingInv, ClusterTypes

\* how the sequences of a training can be seen
LEMMA TrainingFunctions ==
    ASSUME ClusterTypes
    PROVE  /\ TrainingType /\ DOMAIN points = 1 .. Len(points)
           /\ Len(means) \in Nat /\ means \in [1 .. Len(means) -> MeanType]
           /\ DOMAIN means = 1 .. Len(means)
<1>1. points \in Seq(Grid) /\ owner \in Seq(Nat) /\ Len(owner) = Len(points) /\ means \in Seq(MeanType)
  BY DEF ClusterTypes, MeanType
<1> QED
  BY <1>1, SeqIsFunction DEF TrainingType

\* a training that starts
LEMMA FreshStarts ==
    ASSUME TrainingInv, NEW k \in Nat \ {0}, NEW norm \in Nat, NEW updates \in Nat \ {0},
           Fresh(k, norm, updates)
    PROVE  TrainingInv'
<1>1. /\ samples \in Seq(Grid) /\ samples # <<>>
      /\ UNCHANGED samples /\ points' = samples /\ model' = "KM" /\ option' = norm
      /\ left' = updates /\ settled' = 0 /\ at' = "update"
      /\ owner' = [i \in DOMAIN samples |-> 1]
  BY DEF TrainingInv, ClusterTypes, Fresh
<1>2. owner' \in Seq(Nat) /\ Len(owner') = Len(points')
  <2>1. Len(samples) \in Nat /\ DOMAIN samples = 1 .. Len(samples)
    BY <1>1, SeqIsFunction
  <2>2. owner' \in [1 .. Len(samples) -> Nat]
    BY <1>1, <2>1
  <2> QED
    BY <1>1, <2>1, <2>2, FunctionIsSeq
<1>3. means' \in Seq(MeanType) /\ means' # <<>>
  <2>1. {Mean(p, 1) : p \in Range(samples)} \subseteq MeanType
    <3>1. Range(samples) \subseteq Nat \X Nat
      BY <1>1, SeqIsFunction, ClusteringAssumption DEF Range
    <3> QED
      BY <3>1 DEF Mean, MeanType
  <2>2. means' \in [1 .. k -> MeanType]
    BY <2>1 DEF Fresh
  <2>3. means' \in Seq(MeanType) /\ Len(means') = k
    BY <2>2, FunctionIsSeq
  <2> QED
    BY <2>3, EmptySeq
<1> QED
  BY <1>1, <1>2, <1>3 DEF TrainingInv, ClusterTypes, MeanType

\* QT begins with no cluster, so with none that lacks the extent or count asked for
LEMMA QualityStarts ==
    ASSUME TrainingInv, NEW e \in Nat, NEW n \in Nat, Quality(e, n)
    PROVE  TrainingInv' /\ ClustersHaveQuality'
<1>1. /\ samples \in Seq(Grid) /\ UNCHANGED samples /\ points' = samples /\ model' = "QT"
      /\ option' = [extent |-> e, count |-> n] /\ means' = <<>> /\ left' = 0 /\ settled' = 0
      /\ at' = "gather" /\ owner' = [i \in DOMAIN samples |-> 0]
  BY DEF TrainingInv, ClusterTypes, Quality
<1>2. /\ Len(samples) \in Nat /\ DOMAIN samples = 1 .. Len(samples)
      /\ owner' \in [1 .. Len(samples) -> Nat]
  BY <1>1, SeqIsFunction
<1>3. owner' \in Seq(Nat) /\ Len(owner') = Len(points')
  BY <1>1, <1>2, FunctionIsSeq
<1>4. TrainingInv'
  BY <1>1, <1>3, EmptySeq DEF TrainingInv, ClusterTypes, MeanType
<1>5. Found' = 0
  <2>1. {0} \cup Range(owner') = {0}
    BY <1>1 DEF Range
  <2>2. Max({0}) = 0
    <3>1. \E x \in {0} : \A y \in {0} : x >= y
      OBVIOUS
    <3> QED
      BY <3>1 DEF Max
  <2> QED
    BY <2>1, <2>2 DEF Found
<1> QED
  BY <1>4, <1>5 DEF ClustersHaveQuality

\* training once more, in some norm, goes on with the points and means there are
LEMMA AgainStarts ==
    ASSUME TrainingInv, model = "KM", NEW norm \in Nat, Again(norm)
    PROVE  TrainingInv'
BY DEF TrainingInv, ClusterTypes, Again

\* replacing means that lie upon each other keeps the types
LEMMA UpdateTypes ==
    ASSUME TrainingInv, Update
    PROVE  TrainingInv'
<1>1. means' \in Seq(MeanType) /\ means' # <<>>
  <2>1. means' \in Superposed(means) /\ means # <<>>
    BY DEF Update, TrainingInv
  <2>2. Len(means) \in Nat /\ means \in [1 .. Len(means) -> MeanType]
    BY TrainingFunctions DEF TrainingInv
  <2>3. means' \in Seq(MeanType) /\ Len(means') = Len(means)
    BY <2>1, <2>2, SuperposedType
  <2>4. Len(means) # 0
    BY <2>1, EmptySeq DEF TrainingInv, ClusterTypes
  <2> QED
    BY <2>3, <2>4, EmptySeq
<1>2. left' \in Nat
  BY DEF Update, TrainingInv, ClusterTypes
<1> QED
  BY <1>1, <1>2 DEF Update, TrainingInv, ClusterTypes, MeanType

\* at least one mean takes part
LEMMA PartakingType ==
    ASSUME ClusterTypes, points # <<>>, means # <<>>
    PROVE  \E m \in Nat \ {0} : Partaking \in [1 .. m -> MeanType]
<1> DEFINE m == Min({Len(means), Len(points)})
<1>1. Len(means) \in Nat \ {0} /\ Len(points) \in Nat \ {0}
  BY EmptySeq DEF ClusterTypes
<1>2. m \in {Len(means), Len(points)} /\ m <= Len(means)
  <2>1. \E x \in {Len(means), Len(points)} : \A y \in {Len(means), Len(points)} : x <= y
    BY <1>1
  <2> QED
    BY <2>1 DEF Min
<1>3. m \in Nat \ {0}
  BY <1>1, <1>2
<1>4. Partaking \in Seq(MeanType) /\ Len(Partaking) = m
  <2>1. \A i \in 1 .. m : means[i] \in MeanType
    BY <1>1, <1>2, TrainingFunctions
  <2>2. Partaking = SubSeq(means, 1, m)
    BY DEF Partaking
  <2> HIDE DEF m
  <2> QED
    BY <1>3, <2>1, <2>2, SubSeqProperties
<1>5. Partaking \in [1 .. m -> MeanType]
  <2> HIDE DEF m
  <2> QED
    BY <1>4, SeqIsFunction
<1> QED
  BY <1>3, <1>5

\* and so does a pass over all points, also one of QT
LEMMA PassTypes ==
    ASSUME TrainingInv, KmeansPass
    PROVE  TrainingInv'
<1>1. model = "KM" /\ option \in Nat /\ points # <<>> /\ means # <<>>
  BY DEF TrainingInv, KmeansPass
<1>2. TrainingType /\ DOMAIN points = 1 .. Len(points)
      /\ Len(means) \in Nat /\ means \in [1 .. Len(means) -> MeanType] /\ DOMAIN means = 1 .. Len(means)
  BY TrainingFunctions DEF TrainingInv
<1>3. owner' \in Seq(Nat) /\ Len(owner') = Len(points)
  <2>1. PICK m \in Nat \ {0} : Partaking \in [1 .. m -> MeanType]
    BY <1>1, PartakingType DEF TrainingInv
  <2>2. \A i \in 1 .. Len(points) : points[i] \in Grid
    BY <1>2, SeqIsFunction DEF TrainingType
  <2>3. \A i \in 1 .. Len(points) : FindSmallest(points[i], Partaking, option) \in 1 .. m
    BY <1>1, <2>1, <2>2, SmallestIsFound
  <2>4. owner' = [i \in 1 .. Len(points) |-> FindSmallest(points[i], Partaking, option)]
    BY <1>2 DEF KmeansPass
  <2>5. owner' \in [1 .. Len(points) -> Nat]
    BY <2>3, <2>4
  <2> QED
    BY <1>2, <2>5, FunctionIsSeq DEF TrainingType
<1>4. means' \in Seq(MeanType) /\ means' # <<>>
  <2>1. \A j \in 1 .. Len(means) : MeanOf(j, owner') \in MeanType
    BY <1>2, MeanOfType DEF TrainingType
  <2>2. means' = [j \in 1 .. Len(means) |-> IF j \in DOMAIN Partaking THEN MeanOf(j, owner') ELSE means[j]]
    BY <1>2 DEF KmeansPass
  <2>3. means' \in [1 .. Len(means) -> MeanType]
    BY <1>2, <2>1, <2>2
  <2>4. means' \in Seq(MeanType) /\ Len(means') = Len(means)
    BY <1>2, <2>3, FunctionIsSeq
  <2>5. Len(means) # 0
    BY <1>1, EmptySeq DEF TrainingInv, ClusterTypes
  <2> QED
    BY <2>4, <2>5, EmptySeq
<1>5. settled' \in 0 .. 2
  <2>1. settled \in 0 .. 2
    BY DEF TrainingInv, ClusterTypes
  <2>2. Min({2, settled + 1}) \in 0 .. 2
    <3>1. \E x \in {2, settled + 1} : \A y \in {2, settled + 1} : x <= y
      BY <2>1
    <3>2. Min({2, settled + 1}) \in {2, settled + 1} /\ Min({2, settled + 1}) <= 2
      BY <3>1 DEF Min
    <3> QED
      BY <2>1, <3>2
  <2> QED
    BY <2>1, <2>2 DEF KmeansPass
<1>6. at' \in {"pass", "update", "idle"} /\ (at' = "update" => left > 0)
  BY DEF KmeansPass, UpdateAgain
<1>7. UNCHANGED <<samples, model, option, points, left>> /\ left \in Nat
  BY DEF KmeansPass, TrainingInv, ClusterTypes
<1>8. ClusterTypes'
  <2>1. {samples', points'} \subseteq Seq(Grid) /\ model' \in {"none", "KM", "QT"}
    BY <1>7 DEF TrainingInv, ClusterTypes
  <2>2. Len(owner') = Len(points')
    BY <1>3, <1>7
  <2> QED
    BY <1>3, <1>4, <1>5, <1>6, <1>7, <2>1, <2>2 DEF ClusterTypes, MeanType
<1> QED
  BY <1>1, <1>4, <1>6, <1>7, <1>8 DEF TrainingInv

\* the seed is one of the points that are free
LEMMA SeedIsFree ==
    ASSUME TrainingType, option.extent \in Nat,
           NEW free, free = {i \in DOMAIN points : owner[i] = 0}, free # {},
           NEW size, size = [i \in free |-> Cardinality(Gathered(i))]
    PROVE  /\ size \in [free -> Nat]
           /\ \E i \in free : \A j \in free : size[j] <= size[i] /\ (j < i => size[j] < size[i])
<1> DEFINE n == Len(points)
<1>1. n \in Nat /\ free \in SUBSET (1 .. n)
  BY SeqIsFunction DEF TrainingType
<1>2. size \in [free -> 0 .. n]
  <2>1. ASSUME NEW i \in free PROVE Cardinality(Gathered(i)) \in 0 .. n
    <3>1. Gathered(i) \subseteq 1 .. n
      BY <1>1, GatheredIsGroup DEF Group
    <3>2. IsFiniteSet(1 .. n) /\ Cardinality(1 .. n) = n
      <4>1. 1 \in Int /\ n \in Int /\ n - 1 + 1 = n /\ (1 > n => n = 0)
        BY <1>1
      <4>2. IsFiniteSet(1 .. n)
            /\ Cardinality(1 .. n) = IF 1 > n THEN 0 ELSE n - 1 + 1
        <5> HIDE DEF n
        <5> QED
          BY <4>1, FS_Interval
      <4> HIDE DEF n
      <4> QED
        BY <4>1, <4>2
    <3>3. IsFiniteSet(Gathered(i)) /\ Cardinality(Gathered(i)) <= n
      BY <3>1, <3>2, FS_Subset
    <3> QED
      BY <1>1, <3>3, FS_CardinalityType
  <2> QED
    BY <2>1
<1> DEFINE sizes == {size[i] : i \in free}
<1>3. PICK s \in sizes : \A t \in sizes : t <= s
  <2>1. sizes \in SUBSET Int /\ sizes # {} /\ n \in Int /\ \A t \in sizes : t <= n
    <3> HIDE DEF n
    <3> QED
      BY <1>1, <1>2
  <2> HIDE DEF sizes, n
  <2> QED
    BY <2>1, GreatestNumber
<1> DEFINE largest == {i \in free : size[i] = s}
<1>4. PICK i \in largest : \A j \in largest : i <= j
  <2>1. largest \in SUBSET Nat /\ largest # {}
    BY <1>1, <1>3
  <2> HIDE DEF largest
  <2> QED
    BY <2>1, LeastNumber
<1>5. ASSUME NEW j \in free PROVE size[j] <= size[i] /\ (j < i => size[j] < size[i])
  <2>1. size[j] <= s /\ size[i] = s /\ size[j] \in Int /\ j \in Int /\ i \in Int
    BY <1>1, <1>2, <1>3
  <2>2. s \in Int
    BY <1>2, <1>3
  <2>3. j < i => size[j] # s
    BY <1>4, <2>1
  <2> QED
    BY <2>1, <2>2, <2>3
<1>6. i \in free /\ size \in [free -> Nat]
  <2> HIDE DEF n
  <2> QED
    BY <1>1, <1>2
<1> QED
  BY <1>5, <1>6

\* A round of QT clustering leaves types and quality as they should be.
LEMMA GatherKeeps ==
    ASSUME TrainingInv, ClustersHaveQuality, Gather
    PROVE  TrainingInv' /\ ClustersHaveQuality'
<1> DEFINE free == {i \in DOMAIN points : owner[i] = 0}
           size == [i \in free |-> Cardinality(Gathered(i))]
           seed == CHOOSE i \in free :
               \A j \in free : size[j] <= size[i] /\ (j < i => size[j] < size[i])
           n == Len(points)
<1>0. /\ model = "QT" /\ option \in [extent : Nat, count : Nat]
      /\ UNCHANGED <<samples, model, option, points, means, left, settled>>
  BY DEF Gather, TrainingInv
<1>1. TrainingType /\ DOMAIN points = 1 .. n /\ n \in Nat /\ owner \in [1 .. n -> Nat]
  BY TrainingFunctions DEF TrainingInv, TrainingType
<1>2. CASE free = {} \/ size[seed] < option.count
  <2>1. at' = "idle" /\ UNCHANGED owner
    BY <1>2 DEF Gather
  <2>2. TrainingInv'
    BY <1>0, <2>1 DEF TrainingInv, ClusterTypes
  <2>3. ClustersHaveQuality'
    BY <1>0, <2>1 DEF ClustersHaveQuality, Found, Members, Apart
  <2> QED
    BY <2>2, <2>3
<1>3. CASE ~(free = {} \/ size[seed] < option.count)
  <2>1. owner' = [i \in DOMAIN points |-> IF i \in Gathered(seed) THEN Found + 1 ELSE owner[i]]
        /\ UNCHANGED at
    BY <1>3 DEF Gather
  <2>2. seed \in free /\ size \in [free -> Nat]
    <3>1. size \in [free -> Nat]
          /\ \E i \in free : \A j \in free : size[j] <= size[i] /\ (j < i => size[j] < size[i])
      <4> HIDE DEF size
      <4>1. free # {} /\ option.extent \in Nat
        BY <1>0, <1>3
      <4>2. size = [i \in free |-> Cardinality(Gathered(i))]
        BY DEF size
      <4>3. free = {i \in DOMAIN points : owner[i] = 0}
        OBVIOUS
      <4> HIDE DEF free
      <4> QED
        BY <1>1, <4>1, <4>2, <4>3, SeedIsFree
    <3> HIDE DEF free, size
    <3> QED
      BY <3>1
  <2> DEFINE group == Gathered(seed)
  <2>3. Group(group) /\ Cardinality(group) \in Nat /\ Cardinality(group) >= option.count
    <3>1. seed \in 1 .. n /\ owner[seed] = 0 /\ option.extent \in Nat
      BY <1>0, <1>1, <2>2
    <3>2. size[seed] = Cardinality(group) /\ size[seed] \in Nat
      <4> HIDE DEF seed
      <4> QED
        BY <2>2
    <3>3. ~(size[seed] < option.count) /\ option.count \in Nat
      BY <1>0, <1>3
    <3> HIDE DEF seed, size
    <3> QED
      BY <1>1, <3>1, <3>2, <3>3, GatheredIsGroup
  <2> HIDE DEF group, seed, size
  <2>4. Found \in Nat /\ \A i \in 1 .. n : owner[i] <= Found
    BY <1>1, FoundIsGreatest
  <2>5. /\ owner' \in [1 .. n -> Nat]
        /\ \A i \in 1 .. n : owner'[i] = IF i \in group THEN Found + 1 ELSE owner[i]
    <3>1. owner' = [i \in 1 .. n |-> IF i \in group THEN Found + 1 ELSE owner[i]]
      BY <1>1, <2>1 DEF group
    <3> QED
      BY <1>1, <2>4, <3>1
  <2>6. owner' \in Seq(Nat) /\ Len(owner') = n
    BY <1>1, <2>5, FunctionIsSeq
  <2>7. TrainingInv'
    BY <1>0, <2>1, <2>6 DEF TrainingInv, ClusterTypes
  <2>8. Found' \in Nat /\ Found' <= Found + 1
    <3>1. TrainingType'
      BY <1>0, <1>1, <2>5 DEF TrainingType
    <3>2. Found' \in {0} \cup Range(owner')
      <4>1. (TrainingType => Found \in {0} \cup Range(owner))'
        BY FoundIsGreatest, PTL
      <4> QED
        BY <3>1, <4>1
    <3>3. \A y \in {0} \cup Range(owner') : y \in Nat /\ y <= Found + 1
      <4>1. \A i \in 1 .. n : owner'[i] \in Nat /\ owner'[i] <= Found + 1
        BY <1>1, <2>4, <2>5
      <4>2. \A y \in Range(owner') : \E i \in 1 .. n : y = owner'[i]
        BY <2>5 DEF Range
      <4> QED
        BY <2>4, <4>1, <4>2
    <3> QED
      BY <3>2, <3>3
  <2>9. ASSUME NEW c \in 1 .. Found'
        PROVE  /\ Cardinality(Members(c)') >= option.count
               /\ \A i, j \in Members(c)', d \in 1 .. 2 : Apart(i, j, d) <= option.extent
    <3>1. Members(c)' = {i \in 1 .. n : owner'[i] = c}
      BY <1>0, <1>1 DEF Members
    <3>2. CASE c <= Found
      <4>1. c \in 1 .. Found /\ c # 0 /\ c # Found + 1
        BY <2>4, <2>8, <3>2
      <4>2. Members(c)' = Members(c)
        BY <1>1, <2>3, <2>5, <3>1, <4>1 DEF Members, Group
      <4> QED
        BY <1>0, <4>1, <4>2 DEF ClustersHaveQuality
    <3>3. CASE c = Found + 1
      <4>1. Members(c)' = group
        <5>1. \A i \in 1 .. n : owner[i] # Found + 1
          BY <1>1, <2>4
        <5> QED
          BY <2>3, <2>5, <3>1, <3>3, <5>1 DEF Group
      <4> QED
        BY <2>3, <4>1 DEF Group
    <3> QED
      BY <2>4, <2>8, <3>2, <3>3
  <2>10. ClustersHaveQuality'
    BY <1>0, <2>9 DEF ClustersHaveQuality, Apart
  <2> QED
    BY <2>7, <2>10
<1> QED
  BY <1>2, <1>3

\* what is drawn and what is cleared
LEMMA DataTypes ==
    ASSUME TrainingInv, AddSample \/ Clear
    PROVE  TrainingInv'
<1>1. CASE AddSample
  <2>1. samples' \in Seq(Grid)
    BY <1>1, AppendProperties DEF AddSample, TrainingInv, ClusterTypes
  <2> QED
    BY <1>1, <2>1 DEF AddSample, trainVars, TrainingInv, ClusterTypes
<1>2. CASE Clear
  <2>1. samples' \in Seq(Grid) /\ at = "idle" /\ at' = "idle"
    BY <1>2, EmptySeq DEF Clear, TrainingInv, ClusterTypes
  <2>2. /\ model' = "none" /\ points' = <<>> /\ owner' = <<>> /\ means' = <<>>
        /\ left' = 0 /\ settled' = 0
    BY <1>2 DEF Clear
  <2> QED
    BY <2>1, <2>2, EmptySeq DEF TrainingInv, ClusterTypes
<1> QED
  BY <1>1, <1>2

\* every step keeps the types, and the quality of the clusters found
LEMMA TrainingStep ==
    TrainingInv /\ ClustersHaveQuality /\ [Next]_vars => TrainingInv' /\ ClustersHaveQuality'
<1> SUFFICES ASSUME TrainingInv, ClustersHaveQuality, [Next]_vars
             PROVE  TrainingInv' /\ ClustersHaveQuality'
  OBVIOUS
<1>a. ASSUME model' # "QT" PROVE ClustersHaveQuality'
  BY <1>a DEF ClustersHaveQuality
<1>b. ASSUME UNCHANGED <<model, option, points, owner>> PROVE ClustersHaveQuality'
  BY <1>b DEF ClustersHaveQuality, Found, Members, Apart
<1>1. ASSUME NEW k \in Clusters, NEW norm \in Norms, NEW updates \in Nat \ {0}, Fresh(k, norm, updates)
      PROVE  TrainingInv' /\ ClustersHaveQuality'
  <2>1. k \in Nat \ {0} /\ norm \in Nat
    BY ClusteringAssumption
  <2> QED
    BY <1>1, <1>a, <2>1, FreshStarts DEF Fresh
<1>2. ASSUME NEW e \in Extents, NEW n \in Counts, Quality(e, n)
      PROVE  TrainingInv' /\ ClustersHaveQuality'
  <2>1. e \in Nat /\ n \in Nat
    BY ClusteringAssumption
  <2> QED
    BY <1>2, <2>1, QualityStarts
<1>3. ASSUME NEW norm \in Norms, model = "KM", Again(norm) PROVE TrainingInv' /\ ClustersHaveQuality'
  <2>1. norm \in Nat
    BY ClusteringAssumption
  <2> QED
    BY <1>3, <1>a, <2>1, AgainStarts DEF Again
<1>4. CASE Cluster
  BY <1>1, <1>2, <1>4, ClusteringAssumption DEF Cluster
<1>5. CASE ClusterIterate
  <2>1. 1 \in Nat \ {0}
    OBVIOUS
  <2> QED
    BY <1>1, <1>2, <1>3, <1>5, <2>1 DEF ClusterIterate
<1>6. CASE Update
  BY <1>6, <1>a, UpdateTypes DEF Update, TrainingInv
<1>7. CASE KmeansPass
  BY <1>7, <1>a, PassTypes DEF KmeansPass, TrainingInv
<1>8. CASE Gather
  BY <1>8, GatherKeeps
<1>9. CASE AddSample
  BY <1>9, <1>b, DataTypes DEF AddSample, trainVars
<1>10. CASE Clear
  BY <1>10, <1>a, DataTypes DEF Clear
<1>11. CASE UNCHANGED vars
  BY <1>11, <1>b DEF vars, trainVars, TrainingInv, ClusterTypes
<1> QED
  BY <1>4, <1>5, <1>6, <1>7, <1>8, <1>9, <1>10, <1>11 DEF Next, Step

\* so all of it always holds
LEMMA ClusterInvHolds == Spec => [](TrainingInv /\ ClustersHaveQuality)
<1>1. Init => TrainingInv /\ ClustersHaveQuality
  BY TrainingInit DEF Init, ClustersHaveQuality
<1> QED
  BY <1>1, TrainingStep, PTL DEF Spec

\* Data and training have their types: every point is in a cluster, every mean is one of
\* at least one point, and no Update is one too many.
THEOREM ClusterTypesHold == Spec => []ClusterTypes
<1>1. TrainingInv => ClusterTypes
  BY DEF TrainingInv
<1> QED
  BY <1>1, ClusterInvHolds, PTL

\* No cluster of QT clustering is wider than the extent or smaller than the count, for any
\* number of points in any places.
THEOREM ClustersAlwaysHaveQuality == Spec => []ClustersHaveQuality
BY ClusterInvHolds, PTL

-----------------------------------------------------------------------------
(* Sums that balance.                                                        *)

\* w holds the sums of x up to each place
Sums(w, x, n) == w[0] = 0 /\ \A k \in 1 .. n : w[k] = w[k - 1] + x[k]

\* if no term is negative and the sum is 0, no term is positive
LEMMA NoTermIsPositive ==
    ASSUME NEW n \in Nat, NEW x \in [1 .. n -> Int], NEW w \in [0 .. n -> Int], Sums(w, x, n),
           w[n] = 0, \A k \in 1 .. n : x[k] >= 0
    PROVE  \A k \in 1 .. n : x[k] = 0
<1> SUFFICES ASSUME NEW j \in 1 .. n, x[j] > 0 PROVE FALSE
  OBVIOUS
<1>1. ASSUME NEW k \in 0 .. n - 1
      PROVE  w[k] \in Int /\ w[k + 1] \in Int /\ w[k + 1] = w[k] + x[k + 1] /\ x[k + 1] \in Int /\ x[k + 1] >= 0
  <2>1. k + 1 \in 1 .. n /\ (k + 1) - 1 = k /\ k \in 0 .. n /\ k + 1 \in 0 .. n
    OBVIOUS
  <2> QED
    BY <2>1 DEF Sums
<1> DEFINE T == {k \in 0 .. n : w[k] >= 0}
           P == {k \in j .. n : w[k] > 0}
<1>2. w[j - 1] >= 0
  <2>1. 0 \in T
    BY DEF Sums
  <2>2. ASSUME NEW k \in 0 .. n - 1, k \in T PROVE k + 1 \in T
    <3>1. k + 1 \in 0 .. n /\ w[k] >= 0
      BY <2>2
    <3>2. w[k + 1] >= 0
      BY <1>1, <3>1
    <3> QED
      BY <3>1, <3>2
  <2>3. \A k \in 0 .. n : k \in T
    <3> HIDE DEF T
    <3> QED
      BY <2>1, <2>2, UpTo
  <2>4. j - 1 \in 0 .. n
    OBVIOUS
  <2> QED
    BY <2>3, <2>4
<1>3. w[n] > 0
  <2>1. j \in P
    <3>1. j - 1 \in 0 .. n - 1 /\ (j - 1) + 1 = j
      OBVIOUS
    <3>2. w[j - 1] \in Int /\ w[j] \in Int /\ w[j] = w[j - 1] + x[j] /\ x[j] \in Int
      BY <1>1, <3>1
    <3> QED
      BY <1>2, <3>2
  <2>2. ASSUME NEW k \in j .. n - 1, k \in P PROVE k + 1 \in P
    <3>1. k \in 0 .. n - 1 /\ k + 1 \in j .. n /\ w[k] > 0
      BY <2>2
    <3>2. w[k + 1] > 0
      BY <1>1, <3>1
    <3> QED
      BY <3>1, <3>2
  <2>3. \A k \in j .. n : k \in P
    <3>1. j \in Nat /\ j <= n
      OBVIOUS
    <3> HIDE DEF P
    <3> QED
      BY <2>1, <2>2, <3>1, InductionUpTo
  <2>4. n \in j .. n
    OBVIOUS
  <2> QED
    BY <2>3, <2>4
<1> QED
  BY <1>3

\* p/a <= q/b <= r/c for a fraction with a lesser value
LEMMA LesserSlope ==
    ASSUME NEW p \in Int, NEW q \in Int, NEW r \in Int,
           NEW a \in Nat \ {0}, NEW b \in Nat \ {0}, NEW c \in Nat \ {0},
           p * b <= q * a, q * c <= r * b
    PROVE  p * c <= r * a
<1>1. p * b * c <= q * a * c
  <2>1. \A x, y \in Int : x <= y => x * c <= y * c
    OBVIOUS
  <2>2. p * b \in Int /\ q * a \in Int
    OBVIOUS
  <2> QED
    BY <2>1, <2>2
<1>2. q * c * a <= r * b * a
  <2>1. \A x, y \in Int : x <= y => x * a <= y * a
    OBVIOUS
  <2>2. q * c \in Int /\ r * b \in Int
    OBVIOUS
  <2> QED
    BY <2>1, <2>2
<1>3. (p * c) * b <= (r * a) * b
  BY <1>1, <1>2
<1>4. \A x, y \in Int : x * b <= y * b => x <= y
  OBVIOUS
<1> QED
  BY <1>3, <1>4

\* Of some pairs (u, v) with u > 0, one has the least v/u.
LEMMA LeastSlope ==
    ASSUME NEW n \in Nat, NEW low \in SUBSET (1 .. n), low # {},
           NEW u \in [low -> Nat \ {0}], NEW v \in [low -> Int]
    PROVE  \E s \in low : \A i \in low : v[s] * u[i] <= v[i] * u[s]
<1> DEFINE Least(s, k) == \A i \in low \cap (1 .. k) : v[s] * u[i] <= v[i] * u[s]
           T == {k \in 0 .. n : low \cap (1 .. k) = {} \/ \E s \in low : Least(s, k)}
<1>1. 0 \in T
  OBVIOUS
<1>2. ASSUME NEW k \in 0 .. n - 1, k \in T PROVE k + 1 \in T
  <2>0. k + 1 \in 0 .. n /\ \A i \in 1 .. k + 1 : i \in 1 .. k \/ i = k + 1
    OBVIOUS
  <2>1. CASE k + 1 \notin low
    <3>1. low \cap (1 .. k + 1) = low \cap (1 .. k)
      BY <2>0, <2>1
    <3> QED
      BY <1>2, <2>0, <3>1
  <2>2. CASE k + 1 \in low /\ low \cap (1 .. k) = {}
    <3>1. \A i \in low \cap (1 .. k + 1) : i = k + 1
      BY <2>0, <2>2
    <3>2. v[k + 1] * u[k + 1] <= v[k + 1] * u[k + 1]
      BY <2>2
    <3>3. Least(k + 1, k + 1)
      BY <3>1, <3>2
    <3> HIDE DEF Least
    <3> QED
      BY <2>0, <2>2, <3>3
  <2>3. CASE k + 1 \in low /\ \E s \in low : Least(s, k)
    <3>1. PICK s \in low : Least(s, k)
      BY <2>3
    <3>2. CASE v[s] * u[k + 1] <= v[k + 1] * u[s]
      <4>1. Least(s, k + 1)
        BY <2>0, <3>1, <3>2
      <4> HIDE DEF Least
      <4> QED
        BY <2>0, <3>1, <4>1
    <3>3. CASE ~(v[s] * u[k + 1] <= v[k + 1] * u[s])
      <4>0. v[k + 1] * u[s] <= v[s] * u[k + 1]
        <5>1. v[s] * u[k + 1] \in Int /\ v[k + 1] * u[s] \in Int
          BY <2>3
        <5> QED
          BY <3>3, <5>1
      <4>1. ASSUME NEW i \in low \cap (1 .. k) PROVE v[k + 1] * u[i] <= v[i] * u[k + 1]
        <5>1. v[s] * u[i] <= v[i] * u[s]
          BY <3>1
        <5>2. v[k + 1] \in Int /\ v[s] \in Int /\ v[i] \in Int
              /\ u[k + 1] \in Nat \ {0} /\ u[s] \in Nat \ {0} /\ u[i] \in Nat \ {0}
          BY <2>3
        <5> QED
          BY <4>0, <5>1, <5>2, LesserSlope
      <4>2. v[k + 1] * u[k + 1] <= v[k + 1] * u[k + 1]
        BY <2>3
      <4>3. Least(k + 1, k + 1)
        BY <2>0, <4>1, <4>2
      <4> HIDE DEF Least
      <4> QED
        BY <2>0, <2>3, <4>3
    <3> QED
      BY <3>2, <3>3
  <2> QED
    BY <1>2, <2>1, <2>2, <2>3
<1>3. \A k \in 0 .. n : k \in T
  <2> HIDE DEF T
  <2> QED
    BY <1>1, <1>2, UpTo
<1>4. n \in T /\ low \cap (1 .. n) = low
  <2> HIDE DEF T
  <2>1. n \in 0 .. n
    OBVIOUS
  <2>2. n \in T
    BY <1>3, <2>1
  <2>3. low \cap (1 .. n) = low
    OBVIOUS
  <2> QED
    BY <2>2, <2>3
<1> QED
  BY <1>4

\* w is the combination a f + b g
Combines(w, S, a, f, b, g) == \A k \in S : w[k] = a * f[k] + b * g[k]

\* sums can be combined
LEMMA SumsCombine ==
    ASSUME NEW n \in Nat, NEW a \in Int, NEW b \in Int,
           NEW u \in [1 .. n -> Int], NEW wu \in [0 .. n -> Int], Sums(wu, u, n),
           NEW v \in [1 .. n -> Int], NEW wv \in [0 .. n -> Int], Sums(wv, v, n),
           NEW w, Combines(w, 0 .. n, a, wu, b, wv),
           NEW x, Combines(x, 1 .. n, a, u, b, v)
    PROVE  Sums(w, x, n)
<1>1. w[0] = 0
  <2>1. wu[0] = 0 /\ wv[0] = 0 /\ a * 0 + b * 0 = 0 /\ 0 \in 0 .. n
    BY DEF Sums
  <2> QED
    BY <2>1 DEF Combines
<1>2. ASSUME NEW k \in 1 .. n PROVE w[k] = w[k - 1] + x[k]
  <2>1. k - 1 \in 0 .. n /\ k \in 0 .. n
    OBVIOUS
  <2>2. PICK p \in Int : p = wu[k - 1]
    BY <2>1
  <2>3. PICK q \in Int : q = u[k]
    OBVIOUS
  <2>4. PICK r \in Int : r = wv[k - 1]
    BY <2>1
  <2>5. PICK t \in Int : t = v[k]
    OBVIOUS
  <2>6. wu[k] = p + q /\ wv[k] = r + t
    BY <2>2, <2>3, <2>4, <2>5 DEF Sums
  <2>7. w[k] = a * (p + q) + b * (r + t) /\ w[k - 1] = a * p + b * r /\ x[k] = a * q + b * t
    BY <2>1, <2>2, <2>3, <2>4, <2>5, <2>6 DEF Combines
  <2>8. a * (p + q) + b * (r + t) = (a * p + b * r) + (a * q + b * t)
    OBVIOUS
  <2> QED
    BY <2>7, <2>8
<1> QED
  BY <1>1, <1>2 DEF Sums

\* what a combination of two coordinates is
LEMMA Combination ==
    ASSUME NEW a \in Nat \ {0}, NEW b \in Nat \ {0}, NEW p \in Int, NEW q \in Int
    PROVE  /\ a * p + b * q \in Int
           /\ p >= 0 /\ q >= 0 => a * p + b * q >= 0
           /\ (-a) * p <= q * b => a * p + b * q >= 0
           /\ (-a) * p < b * q => a * p + b * q > 0
<1>1. p >= 0 /\ q >= 0 => a * p >= 0 /\ b * q >= 0
  OBVIOUS
<1>2. a * p \in Int /\ b * q \in Int /\ (-a) * p = -(a * p) /\ q * b = b * q
  OBVIOUS
<1> QED
  BY <1>1, <1>2

\* a negative number is the opposite of a positive one
LEMMA NegativeIsMinus ==
    ASSUME NEW z \in Int, z < 0
    PROVE  \E a \in Nat \ {0} : z = -a
<1>1. -z \in Nat \ {0} /\ z = -(-z)
  OBVIOUS
<1> QED
  BY <1>1

\* Points of the plane are not balanced if every one lies above or to the right of the
\* origin, and every one below to the right of the line through the origin and any one
\* to the left.
LEMMA NoBalance ==
    ASSUME NEW n \in Nat, NEW own \in SUBSET (1 .. n), own # {},
           NEW u \in [1 .. n -> Int], NEW v \in [1 .. n -> Int],
           \A i \in (1 .. n) \ own : u[i] = 0 /\ v[i] = 0,
           NEW wu \in [0 .. n -> Int], Sums(wu, u, n), wu[n] = 0,
           NEW wv \in [0 .. n -> Int], Sums(wv, v, n), wv[n] = 0,
           \A i \in own : u[i] > 0 \/ v[i] > 0,
           \A i, j \in own : v[i] < 0 /\ u[j] < 0 => v[i] * u[j] < u[i] * v[j]
    PROVE  FALSE
<1>0. \A i \in own : i \in 1 .. n /\ u[i] \in Int /\ v[i] \in Int
  OBVIOUS
<1>1. CASE \A i \in own : v[i] >= 0
  <2>1. \A i \in 1 .. n : v[i] >= 0
    BY <1>1
  <2>2. \A i \in 1 .. n : v[i] = 0
    BY <2>1, NoTermIsPositive
  <2>3. \A i \in own : u[i] > 0
    BY <2>2
  <2>4. \A i \in 1 .. n : u[i] >= 0
    <3> SUFFICES ASSUME NEW i \in 1 .. n PROVE u[i] >= 0
      OBVIOUS
    <3>1. i \in own \/ u[i] = 0
      OBVIOUS
    <3>2. u[i] \in Int /\ (i \in own => u[i] > 0)
      BY <2>3
    <3> QED
      BY <3>1, <3>2
  <2>5. \A i \in 1 .. n : u[i] = 0
    BY <2>4, NoTermIsPositive
  <2>6. PICK i \in own : TRUE
    OBVIOUS
  <2>7. u[i] > 0 /\ u[i] = 0
    BY <1>0, <2>3, <2>5
  <2> QED
    BY <2>7
<1>2. CASE \E i \in own : ~(v[i] >= 0)
  <2> DEFINE low == {i \in own : v[i] < 0}
             ul == [i \in low |-> u[i]]
             vl == [i \in low |-> v[i]]
  <2>1. low \in SUBSET (1 .. n) /\ low # {}
    <3>1. PICK i \in own : ~(v[i] >= 0)
      BY <1>2
    <3>2. PICK q \in Int : q = v[i]
      BY <1>0
    <3>3. q < 0
      BY <3>1, <3>2
    <3>4. i \in low
      BY <3>2, <3>3
    <3> QED
      BY <3>4
  <2>2. ul \in [low -> Nat \ {0}] /\ vl \in [low -> Int]
    <3> SUFFICES ASSUME NEW i \in low PROVE u[i] \in Nat \ {0} /\ v[i] \in Int
      OBVIOUS
    <3>1. u[i] \in Int /\ v[i] \in Int /\ v[i] < 0 /\ (u[i] > 0 \/ v[i] > 0)
      BY <1>0
    <3> QED
      BY <3>1
  <2>3. PICK s \in low : \A i \in low : vl[s] * ul[i] <= vl[i] * ul[s]
    <3> HIDE DEF low, ul, vl
    <3> QED
      BY <2>1, <2>2, LeastSlope
  <2>4. s \in own /\ v[s] < 0 /\ v[s] \in Int /\ u[s] \in Nat \ {0}
        /\ \A i \in low : v[s] * u[i] <= v[i] * u[s]
    <3>1. ul[s] \in Nat \ {0} /\ vl[s] \in Int
      <4> HIDE DEF low, ul, vl
      <4> QED
        BY <2>2
    <3> QED
      BY <2>3, <3>1
  <2>5. PICK a \in Nat \ {0} : v[s] = -a
    <3>1. v[s] \in Int /\ v[s] < 0
      BY <2>4
    <3> QED
      BY <3>1, NegativeIsMinus
  <2>6. PICK b \in Nat \ {0} : b = u[s]
    BY <2>4
  <2> DEFINE L == [k \in 1 .. n |-> a * u[k] + b * v[k]]
             w == [k \in 0 .. n |-> a * wu[k] + b * wv[k]]
  <2>7. L \in [1 .. n -> Int] /\ w \in [0 .. n -> Int]
    <3>1. \A x, y \in Int : a * x + b * y \in Int
      BY Combination
    <3> QED
      BY <3>1
  <2>8. Sums(w, L, n) /\ w[n] = 0
    <3>1. w[n] = a * 0 + b * 0
      OBVIOUS
    <3>2. Sums(w, L, n)
      <4>1. a \in Int /\ b \in Int
        OBVIOUS
      <4>2. Combines(w, 0 .. n, a, wu, b, wv) /\ Combines(L, 1 .. n, a, u, b, v)
        BY DEF Combines
      <4> HIDE DEF w, L
      <4> QED
        BY <4>1, <4>2, SumsCombine
    <3> QED
      BY <3>1, <3>2
  <2>9. ASSUME NEW i \in own PROVE L[i] >= 0 /\ (u[i] < 0 => L[i] # 0)
    <3>1. PICK p \in Int : p = u[i]
      BY <1>0
    <3>2. PICK q \in Int : q = v[i]
      BY <1>0
    <3>3. L[i] = a * p + b * q
      BY <1>0, <3>1, <3>2
    <3>4. p > 0 \/ q > 0
      BY <3>1, <3>2
    <3>5. q < 0 => (-a) * p <= q * b
      BY <2>4, <2>5, <2>6, <3>1, <3>2
    <3>6. p < 0 => (-a) * p < b * q
      <4>1. v[s] < 0 /\ u[i] < 0 => v[s] * u[i] < u[s] * v[i]
        BY <2>4
      <4> QED
        BY <2>4, <2>5, <2>6, <3>1, <3>2, <4>1
    <3> HIDE DEF L
    <3>7. a * p + b * q >= 0 /\ (p < 0 => a * p + b * q # 0)
      <4>1. (p >= 0 /\ q >= 0) \/ q < 0 \/ p < 0
        OBVIOUS
      <4>2. /\ a * p + b * q \in Int
            /\ p >= 0 /\ q >= 0 => a * p + b * q >= 0
            /\ (-a) * p <= q * b => a * p + b * q >= 0
            /\ (-a) * p < b * q => a * p + b * q > 0
        BY Combination
      <4>3. PICK z \in Int : z = a * p + b * q
        BY <4>2
      <4>4. CASE p >= 0 /\ q >= 0
        BY <4>2, <4>4
      <4>5. CASE p < 0
        BY <3>6, <4>2, <4>3, <4>5
      <4>6. CASE q < 0
        BY <3>4, <3>5, <4>2, <4>6
      <4> QED
        BY <4>1, <4>4, <4>5, <4>6
    <3> QED
      BY <3>1, <3>3, <3>7
  <2>10. \A k \in 1 .. n : L[k] >= 0
    <3>1. ASSUME NEW k \in (1 .. n) \ own PROVE L[k] >= 0
      <4>1. L[k] = a * 0 + b * 0
        OBVIOUS
      <4> HIDE DEF L
      <4> QED
        BY <4>1
    <3> HIDE DEF L
    <3> QED
      BY <2>9, <3>1
  <2>11. \A k \in 1 .. n : L[k] = 0
    <3> HIDE DEF L, w
    <3> QED
      BY <2>7, <2>8, <2>10, NoTermIsPositive
  <2>12. \A k \in 1 .. n : u[k] >= 0
    <3> SUFFICES ASSUME NEW k \in 1 .. n PROVE u[k] >= 0
      OBVIOUS
    <3>1. k \in own => ~(u[k] < 0)
      <4> HIDE DEF L
      <4>1. k \in own => L[k] = 0 /\ (u[k] < 0 => L[k] # 0)
        BY <2>9, <2>11
      <4> QED
        BY <4>1
    <3>2. PICK p \in Int : p = u[k]
      OBVIOUS
    <3>3. k \notin own => p = 0
      BY <3>2
    <3>4. p < 0 \/ p >= 0
      OBVIOUS
    <3>5. CASE k \in own
      BY <3>1, <3>2, <3>4, <3>5
    <3>6. CASE k \notin own
      BY <3>2, <3>3, <3>6
    <3> QED
      BY <3>5, <3>6
  <2>13. \A k \in 1 .. n : u[k] = 0
    BY <2>12, NoTermIsPositive
  <2> QED
    BY <1>0, <2>4, <2>13
<1> QED
  BY <1>1, <1>2

-----------------------------------------------------------------------------
(* Nearer to another point than to the origin.                               *)

Abs(o) == IF o < 0 THEN -o ELSE o

\* how far two offsets are, in a norm
Far(p, q, norm) == IF norm = 0 THEN Max({p, q}) ELSE Power(p, norm) + Power(q, norm)

\* the greater of two numbers is what it is
LEMMA MaxIsEither ==
    ASSUME NEW a \in Nat, NEW b \in Nat
    PROVE  Max({a, b}) = IF a <= b THEN b ELSE a
<1>1. \E x \in {a, b} : \A y \in {a, b} : x >= y
  OBVIOUS
<1>2. Max({a, b}) \in {a, b} /\ a <= Max({a, b}) /\ b <= Max({a, b})
  BY <1>1 DEF Max
<1>3. PICK m \in Nat : m = Max({a, b})
  BY <1>2
<1>4. m = a \/ m = b
  BY <1>2, <1>3
<1>5. a <= m /\ b <= m
  BY <1>2, <1>3
<1> QED
  BY <1>3, <1>4, <1>5

\* absolute values
LEMMA AbsFacts ==
    ASSUME NEW o \in Int, NEW a \in Nat
    PROVE  /\ Abs(o) \in Nat
           /\ o <= 0 => Abs(o - a) = Abs(o) + a
           /\ o >= 0 => Abs(o) = o /\ o - a <= Abs(o - a)
           /\ o < 0 => Abs(o) = -o /\ -o \in Nat
BY DEF Abs

\* what is farther in both dimensions is farther
LEMMA FarGrows ==
    ASSUME NEW p \in Nat, NEW q \in Nat, NEW r \in Nat, NEW t \in Nat, p <= r, q <= t, NEW norm \in Nat
    PROVE  Far(p, q, norm) \in Nat /\ Far(p, q, norm) <= Far(r, t, norm)
<1>1. CASE norm = 0
  <2>1. Max({p, q}) = (IF p <= q THEN q ELSE p) /\ Max({r, t}) = IF r <= t THEN t ELSE r
    BY MaxIsEither
  <2>2. Far(p, q, norm) = (IF p <= q THEN q ELSE p) /\ Far(r, t, norm) = IF r <= t THEN t ELSE r
    BY <1>1, <2>1 DEF Far
  <2> QED
    BY <2>2
<1>2. CASE norm # 0
  <2>1. Power(p, norm) <= Power(r, norm) /\ Power(q, norm) <= Power(t, norm)
    BY PowersGrow
  <2>2. /\ Power(p, norm) \in Nat /\ Power(r, norm) \in Nat
        /\ Power(q, norm) \in Nat /\ Power(t, norm) \in Nat
    BY PowerType
  <2>3. /\ Far(p, q, norm) = Power(p, norm) + Power(q, norm)
        /\ Far(r, t, norm) = Power(r, norm) + Power(t, norm)
    BY <1>2 DEF Far
  <2> QED
    BY <2>1, <2>2, <2>3
<1> QED
  BY <1>1, <1>2

\* Far does not prefer a dimension
LEMMA FarSwaps ==
    ASSUME NEW p \in Nat, NEW q \in Nat, NEW norm \in Nat
    PROVE  Far(p, q, norm) = Far(q, p, norm)
<1>1. {p, q} = {q, p}
  OBVIOUS
<1>2. Power(p, norm) \in Nat /\ Power(q, norm) \in Nat
  BY PowerType
<1>3. Power(p, norm) + Power(q, norm) = Power(q, norm) + Power(p, norm)
  BY <1>2
<1> QED
  BY <1>1, <1>3 DEF Far

\* (u, v) is nearer to (a, b) than to the origin
Closer(u, v, a, b, norm) == Far(Abs(u - a), Abs(v - b), norm) < Far(Abs(u), Abs(v), norm)

\* ... then it is above or to the right of it, if (a, b) is above and to the right
LEMMA CloserIsAhead ==
    ASSUME NEW u \in Int, NEW v \in Int, NEW a \in Nat, NEW b \in Nat, NEW norm \in Nat,
           Closer(u, v, a, b, norm)
    PROVE  u > 0 \/ v > 0
<1> SUFFICES ASSUME u <= 0, v <= 0 PROVE FALSE
  OBVIOUS
<1>1. PICK p \in Nat : p = Abs(u)
  BY AbsFacts
<1>2. PICK q \in Nat : q = Abs(v)
  BY AbsFacts
<1>3. Abs(u - a) = p + a /\ Abs(v - b) = q + b
  BY <1>1, <1>2, AbsFacts
<1>4. p <= p + a /\ q <= q + b /\ p + a \in Nat /\ q + b \in Nat
  OBVIOUS
<1>5. /\ Far(p, q, norm) \in Nat /\ Far(p + a, q + b, norm) \in Nat
      /\ Far(p, q, norm) <= Far(p + a, q + b, norm)
  <2>1. PICK r \in Nat : r = p + a /\ p <= r
    BY <1>4
  <2>2. PICK t \in Nat : t = q + b /\ q <= t
    BY <1>4
  <2>3. r <= r /\ t <= t
    OBVIOUS
  <2>4. Far(p, q, norm) \in Nat /\ Far(r, t, norm) \in Nat /\ Far(p, q, norm) <= Far(r, t, norm)
    BY <2>1, <2>2, <2>3, FarGrows
  <2> QED
    BY <2>1, <2>2, <2>4
<1>6. Far(p + a, q + b, norm) < Far(p, q, norm)
  BY <1>1, <1>2, <1>3 DEF Closer
<1> QED
  BY <1>5, <1>6

\* Raising w by b costs less than lowering u by a gains only if the slope at u is steeper.
LEMMA SlopesCompare ==
    ASSUME NEW u \in Nat, NEW w \in Nat, NEW a \in Nat, NEW b \in Nat, NEW n \in Nat,
           Power(Abs(u - a), n + 1) + Power(w + b, n + 1) < Power(u, n + 1) + Power(w, n + 1)
    PROVE  Power(w, n) * b < Power(u, n) * a
<1>1. PICK t \in Nat : t = Abs(u - a) /\ u - a <= t
  BY AbsFacts
<1>2. PICK x \in Nat : x = Power(u, n)
  BY PowerSteps
<1>3. PICK y \in Nat : y = Power(w, n)
  BY PowerSteps
<1>0. n + 1 \in Nat /\ w + b \in Nat
  OBVIOUS
<1>4. PICK c \in Nat : c = Power(u, n + 1)
  BY <1>0, PowerType
<1>5. PICK d \in Nat : d = Power(w, n + 1)
  BY <1>0, PowerType
<1>6. c + (n + 1) * x * (t - u) <= Power(t, n + 1)
  BY <1>2, <1>4, PowerAboveTangent
<1>7. d + (n + 1) * y * ((w + b) - w) <= Power(w + b, n + 1)
  <2>1. w + b \in Nat
    OBVIOUS
  <2> QED
    BY <1>3, <1>5, <2>1, PowerAboveTangent
<1>8. PICK e \in Nat : e = Power(t, n + 1)
  BY <1>0, PowerType
<1>9. PICK f \in Nat : f = Power(w + b, n + 1)
  BY <1>0, PowerType
<1>10. e + f < c + d
  BY <1>1, <1>4, <1>5, <1>8, <1>9
<1>11. PICK z \in Nat : z = (n + 1) * x
  OBVIOUS
<1>12. PICK r \in Nat : r = (n + 1) * y
  OBVIOUS
<1>13. z * (t - u) >= -(z * a)
  <2>1. t - u >= -a
    BY <1>1
  <2>2. \A p, q \in Int : p >= q => z * p >= z * q
    OBVIOUS
  <2>3. z * (-a) = -(z * a)
    OBVIOUS
  <2>4. t - u \in Int /\ -a \in Int
    OBVIOUS
  <2> QED
    BY <2>1, <2>2, <2>3, <2>4
<1>14. r * b < z * a
  <2>1. c + z * (t - u) <= e /\ d + r * ((w + b) - w) <= f
    BY <1>6, <1>7, <1>8, <1>9, <1>11, <1>12
  <2>2. r * ((w + b) - w) = r * b
    OBVIOUS
  <2>3. PICK p \in Int : p = z * (t - u)
    OBVIOUS
  <2>4. PICK q \in Nat : q = z * a
    OBVIOUS
  <2>5. PICK s \in Nat : s = r * b
    OBVIOUS
  <2>6. c + p <= e /\ d + s <= f /\ p >= -q
    BY <1>13, <2>1, <2>2, <2>3, <2>4, <2>5
  <2>7. s < q
    BY <1>10, <2>6
  <2> QED
    BY <2>4, <2>5, <2>7
<1>15. (n + 1) * (y * b) < (n + 1) * (x * a)
  <2>1. r * b = (n + 1) * (y * b) /\ z * a = (n + 1) * (x * a)
    BY <1>11, <1>12
  <2> QED
    BY <1>14, <2>1
<1>16. y * b < x * a
  <2>1. PICK p \in Nat : p = y * b
    OBVIOUS
  <2>2. PICK q \in Nat : q = x * a
    OBVIOUS
  <2>3. PICK m \in Nat \ {0} : m = n + 1
    OBVIOUS
  <2>4. m * p < m * q
    BY <1>15, <2>1, <2>2, <2>3
  <2>5. p < q
    BY <2>4
  <2> QED
    BY <2>1, <2>2, <2>5
<1> QED
  BY <1>2, <1>3, <1>16

\* p/a < q/b and r/b < t/a
LEMMA ProductsCompare ==
    ASSUME NEW p \in Nat, NEW q \in Nat, NEW r \in Nat, NEW t \in Nat, NEW a \in Nat, NEW b \in Nat,
           p * b < q * a, r * a < t * b
    PROVE  p * r < q * t
<1>1. a # 0 /\ b # 0
  <2>1. a = 0 => ~(p * b < q * a)
    <3>1. q * 0 = 0 /\ p * b \in Nat
      OBVIOUS
    <3> QED
      BY <3>1
  <2>2. b = 0 => ~(r * a < t * b)
    <3>1. t * 0 = 0 /\ r * a \in Nat
      OBVIOUS
    <3> QED
      BY <3>1
  <2> QED
    BY <2>1, <2>2
<1>2. \A i, j, k, l \in Nat : i < j /\ k < l => i * k < j * l
  <2> SUFFICES ASSUME NEW i \in Nat, NEW j \in Nat, NEW k \in Nat, NEW l \in Nat, i < j, k < l
               PROVE  i * k < j * l
    OBVIOUS
  <2>1. i * k <= i * l
    OBVIOUS
  <2>2. i * l < j * l
    <3>1. l \in Nat \ {0}
      OBVIOUS
    <3> QED
      BY <3>1
  <2>3. i * k \in Nat /\ i * l \in Nat /\ j * l \in Nat
    OBVIOUS
  <2> QED
    BY <2>1, <2>2, <2>3
<1>3. (p * b) * (r * a) < (q * a) * (t * b)
  <2>1. p * b \in Nat /\ q * a \in Nat /\ r * a \in Nat /\ t * b \in Nat
    OBVIOUS
  <2> QED
    BY <1>2, <2>1
<1>4. PICK m \in Nat \ {0} : m = a * b
  BY <1>1
<1>5. (p * b) * (r * a) = (p * r) * m /\ (q * a) * (t * b) = (q * t) * m
  BY <1>4
<1>6. \A x, y \in Nat : x * m < y * m => x < y
  OBVIOUS
<1>7. p * r \in Nat /\ q * t \in Nat
  OBVIOUS
<1> QED
  BY <1>3, <1>5, <1>6, <1>7

\* If (u, -w) and (-x, y) are both nearer to (a, b), the one is to the right of the line
\* through the origin and the other.
LEMMA CloserOnBothSides ==
    ASSUME NEW u \in Nat, NEW w \in Nat, NEW x \in Nat, NEW y \in Nat, NEW a \in Nat, NEW b \in Nat,
           NEW norm \in Nat,
           Far(Abs(u - a), w + b, norm) < Far(u, w, norm),
           Far(x + a, Abs(y - b), norm) < Far(x, y, norm)
    PROVE  w * x < u * y
<1>1. CASE norm = 0
  <2>1. \A p, q \in Nat : Far(p, q, norm) = IF p <= q THEN q ELSE p
    BY <1>1, MaxIsEither DEF Far
  <2>2. PICK s \in Nat : s = Abs(u - a)
    BY AbsFacts
  <2>3. PICK t \in Nat : t = Abs(y - b)
    BY AbsFacts
  <2>4. w + b \in Nat /\ x + a \in Nat
    OBVIOUS
  <2>5. w < u
    <3>1. (IF s <= w + b THEN w + b ELSE s) < (IF u <= w THEN w ELSE u)
      BY <2>1, <2>2, <2>4
    <3> QED
      BY <3>1
  <2>6. x < y
    <3>1. (IF x + a <= t THEN t ELSE x + a) < (IF x <= y THEN y ELSE x)
      BY <2>1, <2>3, <2>4
    <3> QED
      BY <3>1
  <2>7. w * 1 < u * 1 /\ x * 1 < y * 1 /\ 1 \in Nat
    BY <2>5, <2>6
  <2> QED
    BY <2>7, ProductsCompare
<1>2. CASE norm # 0
  <2>1. PICK n \in Nat : norm = n + 1
    <3>1. norm - 1 \in Nat /\ norm = (norm - 1) + 1
      BY <1>2
    <3> QED
      BY <3>1
  <2>2. \A p, q \in Nat : Far(p, q, norm) = Power(p, n + 1) + Power(q, n + 1)
    BY <1>2, <2>1 DEF Far
  <2>3. w + b \in Nat /\ x + a \in Nat /\ Abs(u - a) \in Nat /\ Abs(y - b) \in Nat
    BY AbsFacts
  <2>4. Power(w, n) * b < Power(u, n) * a
    <3>1. Power(Abs(u - a), n + 1) + Power(w + b, n + 1) < Power(u, n + 1) + Power(w, n + 1)
      BY <2>2, <2>3
    <3> QED
      BY <3>1, SlopesCompare
  <2>5. Power(x, n) * a < Power(y, n) * b
    <3>1. Far(Abs(y - b), x + a, norm) < Far(y, x, norm)
      BY <2>3, FarSwaps
    <3>2. Power(Abs(y - b), n + 1) + Power(x + a, n + 1) < Power(y, n + 1) + Power(x, n + 1)
      BY <2>2, <2>3, <3>1
    <3> QED
      BY <3>2, SlopesCompare
  <2>6. /\ Power(w, n) \in Nat /\ Power(u, n) \in Nat /\ Power(x, n) \in Nat /\ Power(y, n) \in Nat
        /\ w * x \in Nat /\ u * y \in Nat
    <3>1. w * x \in Nat /\ u * y \in Nat
      OBVIOUS
    <3> QED
      BY <3>1, PowerSteps
  <2>7. Power(w, n) * Power(x, n) < Power(u, n) * Power(y, n)
    BY <2>4, <2>5, <2>6, ProductsCompare
  <2>8. Power(w * x, n) < Power(u * y, n)
    BY <2>7, PowerOfProduct
  <2>9. ASSUME u * y <= w * x PROVE FALSE
    <3>1. Power(u * y, n) <= Power(w * x, n)
      BY <2>6, <2>9, PowersGrow
    <3>2. Power(u * y, n) \in Nat /\ Power(w * x, n) \in Nat
      BY <2>6, PowerType
    <3> QED
      BY <2>8, <3>1, <3>2
  <2> QED
    BY <2>6, <2>9
<1> QED
  BY <1>1, <1>2

\* ... whichever they are
LEMMA CloserTurns ==
    ASSUME NEW u \in Int, NEW v \in Int, NEW r \in Int, NEW t \in Int, NEW a \in Nat, NEW b \in Nat,
           NEW norm \in Nat, Closer(u, v, a, b, norm), Closer(r, t, a, b, norm), v < 0, r < 0
    PROVE  v * r < u * t
<1>1. u > 0 /\ t > 0
  <2>1. (u > 0 \/ v > 0) /\ (r > 0 \/ t > 0)
    BY CloserIsAhead
  <2> QED
    BY <2>1
<1>2. PICK w \in Nat : v = -w /\ Abs(v) = w /\ Abs(v - b) = w + b
  <2>1. -v \in Nat /\ v = -(-v)
    OBVIOUS
  <2> QED
    BY <2>1, AbsFacts
<1>3. PICK x \in Nat : r = -x /\ Abs(r) = x /\ Abs(r - a) = x + a
  <2>1. -r \in Nat /\ r = -(-r)
    OBVIOUS
  <2> QED
    BY <2>1, AbsFacts
<1>4. u \in Nat /\ t \in Nat /\ Abs(u) = u /\ Abs(t) = t
  BY <1>1, AbsFacts
<1>5. Far(Abs(u - a), w + b, norm) < Far(u, w, norm) /\ Far(x + a, Abs(t - b), norm) < Far(x, t, norm)
  BY <1>2, <1>3, <1>4 DEF Closer
<1>6. w * x < u * t
  BY <1>4, <1>5, CloserOnBothSides
<1>7. v * r = w * x
  BY <1>2, <1>3
<1> QED
  BY <1>6, <1>7

\* the coordinates of the others do not count, and those of own are nearer to (a, b)
OthersVanish(n, own, u, v) == \A i \in (1 .. n) \ own : u[i] = 0 /\ v[i] = 0
AllAreCloser(own, u, v, a, b, norm) == \A i \in own : Closer(u[i], v[i], a, b, norm)

\* Points that balance are not all nearer to (a, b) than to the origin.
LEMMA NotAllAreCloser ==
    ASSUME NEW n \in Nat, NEW own \in SUBSET (1 .. n), own # {},
           NEW u \in [1 .. n -> Int], NEW v \in [1 .. n -> Int],
           OthersVanish(n, own, u, v),
           NEW wu \in [0 .. n -> Int], Sums(wu, u, n), wu[n] = 0,
           NEW wv \in [0 .. n -> Int], Sums(wv, v, n), wv[n] = 0,
           NEW a \in Nat, NEW b \in Nat, NEW norm \in Nat,
           AllAreCloser(own, u, v, a, b, norm)
    PROVE  FALSE
<1>1. \A i \in own : u[i] \in Int /\ v[i] \in Int
  OBVIOUS
<1>2. \A i \in own : u[i] > 0 \/ v[i] > 0
  BY <1>1, CloserIsAhead DEF AllAreCloser
<1>3. ASSUME NEW i \in own, NEW j \in own, v[i] < 0, u[j] < 0
      PROVE  v[i] * u[j] < u[i] * v[j]
  BY <1>1, <1>3, CloserTurns DEF AllAreCloser
<1> QED
  BY <1>2, <1>3, NoBalance DEF OthersVanish

-----------------------------------------------------------------------------
(* The average of some points.                                               *)

\* scaling both offsets scales how far they are
LEMMA FarScales ==
    ASSUME NEW p \in Nat, NEW q \in Nat, NEW k \in Nat, NEW norm \in Nat
    PROVE  Far(k * p, k * q, norm) = Far(p, q, norm) * Power(k, IF norm = 0 THEN 1 ELSE norm)
<1>0. PICK r \in Nat : r = k * p
  OBVIOUS
<1>a. PICK t \in Nat : t = k * q
  OBVIOUS
<1>1. CASE norm = 0
  <2>1. Power(k, 1) = k
    <3>1. Power(k, 0 + 1) = Power(k, 0) * k /\ Power(k, 0) = 1 /\ 0 + 1 = 1 /\ 1 * k = k
      BY PowerSteps
    <3> QED
      BY <3>1
  <2>2. Far(p, q, norm) = (IF p <= q THEN q ELSE p) /\ Far(r, t, norm) = IF r <= t THEN t ELSE r
    BY <1>1, MaxIsEither DEF Far
  <2>3. CASE p <= q
    <3>1. r <= t /\ q * k = t
      BY <1>0, <1>a, <2>3
    <3> QED
      BY <1>0, <1>1, <1>a, <2>1, <2>2, <2>3, <3>1
  <2>4. CASE ~(p <= q)
    <3>1. t <= r /\ p * k = r
      <4>1. q <= p
        BY <2>4
      <4> QED
        BY <1>0, <1>a, <4>1
    <3>2. (IF r <= t THEN t ELSE r) = r
      BY <3>1
    <3> QED
      BY <1>0, <1>1, <1>a, <2>1, <2>2, <2>4, <3>1, <3>2
  <2> QED
    BY <2>3, <2>4
<1>2. CASE norm # 0
  <2>1. Power(r, norm) = Power(k, norm) * Power(p, norm) /\ Power(t, norm) = Power(k, norm) * Power(q, norm)
    BY <1>0, <1>a, PowerOfProduct
  <2>2. /\ Far(p, q, norm) = Power(p, norm) + Power(q, norm)
        /\ Far(r, t, norm) = Power(r, norm) + Power(t, norm)
    BY <1>2 DEF Far
  <2>3. Power(k, norm) \in Nat /\ Power(p, norm) \in Nat /\ Power(q, norm) \in Nat
    BY PowerType
  <2>4. \A x, y, z \in Nat : z * x + z * y = (x + y) * z
    OBVIOUS
  <2> QED
    BY <1>0, <1>2, <1>a, <2>1, <2>2, <2>3, <2>4
<1> QED
  BY <1>1, <1>2

Signs == {1, -1}

\* absolute values of products
LEMMA AbsOfProduct ==
    ASSUME NEW k \in Nat, NEW o \in Int, NEW g \in Signs
    PROVE  Abs(g * (k * o)) = k * Abs(o)
<1>1. CASE o < 0
  <2>1. PICK p \in Nat : o = -p /\ Abs(o) = p
    <3>1. -o \in Nat /\ o = -(-o)
      BY <1>1
    <3> QED
      BY <1>1, <3>1, AbsFacts
  <2>2. PICK z \in Nat : z = k * p
    OBVIOUS
  <2>3. g * (k * o) = z \/ g * (k * o) = -z
    BY <2>1, <2>2 DEF Signs
  <2>4. Abs(z) = z /\ Abs(-z) = z
    BY DEF Abs
  <2> QED
    BY <2>1, <2>2, <2>3, <2>4
<1>2. CASE o >= 0
  <2>1. o \in Nat /\ Abs(o) = o
    BY <1>2, AbsFacts
  <2>2. PICK z \in Nat : z = k * o
    BY <2>1
  <2>3. g * (k * o) = z \/ g * (k * o) = -z
    BY <2>2 DEF Signs
  <2>4. Abs(z) = z /\ Abs(-z) = z
    BY DEF Abs
  <2> QED
    BY <2>1, <2>2, <2>3, <2>4
<1> QED
  BY <1>1, <1>2

\* u, a: one coordinate x, seen from the mean s/n of some points in the direction g of another mean
\* t/m, on the scale n m: u is how far off it lies, a how far off the other mean lies.
Seen(u, a, x, s, n, t, m, g) == u = (g * m) * (x * n - s) /\ a = g * (t * n - s * m)

\* Those two distances are the sizes of u and of u - a.
LEMMA SeenFromMean ==
    ASSUME NEW x \in Nat, NEW s \in Nat, NEW t \in Nat, NEW n \in Nat \ {0}, NEW m \in Nat \ {0},
           NEW g \in Signs, NEW a \in Nat, NEW u, Seen(u, a, x, s, n, t, m, g)
    PROVE  u \in Int /\ Abs(u) = m * Abs(x * n - s) /\ Abs(u - a) = n * Abs(x * m - t)
<1>1. PICK o \in Int : o = x * n - s
  OBVIOUS
<1>2. PICK p \in Int : p = x * m - t
  OBVIOUS
<1>3. u = g * (m * o) /\ u \in Int
  <2>1. CASE g = 1
    BY <1>1, <2>1 DEF Seen
  <2>2. CASE g = -1
    BY <1>1, <2>2 DEF Seen
  <2> QED
    BY <2>1, <2>2 DEF Signs
<1>4. u - a = g * (n * p)
  <2>1. m * (x * n - s) - (t * n - s * m) = n * (x * m - t)
    OBVIOUS
  <2>2. PICK q \in Int : q = t * n - s * m
    OBVIOUS
  <2>3. PICK y \in Int : y = m * o
    OBVIOUS
  <2>4. PICK z \in Int : z = n * p
    OBVIOUS
  <2>5. y - q = z
    BY <1>1, <1>2, <2>1, <2>2, <2>3, <2>4
  <2>6. u = g * y /\ a = g * q
    BY <1>3, <2>2, <2>3 DEF Seen
  <2>7. g * y - g * q = g * z
    BY <2>5 DEF Signs
  <2> QED
    BY <2>4, <2>6, <2>7
<1>5. n \in Nat /\ m \in Nat
  OBVIOUS
<1>6. Abs(g * (m * o)) = m * Abs(o) /\ Abs(g * (n * p)) = n * Abs(p)
  BY <1>5, AbsOfProduct
<1> QED
  BY <1>1, <1>2, <1>3, <1>4, <1>6

\* how far each point of cluster c is from their mean
Offsets(u, c, owners, d, h) ==
    LET n == Len(points)
        count == Cardinality(OwnUpTo(c, owners, n)) IN
    \A i \in 1 .. n :
        u[i] = IF owners[i] = c THEN h * (points[i][d] * count - SumOf(c, owners, d)) ELSE 0

\* The points of a cluster balance at their mean.
LEMMA PointsBalance ==
    ASSUME points \in Seq(Grid), NEW c, NEW owners, NEW d \in 1 .. 2, NEW h \in Int,
           NEW u, Offsets(u, c, owners, d, h)
    PROVE  \E w \in [0 .. Len(points) -> Int] : Sums(w, u, Len(points)) /\ w[Len(points)] = 0
<1> DEFINE n == Len(points)
           C(k) == Cardinality(OwnUpTo(c, owners, k))
           count == C(n)
<1>1. n \in Nat /\ \A k \in 1 .. n : points[k] \in Grid
  BY SeqIsFunction
<1>2. \A k \in 1 .. n : points[k][d] \in Nat
  BY <1>1, ClusteringAssumption
<1>3. PICK s \in Nat : s = SumOf(c, owners, d)
  BY SumType
<1>4. PICK f \in [0 .. n -> Nat] : SumRun(f, c, owners, d) /\ s = f[n]
  BY <1>3, SumLoop
<1>5. C(0) = 0 /\ \A k \in Nat : C(k) \in Nat /\ C(k + 1) = IF owners[k + 1] = c THEN C(k) + 1 ELSE C(k)
  BY Counting
<1>6. count \in Nat /\ count = C(n)
  BY <1>1, <1>5
<1>a. \A i \in 1 .. n : u[i] = IF owners[i] = c THEN h * (points[i][d] * count - s) ELSE 0
  BY <1>3 DEF Offsets
<1> HIDE DEF C, count, n
<1> DEFINE w == [k \in 0 .. n |-> h * (f[k] * count - s * C(k))]
<1>7. w \in [0 .. n -> Int]
  <2> SUFFICES ASSUME NEW k \in 0 .. n PROVE h * (f[k] * count - s * C(k)) \in Int
    OBVIOUS
  <2>1. PICK p \in Nat : p = f[k]
    OBVIOUS
  <2>2. PICK q \in Nat : q = C(k)
    BY <1>1, <1>5
  <2>3. h * (p * count - s * q) \in Int
    BY <1>6
  <2> QED
    BY <2>1, <2>2, <2>3
<1>8. w[0] = 0 /\ w[n] = 0
  <2>1. f[0] = 0 /\ f[n] = s /\ 0 \in 0 .. n /\ n \in 0 .. n
    BY <1>1, <1>4 DEF SumRun
  <2>2. w[0] = h * (0 * count - s * 0) /\ w[n] = h * (s * count - s * count)
    BY <1>5, <1>6, <2>1
  <2>3. h * (0 * count - s * 0) = 0 /\ h * (s * count - s * count) = 0
    BY <1>6
  <2> HIDE DEF w
  <2> QED
    BY <2>2, <2>3
<1>9. ASSUME NEW k \in 1 .. n PROVE w[k] = w[k - 1] + u[k]
  <2>1. k - 1 \in Nat /\ k - 1 \in 0 .. n /\ k \in 0 .. n /\ (k - 1) + 1 = k
    BY <1>1
  <2>2. PICK p \in Nat : p = f[k - 1]
    BY <2>1
  <2>3. PICK q \in Nat : q = C(k - 1)
    BY <1>5, <2>1
  <2>4. PICK x \in Nat : x = points[k][d]
    BY <1>2
  <2>5. C(k) = IF owners[k] = c THEN q + 1 ELSE q
    BY <1>5, <2>1, <2>3
  <2>6. f[k] = IF owners[k] = c THEN p + x ELSE p
    BY <1>4, <2>2, <2>4 DEF SumRun, n
  <2>7. w[k - 1] = h * (p * count - s * q)
    BY <2>1, <2>2, <2>3
  <2>8. CASE owners[k] = c
    <3>1. w[k] = h * ((p + x) * count - s * (q + 1)) /\ u[k] = h * (x * count - s)
      BY <1>a, <2>1, <2>4, <2>5, <2>6, <2>8
    <3>2. h * ((p + x) * count - s * (q + 1)) = h * (p * count - s * q) + h * (x * count - s)
      <4>0. p * count \in Int /\ s * q \in Int /\ x * count \in Int /\ s \in Int
        BY <1>6
      <4>1. (p + x) * count - s * (q + 1) = (p * count - s * q) + (x * count - s)
        <5>1. (p + x) * count = p * count + x * count /\ s * (q + 1) = s * q + s
          BY <1>6
        <5> QED
          BY <4>0, <5>1
      <4>2. \A i, j \in Int : h * (i + j) = h * i + h * j
        OBVIOUS
      <4>3. p * count - s * q \in Int /\ x * count - s \in Int
        BY <4>0
      <4> QED
        BY <4>1, <4>2, <4>3
    <3> HIDE DEF w
    <3> QED
      BY <2>7, <3>1, <3>2
  <2>9. CASE owners[k] # c
    <3>1. w[k] = h * (p * count - s * q) /\ u[k] = 0
      BY <1>a, <2>1, <2>2, <2>3, <2>5, <2>6, <2>9
    <3>2. h * (p * count - s * q) \in Int
      BY <1>6
    <3> HIDE DEF w
    <3> QED
      BY <2>7, <3>1, <3>2
  <2> QED
    BY <2>8, <2>9
<1> HIDE DEF w
<1>10. Sums(w, u, n)
  BY <1>8, <1>9 DEF Sums
<1> QED
  BY <1>7, <1>8, <1>10 DEF n

\* the mean of a cluster that has points
LEMMA MeanOfSome ==
    ASSUME points \in Seq(Grid), NEW c, NEW owners, NEW i \in 1 .. Len(points), owners[i] = c
    PROVE  LET count == Cardinality(OwnUpTo(c, owners, Len(points))) IN
             count \in Nat \ {0} /\ MeanOf(c, owners) = Mean(<<SumOf(c, owners, 1), SumOf(c, owners, 2)>>, count)
<1> DEFINE n == Len(points)
           own == OwnUpTo(c, owners, n)
           count == Cardinality(own)
<1>1. n \in Nat /\ DOMAIN points = 1 .. n
  BY SeqIsFunction
<1>2. IsFiniteSet(own) /\ count \in Nat
  <2>1. IsFiniteSet(1 .. n) /\ own \subseteq 1 .. n
    BY <1>1, FS_Interval DEF OwnUpTo
  <2> HIDE DEF own
  <2> QED
    BY <2>1, FS_Subset, FS_CardinalityType
<1>3. count # 0
  <2>1. i \in own
    BY DEF OwnUpTo
  <2> HIDE DEF own
  <2> QED
    BY <1>2, <2>1, FS_EmptySet
<1>4. {k \in DOMAIN points : owners[k] = c} = own
  BY <1>1 DEF OwnUpTo
<1>5. Max({1, count}) = count
  <2> HIDE DEF count
  <2>1. Max({1, count}) = IF 1 <= count THEN count ELSE 1
    BY <1>2, MaxIsEither
  <2> QED
    BY <1>2, <1>3, <2>1
<1>6. MeanOf(c, owners) = Mean(<<SumOf(c, owners, 1), SumOf(c, owners, 2)>>, Max({1, count}))
  BY <1>4 DEF MeanOf
<1> HIDE DEF count
<1>7. count \in Nat \ {0} /\ MeanOf(c, owners) = Mean(<<SumOf(c, owners, 1), SumOf(c, owners, 2)>>, count)
  BY <1>2, <1>3, <1>5, <1>6
<1> QED
  BY <1>7 DEF count

\* some direction in which a number is not negative
LEMMA Direction ==
    ASSUME NEW z \in Int
    PROVE  \E g \in Signs : g * z \in Nat
<1>1. CASE z >= 0
  BY <1>1 DEF Signs
<1>2. CASE z < 0
  <2>1. (-1) * z \in Nat
    BY <1>2
  <2> QED
    BY <2>1 DEF Signs
<1> QED
  BY <1>1, <1>2

\* ... and so is what the code computes of it
LEMMA OffsSeenFromMean ==
    ASSUME NEW p \in Grid, NEW mean \in MeanType, NEW m \in MeanType, NEW d \in 1 .. 2,
           NEW a \in Nat, NEW g \in Signs, NEW u,
           Seen(u, a, p[d], mean.sum[d], mean.of, m.sum[d], m.of, g)
    PROVE  /\ Off(p, mean, d) \in Nat /\ Off(p, m, d) \in Nat
           /\ u \in Int /\ Abs(u) = m.of * Off(p, mean, d) /\ Abs(u - a) = mean.of * Off(p, m, d)
<1>1. p[d] \in Nat /\ mean.sum[d] \in Nat /\ m.sum[d] \in Nat
  BY ClusteringAssumption DEF MeanType
<1>2. mean.of \in Nat \ {0} /\ m.of \in Nat \ {0}
  BY DEF MeanType
<1>3. /\ Off(p, mean, d) = Abs(p[d] * mean.of - mean.sum[d])
      /\ Off(p, m, d) = Abs(p[d] * m.of - m.sum[d])
  BY DEF Off, Abs
<1>4. p[d] * mean.of - mean.sum[d] \in Int /\ p[d] * m.of - m.sum[d] \in Int
  <2>1. \A x, y, z \in Nat : x * y - z \in Int
    OBVIOUS
  <2> QED
    BY <1>1, <1>2, <2>1
<1>5. /\ u \in Int /\ Abs(u) = m.of * Abs(p[d] * mean.of - mean.sum[d])
      /\ Abs(u - a) = mean.of * Abs(p[d] * m.of - m.sum[d])
  <2>1. PICK x \in Nat, s \in Nat, t \in Nat : x = p[d] /\ s = mean.sum[d] /\ t = m.sum[d]
    BY <1>1
  <2>2. PICK n \in Nat \ {0}, k \in Nat \ {0} : n = mean.of /\ k = m.of
    BY <1>2
  <2>3. Seen(u, a, x, s, n, t, k, g)
    BY <2>1, <2>2
  <2>4. u \in Int /\ Abs(u) = k * Abs(x * n - s) /\ Abs(u - a) = n * Abs(x * k - t)
    BY <2>3, SeenFromMean
  <2> QED
    BY <2>1, <2>2, <2>4
<1> QED
  BY <1>3, <1>4, <1>5, AbsFacts

\* A point that is nearer to m than to mean is so on the scale of both, seen from mean.
LEMMA NearerIsCloser ==
    ASSUME NEW p \in Grid, NEW mean \in MeanType, NEW m \in MeanType, NEW norm \in Nat,
           Nearer(p, m, mean, norm),
           NEW a \in Nat, NEW g \in Signs, NEW u,
           Seen(u, a, p[1], mean.sum[1], mean.of, m.sum[1], m.of, g),
           NEW b \in Nat, NEW h \in Signs, NEW v,
           Seen(v, b, p[2], mean.sum[2], mean.of, m.sum[2], m.of, h)
    PROVE  u \in Int /\ v \in Int /\ Closer(u, v, a, b, norm)
<1>0. 1 \in 1 .. 2 /\ 2 \in 1 .. 2
  OBVIOUS
<1>1. PICK i \in Nat, q \in Nat : i = Off(p, m, 1) /\ q = Off(p, mean, 1)
  BY <1>0, OffsSeenFromMean
<1>2. PICK j \in Nat, r \in Nat : j = Off(p, m, 2) /\ r = Off(p, mean, 2)
  BY <1>0, OffsSeenFromMean
<1>3. PICK n \in Nat, k \in Nat : n = mean.of /\ k = m.of
  BY DEF MeanType
<1>4. u \in Int /\ Abs(u) = k * q /\ Abs(u - a) = n * i
  BY <1>0, <1>1, <1>3, OffsSeenFromMean
<1>5. v \in Int /\ Abs(v) = k * r /\ Abs(v - b) = n * j
  BY <1>0, <1>2, <1>3, OffsSeenFromMean
<1>6. Distance(p, m, norm) = Far(i, j, norm) /\ Distance(p, mean, norm) = Far(q, r, norm)
  BY <1>1, <1>2 DEF Distance, Far
<1>7. /\ Scale(m, norm) = Power(k, IF norm = 0 THEN 1 ELSE norm)
      /\ Scale(mean, norm) = Power(n, IF norm = 0 THEN 1 ELSE norm)
  BY <1>3 DEF Scale
<1>8. Far(Abs(u - a), Abs(v - b), norm) = Distance(p, m, norm) * Scale(mean, norm)
  <2>1. Far(n * i, n * j, norm) = Far(i, j, norm) * Power(n, IF norm = 0 THEN 1 ELSE norm)
    BY FarScales
  <2> QED
    BY <1>4, <1>5, <1>6, <1>7, <2>1
<1>9. Far(Abs(u), Abs(v), norm) = Distance(p, mean, norm) * Scale(m, norm)
  <2>1. Far(k * q, k * r, norm) = Far(q, r, norm) * Power(k, IF norm = 0 THEN 1 ELSE norm)
    BY FarScales
  <2> QED
    BY <1>4, <1>5, <1>6, <1>7, <2>1
<1>10. Closer(u, v, a, b, norm)
  BY <1>8, <1>9 DEF Closer, Nearer
<1> QED
  BY <1>4, <1>5, <1>10

\* Some point of a cluster is not nearer to any other mean than to the average of the cluster,
\* in every norm.
LEMMA OneIsNotNearer ==
    ASSUME points \in Seq(Grid), NEW c, NEW owners, NEW o \in 1 .. Len(points), owners[o] = c,
           NEW m \in MeanType, NEW norm \in Nat
    PROVE  \E i \in 1 .. Len(points) : owners[i] = c /\ ~Nearer(points[i], m, MeanOf(c, owners), norm)
<1> DEFINE n == Len(points)
           own == OwnUpTo(c, owners, n)
           mean == MeanOf(c, owners)
<1>1. n \in Nat /\ \A i \in 1 .. n : points[i] \in Grid
  BY SeqIsFunction
<1>2. mean \in MeanType
  BY MeanOfType
<1>3. mean.of = Cardinality(own) /\ mean.sum[1] = SumOf(c, owners, 1) /\ mean.sum[2] = SumOf(c, owners, 2)
  BY MeanOfSome DEF Mean
<1>4. own \in SUBSET (1 .. n) /\ own # {} /\ \A i \in 1 .. n : i \in own <=> owners[i] = c
  BY DEF OwnUpTo
<1> DEFINE A(d) == m.sum[d] * mean.of - mean.sum[d] * m.of
<1>5. ASSUME NEW d \in 1 .. 2 PROVE A(d) \in Int /\ mean.sum[d] \in Nat
  <2>1. m.sum[d] \in Nat /\ mean.sum[d] \in Nat
    BY <1>2 DEF MeanType
  <2>2. m.of \in Nat /\ mean.of \in Nat
    BY <1>2 DEF MeanType
  <2>3. PICK p \in Nat, q \in Nat, r \in Nat, t \in Nat :
            p = m.sum[d] /\ q = mean.of /\ r = mean.sum[d] /\ t = m.of
    BY <2>1, <2>2
  <2>4. p * q - r * t \in Int
    OBVIOUS
  <2> QED
    BY <2>1, <2>3, <2>4
<1>6. PICK g \in Signs : g * A(1) \in Nat
  BY <1>5, Direction
<1>7. PICK h \in Signs : h * A(2) \in Nat
  BY <1>5, Direction
<1>8. PICK a \in Nat : a = g * A(1)
  BY <1>6
<1>9. PICK b \in Nat : b = h * A(2)
  BY <1>7
<1> DEFINE u == [i \in 1 .. n |-> IF owners[i] = c THEN (g * m.of) * (points[i][1] * mean.of - mean.sum[1]) ELSE 0]
           v == [i \in 1 .. n |-> IF owners[i] = c THEN (h * m.of) * (points[i][2] * mean.of - mean.sum[2]) ELSE 0]
<1>10. PICK g1 \in Int, h1 \in Int : g1 = g * m.of /\ h1 = h * m.of
  BY DEF MeanType, Signs
<1>11. Offsets(u, c, owners, 1, g1) /\ Offsets(v, c, owners, 2, h1)
  BY <1>3, <1>10 DEF Offsets
<1>12. \A i \in own : /\ Seen(u[i], a, points[i][1], mean.sum[1], mean.of, m.sum[1], m.of, g)
                      /\ Seen(v[i], b, points[i][2], mean.sum[2], mean.of, m.sum[2], m.of, h)
  BY <1>4, <1>8, <1>9 DEF Seen
<1>13. \A i \in (1 .. n) \ own : u[i] = 0 /\ v[i] = 0
  BY <1>4
<1>14. u = [i \in 1 .. n |-> u[i]] /\ v = [i \in 1 .. n |-> v[i]]
  OBVIOUS
<1> HIDE DEF u, v, A, own, mean
<1>15. PICK wu \in [0 .. n -> Int] : Sums(wu, u, n) /\ wu[n] = 0
  <2>1. 1 \in 1 .. 2
    OBVIOUS
  <2> QED
    BY <1>11, <2>1, PointsBalance
<1>16. PICK wv \in [0 .. n -> Int] : Sums(wv, v, n) /\ wv[n] = 0
  <2>1. 2 \in 1 .. 2
    OBVIOUS
  <2> QED
    BY <1>11, <2>1, PointsBalance
<1> HIDE DEF n
<1>17. ASSUME \A i \in own : Nearer(points[i], m, mean, norm) PROVE FALSE
  <2>1. ASSUME NEW i \in own PROVE u[i] \in Int /\ v[i] \in Int /\ Closer(u[i], v[i], a, b, norm)
    <3>1. PICK p \in Grid : p = points[i]
      BY <1>1, <1>4
    <3>2. /\ Seen(u[i], a, p[1], mean.sum[1], mean.of, m.sum[1], m.of, g)
          /\ Seen(v[i], b, p[2], mean.sum[2], mean.of, m.sum[2], m.of, h)
          /\ Nearer(p, m, mean, norm)
      BY <1>12, <1>17, <3>1
    <3> QED
      BY <1>2, <3>2, NearerIsCloser
  <2>2. u \in [1 .. n -> Int] /\ v \in [1 .. n -> Int]
    <3>1. \A i \in 1 .. n : u[i] \in Int /\ v[i] \in Int
      BY <1>13, <2>1
    <3> QED
      BY <1>14, <3>1
  <2>3. OthersVanish(n, own, u, v) /\ AllAreCloser(own, u, v, a, b, norm)
    BY <1>13, <2>1 DEF OthersVanish, AllAreCloser
  <2> QED
    BY <1>1, <1>4, <1>15, <1>16, <2>2, <2>3, NotAllAreCloser
<1> QED
  BY <1>4, <1>17 DEF n, mean

-----------------------------------------------------------------------------
(* The nearest mean after the last pass.                                     *)

\* fractions a/i = b/j compare with m/k alike
LEMMA FractionsCompareAlike ==
    ASSUME NEW a \in Nat, NEW b \in Nat, NEW m \in Nat,
           NEW i \in Nat \ {0}, NEW j \in Nat \ {0}, NEW k \in Nat \ {0}, a * j = b * i
    PROVE  (m * i < a * k <=> m * j < b * k) /\ (a * k < m * i <=> b * k < m * j)
<1>1. (a * k) * j = (b * k) * i
  <2>1. (a * k) * j = (a * j) * k /\ (b * k) * i = (b * i) * k
    OBVIOUS
  <2> QED
    BY <2>1
<1>2. (m * i) * j = (m * j) * i
  OBVIOUS
<1>3. PICK p \in Nat, q \in Nat : p = m * i /\ q = a * k
  OBVIOUS
<1>4. PICK r \in Nat, s \in Nat : r = m * j /\ s = b * k
  OBVIOUS
<1>5. p * j = r * i /\ q * j = s * i
  BY <1>1, <1>2, <1>3, <1>4
<1>6. (p < q <=> p * j < q * j) /\ (q < p <=> q * j < p * j)
  OBVIOUS
<1>7. (r < s <=> r * i < s * i) /\ (s < r <=> s * i < r * i)
  OBVIOUS
<1> QED
  BY <1>3, <1>4, <1>5, <1>6, <1>7

\* how far a point is off two means that are the same
LEMMA OffsAreAlike ==
    ASSUME NEW x \in Grid, NEW a \in MeanType, NEW b \in MeanType, SameMean(a, b), NEW d \in 1 .. 2
    PROVE  /\ Off(x, a, d) \in Nat /\ Off(x, b, d) \in Nat
           /\ b.of * Off(x, a, d) = a.of * Off(x, b, d)
<1>1. PICK p \in Nat, s \in Nat, t \in Nat : p = x[d] /\ s = a.sum[d] /\ t = b.sum[d]
  BY ClusteringAssumption DEF MeanType
<1>2. PICK n \in Nat \ {0}, k \in Nat \ {0} : n = a.of /\ k = b.of
  BY DEF MeanType
<1>3. s * k = t * n
  BY <1>1, <1>2 DEF SameMean
<1>4. Off(x, a, d) = Abs(p * n - s) /\ Off(x, b, d) = Abs(p * k - t)
  BY <1>1, <1>2 DEF Off, Abs
<1>5. PICK o \in Int, q \in Int : o = p * n - s /\ q = p * k - t
  OBVIOUS
<1>6. k * o = n * q
  <2>1. k * o = k * (p * n) - s * k /\ n * q = n * (p * k) - t * n
    BY <1>5
  <2>2. k * (p * n) = n * (p * k)
    OBVIOUS
  <2> QED
    BY <1>3, <2>1, <2>2
<1>7. Abs(o) \in Nat /\ Abs(q) \in Nat
  BY AbsFacts
<1>8. k * Abs(o) = n * Abs(q)
  <2>1. 1 \in Signs /\ k \in Nat /\ n \in Nat /\ 1 * (k * o) = k * o /\ 1 * (n * q) = n * q
    BY DEF Signs
  <2>2. Abs(1 * (k * o)) = k * Abs(o) /\ Abs(1 * (n * q)) = n * Abs(q)
    BY <2>1, AbsOfProduct
  <2> QED
    BY <1>6, <2>1, <2>2
<1> QED
  BY <1>2, <1>4, <1>5, <1>7, <1>8

\* Means that are the same are equally near.
LEMMA SameMeanIsAsNear ==
    ASSUME NEW x \in Grid, NEW norm \in Nat, NEW a \in MeanType, NEW b \in MeanType, SameMean(a, b),
           NEW m \in MeanType
    PROVE  /\ Nearer(x, m, a, norm) <=> Nearer(x, m, b, norm)
           /\ Nearer(x, a, m, norm) <=> Nearer(x, b, m, norm)
<1>0. 1 \in 1 .. 2 /\ 2 \in 1 .. 2
  OBVIOUS
<1>1. PICK n \in Nat, k \in Nat : n = a.of /\ k = b.of
  BY DEF MeanType
<1>2. PICK i \in Nat, q \in Nat : i = Off(x, a, 1) /\ q = Off(x, b, 1) /\ k * i = n * q
  BY <1>0, <1>1, OffsAreAlike
<1>3. PICK j \in Nat, r \in Nat : j = Off(x, a, 2) /\ r = Off(x, b, 2) /\ k * j = n * r
  BY <1>0, <1>1, OffsAreAlike
<1>4. Distance(x, a, norm) = Far(i, j, norm) /\ Distance(x, b, norm) = Far(q, r, norm)
  BY <1>2, <1>3 DEF Distance, Far
<1>5. /\ Scale(a, norm) = Power(n, IF norm = 0 THEN 1 ELSE norm)
      /\ Scale(b, norm) = Power(k, IF norm = 0 THEN 1 ELSE norm)
  BY <1>1 DEF Scale
<1>6. Distance(x, a, norm) * Scale(b, norm) = Distance(x, b, norm) * Scale(a, norm)
  <2>1. Far(k * i, k * j, norm) = Far(i, j, norm) * Power(k, IF norm = 0 THEN 1 ELSE norm)
    BY FarScales
  <2>2. Far(n * q, n * r, norm) = Far(q, r, norm) * Power(n, IF norm = 0 THEN 1 ELSE norm)
    BY FarScales
  <2> QED
    BY <1>2, <1>3, <1>4, <1>5, <2>1, <2>2
<1>7. PICK da \in Nat, sa \in Nat \ {0} : da = Distance(x, a, norm) /\ sa = Scale(a, norm)
  BY DistanceType
<1>8. PICK db \in Nat, sb \in Nat \ {0} : db = Distance(x, b, norm) /\ sb = Scale(b, norm)
  BY DistanceType
<1>9. PICK dm \in Nat, sm \in Nat \ {0} : dm = Distance(x, m, norm) /\ sm = Scale(m, norm)
  BY DistanceType
<1>10. (dm * sa < da * sm <=> dm * sb < db * sm) /\ (da * sm < dm * sa <=> db * sm < dm * sb)
  <2>1. da * sb = db * sa
    BY <1>6, <1>7, <1>8
  <2> QED
    BY <2>1, FractionsCompareAlike
<1> QED
  BY <1>7, <1>8, <1>9, <1>10 DEF Nearer

\* What FindSmallest finds is the only one that is the first of the nearest.
LEMMA FirstNearestIsFound ==
    ASSUME NEW x \in Grid, NEW norm \in Nat, NEW n \in Nat \ {0}, NEW ms \in [1 .. n -> MeanType]
    PROVE  /\ FindSmallest(x, ms, norm) \in 1 .. n
           /\ IsFirstNearest(x, ms, norm, n, FindSmallest(x, ms, norm))
           /\ \A c \in 1 .. n : IsFirstNearest(x, ms, norm, n, c) => c = FindSmallest(x, ms, norm)
<1> DEFINE f == FindSmallest(x, ms, norm)
<1>1. f \in 1 .. n /\ IsFirstNearest(x, ms, norm, n, f)
  BY SmallestIsFound
<1>2. ASSUME NEW c \in 1 .. n, IsFirstNearest(x, ms, norm, n, c) PROVE c = f
  <2> HIDE DEF f
  <2>1. ~(c < f)
    BY <1>1, <1>2 DEF IsFirstNearest
  <2>2. ~(f < c)
    BY <1>1, <1>2 DEF IsFirstNearest
  <2> QED
    BY <1>1, <2>1, <2>2
<1> QED
  BY <1>1, <1>2

\* whether every point is in the cluster of the mean it is nearest to
AllNearest(owners, ms, norm) ==
    \A i \in 1 .. Len(points) : owners[i] = FindSmallest(points[i], ms, norm)

\* whether the first n means are the averages of their clusters
AreAverages(ms, owners, n) == \A j \in 1 .. n : ms[j] = MeanOf(j, owners)

\* whether each of the first n means is kept or lies upon one before it
AreKeptOrUpon(ms, next, n) == \A j \in 1 .. n : KeptOrUpon(ms, next, j)

\* If every point is in the cluster of the mean it is nearest to, then it also is when the means
\* that were drawn anew, because they lay upon others, are back: their clusters are empty.
LEMMA StaysNearest ==
    ASSUME points \in Seq(Grid), NEW norm \in Nat, NEW n \in Nat \ {0},
           NEW ms \in [1 .. n -> MeanType], NEW owners, AllNearest(owners, ms, norm),
           NEW old \in [1 .. n -> MeanType], AreAverages(old, owners, n), AreKeptOrUpon(old, ms, n)
    PROVE  AllNearest(owners, old, norm)
<1> SUFFICES ASSUME \A i \in 1 .. Len(points) : owners[i] = FindSmallest(points[i], ms, norm),
                    \A j \in 1 .. n : old[j] = MeanOf(j, owners),
                    \A j \in 1 .. n : KeptOrUpon(old, ms, j)
             PROVE  \A i \in 1 .. Len(points) : owners[i] = FindSmallest(points[i], old, norm)
  BY DEF AllNearest, AreAverages, AreKeptOrUpon
<1>1. \A i \in 1 .. Len(points) : points[i] \in Grid
  BY SeqIsFunction
<1>2. \A i \in 1 .. Len(points) : owners[i] \in 1 .. n /\ IsFirstNearest(points[i], ms, norm, n, owners[i])
  <2> SUFFICES ASSUME NEW i \in 1 .. Len(points)
               PROVE  owners[i] \in 1 .. n /\ IsFirstNearest(points[i], ms, norm, n, owners[i])
    OBVIOUS
  <2>1. PICK x \in Grid : x = points[i]
    BY <1>1
  <2>2. owners[i] = FindSmallest(x, ms, norm)
    BY <2>1
  <2>3. FindSmallest(x, ms, norm) \in 1 .. n /\ IsFirstNearest(x, ms, norm, n, FindSmallest(x, ms, norm))
    BY FirstNearestIsFound
  <2> QED
    BY <2>1, <2>2, <2>3
<1>3. ASSUME NEW o \in 1 .. Len(points) PROVE ms[owners[o]] = old[owners[o]]
  <2>1. PICK c \in 1 .. n : c = owners[o]
    BY <1>2
  <2>2. ASSUME NEW l \in 1 .. c - 1, SameMean(old[c], ms[l]) PROVE FALSE
    <3>1. l \in 1 .. n /\ l < c /\ ms[l] \in MeanType /\ old[c] \in MeanType /\ ms[c] \in MeanType
      OBVIOUS
    <3>2. ASSUME NEW i \in 1 .. Len(points), owners[i] = c PROVE Nearer(points[i], ms[c], old[c], norm)
      <4>1. Nearer(points[i], ms[c], ms[l], norm)
        BY <1>2, <3>1, <3>2 DEF IsFirstNearest
      <4> QED
        BY <1>1, <2>2, <3>1, <4>1, SameMeanIsAsNear
    <3>3. \E i \in 1 .. Len(points) : owners[i] = c /\ ~Nearer(points[i], ms[c], MeanOf(c, owners), norm)
      BY <2>1, <3>1, OneIsNotNearer
    <3> QED
      BY <3>2, <3>3
  <2>3. ms[c] = old[c]
    BY <2>2 DEF KeptOrUpon
  <2> QED
    BY <2>1, <2>3
<1>4. ASSUME NEW i \in 1 .. Len(points) PROVE owners[i] = FindSmallest(points[i], old, norm)
  <2>1. PICK c \in 1 .. n : c = owners[i]
    BY <1>2
  <2>2. PICK x \in Grid : x = points[i]
    BY <1>1
  <2>3. ms[c] = old[c] /\ IsFirstNearest(x, ms, norm, n, c) /\ ms[c] \in MeanType
    BY <1>2, <1>3, <2>1, <2>2
  <2>4. ASSUME NEW j \in 1 .. n
        PROVE  ~Nearer(x, old[j], old[c], norm) /\ (j < c => Nearer(x, old[c], old[j], norm))
    <3>1. CASE old[j] = ms[j]
      BY <2>3, <3>1 DEF IsFirstNearest
    <3>2. CASE \E l \in 1 .. j - 1 : SameMean(old[j], ms[l])
      <4>1. PICK l \in 1 .. j - 1 : SameMean(old[j], ms[l])
        BY <3>2
      <4>2. l \in 1 .. n /\ (j < c => l < c) /\ ms[l] \in MeanType /\ old[j] \in MeanType
        OBVIOUS
      <4>3. ~Nearer(x, ms[l], ms[c], norm) /\ (j < c => Nearer(x, ms[c], ms[l], norm))
        BY <2>3, <4>2 DEF IsFirstNearest
      <4>4. /\ Nearer(x, ms[c], old[j], norm) <=> Nearer(x, ms[c], ms[l], norm)
            /\ Nearer(x, old[j], ms[c], norm) <=> Nearer(x, ms[l], ms[c], norm)
        BY <2>3, <4>1, <4>2, SameMeanIsAsNear
      <4> QED
        BY <2>3, <4>3, <4>4
    <3> QED
      BY <3>1, <3>2 DEF KeptOrUpon
  <2>5. IsFirstNearest(x, old, norm, n, c)
    BY <2>4 DEF IsFirstNearest
  <2>6. c = FindSmallest(x, old, norm)
    <3>1. \A k \in 1 .. n : IsFirstNearest(x, old, norm, n, k) => k = FindSmallest(x, old, norm)
      BY FirstNearestIsFound
    <3> QED
      BY <2>5, <3>1
  <2> QED
    BY <2>1, <2>2, <2>6
<1> QED
  BY <1>4

-----------------------------------------------------------------------------
(* K-means ends where every point is nearest to its mean.                    *)

\* how many means take part
Taking == Min({Len(means), Len(points)})

\* The means that take part are the first of all, and are all when there are points enough.
LEMMA PartakingIs ==
    ASSUME ClusterTypes, points # <<>>, means # <<>>
    PROVE  /\ DOMAIN Partaking = 1 .. Taking /\ Taking \in 1 .. Len(means)
           /\ Len(means) <= Len(points) => Partaking = means
<1>1. Len(means) \in Nat \ {0} /\ Len(points) \in Nat \ {0}
  BY EmptySeq DEF ClusterTypes
<1>2. Taking \in {Len(means), Len(points)} /\ Taking <= Len(means) /\ Taking <= Len(points)
  <2>1. \E x \in {Len(means), Len(points)} : \A y \in {Len(means), Len(points)} : x <= y
    BY <1>1
  <2> QED
    BY <2>1 DEF Min, Taking
<1>3. Taking \in 1 .. Len(means)
  BY <1>1, <1>2
<1>4. /\ Partaking \in Seq(MeanType) /\ Len(Partaking) = Taking
      /\ \A i \in 1 .. Taking : Partaking[i] = means[i]
  <2>1. \A i \in 1 .. Taking : means[i] \in MeanType
    BY <1>3, TrainingFunctions
  <2>2. Partaking = SubSeq(means, 1, Taking)
    BY DEF Partaking, Taking
  <2> QED
    BY <1>3, <2>1, <2>2, SubSeqProperties
<1>5. DOMAIN Partaking = 1 .. Taking /\ Partaking \in [1 .. Taking -> MeanType]
  BY <1>4, SeqIsFunction
<1>6. ASSUME Len(means) <= Len(points) PROVE Partaking = means
  <2>1. Taking = Len(means)
    BY <1>1, <1>2, <1>6
  <2>2. means \in [1 .. Len(means) -> MeanType]
    BY TrainingFunctions
  <2> QED
    BY <1>4, <1>5, <2>1, <2>2
<1> QED
  BY <1>3, <1>5, <1>6

\* the averages of the same points are the same
LEMMA MeanOfSamePoints ==
    ASSUME points' = points, NEW c
    PROVE  MeanOf(c, owner)' = MeanOf(c, owner')
BY DEF MeanOf, SumOf, Mean

\* What a pass does: it puts every point into the cluster of the nearest mean that takes part, and
\* makes those means averages.
LEMMA PassAverages ==
    ASSUME TrainingInv, KmeansPass
    PROVE  /\ Taking' = Taking /\ Len(means') = Len(means)
           /\ means' \in [1 .. Len(means) -> MeanType]
           /\ \A j \in 1 .. Taking : means'[j] = MeanOf(j, owner')
<1>1. ClusterTypes /\ points # <<>> /\ means # <<>>
  BY DEF TrainingInv, KmeansPass
<1>2. DOMAIN Partaking = 1 .. Taking /\ Taking \in 1 .. Len(means)
  BY <1>1, PartakingIs
<1>3. Len(means) \in Nat /\ means \in [1 .. Len(means) -> MeanType] /\ DOMAIN means = 1 .. Len(means)
      /\ TrainingType
  BY <1>1, TrainingFunctions
<1>4. means' = [j \in 1 .. Len(means) |-> IF j \in 1 .. Taking THEN MeanOf(j, owner') ELSE means[j]]
  BY <1>2, <1>3 DEF KmeansPass
<1>5. means' \in [1 .. Len(means) -> MeanType]
  <2>1. \A j \in 1 .. Len(means) : MeanOf(j, owner') \in MeanType
    BY <1>3, MeanOfType DEF TrainingType
  <2> QED
    BY <1>3, <1>4, <2>1
<1>6. Len(means') = Len(means)
  BY <1>3, <1>5, FunctionIsSeq
<1>7. Taking' = Taking
  BY <1>6 DEF Taking, KmeansPass
<1>8. \A j \in 1 .. Taking : j \in 1 .. Len(means)
  BY <1>2, <1>3
<1> QED
  BY <1>4, <1>5, <1>6, <1>7, <1>8

\* the invariant, in terms of Taking
LEMMA AveragesAre ==
    ASSUME TrainingInv, model = "KM"
    PROVE  MeansAreAverages <=>
             (settled > 0 =>
                \A j \in 1 .. Taking :
                    \/ means[j] = MeanOf(j, owner)
                    \/ at = "pass" /\ \E l \in 1 .. j - 1 : SameMean(MeanOf(j, owner), means[l]))
<1>1. DOMAIN Partaking = 1 .. Taking
  BY PartakingIs DEF TrainingInv
<1> QED
  BY <1>1 DEF MeansAreAverages

\* Update keeps every average, or draws anew one that lay upon another.
LEMMA UpdateKeepsAverages ==
    ASSUME TrainingInv, TrainingInv', MeansAreAverages, Update
    PROVE  MeansAreAverages'
<1>0. model = "KM" /\ model' = "KM" /\ points' = points /\ owner' = owner /\ settled' = settled
      /\ at = "update" /\ at' = "pass" /\ means' \in Superposed(means) /\ means # <<>> /\ points # <<>>
  BY DEF Update, TrainingInv
<1>1. Len(means) \in Nat /\ means \in [1 .. Len(means) -> MeanType]
  BY TrainingFunctions DEF TrainingInv
<1>2. Len(means') = Len(means) /\ \A j \in 1 .. Len(means) : KeptOrUpon(means, means', j)
  BY <1>0, <1>1, SuperposedType
<1>3. Taking' = Taking /\ Taking \in 1 .. Len(means)
  BY <1>0, <1>2, PartakingIs DEF Taking, TrainingInv
<1>4. ASSUME settled > 0, NEW j \in 1 .. Taking
      PROVE  \/ means'[j] = MeanOf(j, owner)'
             \/ \E l \in 1 .. j - 1 : SameMean(MeanOf(j, owner)', means'[l])
  <2>1. means[j] = MeanOf(j, owner)
    BY <1>0, <1>4, AveragesAre
  <2>2. MeanOf(j, owner)' = MeanOf(j, owner)
    BY <1>0, MeanOfSamePoints
  <2>3. KeptOrUpon(means, means', j)
    <3>1. j \in 1 .. Len(means)
      BY <1>1, <1>3
    <3> QED
      BY <1>2, <3>1
  <2> QED
    BY <2>1, <2>2, <2>3 DEF KeptOrUpon
<1>5. (TrainingInv /\ model = "KM" =>
         (MeansAreAverages <=>
            (settled > 0 =>
                \A j \in 1 .. Taking :
                    \/ means[j] = MeanOf(j, owner)
                    \/ at = "pass" /\ \E l \in 1 .. j - 1 : SameMean(MeanOf(j, owner), means[l]))))'
  BY AveragesAre, PTL
<1> QED
  BY <1>0, <1>3, <1>4, <1>5

\* ... and a pass computes all of them.
LEMMA PassComputesAverages ==
    ASSUME TrainingInv, TrainingInv', KmeansPass
    PROVE  MeansAreAverages'
<1>0. model' = "KM" /\ points' = points
  BY DEF KmeansPass, TrainingInv
<1>1. \A j \in 1 .. Taking' : means'[j] = MeanOf(j, owner)'
  BY <1>0, PassAverages, MeanOfSamePoints
<1>2. (TrainingInv /\ model = "KM" =>
         (MeansAreAverages <=>
            (settled > 0 =>
                \A j \in 1 .. Taking :
                    \/ means[j] = MeanOf(j, owner)
                    \/ at = "pass" /\ \E l \in 1 .. j - 1 : SameMean(MeanOf(j, owner), means[l]))))'
  BY AveragesAre, PTL
<1> QED
  BY <1>0, <1>1, <1>2

\* The last pass of an Update that is not the first leaves every point nearest to its mean.
LEMMA LastPassIsNearest ==
    ASSUME TrainingInv, MeansAreAverages, KmeansPass
    PROVE  PointsAreNearest'
<1> SUFFICES ASSUME at' = "idle", settled' = 2, Len(means') <= Len(points')
             PROVE  \A i \in DOMAIN points' : owner'[i] = FindSmallest(points'[i], means', option')
  BY DEF PointsAreNearest
<1>0. /\ model = "KM" /\ at = "pass" /\ points # <<>> /\ means # <<>> /\ option \in Nat
      /\ points' = points /\ option' = option /\ settled \in 0 .. 2 /\ ClusterTypes
  BY DEF TrainingInv, ClusterTypes, KmeansPass
<1>1. owner' = owner /\ settled' = Min({2, settled + 1})
  <2>1. at' # at
    BY <1>0
  <2> QED
    BY <2>1 DEF KmeansPass, Changed
<1>2. settled > 0
  <2>1. CASE settled = 0
    <3>1. \E x \in {2, 1} : \A y \in {2, 1} : x <= y
      OBVIOUS
    <3>2. Min({2, 1}) <= 1
      BY <3>1 DEF Min
    <3> QED
      BY <1>1, <2>1, <3>2
  <2> QED
    BY <1>0, <2>1
<1>3. /\ Len(means') = Len(means) /\ means' \in [1 .. Len(means) -> MeanType]
      /\ \A j \in 1 .. Taking : means'[j] = MeanOf(j, owner)
  BY <1>1, PassAverages
<1>4. Partaking = means /\ DOMAIN means = 1 .. Len(means) /\ means \in [1 .. Len(means) -> MeanType]
      /\ DOMAIN points = 1 .. Len(points) /\ points \in Seq(Grid)
  BY <1>0, <1>3, PartakingIs, TrainingFunctions DEF TrainingType
<1>5. 1 .. Taking = 1 .. Len(means) /\ Len(means) \in Nat \ {0}
  BY <1>0, <1>4, PartakingIs, TrainingFunctions
<1>6. \A i \in 1 .. Len(points) : owner[i] = FindSmallest(points[i], means, option)
  BY <1>1, <1>4 DEF KmeansPass
<1>7. \A j \in 1 .. Len(means) : means'[j] = MeanOf(j, owner)
  BY <1>3, <1>5
<1>8. \A j \in 1 .. Len(means) : KeptOrUpon(means', means, j)
  <2>1. \A j \in 1 .. Taking :
            \/ means[j] = MeanOf(j, owner)
            \/ \E l \in 1 .. j - 1 : SameMean(MeanOf(j, owner), means[l])
    BY <1>0, <1>2, AveragesAre
  <2> QED
    BY <1>5, <1>7, <2>1 DEF KeptOrUpon
<1>9. \A i \in 1 .. Len(points) : owner[i] = FindSmallest(points[i], means', option)
  <2>1. PICK norm \in Nat, n \in Nat \ {0} : norm = option /\ n = Len(means)
    BY <1>0, <1>5
  <2>2. PICK ms \in [1 .. n -> MeanType] : ms = means
    BY <1>4, <2>1
  <2>3. PICK old \in [1 .. n -> MeanType] : old = means'
    BY <1>3, <2>1
  <2>4. AllNearest(owner, ms, norm)
    BY <1>6, <2>1, <2>2 DEF AllNearest
  <2>5. AreAverages(old, owner, n)
    BY <1>7, <2>1, <2>3 DEF AreAverages
  <2>6. AreKeptOrUpon(old, ms, n)
    BY <1>8, <2>1, <2>2, <2>3 DEF AreKeptOrUpon
  <2>7. AllNearest(owner, old, norm)
    BY <1>4, <2>4, <2>5, <2>6, StaysNearest
  <2> QED
    BY <2>1, <2>3, <2>7 DEF AllNearest
<1> QED
  BY <1>0, <1>1, <1>4, <1>9

\* every step keeps averages and what they end with
LEMMA NearestStep ==
    TrainingInv /\ TrainingInv' /\ MeansAreAverages /\ PointsAreNearest /\ [Next]_vars
        => MeansAreAverages' /\ PointsAreNearest'
<1> SUFFICES ASSUME TrainingInv, TrainingInv', MeansAreAverages, PointsAreNearest, [Next]_vars
             PROVE  MeansAreAverages' /\ PointsAreNearest'
  OBVIOUS
<1>a. ASSUME at' # "idle", settled' = 0 \/ model' # "KM" PROVE MeansAreAverages' /\ PointsAreNearest'
  BY <1>a DEF MeansAreAverages, PointsAreNearest
<1>b. ASSUME UNCHANGED <<model, settled, owner, means, points>>, at = "idle" \/ at' = at
      PROVE  MeansAreAverages'
  <2>1. model = "KM" =>
          (settled > 0 =>
              \A j \in 1 .. Taking :
                  \/ means[j] = MeanOf(j, owner)
                  \/ at = "pass" /\ \E l \in 1 .. j - 1 : SameMean(MeanOf(j, owner), means[l]))
    BY AveragesAre
  <2>2. Taking' = Taking /\ \A j : MeanOf(j, owner)' = MeanOf(j, owner)
    BY <1>b, MeanOfSamePoints DEF Taking
  <2>3. (TrainingInv /\ model = "KM" =>
           (MeansAreAverages <=>
              (settled > 0 =>
                  \A j \in 1 .. Taking :
                      \/ means[j] = MeanOf(j, owner)
                      \/ at = "pass" /\ \E l \in 1 .. j - 1 : SameMean(MeanOf(j, owner), means[l]))))'
    BY AveragesAre, PTL
  <2>4. model # "KM" => MeansAreAverages'
    BY <1>b DEF MeansAreAverages
  <2> QED
    BY <1>b, <2>1, <2>2, <2>3, <2>4
<1>1. ASSUME NEW k, NEW norm, NEW updates, Fresh(k, norm, updates)
      PROVE  MeansAreAverages' /\ PointsAreNearest'
  BY <1>1, <1>a DEF Fresh
<1>2. ASSUME NEW e, NEW n, Quality(e, n) PROVE MeansAreAverages' /\ PointsAreNearest'
  BY <1>2, <1>a DEF Quality
<1>3. ASSUME NEW norm, Again(norm), at = "idle" PROVE MeansAreAverages' /\ PointsAreNearest'
  <2>1. CASE norm = option
    BY <1>3, <1>b, <2>1 DEF Again, PointsAreNearest
  <2>2. CASE norm # option
    BY <1>3, <1>a, <2>2 DEF Again
  <2> QED
    BY <2>1, <2>2
<1>4. CASE Cluster
  BY <1>1, <1>2, <1>4 DEF Cluster
<1>5. CASE ClusterIterate
  BY <1>1, <1>2, <1>3, <1>5 DEF ClusterIterate
<1>6. CASE Update
  BY <1>6, UpdateKeepsAverages DEF Update, PointsAreNearest
<1>7. CASE KmeansPass
  BY <1>7, PassComputesAverages, LastPassIsNearest
<1>8. CASE Gather
  BY <1>8 DEF Gather, TrainingInv, MeansAreAverages, PointsAreNearest
<1>9. CASE AddSample
  BY <1>9, <1>b DEF AddSample, trainVars, PointsAreNearest
<1>10. CASE Clear
  BY <1>10 DEF Clear, MeansAreAverages, PointsAreNearest
<1>11. CASE UNCHANGED vars
  <2>1. MeansAreAverages'
    BY <1>11, <1>b DEF vars, trainVars
  <2>2. PointsAreNearest'
    BY <1>11 DEF vars, trainVars, PointsAreNearest
  <2> QED
    BY <2>1, <2>2
<1> QED
  BY <1>4, <1>5, <1>6, <1>7, <1>8, <1>9, <1>10, <1>11 DEF Next, Step

\* Once updated, every mean that takes part is the average of its points, for any points, any number
\* of clusters and any norm, except between an Update that drew it anew and the pass that follows.
THEOREM MeansAlwaysAreAverages == Spec => []MeansAreAverages
<1>1. Init => MeansAreAverages /\ PointsAreNearest
  BY DEF Init, MeansAreAverages, PointsAreNearest
<1> QED
  BY <1>1, ClusterInvHolds, NearestStep, PTL DEF Spec

\* Once K-means has been updated twice in a norm, every point is in the cluster that Test says it is
\* in, for any points, any number of clusters and any norm.
THEOREM PointsAreAlwaysNearest == Spec => []PointsAreNearest
<1>1. Init => MeansAreAverages /\ PointsAreNearest
  BY DEF Init, MeansAreAverages, PointsAreNearest
<1> QED
  BY <1>1, ClusterInvHolds, NearestStep, PTL DEF Spec

=============================================================================
