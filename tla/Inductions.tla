----------------------------- MODULE Inductions -----------------------------
(***************************************************************************)
(* Facts about numbers and sequences that the proofs of several modules      *)
(* need.  The library states induction with the induction hypothesis as an   *)
(* operator, which the provers at hand cannot instantiate; here it is a set  *)
(* of numbers, and what a loop does in one step is a function.               *)
(***************************************************************************)
EXTENDS Integers, Sequences, SequenceTheorems, WellFoundedInduction, TLAPS

-----------------------------------------------------------------------------
(* Induction                                                                 *)

\* a set of natural numbers has a least element
LEMMA LeastNumber ==
    ASSUME NEW T \in SUBSET Nat, T # {}
    PROVE  \E x \in T : \A y \in T : x <= y
<1>1. \E x \in T : \A y \in T : ~ (<<y, x>> \in OpToRel(<, Nat))
  BY NatLessThanWellFounded, WFMin
<1>2. ASSUME NEW x \in T, NEW y \in T, ~ (<<y, x>> \in OpToRel(<, Nat))
      PROVE  x <= y
  BY <1>2 DEF OpToRel
<1> QED
  BY <1>1, <1>2

\* ... and a greatest one if it is bounded
LEMMA GreatestNumber ==
    ASSUME NEW n \in Int, NEW T \in SUBSET Int, T # {}, \A y \in T : y <= n
    PROVE  \E x \in T : \A y \in T : y <= x
<1> DEFINE below == {n - y : y \in T}
<1>1. below \in SUBSET Nat /\ below # {}
  <2>1. \A y \in T : n - y \in Nat
    OBVIOUS
  <2>2. PICK y \in T : TRUE
    OBVIOUS
  <2> QED
    BY <2>1, <2>2
<1>2. PICK d \in below : \A e \in below : d <= e
  BY <1>1, LeastNumber
<1>3. PICK x \in T : d = n - x
  OBVIOUS
<1>4. ASSUME NEW y \in T PROVE y <= x
  <2>1. n - y \in below
    OBVIOUS
  <2>2. n - x <= n - y
    BY <1>2, <1>3, <2>1
  <2> QED
    BY <2>2
<1> QED
  BY <1>4

\* induction: a set with 0 and every successor holds all natural numbers
LEMMA Induction ==
    ASSUME NEW S, 0 \in S, \A n \in Nat : n \in S => n + 1 \in S
    PROVE  \A n \in Nat : n \in S
<1> SUFFICES ASSUME Nat \ S # {} PROVE FALSE
  OBVIOUS
<1>1. PICK x \in Nat \ S : \A y \in Nat \ S : x <= y
  BY LeastNumber
<1>2. x - 1 \in Nat /\ x - 1 \in S
  BY <1>1
<1> QED
  BY <1>1, <1>2

\* ... from m to n
LEMMA InductionUpTo ==
    ASSUME NEW m \in Nat, NEW n \in Nat, m <= n, NEW S, m \in S,
           \A k \in m .. n - 1 : k \in S => k + 1 \in S
    PROVE  \A k \in m .. n : k \in S
<1> DEFINE T == {k \in Nat : k \in m .. n => k \in S}
<1>1. 0 \in T
  OBVIOUS
<1>2. ASSUME NEW k \in Nat, k \in T PROVE k + 1 \in T
  <2>1. CASE k + 1 \in m + 1 .. n
    BY <1>2, <2>1
  <2>2. CASE k + 1 \notin m + 1 .. n
    BY <1>2, <2>2
  <2> QED
    BY <2>1, <2>2
<1>3. \A k \in Nat : k \in T
  <2> HIDE DEF T
  <2> QED
    BY <1>1, <1>2, Induction
<1> QED
  BY <1>3

\* ... from 0 to n
LEMMA UpTo ==
    ASSUME NEW n \in Nat, NEW S, 0 \in S, \A k \in 0 .. n - 1 : k \in S => k + 1 \in S
    PROVE  \A k \in 0 .. n : k \in S
BY InductionUpTo

-----------------------------------------------------------------------------
(* Loops                                                                     *)

\* A loop of n passes that starts with first and goes from x to step[<<k, x>>] in
\* pass k.  The recursive functions of the modules are loops.
IsLoop(f, n, first, step) ==
    /\ f[0] = first
    /\ \A k \in 1 .. n : f[k] = step[<<k, f[k - 1]>>]

\* There is such a loop.
LEMMA LoopExists ==
    ASSUME NEW n \in Nat, NEW S, NEW first \in S, NEW step \in [(1 .. n) \X S -> S]
    PROVE  \E f \in [0 .. n -> S] : IsLoop(f, n, first, step)
<1> DEFINE Runs == {m \in Nat : \E f \in [0 .. m -> S] : IsLoop(f, m, first, step)}
<1>1. 0 \in Runs
  <2>1. [k \in 0 .. 0 |-> first] \in [0 .. 0 -> S] /\ IsLoop([k \in 0 .. 0 |-> first], 0, first, step)
    BY DEF IsLoop
  <2> QED
    BY <2>1
<1>2. ASSUME NEW m \in 0 .. n - 1, m \in Runs PROVE m + 1 \in Runs
  <2>1. PICK f \in [0 .. m -> S] : IsLoop(f, m, first, step)
    BY <1>2
  <2> DEFINE g == [k \in 0 .. m + 1 |-> IF k <= m THEN f[k] ELSE step[<<m + 1, f[m]>>]]
  <2>2. m \in Nat /\ m + 1 \in 1 .. n /\ m \in 0 .. m
    OBVIOUS
  <2>3. f[m] \in S /\ step[<<m + 1, f[m]>>] \in S
    BY <2>2
  <2>4. g \in [0 .. m + 1 -> S]
    BY <2>2, <2>3
  <2>5. g[0] = first
    BY <2>1 DEF IsLoop
  <2>6. ASSUME NEW k \in 1 .. m + 1 PROVE g[k] = step[<<k, g[k - 1]>>]
    <3>1. CASE k <= m
      BY <2>1, <3>1 DEF IsLoop
    <3>2. CASE k = m + 1
      <4>1. (m + 1) - 1 = m /\ g[m] = f[m] /\ g[m + 1] = step[<<m + 1, f[m]>>]
        BY <2>2
      <4> QED
        BY <3>2, <4>1
    <3> QED
      BY <3>1, <3>2
  <2>7. IsLoop(g, m + 1, first, step)
    BY <2>5, <2>6 DEF IsLoop
  <2> QED
    BY <2>2, <2>4, <2>7
<1>3. n \in Runs
  <2> HIDE DEF Runs
  <2> QED
    BY <1>1, <1>2, InductionUpTo
<1> QED
  BY <1>3

\* what a loop of n passes leaves of g, as long as its values are in S
Follows(g, n, S, first, step) ==
    /\ g[0] = first
    /\ \A k \in 1 .. n : g[k - 1] \in S => g[k] = step[<<k, g[k - 1]>>]

Agree(f, g, n) == \A k \in 0 .. n : f[k] = g[k]

\* a function that goes like a loop is that loop
LEMMA SameLoop ==
    ASSUME NEW n \in Nat, NEW S, NEW first \in S, NEW step \in [(1 .. n) \X S -> S],
           NEW f \in [0 .. n -> S], IsLoop(f, n, first, step),
           NEW g, Follows(g, n, S, first, step)
    PROVE  Agree(g, f, n)
<1> DEFINE Same == {k \in 0 .. n : g[k] = f[k]}
<1>1. 0 \in Same
  BY DEF IsLoop, Follows
<1>2. ASSUME NEW k \in 0 .. n - 1, k \in Same PROVE k + 1 \in Same
  <2>1. k + 1 \in 1 .. n /\ (k + 1) - 1 = k /\ g[k] = f[k] /\ f[k] \in S
    BY <1>2
  <2>2. f[k + 1] = step[<<k + 1, f[k]>>]
    BY <2>1 DEF IsLoop
  <2>3. g[k + 1] = step[<<k + 1, g[k]>>]
    BY <2>1 DEF Follows
  <2> QED
    BY <2>1, <2>2, <2>3
<1>3. \A k \in 0 .. n : k \in Same
  <2> HIDE DEF Same
  <2> QED
    BY <1>1, <1>2, UpTo
<1> QED
  BY <1>3 DEF Agree

-----------------------------------------------------------------------------
(* Sequences as functions                                                    *)

\* a sequence is a function on 1 .. Len
LEMMA SeqIsFunction ==
    ASSUME NEW S, NEW s \in Seq(S)
    PROVE  /\ Len(s) \in Nat /\ DOMAIN s = 1 .. Len(s)
           /\ s \in [1 .. Len(s) -> S]
BY LenProperties

\* ... and the other way round
LEMMA FunctionIsSeq ==
    ASSUME NEW S, NEW n \in Nat, NEW s \in [1 .. n -> S]
    PROVE  s \in Seq(S) /\ Len(s) = n /\ DOMAIN s = 1 .. n
BY IsASeq, LenProperties

\* sequences with the same domain have the same length
LEMMA SameLength ==
    ASSUME NEW m \in Nat, NEW n \in Nat, 1 .. m = 1 .. n
    PROVE  m = n
<1>1. (m = 0 \/ m \in 1 .. n) /\ (n = 0 \/ n \in 1 .. m)
  OBVIOUS
<1>2. (m = 0 => 1 \notin 1 .. n) /\ (n = 0 => 1 \notin 1 .. m)
  OBVIOUS
<1> QED
  BY <1>1, <1>2

\* r has the m elements of s and then the n elements of t
Joins(r, s, m, t, n) ==
    (\A k \in 1 .. m : r[k] = s[k]) /\ (\A k \in 1 .. n : r[m + k] = t[k])

\* concatenation
LEMMA ConcatIsFunction ==
    ASSUME NEW S, NEW m \in Nat, NEW n \in Nat, NEW s \in [1 .. m -> S], NEW t \in [1 .. n -> S]
    PROVE  s \o t \in [1 .. m + n -> S] /\ Joins(s \o t, s, m, t, n)
<1>1. s \in Seq(S) /\ Len(s) = m /\ t \in Seq(S) /\ Len(t) = n
  BY FunctionIsSeq
<1>2. /\ s \o t \in Seq(S) /\ Len(s \o t) = Len(s) + Len(t)
      /\ \A k \in 1 .. Len(s) + Len(t) : (s \o t)[k] = IF k <= Len(s) THEN s[k] ELSE t[k - Len(s)]
  BY <1>1, ConcatProperties
<1>3. s \o t \in [1 .. Len(s \o t) -> S]
  BY <1>2, SeqIsFunction
<1>4. \A k \in 1 .. n : m + k \in 1 .. m + n /\ ~(m + k <= m) /\ (m + k) - m = k
  OBVIOUS
<1> QED
  BY <1>1, <1>2, <1>3, <1>4 DEF Joins

\* what is appended to the second of two sequences
LEMMA ConcatAppend ==
    ASSUME NEW S, NEW s \in Seq(S), NEW t \in Seq(S), NEW e \in S
    PROVE  s \o Append(t, e) = Append(s \o t, e)
<1>1. Append(t, e) = t \o <<e>> /\ <<e>> \in Seq(S)
  BY AppendIsConcat
<1>2. s \o t \in Seq(S)
  BY ConcatProperties
<1>3. Append(s \o t, e) = (s \o t) \o <<e>>
  BY <1>2, AppendIsConcat
<1> QED
  BY <1>1, <1>3, ConcatAssociative

=============================================================================
