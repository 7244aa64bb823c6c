---------------------------- MODULE LayerProofs ----------------------------
(***************************************************************************)
(* Proofs about the layers of the canvas in Drawing, for every value of its  *)
(* constants, on top of DrawingProofs:                                       *)
(*  - DrawTrajectories finds the stroke in progress (StrokeIsAlwaysFound);    *)
(*  - data, file and canvas have their types (DrawingTypesHold);              *)
(*  - both layers are right whenever the canvas counts on them                *)
(*    (LayersAreAlwaysRight, LayerIsAlwaysCurrent, TrajectoriesAreAlwaysCurrent). *)
(* The layer of samples is drawn by a loop (Plain); what the loop returns is *)
(* proved by induction, with Inductions.                                     *)
(***************************************************************************)
EXTENDS DrawingProofs, FiniteSetTheorems

\* the sequence that starts last
LEMMA LastSequence ==
    ASSUME LabelInv, WellPlaced(samples, flags, sequences), sequences # {}
    PROVE  Last \in sequences /\ \A r \in sequences : r.first <= Last.first
<1>1. \A q \in sequences : q.first \in Int /\ q.first <= Count
  <2>1. sequences \subseteq [first : Int, second : Int] /\ Count \in Nat
    BY DataLengths DEF LabelInv, DataOK, DataType
  <2>2. \A q \in sequences : q.first <= q.second /\ q.second <= Count
    BY DEF WellPlaced, Count
  <2> QED
    BY <2>1, <2>2
<1> DEFINE firsts == {q.first : q \in sequences}
<1>2. firsts \in SUBSET Int /\ firsts # {} /\ \A y \in firsts : y <= Count
  BY <1>1
<1>3. PICK x \in firsts : \A y \in firsts : y <= x
  <2>1. Count \in Int
    BY DataLengths DEF LabelInv
  <2> HIDE DEF firsts
  <2> QED
    BY <1>2, <2>1, GreatestNumber
<1>4. \E q \in sequences : \A r \in sequences : r.first <= q.first
  BY <1>3
<1> QED
  BY <1>4 DEF Last

\* The sequence that starts last also ends last.
LEMMA LastEndsLast ==
    ASSUME LabelInv, WellPlaced(samples, flags, sequences), NEW q \in sequences
    PROVE  /\ Last \in sequences /\ Last.second \in 1 .. Count
           /\ q.first \in Int /\ q.second \in Int
           /\ q = Last \/ (q.second < Last.first /\ q.second < Last.second)
<1>1. Last \in sequences /\ q.first <= Last.first
  BY LastSequence
<1>2. /\ q.first \in Int /\ q.second \in Int /\ Last.first \in Int /\ Last.second \in Int
      /\ Count \in Nat
  BY <1>1, DataLengths DEF LabelInv, DataOK, DataType
<1>3. /\ q.first <= q.second /\ 1 <= Last.first /\ Last.first <= Last.second /\ Last.second <= Count
      /\ q = Last \/ q.second < Last.first \/ Last.second < q.first
  BY <1>1 DEF WellPlaced, Count
<1>4. ~(Last.second < q.first)
  BY <1>1, <1>2, <1>3
<1>5. Last.second \in 1 .. Count
  BY <1>2, <1>3
<1>6. q.second < Last.first => q.second < Last.second
  BY <1>2, <1>3
<1> QED
  BY <1>1, <1>2, <1>3, <1>4, <1>5, <1>6

\* Between two strokes nothing is unfinished.
LEMMA NothingUnfinished ==
    ASSUME LabelInv, CanvasInv, trajectory = None
    PROVE  Unfinished = None
<1>0. WellPlaced(samples, flags, sequences) /\ AllCovered
  BY CanvasAtRest
<1>1. CASE Count = 0
  BY <1>1 DEF Unfinished
<1>2. CASE Count # 0 /\ flags[Count] # "traj"
  BY <1>2 DEF Unfinished
<1>3. CASE Count # 0 /\ flags[Count] = "traj"
  <2>1. Count \in 1 .. Count
    BY <1>3, DataLengths DEF LabelInv
  <2>2. PICK q \in sequences : Count \in q.first .. q.second
    BY <1>0, <1>3, <2>1 DEF AllCovered, Covers
  <2>3. Last.second >= Count /\ sequences # {}
    BY <1>0, <2>1, <2>2, LastEndsLast
  <2> QED
    BY <1>3, <2>3 DEF Unfinished
<1> QED
  BY <1>1, <1>2, <1>3

\* During a stroke DrawTrajectories finds its first sample behind the last sequence.
LEMMA StrokeUnfinished ==
    ASSUME LabelInv, CanvasInv, trajectory # None, sequences # {}
    PROVE  Unfinished = trajectory
<1>0. WellPlaced(samples, flags, sequences) /\ StrokeFits
  BY DEF CanvasInv
<1> DEFINE stop == Last.second
           before == {k \in stop .. Count : k = stop \/ flags[k] # "traj"}
           start == CHOOSE k \in before : \A j \in before : j <= k
<1>1. /\ trajectory \in [first : Nat, second : Nat] /\ Count \in Nat
      /\ 1 <= trajectory.first /\ trajectory.first <= trajectory.second
      /\ trajectory.second = Count
      /\ \A q \in sequences : q.second < trajectory.first
      /\ \A k \in trajectory.first .. Count : flags[k] = "traj"
  BY <1>0, DataLengths DEF StrokeFits, LabelInv, StrokeOK
<1>2. Last \in sequences /\ stop \in 1 .. Count
  BY <1>0, LastEndsLast
<1>3. stop < trajectory.first
  BY <1>1, <1>2
<1>4. Unfinished = [first |-> start + 1, second |-> Count]
  <2>1. flags[Count] = "traj" /\ ~(stop >= Count) /\ Count # 0
    BY <1>1, <1>2, <1>3
  <2> QED
    BY <2>1 DEF Unfinished
<1> DEFINE last == trajectory.first - 1
<1>5. last \in before
  <2>1. last \in stop .. Count
    BY <1>1, <1>2, <1>3
  <2>2. last = stop \/ flags[last] # "traj"
    <3> SUFFICES ASSUME last # stop, flags[last] = "traj" PROVE FALSE
      OBVIOUS
    <3>1. last \in 1 .. Count /\ ~(last >= trajectory.first) /\ last > stop
      BY <1>1, <1>2, <2>1
    <3>2. PICK q \in sequences : last \in q.first .. q.second
      BY <3>1 DEF CanvasInv, InStroke, Covers
    <3> QED
      BY <1>0, <1>2, <3>1, <3>2, LastEndsLast
  <2> QED
    BY <2>1, <2>2
<1>6. \A j \in before : j \in Int /\ j <= last
  BY <1>1, <1>2, <1>3
<1>7. start = last
  <2>1. \A k \in before : (\A j \in before : j <= k) <=> k = last
    BY <1>5, <1>6, <1>1
  <2> HIDE DEF before, last
  <2> QED
    BY <1>5, <2>1
<1>8. trajectory = [first |-> start + 1, second |-> Count]
  <2> HIDE DEF start
  <2>1. start + 1 = trajectory.first
    BY <1>1, <1>7
  <2> QED
    BY <1>1, <2>1
<1> QED
  BY <1>4, <1>8

\* What DrawTrajectories finds unfinished is the stroke in progress.
THEOREM StrokeIsAlwaysFound == Spec => []StrokeIsFound
<1>1. LabelInv /\ DrawingInv => StrokeIsFound
  BY InvParts, NothingUnfinished, StrokeUnfinished DEF StrokeIsFound
<1> QED
  BY <1>1, LabelInit, LabelStep, DrawingInit, DrawingStepInv, PTL DEF Spec

-----------------------------------------------------------------------------
(* The layer of samples.                                                     *)

Spots(v) == [sample : Samples, view : {v}]

\* Plain is a loop over the samples.
PlainLoop(f, n, s, g, from, v) ==
    /\ f[0] = <<>>
    /\ \A k \in 1 .. n :
         f[k] = IF k < from THEN <<>>
                ELSE IF g[k] = "traj" THEN f[k - 1]
                ELSE Append(f[k - 1], [sample |-> s[k], view |-> v])

\* the recursive function is a loop over the samples
LEMMA PlainIsLoop ==
    ASSUME NEW n \in Nat, NEW s \in [1 .. n -> Samples], NEW g, NEW from \in Nat \ {0}, NEW v
    PROVE  \E f \in [0 .. n -> Seq(Spots(v))] :
             Plain(s, g, from, v) = f[n] /\ PlainLoop(f, n, s, g, from, v)
<1> DEFINE T == Seq(Spots(v))
           Pass(x, k) == IF k < from THEN <<>>
                         ELSE IF g[k] = "traj" THEN x
                         ELSE Append(x, [sample |-> s[k], view |-> v])
           step == [kx \in (1 .. n) \X T |-> Pass(kx[2], kx[1])]
           Body(h, k) == IF k < from THEN <<>>
                         ELSE IF g[k] = "traj" THEN h[k - 1]
                         ELSE Append(h[k - 1], [sample |-> s[k], view |-> v])
<1>0. Len(s) = n
  BY FunctionIsSeq
<1>1. \A x \in T, k \in 1 .. n : Pass(x, k) \in T
  <2> SUFFICES ASSUME NEW x \in T, NEW k \in 1 .. n PROVE Pass(x, k) \in T
    OBVIOUS
  <2>1. [sample |-> s[k], view |-> v] \in Spots(v)
    BY DEF Spots
  <2>2. Append(x, [sample |-> s[k], view |-> v]) \in T
    BY <2>1, AppendProperties
  <2> QED
    BY <2>2, EmptySeq
<1>2. step \in [(1 .. n) \X T -> T] /\ <<>> \in T
  BY <1>1, EmptySeq
<1>3. PICK f \in [0 .. n -> T] : IsLoop(f, n, <<>>, step)
  <2> HIDE DEF step, T
  <2> QED
    BY <1>2, LoopExists
<1>4. ASSUME NEW k \in 1 .. n PROVE f[k] = Pass(f[k - 1], k) /\ f[k - 1] \in T
  <2>1. f[k - 1] \in T /\ <<k, f[k - 1]>> \in (1 .. n) \X T
    OBVIOUS
  <2> QED
    BY <1>3, <2>1 DEF IsLoop
<1>5. f = [k \in 0 .. n |-> Body(f, k)]
  <2>1. f[0] = <<>> /\ 0 < from
    BY <1>3 DEF IsLoop
  <2>2. Body(f, 0) = <<>>
    BY <2>1
  <2>3. \A k \in 1 .. n : f[k] = Body(f, k)
    BY <1>4
  <2>4. \A k \in 0 .. n : f[k] = Body(f, k)
    <3> HIDE DEF Body
    <3> QED
      BY <2>1, <2>2, <2>3
  <2> QED
    BY <2>4
<1> DEFINE F == CHOOSE h : h = [k \in 0 .. n |-> Body(h, k)]
<1>6. F = [k \in 0 .. n |-> Body(F, k)]
  BY <1>5
<1>7. Plain(s, g, from, v) = F[n]
  BY <1>0 DEF Plain
<1> HIDE DEF F
<1>8. \A k \in 0 .. n : F[k] = f[k]
  <2> DEFINE Same == {k \in 0 .. n : F[k] = f[k]}
  <2>1. 0 \in Same
    <3>1. 0 \in 0 .. n /\ Body(F, 0) = <<>> /\ Body(f, 0) = <<>>
      OBVIOUS
    <3>2. F[0] = Body(F, 0) /\ f[0] = Body(f, 0)
      <4> HIDE DEF Body
      <4> QED
        BY <1>5, <1>6, <3>1
    <3> QED
      BY <3>1, <3>2
  <2>2. ASSUME NEW k \in 0 .. n - 1, k \in Same PROVE k + 1 \in Same
    <3>1. k + 1 \in 0 .. n /\ (k + 1) - 1 = k /\ F[k] = f[k]
      BY <2>2
    <3>2. Body(F, k + 1) = Body(f, k + 1)
      BY <3>1
    <3>3. F[k + 1] = Body(F, k + 1) /\ f[k + 1] = Body(f, k + 1)
      <4> HIDE DEF Body
      <4> QED
        BY <1>5, <1>6, <3>1
    <3> QED
      BY <3>1, <3>2, <3>3
  <2>3. \A k \in 0 .. n : k \in Same
    <3> HIDE DEF Same
    <3> QED
      BY <2>1, <2>2, UpTo
  <2> QED
    BY <2>3
<1>9. PlainLoop(f, n, s, g, from, v)
  BY <1>3, <1>4 DEF IsLoop, PlainLoop
<1>10. Plain(s, g, from, v) = f[n]
  BY <1>7, <1>8
<1> QED
  BY <1>9, <1>10

\* a spot that is drawn after all others
LEMMA SpotAppends ==
    ASSUME NEW v
    PROVE  \A x, y \in Seq(Spots(v)), e \in Spots(v) : x \o Append(y, e) = Append(x \o y, e)
<1> SUFFICES ASSUME NEW x \in Seq(Spots(v)), NEW y \in Seq(Spots(v)), NEW e \in Spots(v)
             PROVE  x \o Append(y, e) = Append(x \o y, e)
  OBVIOUS
<1> QED
  BY ConcatAppend

\* what the loop paints are spots
LEMMA PlainType ==
    ASSUME NEW n \in Nat, NEW s \in [1 .. n -> Samples], NEW g, NEW v
    PROVE  Plain(s, g, 1, v) \in Seq(Spots(v))
<1>1. PICK f \in [0 .. n -> Seq(Spots(v))] :
        Plain(s, g, 1, v) = f[n] /\ PlainLoop(f, n, s, g, 1, v)
  BY PlainIsLoop
<1> QED
  BY <1>1

\* what is drawn of the samples before `from'
LEMMA PlainOfNone ==
    ASSUME NEW n \in Nat, NEW s \in [1 .. n -> Samples], NEW g, NEW from \in Nat \ {0}, NEW v,
           n < from
    PROVE  Plain(s, g, from, v) = <<>>
<1>1. PICK f \in [0 .. n -> Seq(Spots(v))] :
        Plain(s, g, from, v) = f[n] /\ PlainLoop(f, n, s, g, from, v)
  BY PlainIsLoop
<1>2. n = 0 \/ (n \in 1 .. n /\ n < from)
  OBVIOUS
<1> QED
  BY <1>1, <1>2 DEF PlainLoop

\* what is on a layer after the samples from `from' on have been drawn, too
DrawnBehind(l, s, g, from, v) == l \o Plain(s, g, from, v)

\* Samples that are added behind those drawn can be drawn by themselves.
LEMMA PlainJoins ==
    ASSUME NEW b \in Nat, NEW n \in Nat, b <= n,
           NEW s \in [1 .. b -> Samples], NEW t \in [1 .. n -> Samples], NEW g, NEW h, NEW v,
           \A k \in 1 .. b : s[k] = t[k] /\ g[k] = h[k]
    PROVE  DrawnBehind(Plain(s, g, 1, v), t, h, b + 1, v) = Plain(t, h, 1, v)
<1>0. 1 \in Nat \ {0} /\ b + 1 \in Nat \ {0}
  OBVIOUS
<1>1. PICK before \in [0 .. b -> Seq(Spots(v))] :
        Plain(s, g, 1, v) = before[b] /\ PlainLoop(before, b, s, g, 1, v)
  BY <1>0, PlainIsLoop
<1>2. PICK after \in [0 .. n -> Seq(Spots(v))] :
        Plain(t, h, b + 1, v) = after[n] /\ PlainLoop(after, n, t, h, b + 1, v)
  BY <1>0, PlainIsLoop
<1>3. PICK all \in [0 .. n -> Seq(Spots(v))] :
        Plain(t, h, 1, v) = all[n] /\ PlainLoop(all, n, t, h, 1, v)
  BY <1>0, PlainIsLoop
<1> DEFINE Spot(k) == [sample |-> t[k], view |-> v]
<1>4. \A k \in 0 .. b : before[k] = all[k]
  <2> DEFINE Same == {k \in 0 .. b : before[k] = all[k]}
  <2>1. 0 \in Same
    BY <1>1, <1>3 DEF PlainLoop
  <2>2. ASSUME NEW k \in 0 .. b - 1, k \in Same PROVE k + 1 \in Same
    <3>1. k + 1 \in 1 .. b /\ k + 1 \in 1 .. n /\ (k + 1) - 1 = k /\ ~(k + 1 < 1)
      OBVIOUS
    <3>2. s[k + 1] = t[k + 1] /\ g[k + 1] = h[k + 1]
      BY <3>1
    <3>3. before[k + 1] = IF g[k + 1] = "traj" THEN before[k]
                          ELSE Append(before[k], [sample |-> s[k + 1], view |-> v])
      BY <1>1, <3>1 DEF PlainLoop
    <3>4. all[k + 1] = IF h[k + 1] = "traj" THEN all[k]
                       ELSE Append(all[k], [sample |-> t[k + 1], view |-> v])
      BY <1>3, <3>1 DEF PlainLoop
    <3>5. before[k] = all[k]
      BY <2>2
    <3>6. before[k + 1] = all[k + 1]
      BY <3>1, <3>2, <3>3, <3>4, <3>5, Zenon
    <3> QED
      BY <3>1, <3>6
  <2>3. \A k \in 0 .. b : k \in Same
    <3> HIDE DEF Same
    <3> QED
      BY <2>1, <2>2, UpTo
  <2> QED
    BY <2>3
<1>5. after[b] = <<>>
  <2>1. b = 0 \/ (b \in 1 .. n /\ b < b + 1)
    OBVIOUS
  <2> QED
    BY <1>2, <2>1 DEF PlainLoop
<1>6. \A k \in b .. n : before[b] \o after[k] = all[k]
  <2> DEFINE Joined == {k \in b .. n : before[b] \o after[k] = all[k]}
  <2>1. b \in Joined
    <3>1. b \in 0 .. b /\ b \in b .. n /\ before[b] \in Seq(Spots(v))
      OBVIOUS
    <3>2. before[b] \o <<>> = before[b]
      BY <3>1, ConcatEmptySeq
    <3> QED
      BY <1>4, <1>5, <3>1, <3>2
  <2>2. ASSUME NEW k \in b .. n - 1, k \in Joined PROVE k + 1 \in Joined
    <3>1. /\ k + 1 \in 1 .. n /\ k + 1 \in b .. n /\ (k + 1) - 1 = k
          /\ ~(k + 1 < b + 1) /\ ~(k + 1 < 1) /\ k \in 0 .. n /\ b \in 0 .. b
      OBVIOUS
    <3>2. after[k + 1] = IF h[k + 1] = "traj" THEN after[k] ELSE Append(after[k], Spot(k + 1))
      BY <1>2, <3>1 DEF PlainLoop
    <3>3. all[k + 1] = IF h[k + 1] = "traj" THEN all[k] ELSE Append(all[k], Spot(k + 1))
      BY <1>3, <3>1 DEF PlainLoop
    <3>4. Spot(k + 1) \in Spots(v) /\ before[b] \in Seq(Spots(v)) /\ after[k] \in Seq(Spots(v))
      BY <3>1 DEF Spots
    <3>5. before[b] \o Append(after[k], Spot(k + 1)) = Append(before[b] \o after[k], Spot(k + 1))
      <4>1. ASSUME NEW x \in Seq(Spots(v)), NEW y \in Seq(Spots(v)), NEW e \in Spots(v)
            PROVE  x \o Append(y, e) = Append(x \o y, e)
        BY SpotAppends, SMTT(40)
      <4> HIDE DEF Spot
      <4> QED
        BY <3>4, <4>1
    <3>6. before[b] \o after[k] = all[k]
      BY <2>2
    <3>7. before[b] \o after[k + 1] = all[k + 1]
      <4> HIDE DEF Spot
      <4> QED
        BY <3>2, <3>3, <3>5, <3>6
    <3> QED
      BY <3>1, <3>7
  <2>3. \A k \in b .. n : k \in Joined
    <3> HIDE DEF Joined
    <3> QED
      BY <2>1, <2>2, InductionUpTo
  <2> QED
    BY <2>3
<1>7. before[b] \o after[n] = all[n]
  BY <1>6
<1> QED
  BY <1>1, <1>2, <1>3, <1>7 DEF DrawnBehind

\* DrawSamples leaves the layer right if it starts from nothing, or from all of the
\* samples as they were.
LEMMA PaintedIsRight ==
    ASSUME DataOK, DataOK', NEW drawn \in Nat, PaintSamples(drawn),
           \/ drawn = 0 \/ drawn > Count'
           \/ /\ drawn = Count /\ Count <= Count' /\ LayerIsRight /\ view' = view
              /\ \A k \in 1 .. Count : samples'[k] = samples[k] /\ flags'[k] = flags[k]
    PROVE  LayerIsRight' /\ drawnSamples' = Count'
<1>1. /\ Count \in Nat /\ samples \in [1 .. Count -> Samples]
      /\ Count' \in Nat /\ samples' \in [1 .. Count' -> Samples]
  <2>1. (DataOK => Count \in Nat /\ samples \in [1 .. Count -> Samples])'
    BY DataLengths, PTL
  <2> QED
    BY <2>1, DataLengths
<1>2. drawnSamples' = Count'
  BY DEF PaintSamples, Count
<1>3. CASE drawn = 0 \/ drawn > Count'
  <2>0. (IF drawn > Len(samples') THEN 0 ELSE drawn) = 0
    BY <1>3 DEF Count
  <2>1. layer' = <<>> \o Plain(samples', flags', 0 + 1, view')
    BY <2>0 DEF PaintSamples
  <2>2. Plain(samples', flags', 1, view') \in Seq(Spots(view'))
    <3> DEFINE n == Count'
               t == samples'
               h == flags'
               v == view'
    <3>1. n \in Nat /\ t \in [1 .. n -> Samples]
      BY <1>1
    <3> HIDE DEF n, t, h, v
    <3>2. Plain(t, h, 1, v) \in Seq(Spots(v))
      BY <3>1, PlainType
    <3> QED
      BY <3>2 DEF t, h, v
  <2>3. layer' = Plain(samples', flags', 1, view')
    BY <2>1, <2>2, ConcatEmptySeq
  <2> QED
    BY <1>2, <2>3 DEF LayerIsRight
<1>4. CASE /\ drawn = Count /\ Count <= Count' /\ LayerIsRight /\ view' = view /\ drawn # 0
           /\ \A k \in 1 .. Count : samples'[k] = samples[k] /\ flags'[k] = flags[k]
  <2>1. ~(drawn > Len(samples'))
    BY <1>1, <1>4 DEF Count
  <2>2. layer' = layer \o Plain(samples', flags', Count + 1, view')
    BY <1>4, <2>1 DEF PaintSamples
  <2>3. layer' = Plain(samples, flags, 1, view') \o Plain(samples', flags', Count + 1, view')
    BY <1>4, <2>2 DEF LayerIsRight
  <2>4. layer' = Plain(samples', flags', 1, view')
    <3> DEFINE n == Count'
               t == samples'
               h == flags'
               v == view'
    <3>1. n \in Nat /\ Count <= n /\ t \in [1 .. n -> Samples]
          /\ \A k \in 1 .. Count : samples[k] = t[k] /\ flags[k] = h[k]
      BY <1>1, <1>4
    <3>2. DrawnBehind(Plain(samples, flags, 1, v), t, h, Count + 1, v) = Plain(t, h, 1, v)
      <4>1. Count \in Nat /\ samples \in [1 .. Count -> Samples]
        BY <1>1
      <4> HIDE DEF n, t, h, v
      <4> QED
        BY <4>1, <3>1, PlainJoins
    <3> QED
      BY <2>3, <3>2 DEF DrawnBehind
  <2> QED
    BY <1>2, <2>4 DEF LayerIsRight
<1> QED
  BY <1>3, <1>4

-----------------------------------------------------------------------------
(* Types of the canvas.                                                      *)

FiniteInv == IsFiniteSet(sequences) /\ \A f \in file : IsFiniteSet(f.sequences)

\* removing a sample leaves finitely many sequences
LEMMA RemoveSampleFinite ==
    ASSUME IsFiniteSet(sequences), NEW i, RemoveSample(i)
    PROVE  IsFiniteSet(sequences')
<1>1. CASE Count = 1
  BY <1>1, FS_EmptySet DEF RemoveSample, Clear
<1>2. CASE Count # 1
  <2> DEFINE S == {q \in sequences : ~Collapses(q, i)}
             T == {Shrunk(q, i) : q \in S}
             shrink == [q \in S |-> Shrunk(q, i)]
  <2>1. IsFiniteSet(S)
    BY FS_Subset
  <2>2. shrink \in Surjection(S, T)
    BY DEF Surjection
  <2>3. IsFiniteSet(T)
    <3> HIDE DEF S, T, shrink
    <3> QED
      BY <2>1, <2>2, FS_Surjection
  <2>4. sequences' = T
    BY <1>2 DEF RemoveSample
  <2> QED
    BY <2>3, <2>4
<1> QED
  BY <1>1, <1>2

\* the program begins with no samples
LEMMA FiniteInit == Init => FiniteInv
BY FS_EmptySet DEF Init, DataInit, FiniteInv

\* Data and file hold finitely many sequences.
LEMMA FiniteStep == FiniteInv /\ [Next]_vars => FiniteInv'
<1> SUFFICES ASSUME FiniteInv, [Next]_vars PROVE FiniteInv'
  OBVIOUS
<1> USE DEF FiniteInv
<1>0. ASSUME UNCHANGED file, IsFiniteSet(sequences') PROVE FiniteInv'
  BY <1>0
<1>1. ASSUME NEW new \in NewSamples, DrawSamples(new) PROVE FiniteInv'
  BY <1>1 DEF DrawSamples, AddSample, fileVars
<1>2. ASSUME NEW p \in Samples, DrawTrajectory(p) PROVE FiniteInv'
  BY <1>2 DEF DrawTrajectory, AddSample, fileVars
<1>3. CASE DrawObstacle \/ EraseObstacle \/ EraseEnd
  BY <1>3 DEF DrawObstacle, EraseObstacle, EraseEnd, dataVars, fileVars
<1>4. ASSUME NEW i \in 1 .. Count, EraseSample(i) PROVE FiniteInv'
  <2>1. IsFiniteSet(sequences')
    BY <1>4, RemoveSampleFinite DEF EraseSample
  <2> QED
    BY <1>0, <1>4, <2>1 DEF EraseSample, fileVars
<1>5. CASE DrawingStopped
  <2>1. sequences' = sequences \/ sequences' = sequences \cup {trajectory}
    BY <1>5 DEF DrawingStopped, AddSequence, dataVars
  <2>2. IsFiniteSet(sequences')
    BY <2>1, FS_AddElement
  <2> QED
    BY <1>0, <1>5, <2>2 DEF DrawingStopped, fileVars
<1>6. CASE ClearData
  BY <1>6, FS_EmptySet DEF ClearData, Clear, fileVars
<1>7. ASSUME NEW new \in NewSamples, SetData(new) PROVE FiniteInv'
  BY <1>7, FS_EmptySet DEF SetData, SetSamples, fileVars
<1>8. CASE Save
  BY <1>8, FS_EmptySet DEF Save, Stored, NoData, dataVars
<1>9. CASE Load
  <2>1. PICK f \in file : IF f = NoData THEN LoadUnread ELSE LoadFrom(f)
    BY <1>9 DEF Load
  <2>2. CASE f = NoData
    <3>1. sequences' = {}
      BY <2>1, <2>2 DEF LoadUnread, LoadFrom, NoData
    <3> QED
      BY <1>0, <1>9, <3>1, FS_EmptySet DEF Load, fileVars
  <2>3. CASE f # NoData
    <3>1. sequences' = f.sequences
      BY <2>1, <2>3 DEF LoadFrom
    <3>2. IsFiniteSet(sequences')
      BY <3>1 DEF FiniteInv
    <3> QED
      BY <1>0, <1>9, <3>2 DEF Load, fileVars
  <2> QED
    BY <2>2, <2>3
<1>10. ASSUME NEW to \in [1 .. Count -> Places], SendToCanvas(to) PROVE FiniteInv'
  BY <1>10 DEF SendToCanvas, MoveSamples, fileVars
<1>11. CASE ViewStep
  BY <1>11 DEF ViewStep, DisplayOptionChanged, CanvasMoved, resizeEvent, FitToData, dataVars, fileVars
<1>12. CASE UNCHANGED vars
  BY <1>12 DEF vars, dataVars, fileVars
<1> QED
  BY <1>1, <1>2, <1>3, <1>4, <1>5, <1>6, <1>7, <1>8, <1>9, <1>10, <1>11, <1>12
     DEF Next, DrawingStep, DataStep

CanvasType ==
    /\ view \in Views /\ spinZoom \in Int /\ bDisplaySamples \in BOOLEAN /\ shifted \in BOOLEAN
    /\ drawnSamples \in Nat /\ drawnTrajectories \in Nat

\* and with an empty canvas
LEMMA TypeInit == Init => DrawingTypeOK
<1> SUFFICES ASSUME Init PROVE DrawingTypeOK
  OBVIOUS
<1>1. DataType /\ FileType
  BY LabelInit DEF LabelInv, DataOK, FileOK
<1>2. SessionType
  BY DEF Init, SessionType, None
<1>3. CanvasType
  <2>1. view \in Views
    <3>1. PICK s \in CanvasSizes : view = [center |-> 0, zoom |-> 0, size |-> s]
      BY DEF Init
    <3> QED
      BY <3>1, DrawingBounds DEF Views
  <2>2. bDisplaySamples \in BOOLEAN /\ shifted \in BOOLEAN
    BY Zenon DEF Init
  <2>3. spinZoom \in Int /\ drawnSamples \in Nat /\ drawnTrajectories \in Nat
    BY DEF Init
  <2> QED
    BY <2>1, <2>2, <2>3 DEF CanvasType
<1> QED
  BY <1>1, <1>2, <1>3 DEF DrawingTypeOK, CanvasType

\* a repaint counts with natural numbers
LEMMA PaintTypes ==
    ASSUME LabelInv', FiniteInv', NEW drawn \in Nat, NEW sketched \in Nat, PaintFrom(drawn, sketched)
    PROVE  drawnSamples' \in Nat /\ drawnTrajectories' \in Nat
<1>1. Len(samples') \in Nat
  BY LenProperties DEF LabelInv, DataOK, DataType
<1>2. Cardinality(sequences') \in Nat
  BY FS_CardinalityType DEF FiniteInv
<1> QED
  BY <1>1, <1>2 DEF PaintFrom, PaintSamples, PaintTrajectories

\* FitToData moves the canvas to a place in its type
LEMMA FittedType ==
    ASSUME view \in Views, Fitted
    PROVE  view' \in Views
<1>1. CASE samples' = <<>>
  <2>1. view' = [view EXCEPT !.center = 0, !.zoom = 0]
    BY <1>1 DEF Fitted
  <2>2. 0 \in Centers /\ 0 \in Int
    BY DrawingBounds
  <2>3. ASSUME NEW c \in Centers, NEW z \in Int PROVE [view EXCEPT !.center = c, !.zoom = z] \in Views
    BY DEF Views
  <2> QED
    BY <2>1, <2>2, <2>3
<1>2. CASE samples' # <<>>
  <2>1. PICK c \in Centers, z \in Zooms : view' = [view EXCEPT !.center = c, !.zoom = z]
    BY <1>2 DEF Fitted
  <2> QED
    BY <2>1, DrawingBounds DEF Views
<1> QED
  BY <1>1, <1>2

\* the zoom that the spin box shows is a whole number
LEMMA ShownType ==
    ASSUME NEW z \in Int
    PROVE  Shown(z) \in Int
BY DEF Shown, OnSpin

\* every slot keeps the types
LEMMA TypeStep ==
    LabelInv' /\ FiniteInv' /\ DrawingTypeOK /\ [Next]_vars => DrawingTypeOK'
<1> SUFFICES ASSUME LabelInv', FiniteInv', DrawingTypeOK, [Next]_vars PROVE DrawingTypeOK'
  OBVIOUS
<1>1. DataType' /\ FileType' /\ (trajectory \in [first : Nat, second : Nat])'
  BY DEF LabelInv, DataOK, FileOK, StrokeOK
<1>2. SessionType'
  <2> USE DEF DrawingTypeOK, SessionType
  <2>1. CASE DrawingStep
    <3>1. bNewObstacle' \in BOOLEAN /\ interrupted' \in BOOLEAN /\ fileInterrupted' \in BOOLEAN
      BY <2>1 DEF DrawingStep, DrawSamples, DrawTrajectory, DrawObstacle, EraseSample, EraseObstacle,
                  EraseEnd, DrawingStopped, sessionVars, fileVars
    <3>2. erasing' \in Nat
      <4>1. Count \in Nat
        BY LenProperties DEF Count, DataType
      <4>2. erasing' = erasing \/ erasing' = 0 \/ erasing' = Count + 1
            \/ \E i \in 1 .. Count : erasing' = i
        BY <2>1 DEF DrawingStep, DrawSamples, DrawTrajectory, DrawObstacle, EraseSample,
              EraseObstacle, EraseEnd, DrawingStopped, sessionVars
      <4> QED
        BY <4>1, <4>2
    <3> QED
      BY <1>1, <3>1, <3>2
  <2>2. CASE DataStep
    <3>1. bNewObstacle' \in BOOLEAN /\ erasing' \in Nat
      BY <2>2 DEF DataStep, ClearData, SetData, Save, Load, SendToCanvas, sessionVars
    <3>2. interrupted' \in BOOLEAN
      BY <2>2, Zenon DEF DataStep, ClearData, SetData, Save, Load, SendToCanvas, sessionVars, Interrupt
    <3>3. fileInterrupted' \in BOOLEAN
      BY <2>2, Zenon DEF DataStep, ClearData, SetData, Save, Load, SendToCanvas, fileVars
    <3> QED
      BY <1>1, <3>1, <3>2, <3>3
  <2>3. CASE ViewStep
    BY <1>1, <2>3 DEF ViewStep, DisplayOptionChanged, CanvasMoved, resizeEvent, FitToData,
                      sessionVars, fileVars
  <2>4. CASE UNCHANGED vars
    BY <2>4 DEF vars, sessionVars, fileVars
  <2> QED
    BY <2>1, <2>2, <2>3, <2>4 DEF Next
<1>3. CanvasType'
  <2>0. CanvasType
    BY DEF DrawingTypeOK, CanvasType
  <2> USE DEF CanvasType
  <2>a. ASSUME UNCHANGED canvasVars PROVE CanvasType'
    BY <2>0, <2>a DEF canvasVars
  <2>b. ASSUME view' \in Views, spinZoom' \in Int, bDisplaySamples' \in BOOLEAN, shifted' \in BOOLEAN,
               NEW drawn \in Nat, NEW sketched \in Nat, PaintFrom(drawn, sketched)
        PROVE  CanvasType'
    BY <2>b, PaintTypes
  <2>c. ASSUME UNCHANGED <<view, spinZoom, bDisplaySamples>>, Repaint \/ ResetAndRepaint
        PROVE  CanvasType'
    BY <2>0, <2>b, <2>c DEF Repaint, ResetAndRepaint
  <2>1. ASSUME NEW new \in NewSamples, DrawSamples(new) PROVE CanvasType'
    BY <2>1, <2>c DEF DrawSamples
  <2>2. ASSUME NEW p \in Samples, DrawTrajectory(p) PROVE CanvasType'
    BY <2>2, <2>c DEF DrawTrajectory
  <2>3. CASE DrawObstacle \/ EraseEnd
    BY <2>3, <2>c DEF DrawObstacle, EraseEnd
  <2>4. CASE EraseObstacle \/ \E i \in 1 .. Count : EraseSample(i)
    BY <2>4, <2>a DEF EraseObstacle, EraseSample
  <2>5. CASE DrawingStopped
    <3>1. /\ UNCHANGED <<view, spinZoom, bDisplaySamples, shifted>>
          /\ PaintFrom(drawnSamples, IF trajectory # None THEN 0 ELSE drawnTrajectories)
      BY <2>5 DEF DrawingStopped
    <3> QED
      BY <2>0, <2>b, <3>1
  <2>6. CASE ClearData
    BY <2>6, <2>c DEF ClearData
  <2>7. ASSUME NEW new \in NewSamples, SetData(new) PROVE CanvasType'
    <3>1. Fitted /\ UNCHANGED <<spinZoom, bDisplaySamples>> /\ PaintFrom(0, 0) /\ shifted' = FALSE
      BY <2>7 DEF SetData, ResetAndRepaint
    <3> QED
      BY <2>0, <2>b, <3>1, FittedType
  <2>8. CASE Save
    BY <2>8, <2>a DEF Save
  <2>9. CASE Load
    <3>1. /\ UNCHANGED <<view, spinZoom, bDisplaySamples, shifted>>
          /\ PaintFrom(0, 0) \/ PaintFrom(drawnSamples, drawnTrajectories)
      BY <2>9 DEF Load
    <3> QED
      BY <2>0, <2>b, <3>1
  <2>10. ASSUME NEW to \in [1 .. Count -> Places], SendToCanvas(to) PROVE CanvasType'
    BY <2>10, <2>c DEF SendToCanvas
  <2>11. CASE DisplayOptionChanged
    <3>1. spinZoom' \in Int
      BY <2>0, <2>11, DrawingBounds DEF DisplayOptionChanged
    <3>2. view' \in Views
      BY <2>0, <2>11, <3>1 DEF DisplayOptionChanged, Views
    <3> QED
      BY <2>b, <2>11, <3>1, <3>2 DEF DisplayOptionChanged, ResetAndRepaint
  <2>12. CASE CanvasMoved
    <3>1. view' \in Views
      BY <2>0, <2>12 DEF CanvasMoved, Views
    <3> QED
      BY <2>0, <2>b, <2>12, <3>1 DEF CanvasMoved, ResetAndRepaint
  <2>13. CASE resizeEvent
    <3>1. view' \in Views
      BY <2>0, <2>13 DEF resizeEvent, Views
    <3> QED
      BY <2>0, <2>b, <2>13, <3>1 DEF resizeEvent
  <2>14. CASE FitToData
    <3>1. view' \in Views /\ view'.zoom \in Int
      BY <2>0, <2>14, FittedType DEF FitToData, Views
    <3>2. shifted' \in BOOLEAN /\ bDisplaySamples' \in BOOLEAN
      BY <2>0, <2>14, Zenon DEF FitToData
    <3> DEFINE drawn == IF view'.zoom = view.zoom THEN drawnSamples ELSE 0
               sketched == IF view'.zoom = view.zoom THEN drawnTrajectories ELSE 0
    <3>3. drawn \in Nat /\ sketched \in Nat
      BY <2>0
    <3>4. \/ drawnSamples' = drawn /\ drawnTrajectories' = sketched /\ spinZoom' = spinZoom
          \/ spinZoom' = Shown(view'.zoom) /\ PaintFrom(drawn, sketched)
      BY <2>14 DEF FitToData
    <3> HIDE DEF drawn, sketched
    <3> QED
      BY <2>0, <2>b, <3>1, <3>2, <3>3, <3>4, ShownType
  <2>15. CASE UNCHANGED vars
    BY <2>15, <2>a DEF vars
  <2> QED
    BY <2>1, <2>2, <2>3, <2>4, <2>5, <2>6, <2>7, <2>8, <2>9, <2>10, <2>11, <2>12, <2>13, <2>14, <2>15
       DEF Next, DrawingStep, DataStep, ViewStep
<1> QED
  BY <1>1, <1>2, <1>3 DEF DrawingTypeOK, CanvasType

\* Data, file, session and canvas have their types.
THEOREM DrawingTypesHold == Spec => []DrawingTypeOK
BY LabelInit, LabelStep, FiniteInit, FiniteStep, TypeInit, TypeStep, PTL DEF Spec

-----------------------------------------------------------------------------
(* The layer of samples is current.                                          *)

\* a repaint that starts from nothing
LEMMA RepaintedIsRight ==
    ASSUME LabelInv, LabelInv', NEW drawn \in Nat, NEW sketched, PaintFrom(drawn, sketched),
           drawn = 0 \/ drawn > Count'
    PROVE  SampleLayerInv'
<1> SUFFICES ASSUME bDisplaySamples' PROVE drawnSamples' = Count' /\ LayerIsRight'
  BY DEF SampleLayerInv
<1> QED
  BY PaintedIsRight DEF PaintFrom, LabelInv

\* a repaint after samples have been added, or the samples have not changed
LEMMA GrownIsRight ==
    ASSUME LabelInv, LabelInv', DrawingTypeOK, SampleLayerInv,
           UNCHANGED <<view, bDisplaySamples, interrupted, shifted>>, erasing = 0,
           NEW sketched, PaintFrom(drawnSamples, sketched), Count <= Count',
           ~interrupted => \A k \in 1 .. Count : samples'[k] = samples[k] /\ flags'[k] = flags[k]
    PROVE  SampleLayerInv'
<1> SUFFICES ASSUME bDisplaySamples', ~interrupted'
             PROVE  /\ drawnSamples' = Count'
                    /\ (~shifted' \/ Count' = 0) => LayerIsRight'
  BY DEF SampleLayerInv
<1>1. /\ drawnSamples \in {0, Count} /\ drawnSamples \in Nat
      /\ (drawnSamples = Count /\ (~shifted \/ Count = 0)) => LayerIsRight
  BY DEF SampleLayerInv, DrawingTypeOK
<1>2. PaintSamples(drawnSamples) /\ DataOK /\ DataOK'
  BY DEF PaintFrom, LabelInv
<1>3. drawnSamples' = Count'
  BY <1>2 DEF PaintSamples, Count
<1>4. Count \in Nat /\ Count' \in Nat
  BY LenProperties DEF LabelInv, DataOK, DataType, Count
<1>5. CASE drawnSamples = 0
  BY <1>1, <1>2, <1>3, <1>5, PaintedIsRight
<1>6. CASE drawnSamples = Count /\ (~shifted \/ Count = 0)
  BY <1>1, <1>2, <1>3, <1>6, PaintedIsRight
<1>7. CASE shifted /\ Count # 0
  BY <1>3, <1>4, <1>7
<1> QED
  BY <1>1, <1>5, <1>6, <1>7

\* the layer of samples begins empty
LEMMA SampleLayerInit == Init => SampleLayerInv
<1> SUFFICES ASSUME Init PROVE SampleLayerInv
  OBVIOUS
<1>1. samples = <<>> /\ layer = <<>> /\ drawnSamples = 0
  BY DEF Init, DataInit
<1>2. Count = 0 /\ samples \in [1 .. 0 -> Samples]
  BY <1>1, EmptySeq, SeqIsFunction DEF Count
<1>3. Plain(samples, flags, 1, view) = <<>>
  <2>1. 1 \in Nat \ {0} /\ 0 \in Nat /\ 0 < 1
    OBVIOUS
  <2> QED
    BY <1>2, <2>1, PlainOfNone
<1> QED
  BY <1>1, <1>2, <1>3 DEF SampleLayerInv, LayerIsRight

\* every slot that changes a sample or the view resets the layer of samples, or paints it
LEMMA SampleLayerStep ==
    /\ LabelInv /\ LabelInv' /\ DrawingTypeOK /\ DrawingInv /\ SampleLayerInv /\ [Next]_vars
    => SampleLayerInv'
<1> SUFFICES ASSUME LabelInv, LabelInv', DrawingTypeOK, DrawingInv, SampleLayerInv, [Next]_vars
             PROVE  SampleLayerInv'
  OBVIOUS
<1>0. /\ Count \in Nat /\ Count' \in Nat /\ drawnSamples \in Nat /\ 0 \in Nat
      /\ samples \in [1 .. Count -> Samples]
  BY LenProperties, DataLengths DEF LabelInv, DataOK, DataType, Count, DrawingTypeOK
<1>a. ASSUME ResetAndRepaint PROVE SampleLayerInv'
  BY <1>0, <1>a, RepaintedIsRight DEF ResetAndRepaint
<1>b. ASSUME erasing' # 0 PROVE SampleLayerInv'
  BY <1>b DEF SampleLayerInv
<1>c. ASSUME UNCHANGED <<dataVars, sessionVars, canvasVars>> PROVE SampleLayerInv'
  BY <1>c DEF dataVars, sessionVars, canvasVars, SampleLayerInv, LayerIsRight, Count
<1>1. ASSUME NEW new \in NewSamples, DrawSamples(new) PROVE SampleLayerInv'
  <2>1. PICK n \in Nat : new \in [1 .. n -> Samples]
    BY NewSamplesAreFunctions
  <2>2. /\ UNCHANGED <<view, bDisplaySamples, interrupted, shifted>> /\ erasing = 0
        /\ PaintFrom(drawnSamples, drawnTrajectories)
    BY <1>1 DEF DrawSamples, AtRest, sessionVars, Repaint
  <2>3. /\ Count <= Count'
        /\ \A k \in 1 .. Count : samples'[k] = samples[k] /\ flags'[k] = flags[k]
    <3>1. AddSample(new, "unused") /\ "unused" \in Flags /\ DataOK
      BY <1>1 DEF DrawSamples, Flags, LabelInv
    <3>2. Count' = Count + n /\ \A k \in 1 .. Count : flags'[k] = flags[k]
      BY <2>1, <3>1, AddSampleKeeps
    <3>3. Joins(samples', samples, Count, new, n)
      BY <1>0, <2>1, <3>1, ConcatIsFunction DEF AddSample
    <3> QED
      BY <1>0, <3>2, <3>3 DEF Joins
  <2> QED
    BY <2>2, <2>3, GrownIsRight
<1>2. ASSUME NEW p \in Samples, DrawTrajectory(p) PROVE SampleLayerInv'
  <2>2. /\ UNCHANGED <<view, bDisplaySamples, interrupted, shifted>> /\ erasing = 0
        /\ PaintFrom(drawnSamples, drawnTrajectories)
    BY <1>2 DEF DrawTrajectory, Repaint
  <2>3. /\ Count <= Count'
        /\ \A k \in 1 .. Count : samples'[k] = samples[k] /\ flags'[k] = flags[k]
    <3>0. <<p>> \in [1 .. 1 -> Samples]
      OBVIOUS
    <3>1. AddSample(<<p>>, "traj") /\ "traj" \in Flags /\ DataOK
      BY <1>2 DEF DrawTrajectory, Flags, LabelInv
    <3>2. Count' = Count + 1 /\ \A k \in 1 .. Count : flags'[k] = flags[k]
      BY <3>0, <3>1, AddSampleKeeps
    <3>3. Joins(samples', samples, Count, <<p>>, 1)
      BY <1>0, <3>0, <3>1, ConcatIsFunction DEF AddSample
    <3> QED
      BY <1>0, <3>2, <3>3 DEF Joins
  <2> QED
    BY <2>2, <2>3, GrownIsRight
<1>3. CASE DrawObstacle
  <2>1. /\ UNCHANGED <<view, bDisplaySamples, interrupted, shifted>> /\ erasing = 0
        /\ PaintFrom(drawnSamples, drawnTrajectories) /\ UNCHANGED <<samples, flags>>
    BY <1>3 DEF DrawObstacle, Repaint, dataVars
  <2> QED
    BY <1>0, <2>1, GrownIsRight DEF Count
<1>4. CASE EraseObstacle \/ \E i \in 1 .. Count : EraseSample(i)
  <2>1. erasing' # 0
    BY <1>0, <1>4 DEF EraseObstacle, EraseSample
  <2> QED
    BY <1>b, <2>1
<1>5. CASE EraseEnd
  BY <1>a, <1>5 DEF EraseEnd
<1>6. CASE DrawingStopped
  <2>1. /\ UNCHANGED <<view, bDisplaySamples, erasing, interrupted, shifted, samples>>
        /\ PaintFrom(drawnSamples, IF trajectory # None THEN 0 ELSE drawnTrajectories)
        /\ IF trajectory # None THEN AddSequence(trajectory) ELSE flags' = flags
    BY <1>6 DEF DrawingStopped, AddSequence, dataVars
  <2>2. ASSUME ~interrupted PROVE \A k \in 1 .. Count : flags'[k] = flags[k]
    <3>1. CASE trajectory # None /\ ~(trajectory.first > Count \/ trajectory.second > Count)
      <4>1. flags' = [k \in 1 .. Count |->
                        IF k \in trajectory.first .. trajectory.second THEN "traj" ELSE flags[k]]
        BY <2>1, <3>1 DEF AddSequence
      <4>2. /\ trajectory.second = Count
            /\ \A k \in trajectory.first .. Count : flags[k] = "traj"
        BY <2>2, <3>1, InvParts DEF CanvasInv, StrokeFits
      <4> QED
        BY <4>1, <4>2
    <3>2. CASE ~(trajectory # None /\ ~(trajectory.first > Count \/ trajectory.second > Count))
      BY <2>1, <3>2 DEF AddSequence, dataVars
    <3> QED
      BY <3>1, <3>2
  <2>3. CASE erasing = 0
    BY <1>0, <2>1, <2>2, <2>3, GrownIsRight DEF Count
  <2>4. CASE erasing # 0
    BY <1>b, <2>1, <2>4
  <2> QED
    BY <2>3, <2>4
<1>7. CASE ClearData
  <2>1. Count' = 0 /\ PaintFrom(drawnSamples, drawnTrajectories)
    BY <1>7, ClearKeeps DEF ClearData, Repaint
  <2> QED
    BY <1>0, <2>1, RepaintedIsRight
<1>8. ASSUME NEW new \in NewSamples, SetData(new) PROVE SampleLayerInv'
  BY <1>a, <1>8 DEF SetData
<1>9. CASE Save
  BY <1>c, <1>9 DEF Save
<1>10. CASE Load
  <2>1. CASE bDisplaySamples
    BY <1>0, <1>10, <2>1, RepaintedIsRight DEF Load
  <2>2. CASE ~bDisplaySamples
    BY <1>10, <2>2 DEF Load, SampleLayerInv
  <2> QED
    BY <2>1, <2>2
<1>11. ASSUME NEW to \in [1 .. Count -> Places], SendToCanvas(to) PROVE SampleLayerInv'
  BY <1>a, <1>11 DEF SendToCanvas
<1>12. CASE DisplayOptionChanged \/ CanvasMoved
  BY <1>a, <1>12 DEF DisplayOptionChanged, CanvasMoved
<1>13. CASE resizeEvent
  <2>1. /\ UNCHANGED <<bDisplaySamples, samples, flags, interrupted>> /\ shifted' = TRUE /\ erasing = 0
        /\ PaintFrom(drawnSamples, drawnTrajectories)
    BY <1>13 DEF resizeEvent, dataVars, sessionVars
  <2> SUFFICES ASSUME bDisplaySamples', ~interrupted'
               PROVE  SampleLayerInv'
    BY DEF SampleLayerInv
  <2>2. drawnSamples \in {0, Count} /\ Count' = Count
    BY <2>1 DEF SampleLayerInv, Count
  <2>3. CASE drawnSamples = 0
    BY <1>0, <2>1, <2>3, RepaintedIsRight
  <2>4. CASE drawnSamples # 0
    <3>1. drawnSamples' = Count' /\ Count' # 0
      BY <2>1, <2>2, <2>4 DEF PaintFrom, PaintSamples, Count
    <3> QED
      BY <2>1, <3>1 DEF SampleLayerInv
  <2> QED
    BY <2>3, <2>4
<1>14. CASE FitToData
  <2> DEFINE same == view'.zoom = view.zoom
             drawn == IF same THEN drawnSamples ELSE 0
             sketched == IF same THEN drawnTrajectories ELSE 0
  <2>1. /\ UNCHANGED <<bDisplaySamples, samples, flags, interrupted, erasing>> /\ erasing = 0
        /\ Count' = Count
        /\ shifted' = (same /\ (shifted \/ view'.center # view.center))
    BY <1>14 DEF FitToData, dataVars, sessionVars, AtRest, Count
  <2>2. \/ drawnSamples' = drawn /\ UNCHANGED layer
        \/ PaintFrom(drawn, sketched)
    BY <1>14 DEF FitToData
  <2>3. same /\ view'.center = view.center => view' = view
    <3>1. view'.size = view.size /\ view' \in Views
      BY <1>14, FittedType DEF FitToData, Fitted, DrawingTypeOK, Views
    <3> QED
      BY <3>1 DEF DrawingTypeOK, Views
  <2> SUFFICES ASSUME bDisplaySamples', ~interrupted'
               PROVE  /\ drawnSamples' \in {0, Count'}
                      /\ (drawnSamples' = Count' /\ (~shifted' \/ Count' = 0)) => LayerIsRight'
    BY DEF SampleLayerInv
  <2>4. /\ drawnSamples \in {0, Count}
        /\ (drawnSamples = Count /\ (~shifted \/ Count = 0)) => LayerIsRight
    BY <2>1 DEF SampleLayerInv
  <2>5. drawn \in {0, Count}
    BY <2>4
  <2>6. CASE PaintFrom(drawn, sketched)
    <3>1. PaintSamples(drawn) /\ drawnSamples' = Count'
      BY <2>6 DEF PaintFrom, PaintSamples, Count
    <3>2. CASE drawn = 0
      <4>1. PaintFrom(0, sketched)
        BY <2>6, <3>2
      <4>2. SampleLayerInv'
        <5> HIDE DEF sketched
        <5> QED
          BY <1>0, <4>1, RepaintedIsRight
      <4> QED
        BY <2>1, <4>2 DEF SampleLayerInv
    <3>3. CASE drawn # 0 /\ shifted'
      BY <2>1, <2>5, <3>1, <3>3
    <3>4. CASE drawn # 0 /\ ~shifted'
      <4>1. ~shifted /\ UNCHANGED <<view, shifted>> /\ drawn = drawnSamples /\ same
        BY <2>1, <2>3, <3>4 DEF DrawingTypeOK
      <4>2. PaintFrom(drawnSamples, sketched)
        BY <2>6, <4>1
      <4>3. SampleLayerInv'
        <5>1. UNCHANGED <<view, bDisplaySamples, interrupted, shifted>> /\ erasing = 0
          BY <2>1, <4>1
        <5>2. /\ Count <= Count'
              /\ \A k \in 1 .. Count : samples'[k] = samples[k] /\ flags'[k] = flags[k]
          BY <1>0, <2>1
        <5> HIDE DEF sketched, same
        <5> QED
          BY <4>2, <5>1, <5>2, GrownIsRight
      <4> QED
        BY <2>1, <4>3 DEF SampleLayerInv
    <3> QED
      BY <3>2, <3>3, <3>4
  <2>7. CASE drawnSamples' = drawn /\ UNCHANGED layer
    <3>1. ASSUME Count = 0 PROVE LayerIsRight'
      <4>1. drawnSamples = Count /\ LayerIsRight
        BY <2>4, <3>1
      <4>2. 1 \in Nat \ {0} /\ 0 < 1 /\ 0 \in Nat /\ samples \in [1 .. 0 -> Samples]
        BY <1>0, <3>1
      <4>3. \A v : Plain(samples, flags, 1, v) = <<>>
        BY <4>2, PlainOfNone
      <4>4. Plain(samples, flags, 1, view) = <<>> /\ Plain(samples', flags', 1, view') = <<>>
        BY <2>1, <4>3
      <4> QED
        BY <2>7, <4>1, <4>4 DEF LayerIsRight
    <3>2. ASSUME Count # 0, drawnSamples' = Count', ~shifted' PROVE LayerIsRight'
      <4>1. same /\ drawnSamples = Count
        BY <2>1, <2>7, <3>2
      <4>2. ~shifted /\ view' = view
        BY <2>1, <2>3, <3>2, <4>1
      <4> QED
        BY <2>1, <2>4, <2>7, <4>1, <4>2 DEF LayerIsRight
    <3> QED
      BY <2>1, <2>5, <2>7, <3>1, <3>2
  <2> QED
    BY <2>2, <2>6, <2>7
<1>15. CASE UNCHANGED vars
  BY <1>c, <1>15 DEF vars
<1> QED
  BY <1>1, <1>2, <1>3, <1>4, <1>5, <1>6, <1>7, <1>8, <1>9, <1>10, <1>11, <1>12, <1>13, <1>14, <1>15
     DEF Next, DrawingStep, DataStep, ViewStep

-----------------------------------------------------------------------------
(* The layer of trajectories is current between two strokes.                 *)

TrajectoriesRight == trajLayer = Drawn(samples, sequences, 0, TRUE, view)

\* without a sequence nothing is drawn
LEMMA DrawnOfNone ==
    ASSUME NEW s, NEW v
    PROVE  Drawn(s, {}, 0, TRUE, v) = {}
BY DEF Drawn

\* all sequences, ended
DrawnEnded(s, qs, v) == Drawn(s, qs, 0, TRUE, v)

\* what is drawn of the sequences does not depend on samples behind them
LEMMA DrawnKept ==
    ASSUME NEW n \in Nat, NEW s, NEW t, \A k \in 1 .. n : s[k] = t[k],
           NEW qs, \A q \in qs : q.first \in Int /\ q.second \in Int /\ 1 <= q.first /\ q.second <= n,
           NEW v
    PROVE  DrawnEnded(s, qs, v) = DrawnEnded(t, qs, v)
<1>1. ASSUME NEW q \in qs PROVE SubSeq(s, q.first, q.second) = SubSeq(t, q.first, q.second)
  <2> DEFINE length == q.second - q.first + 1
  <2>1. \A i \in 1 .. length : q.first + i - 1 \in 1 .. n
    OBVIOUS
  <2>2. \A i \in 1 .. length : s[q.first + i - 1] = t[q.first + i - 1]
    BY <2>1
  <2> QED
    BY <2>2
<1> QED
  BY <1>1 DEF DrawnEnded, Drawn

\* DrawTrajectories leaves its layer right between two strokes, if it starts from
\* nothing, from no sequence or from the layer as it should be.
LEMMA TrajectoriesPainted ==
    ASSUME LabelInv', FiniteInv', CanvasInv', trajectory' = None,
           NEW sketched, PaintTrajectories(sketched),
           \/ sketched = 0 \/ sequences' = {}
           \/ /\ sketched = Cardinality(sequences')
              /\ trajLayer = Drawn(samples', sequences', 0, TRUE, view')
    PROVE  TrajectoriesRight' /\ drawnTrajectories' = Cardinality(sequences')
<1> DEFINE count == Cardinality(sequences')
           nothing == samples' = <<>> \/ (count = 0 /\ flags'[Len(samples')] # "traj")
<1>1. Unfinished' = None
  <2>1. (LabelInv /\ CanvasInv /\ trajectory = None => Unfinished = None)'
    BY NothingUnfinished, PTL
  <2> QED
    BY <2>1
<1>2. count \in Nat /\ (count = 0 <=> sequences' = {})
  BY FS_CardinalityType, FS_EmptySet DEF FiniteInv
<1>3. WellPlaced(samples, flags, sequences)' /\ AllCovered'
  <2>1. (trajectory = None => (CanvasInv <=> WellPlaced(samples, flags, sequences) /\ AllCovered))'
    BY CanvasAtRest, PTL
  <2> QED
    BY <2>1
<1>4. Count' \in Nat /\ Count' = Len(samples') /\ (Count' = 0 <=> samples' = <<>>)
  BY LenProperties, EmptySeq DEF LabelInv, DataOK, DataType, Count
<1>5. nothing <=> sequences' = {}
  <2>1. ASSUME nothing PROVE sequences' = {}
    <3>1. CASE samples' = <<>>
      <4>1. \A q \in sequences' : 1 <= q.first /\ q.first <= q.second /\ q.second <= 0
        BY <1>3, <1>4, <3>1 DEF WellPlaced, Count
      <4>2. \A q \in sequences' : q.first \in Int /\ q.second \in Int
        BY DEF LabelInv, DataOK, DataType
      <4> QED
        BY <4>1, <4>2
    <3> QED
      BY <1>2, <2>1, <3>1
  <2>2. ASSUME sequences' = {}, ~nothing PROVE FALSE
    <3>1. Count' \in 1 .. Count' /\ flags'[Count'] = "traj"
      BY <1>2, <1>4, <2>2
    <3>2. \E q \in sequences' : Covers(q, Count')
      BY <1>3, <3>1 DEF AllCovered, Covers
    <3> QED
      BY <2>2, <3>2
  <2> QED
    BY <2>1, <2>2
<1>6. drawnTrajectories' = count
  BY DEF PaintTrajectories
<1>7. CASE sequences' = {}
  <2>1. trajLayer' = {}
    BY <1>5, <1>7 DEF PaintTrajectories
  <2> QED
    BY <1>6, <1>7, <2>1, DrawnOfNone DEF TrajectoriesRight
<1>8. CASE sequences' # {} /\ sketched = 0
  <2>1. ~nothing /\ ~(0 = count) /\ ~(0 > count)
    BY <1>2, <1>5, <1>8
  <2>2. trajLayer' = {} \cup Drawn(samples', sequences', 0, TRUE, view') \cup {}
    BY <1>1, <1>8, <2>1 DEF PaintTrajectories
  <2> QED
    BY <1>6, <2>2 DEF TrajectoriesRight
<1>9. CASE /\ sequences' # {} /\ sketched = count
           /\ trajLayer = Drawn(samples', sequences', 0, TRUE, view')
  <2>1. trajLayer' = trajLayer
    BY <1>1, <1>5, <1>9 DEF PaintTrajectories
  <2> QED
    BY <1>6, <1>9, <2>1 DEF TrajectoriesRight
<1> QED
  BY <1>7, <1>8, <1>9

\* a repaint that starts from nothing
LEMMA TrajectoriesRepainted ==
    ASSUME LabelInv', FiniteInv', DrawingInv', NEW drawn, NEW sketched, PaintFrom(drawn, sketched),
           sketched = 0 \/ sequences' = {}
    PROVE  TrajectoryLayerInv'
<1> SUFFICES ASSUME bDisplaySamples', ~interrupted', trajectory' = None
             PROVE  TrajectoriesRight' /\ drawnTrajectories' = Cardinality(sequences')
  BY DEF TrajectoryLayerInv, TrajectoriesRight
<1>1. CanvasInv'
  <2>1. (DrawingInv /\ ~interrupted => CanvasInv)'
    BY InvParts, PTL
  <2> QED
    BY <2>1
<1> QED
  BY <1>1, TrajectoriesPainted DEF PaintFrom

\* a repaint at rest, after samples may have been added
LEMMA TrajectoriesGrown ==
    ASSUME LabelInv, LabelInv', FiniteInv', DrawingInv, DrawingInv', TrajectoryLayerInv,
           UNCHANGED <<view, bDisplaySamples, interrupted, shifted, sequences>>,
           erasing = 0, trajectory = None,
           NEW drawn, PaintFrom(drawn, drawnTrajectories),
           \A k \in 1 .. Count : samples'[k] = samples[k]
    PROVE  TrajectoryLayerInv'
<1> SUFFICES ASSUME bDisplaySamples', ~interrupted', trajectory' = None
             PROVE  /\ drawnTrajectories' = Cardinality(sequences')
                    /\ (~shifted' \/ sequences' = {}) => TrajectoriesRight'
  BY DEF TrajectoryLayerInv, TrajectoriesRight
<1>1. CanvasInv'
  <2>1. (DrawingInv /\ ~interrupted => CanvasInv)'
    BY InvParts, PTL
  <2> QED
    BY <2>1
<1>2. PaintTrajectories(drawnTrajectories)
  BY DEF PaintFrom
<1>3. /\ drawnTrajectories \in {0, Cardinality(sequences)}
      /\ (drawnTrajectories = Cardinality(sequences) /\ (~shifted \/ sequences = {})) => TrajectoriesRight
  BY DEF TrajectoryLayerInv, TrajectoriesRight
<1>4. drawnTrajectories' = Cardinality(sequences')
  BY <1>2 DEF PaintTrajectories
<1>5. CASE drawnTrajectories = 0 \/ sequences' = {}
  BY <1>1, <1>2, <1>5, TrajectoriesPainted
<1>6. CASE drawnTrajectories = Cardinality(sequences) /\ ~shifted
  <2>1. trajLayer = Drawn(samples, sequences, 0, TRUE, view)
    BY <1>3, <1>6 DEF TrajectoriesRight
  <2>2. Drawn(samples, sequences, 0, TRUE, view) = Drawn(samples', sequences, 0, TRUE, view)
    <3>1. Count \in Nat /\ sequences \subseteq [first : Int, second : Int]
      BY DataLengths DEF LabelInv, DataOK, DataType
    <3>2. \A q \in sequences :
             q.first \in Int /\ q.second \in Int /\ 1 <= q.first /\ q.second <= Count
      BY <3>1, InvParts DEF CanvasInv, WellPlaced, Count
    <3> DEFINE t == samples'
    <3>3. \A k \in 1 .. Count : samples[k] = t[k]
      OBVIOUS
    <3> HIDE DEF t
    <3>4. DrawnEnded(samples, sequences, view) = DrawnEnded(t, sequences, view)
      BY <3>1, <3>2, <3>3, DrawnKept
    <3> QED
      BY <3>4 DEF t, DrawnEnded
  <2>3. trajLayer = Drawn(samples', sequences', 0, TRUE, view')
    BY <2>1, <2>2
  <2> QED
    BY <1>1, <1>2, <1>6, <2>3, TrajectoriesPainted
<1>7. CASE sequences' # {} /\ shifted
  BY <1>4, <1>7
<1> QED
  BY <1>3, <1>5, <1>6, <1>7

\* the layer of trajectories begins empty
LEMMA TrajectoryLayerInit == Init => TrajectoryLayerInv
<1> SUFFICES ASSUME Init PROVE TrajectoryLayerInv
  OBVIOUS
<1>1. sequences = {} /\ trajLayer = {} /\ drawnTrajectories = 0
  BY DEF Init, DataInit
<1> QED
  BY <1>1, DrawnOfNone DEF TrajectoryLayerInv

\* every slot that changes a trajectory or the view resets their layer, or paints it
LEMMA TrajectoryLayerStep ==
    /\ LabelInv /\ LabelInv' /\ FiniteInv' /\ DrawingTypeOK /\ DrawingInv /\ DrawingInv'
    /\ TrajectoryLayerInv /\ [Next]_vars
    => TrajectoryLayerInv'
<1> SUFFICES ASSUME LabelInv, LabelInv', FiniteInv', DrawingTypeOK, DrawingInv, DrawingInv',
                    TrajectoryLayerInv, [Next]_vars
             PROVE  TrajectoryLayerInv'
  OBVIOUS
<1>a. ASSUME ResetAndRepaint PROVE TrajectoryLayerInv'
  BY <1>a, TrajectoriesRepainted DEF ResetAndRepaint
<1>b. ASSUME erasing' # 0 \/ trajectory' # None \/ interrupted' PROVE TrajectoryLayerInv'
  BY <1>b DEF TrajectoryLayerInv
<1>c. ASSUME UNCHANGED <<dataVars, sessionVars, canvasVars>> PROVE TrajectoryLayerInv'
  BY <1>c DEF dataVars, sessionVars, canvasVars, TrajectoryLayerInv
<1>1. ASSUME NEW new \in NewSamples, DrawSamples(new) PROVE TrajectoryLayerInv'
  <2>1. PICK n \in Nat : new \in [1 .. n -> Samples]
    BY NewSamplesAreFunctions
  <2>2. /\ UNCHANGED <<view, bDisplaySamples, interrupted, shifted, sequences>>
        /\ erasing = 0 /\ trajectory = None /\ PaintFrom(drawnSamples, drawnTrajectories)
    BY <1>1 DEF DrawSamples, AtRest, sessionVars, Repaint, AddSample
  <2>3. Count \in Nat /\ samples \in [1 .. Count -> Samples] /\ samples' = samples \o new
    BY <1>1, DataLengths DEF LabelInv, DrawSamples, AddSample
  <2>4. \A k \in 1 .. Count : samples'[k] = samples[k]
    BY <2>1, <2>3, ConcatIsFunction DEF Joins
  <2> QED
    BY <2>2, <2>4, TrajectoriesGrown
<1>2. ASSUME NEW p \in Samples, DrawTrajectory(p) PROVE TrajectoryLayerInv'
  <2>1. trajectory'.second = Count + 1 /\ Count \in Nat
    BY <1>2, DataLengths DEF DrawTrajectory, LabelInv
  <2> QED
    BY <1>b, <2>1 DEF None
<1>3. CASE DrawObstacle
  <2>1. /\ UNCHANGED <<view, bDisplaySamples, interrupted, shifted, sequences, samples>>
        /\ erasing = 0 /\ trajectory = None /\ PaintFrom(drawnSamples, drawnTrajectories)
    BY <1>3 DEF DrawObstacle, Repaint, dataVars
  <2> QED
    BY <2>1, TrajectoriesGrown
<1>4. CASE EraseObstacle \/ \E i \in 1 .. Count : EraseSample(i)
  <2>1. erasing' # 0
    <3>1. Count \in Nat
      BY DataLengths DEF LabelInv
    <3> QED
      BY <1>4, <3>1 DEF EraseObstacle, EraseSample
  <2> QED
    BY <1>b, <2>1
<1>5. CASE EraseEnd
  BY <1>a, <1>5 DEF EraseEnd
<1>6. CASE DrawingStopped
  <2>1. CASE trajectory # None
    BY <1>6, <2>1, TrajectoriesRepainted DEF DrawingStopped
  <2>2. CASE trajectory = None /\ erasing = 0
    <3>1. /\ UNCHANGED <<view, bDisplaySamples, interrupted, shifted, sequences, samples>>
          /\ PaintFrom(drawnSamples, drawnTrajectories)
      BY <1>6, <2>2 DEF DrawingStopped
    <3> QED
      BY <2>2, <3>1, TrajectoriesGrown
  <2>3. CASE erasing # 0
    BY <1>6, <1>b, <2>3 DEF DrawingStopped
  <2> QED
    BY <2>1, <2>2, <2>3
<1>7. CASE ClearData
  <2>1. sequences' = {} /\ PaintFrom(drawnSamples, drawnTrajectories)
    BY <1>7 DEF ClearData, Clear, Repaint
  <2> QED
    BY <2>1, TrajectoriesRepainted
<1>8. ASSUME NEW new \in NewSamples, SetData(new) PROVE TrajectoryLayerInv'
  BY <1>a, <1>8 DEF SetData
<1>9. CASE Save
  BY <1>c, <1>9 DEF Save
<1>10. CASE Load
  <2>1. CASE bDisplaySamples
    BY <1>10, <2>1, TrajectoriesRepainted DEF Load
  <2>2. CASE ~bDisplaySamples
    BY <1>10, <2>2 DEF Load, TrajectoryLayerInv
  <2> QED
    BY <2>1, <2>2
<1>11. ASSUME NEW to \in [1 .. Count -> Places], SendToCanvas(to) PROVE TrajectoryLayerInv'
  BY <1>a, <1>11 DEF SendToCanvas
<1>12. CASE DisplayOptionChanged \/ CanvasMoved
  BY <1>a, <1>12 DEF DisplayOptionChanged, CanvasMoved
<1>13. CASE resizeEvent
  <2>1. /\ UNCHANGED <<bDisplaySamples, interrupted, sequences, trajectory>> /\ shifted' = TRUE
        /\ erasing = 0 /\ PaintFrom(drawnSamples, drawnTrajectories)
    BY <1>13 DEF resizeEvent, dataVars, sessionVars
  <2>2. CASE sequences' = {}
    BY <2>1, <2>2, TrajectoriesRepainted
  <2>3. CASE sequences' # {} /\ bDisplaySamples'
    <3>1. drawnTrajectories' = Cardinality(sequences')
      BY <2>1, <2>3 DEF PaintFrom, PaintTrajectories
    <3> QED
      BY <2>1, <2>3, <3>1 DEF TrajectoryLayerInv
  <2>4. CASE ~bDisplaySamples'
    BY <2>4 DEF TrajectoryLayerInv
  <2> QED
    BY <2>2, <2>3, <2>4
<1>14. CASE FitToData
  <2> DEFINE same == view'.zoom = view.zoom
             drawn == IF same THEN drawnSamples ELSE 0
             sketched == IF same THEN drawnTrajectories ELSE 0
  <2>1. /\ UNCHANGED <<bDisplaySamples, samples, sequences, interrupted, erasing, trajectory>>
        /\ erasing = 0 /\ trajectory = None
        /\ shifted' = (same /\ (shifted \/ view'.center # view.center))
    BY <1>14 DEF FitToData, dataVars, sessionVars, AtRest
  <2>2. \/ drawnTrajectories' = sketched /\ UNCHANGED trajLayer
        \/ PaintFrom(drawn, sketched)
    BY <1>14 DEF FitToData
  <2>3. same /\ view'.center = view.center => view' = view
    <3>1. view'.size = view.size /\ view' \in Views
      BY <1>14, FittedType DEF FitToData, Fitted, DrawingTypeOK, Views
    <3> QED
      BY <3>1 DEF DrawingTypeOK, Views
  <2> SUFFICES ASSUME bDisplaySamples', ~interrupted'
               PROVE  /\ drawnTrajectories' \in {0, Cardinality(sequences')}
                      /\ (drawnTrajectories' = Cardinality(sequences') /\ (~shifted' \/ sequences' = {}))
                         => TrajectoriesRight'
    BY DEF TrajectoryLayerInv, TrajectoriesRight
  <2>4. /\ drawnTrajectories \in {0, Cardinality(sequences)}
        /\ (drawnTrajectories = Cardinality(sequences) /\ (~shifted \/ sequences = {})) => TrajectoriesRight
    BY <2>1 DEF TrajectoryLayerInv, TrajectoriesRight
  <2>5. CASE PaintFrom(drawn, sketched)
    <3>1. drawnTrajectories' = Cardinality(sequences')
      BY <2>1, <2>5 DEF PaintFrom, PaintTrajectories
    <3>2. CASE sketched = 0 \/ sequences' = {}
      <4>1. TrajectoryLayerInv'
        <5> HIDE DEF drawn, sketched
        <5> QED
          BY <2>5, <3>2, TrajectoriesRepainted
      <4> QED
        BY <2>1, <4>1 DEF TrajectoryLayerInv, TrajectoriesRight
    <3>3. CASE sequences' # {} /\ shifted'
      BY <3>1, <3>3
    <3>4. CASE sketched # 0 /\ ~shifted'
      <4>1. UNCHANGED <<view, bDisplaySamples, interrupted, shifted, sequences>> /\ same
        BY <2>1, <2>3, <3>4 DEF DrawingTypeOK
      <4>2. PaintFrom(drawnSamples, drawnTrajectories) /\ \A k \in 1 .. Count : samples'[k] = samples[k]
        BY <2>1, <2>5, <4>1
      <4>3. TrajectoryLayerInv'
        <5> HIDE DEF drawn, sketched, same
        <5> QED
          BY <2>1, <4>1, <4>2, TrajectoriesGrown
      <4> QED
        BY <2>1, <4>3 DEF TrajectoryLayerInv, TrajectoriesRight
    <3> QED
      BY <3>2, <3>3, <3>4
  <2>6. CASE drawnTrajectories' = sketched /\ UNCHANGED trajLayer
    <3>1. ASSUME sequences = {} PROVE TrajectoriesRight'
      <4>1. Cardinality(sequences) = 0
        BY <3>1, FS_EmptySet
      <4>2. TrajectoriesRight
        BY <2>4, <3>1, <4>1
      <4>3. trajLayer = {}
        BY <3>1, <4>2, DrawnOfNone DEF TrajectoriesRight
      <4> QED
        BY <2>1, <2>6, <3>1, <4>3, DrawnOfNone DEF TrajectoriesRight
    <3>2. ASSUME sequences # {}, drawnTrajectories' = Cardinality(sequences'), ~shifted'
          PROVE  TrajectoriesRight'
      <4>1. Cardinality(sequences) # 0
        BY <2>1, <3>2, FS_EmptySet DEF FiniteInv
      <4>2. same /\ drawnTrajectories = Cardinality(sequences)
        BY <2>1, <2>6, <3>2, <4>1
      <4>3. ~shifted /\ view' = view
        BY <2>1, <2>3, <3>2, <4>2
      <4> QED
        BY <2>1, <2>4, <2>6, <4>2, <4>3 DEF TrajectoriesRight
    <3> QED
      BY <2>1, <2>4, <2>6, <3>1, <3>2
  <2> QED
    BY <2>2, <2>5, <2>6
<1>15. CASE UNCHANGED vars
  BY <1>c, <1>15 DEF vars
<1> QED
  BY <1>1, <1>2, <1>3, <1>4, <1>5, <1>6, <1>7, <1>8, <1>9, <1>10, <1>11, <1>12, <1>13, <1>14, <1>15
     DEF Next, DrawingStep, DataStep, ViewStep

\* Both layers are as the canvas counts on them.
THEOREM LayersAreAlwaysRight == Spec => []LayerInv
<1>1. SampleLayerInv /\ TrajectoryLayerInv => LayerInv
  BY DEF LayerInv
<1> QED
  BY <1>1, LabelInit, LabelStep, FiniteInit, FiniteStep, TypeInit, TypeStep, DrawingInit,
     DrawingStepInv, SampleLayerInit, SampleLayerStep, TrajectoryLayerInit, TrajectoryLayerStep,
     PTL DEF Spec

\* Between two slots the layer of samples is right whenever the canvas counts on it,
\* unless the view has changed and the layer has not been reset since.
THEOREM LayerIsAlwaysCurrent == Spec => []LayerIsCurrent
<1>1. LayerInv => LayerIsCurrent
  BY DEF LayerInv, SampleLayerInv, LayerIsCurrent
<1> QED
  BY <1>1, LayersAreAlwaysRight, PTL

\* Between two strokes the layer of trajectories shows the sequences, ended, and
\* nothing that the drawing of a stroke has left there, whenever the canvas counts on it.
THEOREM TrajectoriesAreAlwaysCurrent == Spec => []TrajectoriesAreCurrent
<1>1. LayerInv => TrajectoriesAreCurrent
  BY DEF LayerInv, TrajectoryLayerInv, TrajectoriesAreCurrent
<1> QED
  BY <1>1, LayersAreAlwaysRight, PTL
=============================================================================
