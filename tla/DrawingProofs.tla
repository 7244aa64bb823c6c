--------------------------- MODULE DrawingProofs ---------------------------
(***************************************************************************)
(* Proofs about Drawing for every value of its constants:                   *)
(*  - every sample keeps its flag and its label (LabelsAlwaysFollow);        *)
(*  - the sequences fit and nothing is hidden, as long as no stroke has been *)
(*    interrupted (SequencesAlwaysFit, NothingIsHidden).                     *)
(* For each operation of the data set there is a lemma of each kind; the     *)
(* theorems go through the actions and apply them.                           *)
(***************************************************************************)
EXTENDS DrawingInv, Inductions

-----------------------------------------------------------------------------
(* Types and labels.                                                         *)

DataOK == DataType /\ LabelsFollow
FileOK == FileType /\ \A f \in file : InStep(f.samples, f.labels, f.flags)
StrokeOK == trajectory \in [first : Nat, second : Nat]

\* the three vectors are as long as each other
LEMMA DataLengths ==
    ASSUME DataOK
    PROVE  /\ Count \in Nat /\ Len(labels) = Count /\ Len(flags) = Count
           /\ samples \in [1 .. Count -> Samples]
           /\ labels \in [1 .. Count -> Labels]
           /\ flags \in [1 .. Count -> Flags]
           /\ \A k \in 1 .. Count : labels[k] = samples[k].of
<1>1. /\ Count \in Nat /\ DOMAIN samples = 1 .. Count
      /\ samples \in [1 .. Count -> Samples]
  BY SeqIsFunction DEF DataOK, DataType, Count
<1>2. /\ Len(labels) \in Nat /\ DOMAIN labels = 1 .. Len(labels)
      /\ labels \in [1 .. Len(labels) -> Labels]
  BY SeqIsFunction DEF DataOK, DataType
<1>3. /\ Len(flags) \in Nat /\ DOMAIN flags = 1 .. Len(flags)
      /\ flags \in [1 .. Len(flags) -> Flags]
  BY SeqIsFunction DEF DataOK, DataType
<1>4. DOMAIN labels = DOMAIN samples /\ DOMAIN flags = DOMAIN samples
  BY DEF DataOK, LabelsFollow, InStep
<1>5. Len(labels) = Count /\ Len(flags) = Count
  BY <1>1, <1>2, <1>3, <1>4, SameLength
<1> QED
  BY <1>1, <1>2, <1>3, <1>5 DEF DataOK, LabelsFollow, InStep

\* what an operation has to establish
LEMMA DataOKFromFunctions ==
    ASSUME NEW n \in Nat, samples' \in [1 .. n -> Samples], labels' \in [1 .. n -> Labels],
           flags' \in [1 .. n -> Flags], \A k \in 1 .. n : labels'[k] = samples'[k].of,
           sequences' \subseteq [first : Int, second : Int], obstacles' \in Nat
    PROVE  DataOK' /\ Count' = n
<1>1. samples' \in Seq(Samples) /\ Len(samples') = n /\ DOMAIN samples' = 1 .. n
  BY FunctionIsSeq
<1>2. labels' \in Seq(Labels) /\ DOMAIN labels' = 1 .. n
  BY FunctionIsSeq
<1>3. flags' \in Seq(Flags) /\ DOMAIN flags' = 1 .. n
  BY FunctionIsSeq
<1> QED
  BY <1>1, <1>2, <1>3 DEF DataOK, DataType, LabelsFollow, InStep, Count

\* Clear leaves three empty vectors, which are in step
LEMMA ClearKeeps ==
    ASSUME Clear
    PROVE  DataOK' /\ Count' = 0
<1>1. <<>> \in [1 .. 0 -> Samples] /\ <<>> \in [1 .. 0 -> Labels] /\ <<>> \in [1 .. 0 -> Flags]
  BY SeqIsFunction, EmptySeq
<1> QED
  BY <1>1, DataOKFromFunctions DEF Clear

\* AddSample appends to the three vectors alike: they stay in step
LEMMA AddSampleKeeps ==
    ASSUME DataOK, NEW n \in Nat, NEW new \in [1 .. n -> Samples], NEW flag \in Flags,
           AddSample(new, flag)
    PROVE  /\ DataOK' /\ Count' = Count + n
           /\ \A k \in 1 .. Count : flags'[k] = flags[k]
           /\ \A k \in 1 .. n : flags'[Count + k] = flag
<1>1. Len(new) = n
  BY FunctionIsSeq
<1>2. \A k \in 1 .. n : new[k].of \in Labels
  BY DEF Samples
<1> DEFINE of == [k \in 1 .. n |-> new[k].of]
           with == [k \in 1 .. n |-> flag]
<1>3. of \in [1 .. n -> Labels] /\ \A k \in 1 .. n : of[k] = new[k].of
  BY <1>2
<1>4. with \in [1 .. n -> Flags] /\ \A k \in 1 .. n : with[k] = flag
  OBVIOUS
<1>5. samples' = samples \o new /\ labels' = labels \o of /\ flags' = flags \o with
  BY <1>1 DEF AddSample, Fill
<1> HIDE DEF of, with
<1>6. Count \in Nat
  BY DataLengths
<1>7. /\ samples' \in [1 .. Count + n -> Samples]
      /\ \A k \in 1 .. Count : samples'[k] = samples[k]
      /\ \A k \in 1 .. n : samples'[Count + k] = new[k]
  <2>1. samples \in [1 .. Count -> Samples]
    BY DataLengths
  <2>2. samples \o new \in [1 .. Count + n -> Samples] /\ Joins(samples \o new, samples, Count, new, n)
    BY <1>6, <2>1, ConcatIsFunction, Zenon
  <2> QED
    BY <1>5, <2>2 DEF Joins
<1>8. /\ labels' \in [1 .. Count + n -> Labels]
      /\ \A k \in 1 .. Count : labels'[k] = labels[k]
      /\ \A k \in 1 .. n : labels'[Count + k] = of[k]
  <2>1. labels \in [1 .. Count -> Labels]
    BY DataLengths
  <2>2. labels \o of \in [1 .. Count + n -> Labels] /\ Joins(labels \o of, labels, Count, of, n)
    BY <1>3, <1>6, <2>1, ConcatIsFunction, Zenon
  <2> QED
    BY <1>5, <2>2 DEF Joins
<1>9. /\ flags' \in [1 .. Count + n -> Flags]
      /\ \A k \in 1 .. Count : flags'[k] = flags[k]
      /\ \A k \in 1 .. n : flags'[Count + k] = with[k]
  <2>1. flags \in [1 .. Count -> Flags]
    BY DataLengths
  <2>2. flags \o with \in [1 .. Count + n -> Flags] /\ Joins(flags \o with, flags, Count, with, n)
    BY <1>4, <1>6, <2>1, ConcatIsFunction, Zenon
  <2> QED
    BY <1>5, <2>2 DEF Joins
<1>10. \A k \in 1 .. Count + n : labels'[k] = samples'[k].of
  <2> SUFFICES ASSUME NEW k \in 1 .. Count + n PROVE labels'[k] = samples'[k].of
    OBVIOUS
  <2>1. CASE k \in 1 .. Count
    BY <2>1, <1>7, <1>8, DataLengths
  <2>2. CASE k \notin 1 .. Count
    <3>1. PICK j \in 1 .. n : k = Count + j
      <4>1. k - Count \in 1 .. n /\ k = Count + (k - Count)
        BY <2>2, <1>6
      <4> QED
        BY <4>1
    <3> QED
      BY <3>1, <1>3, <1>7, <1>8
  <2> QED
    BY <2>1, <2>2
<1>11. sequences' \subseteq [first : Int, second : Int] /\ obstacles' \in Nat
  BY DEF AddSample, DataOK, DataType
<1>12. Count + n \in Nat
  BY <1>6
<1>13. DataOK' /\ Count' = Count + n
  BY <1>7, <1>8, <1>9, <1>10, <1>11, <1>12, DataOKFromFunctions
<1> QED
  BY <1>4, <1>9, <1>13

\* SetData replaces the three vectors by new ones that are in step
LEMMA SetSamplesKeeps ==
    ASSUME NEW n \in Nat, NEW new \in [1 .. n -> Samples], SetSamples(new)
    PROVE  /\ DataOK' /\ Count' = n /\ sequences' = {}
           /\ \A k \in 1 .. n : flags'[k] = "unused"
<1>1. new \in Seq(Samples) /\ Len(new) = n
  BY FunctionIsSeq
<1>2. \A k \in 1 .. n : new[k].of \in Labels
  BY DEF Samples
<1>3. /\ samples' \in [1 .. n -> Samples] /\ labels' \in [1 .. n -> Labels]
      /\ flags' \in [1 .. n -> Flags] /\ \A k \in 1 .. n : labels'[k] = samples'[k].of
      /\ \A k \in 1 .. n : flags'[k] = "unused"
      /\ sequences' = {} /\ obstacles' = 0
  BY <1>1, <1>2 DEF SetSamples, Fill, Flags
<1> QED
  BY <1>3, DataOKFromFunctions

\* SetSample moves samples: their labels stay the ones they were given
LEMMA MoveSamplesKeeps ==
    ASSUME DataOK, NEW to \in [1 .. Count -> Places], MoveSamples(to)
    PROVE  DataOK' /\ Count' = Count
<1>1. samples' = [k \in 1 .. Count |-> [samples[k] EXCEPT !.at = to[k]]]
  BY DEF MoveSamples
<1>2. \A k \in 1 .. Count : samples[k] \in Samples /\ to[k] \in Places
  BY DataLengths
<1>3. \A k \in 1 .. Count : samples'[k] \in Samples /\ samples'[k].of = samples[k].of
  BY <1>1, <1>2 DEF Samples
<1>4. samples' \in [1 .. Count -> Samples]
  BY <1>1, <1>3
<1> QED
  BY <1>3, <1>4, DataLengths, DataOKFromFunctions DEF MoveSamples, DataOK, DataType

\* AddSequence changes flags only, within the vector
LEMMA AddSequenceKeeps ==
    ASSUME DataOK, NEW q \in [first : Nat, second : Nat], AddSequence(q)
    PROVE  DataOK' /\ Count' = Count
<1>1. CASE UNCHANGED dataVars
  BY <1>1 DEF dataVars, DataOK, DataType, LabelsFollow, Count
<1>2. CASE ~UNCHANGED dataVars
  <2>1. flags' = [k \in 1 .. Count |-> IF k \in q.first .. q.second THEN "traj" ELSE flags[k]]
        /\ sequences' = sequences \cup {q} /\ UNCHANGED <<samples, labels, obstacles>>
    BY <1>2 DEF AddSequence
  <2>2. flags' \in [1 .. Count -> Flags]
    BY <2>1, DataLengths DEF Flags
  <2>3. q \in [first : Int, second : Int]
    OBVIOUS
  <2> QED
    BY <2>1, <2>2, <2>3, DataLengths, DataOKFromFunctions DEF DataOK, DataType
<1> QED
  BY <1>1, <1>2

\* the samples, the labels or the flags without one
LEMMA WithoutIsFunction ==
    ASSUME NEW S, NEW n \in Nat, NEW s \in [1 .. n -> S], NEW i \in 1 .. n
    PROVE  /\ Without(s, i) \in [1 .. n - 1 -> S]
           /\ \A k \in 1 .. n - 1 : Without(s, i)[k] = IF k < i THEN s[k] ELSE s[k + 1]
<1>1. Len(s) = n
  BY FunctionIsSeq
<1>2. \A k \in 1 .. n - 1 : k \in 1 .. n /\ k + 1 \in 1 .. n
  OBVIOUS
<1> QED
  BY <1>1, <1>2 DEF Without

\* RemoveSample takes the same element out of the three vectors
LEMMA RemoveSampleKeeps ==
    ASSUME DataOK, NEW i \in 1 .. Count, RemoveSample(i)
    PROVE  /\ DataOK' /\ Count' = Count - 1
<1>1. CASE Count = 1
  BY <1>1, ClearKeeps DEF RemoveSample
<1>2. CASE Count # 1
  <2> DEFINE n == Count - 1
  <2>1. n \in Nat
    BY <1>2, DataLengths
  <2>2. /\ samples' = Without(samples, i) /\ labels' = Without(labels, i)
        /\ flags' = [k \in 1 .. n |-> IF \E q \in sequences : Frees(q, i, k) THEN "unused"
                                      ELSE Without(flags, i)[k]]
        /\ sequences' = {Shrunk(q, i) : q \in {r \in sequences : ~Collapses(r, i)}}
        /\ obstacles' = obstacles
    BY <1>2 DEF RemoveSample
  <2>3. /\ samples' \in [1 .. n -> Samples]
        /\ \A k \in 1 .. n : samples'[k] = IF k < i THEN samples[k] ELSE samples[k + 1]
    BY <2>2, DataLengths, WithoutIsFunction DEF Without, Count
  <2>4. /\ labels' \in [1 .. n -> Labels]
        /\ \A k \in 1 .. n : labels'[k] = IF k < i THEN labels[k] ELSE labels[k + 1]
    BY <2>2, DataLengths, WithoutIsFunction DEF Without, Count
  <2>5. Without(flags, i) \in [1 .. n -> Flags]
    BY WithoutIsFunction, DataLengths
  <2>6. flags' \in [1 .. n -> Flags]
    BY <2>2, <2>5 DEF Flags
  <2>7. \A k \in 1 .. n : labels'[k] = samples'[k].of
    <3> SUFFICES ASSUME NEW k \in 1 .. n PROVE labels'[k] = samples'[k].of
      OBVIOUS
    <3>1. k \in 1 .. Count /\ k + 1 \in 1 .. Count
      BY DataLengths
    <3> QED
      BY <3>1, <2>3, <2>4, DataLengths
  <2>8. sequences' \subseteq [first : Int, second : Int]
    <3>1. \A q \in sequences : Shrunk(q, i) \in [first : Int, second : Int]
      BY DEF Shrunk, DataOK, DataType
    <3> QED
      BY <2>2, <3>1
  <2>9. obstacles' \in Nat
    BY <2>2 DEF DataOK, DataType
  <2> QED
    BY <2>1, <2>3, <2>4, <2>6, <2>7, <2>8, <2>9, DataOKFromFunctions
<1> QED
  BY <1>1, <1>2

\* what a file holds, when loaded
LEMMA LoadFromKeeps ==
    ASSUME NEW f \in [samples : Seq(Samples), labels : Seq(Labels), flags : Seq(Flags),
                      sequences : SUBSET [first : Int, second : Int], obstacles : Nat],
           InStep(f.samples, f.labels, f.flags), LoadFrom(f)
    PROVE  DataOK'
BY DEF LoadFrom, DataOK, DataType, LabelsFollow

\* what an empty file is taken for
LEMMA LoadUnreadKeeps ==
    ASSUME LoadUnread
    PROVE  DataOK' /\ sequences' = {}
<1>1. PICK n \in 0 .. MaxSamples, p \in Places :
        \E l \in [1 .. n -> Labels], g \in [1 .. n -> Flags] :
            LoadFrom([NoData EXCEPT !.samples = [k \in 1 .. n |-> [at |-> p, of |-> l[k]]],
                                    !.labels = l, !.flags = g])
  BY DEF LoadUnread
<1>2. PICK l \in [1 .. n -> Labels], g \in [1 .. n -> Flags] :
            LoadFrom([NoData EXCEPT !.samples = [k \in 1 .. n |-> [at |-> p, of |-> l[k]]],
                                    !.labels = l, !.flags = g])
  BY <1>1
<1>3. /\ samples' = [k \in 1 .. n |-> [at |-> p, of |-> l[k]]] /\ labels' = l /\ flags' = g
      /\ sequences' = {} /\ obstacles' = 0
  BY <1>2 DEF LoadFrom, NoData
<1>4. samples' \in [1 .. n -> Samples] /\ \A k \in 1 .. n : labels'[k] = samples'[k].of
  BY <1>3 DEF Samples
<1>5. n \in Nat /\ sequences' \subseteq [first : Int, second : Int] /\ obstacles' \in Nat
  BY <1>3, DrawingBounds
<1> QED
  BY <1>3, <1>4, <1>5, DataOKFromFunctions

\* a slot that leaves the data alone keeps it in step
LEMMA DataUnchanged ==
    ASSUME DataOK, UNCHANGED dataVars
    PROVE  DataOK' /\ Count' = Count
BY DEF dataVars, DataOK, DataType, LabelsFollow, Count

\* ... and so for the file
LEMMA FileUnchanged ==
    ASSUME FileOK, UNCHANGED fileVars
    PROVE  FileOK'
BY DEF fileVars, FileOK, FileType

\* the invariant of the types and labels
LabelInv == DataOK /\ FileOK /\ StrokeOK

\* new samples are a function of their number
LEMMA NewSamplesAreFunctions ==
    ASSUME NEW new \in NewSamples
    PROVE  \E n \in Nat \ {0} : new \in [1 .. n -> Samples]
BY DrawingBounds DEF NewSamples

\* The program starts with empty vectors.
LEMMA LabelInit == Init => LabelInv
<1> SUFFICES ASSUME Init PROVE LabelInv
  OBVIOUS
<1>1. DataOK
  <2>1. /\ samples = <<>> /\ labels = <<>> /\ flags = <<>>
        /\ sequences = {} /\ obstacles = 0
    BY DEF Init, DataInit
  <2>2. DOMAIN samples = DOMAIN labels /\ DOMAIN flags = DOMAIN samples /\ DOMAIN samples = {}
    BY <2>1, SeqIsFunction, EmptySeq
  <2> QED
    BY <2>1, <2>2, EmptySeq DEF DataOK, DataType, LabelsFollow, InStep
<1>2. FileOK
  BY DEF Init, FileOK, FileType
<1>3. StrokeOK
  BY DEF Init, StrokeOK, None
<1> QED
  BY <1>1, <1>2, <1>3 DEF LabelInv

\* Every slot keeps the vectors of the data and of the file in step.
LEMMA LabelStep == LabelInv /\ [Next]_vars => LabelInv'
<1> SUFFICES ASSUME LabelInv, [Next]_vars PROVE LabelInv'
  OBVIOUS
<1> USE DEF LabelInv
<1>1. ASSUME NEW new \in NewSamples, DrawSamples(new) PROVE LabelInv'
  <2>1. PICK n \in Nat : new \in [1 .. n -> Samples]
    BY NewSamplesAreFunctions
  <2>2. DataOK'
    BY <1>1, <2>1, AddSampleKeeps DEF DrawSamples, Flags
  <2> QED
    BY <1>1, <2>2, FileUnchanged DEF DrawSamples, sessionVars, StrokeOK
<1>2. ASSUME NEW p \in Samples, DrawTrajectory(p) PROVE LabelInv'
  <2>1. <<p>> \in [1 .. 1 -> Samples]
    OBVIOUS
  <2>2. DataOK'
    BY <1>2, <2>1, AddSampleKeeps DEF DrawTrajectory, Flags
  <2>3. StrokeOK'
    BY <1>2, DataLengths DEF DrawTrajectory, StrokeOK
  <2> QED
    BY <1>2, <2>2, <2>3, FileUnchanged DEF DrawTrajectory
<1>3. CASE DrawObstacle
  BY <1>3, DataUnchanged, FileUnchanged DEF DrawObstacle, StrokeOK
<1>4. ASSUME NEW i \in 1 .. Count, EraseSample(i) PROVE LabelInv'
  BY <1>4, RemoveSampleKeeps, FileUnchanged DEF EraseSample, StrokeOK
<1>5. CASE EraseObstacle
  <2>1. DataOK'
    <3>1. /\ UNCHANGED <<samples, labels, flags, sequences>> /\ obstacles' \in Nat
      BY <1>5 DEF EraseObstacle, DataOK, DataType
    <3> QED
      BY <3>1 DEF DataOK, DataType, LabelsFollow
  <2> QED
    BY <1>5, <2>1, FileUnchanged DEF EraseObstacle, StrokeOK
<1>6. CASE EraseEnd
  BY <1>6, DataUnchanged, FileUnchanged DEF EraseEnd, StrokeOK
<1>7. CASE DrawingStopped
  <2>1. DataOK'
    <3>1. CASE trajectory # None
      BY <1>7, <3>1, AddSequenceKeeps DEF DrawingStopped, StrokeOK
    <3>2. CASE trajectory = None
      <4>1. UNCHANGED <<samples, labels, flags, sequences>> /\ obstacles' \in Nat
        BY <1>7, <3>2 DEF DrawingStopped, DataOK, DataType
      <4> QED
        BY <4>1 DEF DataOK, DataType, LabelsFollow
    <3> QED
      BY <3>1, <3>2
  <2> QED
    BY <1>7, <2>1, FileUnchanged DEF DrawingStopped, StrokeOK, None
<1>8. CASE ClearData
  BY <1>8, ClearKeeps, FileUnchanged DEF ClearData, StrokeOK
<1>9. ASSUME NEW new \in NewSamples, SetData(new) PROVE LabelInv'
  <2>1. PICK n \in Nat : new \in [1 .. n -> Samples]
    BY NewSamplesAreFunctions
  <2> QED
    BY <1>9, <2>1, SetSamplesKeeps, FileUnchanged DEF SetData, StrokeOK
<1>10. CASE Save
  <2>1. DataOK' /\ StrokeOK'
    BY <1>10, DataUnchanged DEF Save, sessionVars, StrokeOK
  <2>2. FileOK'
    <3>1. CASE Count > 0
      <4>1. file' = {Stored}
        BY <1>10, <3>1 DEF Save
      <4> QED
        BY <4>1 DEF FileOK, FileType, Stored, DataOK, DataType, LabelsFollow
    <3>2. CASE ~(Count > 0)
      <4>1. file' = {NoData}
        BY <1>10, <3>2 DEF Save
      <4>2. NoData \in [samples : Seq(Samples), labels : Seq(Labels), flags : Seq(Flags),
                        sequences : SUBSET [first : Int, second : Int], obstacles : Nat]
        BY EmptySeq DEF NoData
      <4>3. InStep(<<>>, <<>>, <<>>)
        <5>1. DOMAIN <<>> = {}
          BY SeqIsFunction, EmptySeq
        <5> QED
          BY <5>1 DEF InStep
      <4>4. NoData.samples = <<>> /\ NoData.labels = <<>> /\ NoData.flags = <<>>
        BY DEF NoData
      <4> QED
        BY <4>1, <4>2, <4>3, <4>4 DEF FileOK, FileType
    <3> QED
      BY <3>1, <3>2
  <2> QED
    BY <2>1, <2>2
<1>11. CASE Load
  <2>1. PICK f \in file : IF f = NoData THEN LoadUnread ELSE LoadFrom(f)
    BY <1>11 DEF Load
  <2>2. DataOK'
    BY <2>1, LoadUnreadKeeps, LoadFromKeeps DEF FileOK, FileType
  <2> QED
    BY <1>11, <2>2, FileUnchanged DEF Load, StrokeOK
<1>12. ASSUME NEW to \in [1 .. Count -> Places], SendToCanvas(to) PROVE LabelInv'
  BY <1>12, MoveSamplesKeeps, FileUnchanged DEF SendToCanvas, sessionVars, StrokeOK
<1>13. CASE ViewStep
  BY <1>13, DataUnchanged, FileUnchanged
     DEF ViewStep, DisplayOptionChanged, CanvasMoved, resizeEvent, FitToData, sessionVars, StrokeOK
<1>14. CASE UNCHANGED vars
  BY <1>14, DataUnchanged, FileUnchanged DEF vars, sessionVars, StrokeOK
<1> QED
  BY <1>1, <1>2, <1>3, <1>4, <1>5, <1>6, <1>7, <1>8, <1>9, <1>10, <1>11, <1>12, <1>13, <1>14
     DEF Next, DrawingStep, DataStep

\* Whatever is drawn, erased, saved, loaded and moved, every sample keeps its
\* flag and its label.
THEOREM LabelsAlwaysFollow == Spec => []LabelsFollow
<1>1. LabelInv => LabelsFollow
  BY DEF LabelInv, DataOK
<1> QED
  BY <1>1, LabelInit, LabelStep, PTL DEF Spec

-----------------------------------------------------------------------------
(* Sequences and flags.                                                      *)

\* every flagged sample is drawn
AllCovered == \A k \in 1 .. Count : flags[k] = "traj" => \E q \in sequences : Covers(q, k)

\* the three cases of a sequence when sample i is removed
LEMMA ShrunkCases ==
    ASSUME NEW q \in [first : Int, second : Int], q.first <= q.second, NEW i \in Int
    PROVE  /\ Shrunk(q, i) \in [first : Int, second : Int]
           /\ q.first > i => Shrunk(q, i).first = q.first - 1 /\ Shrunk(q, i).second = q.second - 1
           /\ q.first <= i /\ i <= q.second =>
                Shrunk(q, i).first = q.first /\ Shrunk(q, i).second = q.second - 1
           /\ q.second < i => Shrunk(q, i).first = q.first /\ Shrunk(q, i).second = q.second
BY DEF Shrunk

\* the sample that is at k once sample i has been removed was at
Was(k, i) == IF k < i THEN k ELSE k + 1

\* a sequence moves with its samples
LEMMA ShrunkCovers ==
    ASSUME NEW q \in [first : Int, second : Int], q.first <= q.second,
           NEW i \in Int, NEW k \in Int
    PROVE  Covers(Shrunk(q, i), k) <=> Covers(q, Was(k, i))
<1>1. CASE q.first > i
  BY <1>1, ShrunkCases DEF Covers, Was
<1>2. CASE q.first <= i /\ i <= q.second
  BY <1>2, ShrunkCases DEF Covers, Was
<1>3. CASE q.second < i
  <2>1. Shrunk(q, i).first = q.first /\ Shrunk(q, i).second = q.second
    BY <1>3, ShrunkCases
  <2>2. Covers(Shrunk(q, i), k) <=> q.first <= k /\ k <= q.second
    BY <2>1 DEF Covers
  <2>3. Covers(q, Was(k, i)) <=> q.first <= Was(k, i) /\ Was(k, i) <= q.second
    BY DEF Covers, Was
  <2> QED
    BY <1>3, <2>2, <2>3 DEF Was
<1> QED
  BY <1>1, <1>2, <1>3

\* and stays within the samples
LEMMA ShrunkWithin ==
    ASSUME NEW q \in [first : Int, second : Int], NEW n \in Nat, NEW i \in 1 .. n,
           1 <= q.first, q.first <= q.second, q.second <= n
    PROVE  1 <= Shrunk(q, i).first /\ Shrunk(q, i).second <= n - 1
<1>1. CASE q.first > i
  BY <1>1, ShrunkCases
<1>2. CASE q.first <= i /\ i <= q.second
  BY <1>2, ShrunkCases
<1>3. CASE q.second < i
  BY <1>3, ShrunkCases
<1> QED
  BY <1>1, <1>2, <1>3

\* and apart from those it was apart from
LEMMA ShrunkApart ==
    ASSUME NEW q \in [first : Int, second : Int], NEW r \in [first : Int, second : Int],
           q.first <= q.second, r.first <= r.second, q.second < r.first, NEW i \in Int
    PROVE  Shrunk(q, i).second < Shrunk(r, i).first
<1>1. /\ q.first > i => Shrunk(q, i).second = q.second - 1
      /\ q.first <= i /\ i <= q.second => Shrunk(q, i).second = q.second - 1
      /\ q.second < i => Shrunk(q, i).second = q.second
  BY ShrunkCases
<1>2. /\ r.first > i => Shrunk(r, i).first = r.first - 1
      /\ r.first <= i /\ i <= r.second => Shrunk(r, i).first = r.first
      /\ r.second < i => Shrunk(r, i).first = r.first
  BY ShrunkCases
<1> QED
  BY <1>1, <1>2

\* Erasing keeps a data set sound, however many sequences it shortens.
LEMMA RemoveSampleIsSound ==
    ASSUME DataOK, NEW i \in 1 .. Count, RemoveSample(i),
           WellPlaced(samples, flags, sequences), AllCovered
    PROVE  WellPlaced(samples, flags, sequences)' /\ AllCovered'
<1>1. CASE Count = 1
  <2>1. sequences' = {} /\ Count' = 0
    BY <1>1, ClearKeeps DEF RemoveSample, Clear
  <2> QED
    BY <2>1 DEF WellPlaced, AllCovered
<1>2. CASE Count # 1
  <2> DEFINE n == Count - 1
  <2>1. n \in Nat /\ Count \in Nat /\ Count' = n
    BY <1>2, DataLengths, RemoveSampleKeeps
  <2>2. /\ flags' = [k \in 1 .. n |-> IF \E q \in sequences : Frees(q, i, k) THEN "unused"
                                      ELSE Without(flags, i)[k]]
        /\ sequences' = {Shrunk(q, i) : q \in {r \in sequences : ~Collapses(r, i)}}
    BY <1>2 DEF RemoveSample
  <2>3. \A k \in 1 .. n : Without(flags, i)[k] = flags[Was(k, i)] /\ Was(k, i) \in 1 .. Count
    BY <2>1, DataLengths DEF Without, Was
  <2>4. \A k \in 1 .. n : flags'[k] = "traj" <=>
          flags[Was(k, i)] = "traj" /\ ~\E q \in sequences : Frees(q, i, k)
    BY <2>2, <2>3
  <2>5. \A q \in sequences : /\ q \in [first : Int, second : Int]
                             /\ 1 <= q.first /\ q.first <= q.second /\ q.second <= Count
    BY DEF WellPlaced, DataOK, DataType, Count
  <2>6. ASSUME NEW q \in sequences, NEW r \in sequences, NEW k \in Int,
               Covers(q, k), Covers(r, k)
        PROVE  q = r
    BY <2>5, <2>6 DEF WellPlaced, Covers
  \* those that stay are the shortened ones, of two samples at least
  <2>7. ASSUME NEW t \in sequences'
        PROVE  \E q \in sequences : t = Shrunk(q, i) /\ t.first < t.second
    <3>1. PICK q \in sequences : t = Shrunk(q, i) /\ ~Collapses(q, i)
      BY <2>2
    <3>2. t \in [first : Int, second : Int]
      BY <2>5, <3>1, ShrunkCases
    <3> QED
      BY <3>1, <3>2 DEF Collapses
  <2>8. \A t \in sequences' : 1 <= t.first /\ t.first <= t.second /\ t.second <= n
    <3> SUFFICES ASSUME NEW t \in sequences'
                 PROVE  1 <= t.first /\ t.first <= t.second /\ t.second <= n
      OBVIOUS
    <3>1. PICK q \in sequences : t = Shrunk(q, i) /\ t.first < t.second
      BY <2>7
    <3>2. 1 <= t.first /\ t.second <= n /\ t \in [first : Int, second : Int]
      BY <2>1, <2>5, <3>1, ShrunkWithin, ShrunkCases
    <3> QED
      BY <3>1, <3>2
  <2>9. \A t \in sequences' : \A k \in t.first .. t.second : flags'[k] = "traj"
    <3> SUFFICES ASSUME NEW t \in sequences', NEW k \in t.first .. t.second
                 PROVE  flags'[k] = "traj"
      OBVIOUS
    <3>1. PICK q \in sequences : t = Shrunk(q, i) /\ t.first < t.second
      BY <2>7
    <3>2. t \in [first : Int, second : Int] /\ k \in Int /\ Covers(t, k)
      BY <2>5, <3>1, ShrunkCases DEF Covers
    <3>3. k \in 1 .. n
      BY <2>1, <2>8, <3>2
    <3>4. Was(k, i) \in Int /\ Covers(q, Was(k, i))
      BY <2>1, <2>5, <3>1, <3>2, ShrunkCovers DEF Was
    <3>5. flags[Was(k, i)] = "traj"
      BY <3>4 DEF WellPlaced, Covers
    <3>6. ASSUME NEW r \in sequences, Frees(r, i, k) PROVE FALSE
      <4>1. Shrunk(r, i) = [first |-> k, second |-> k]
        BY <3>6 DEF Frees
      <4>2. Covers(Shrunk(r, i), k)
        BY <4>1, <3>2 DEF Covers
      <4>3. Covers(r, Was(k, i))
        BY <2>1, <2>5, <3>2, <4>2, ShrunkCovers
      <4>4. q = r
        BY <2>6, <3>4, <4>3
      <4> QED
        BY <3>1, <3>2, <4>1, <4>4
    <3> QED
      BY <2>4, <3>3, <3>5, <3>6
  <2>10. \A t, u \in sequences' : t = u \/ t.second < u.first \/ u.second < t.first
    <3> SUFFICES ASSUME NEW t \in sequences', NEW u \in sequences', t # u
                 PROVE  t.second < u.first \/ u.second < t.first
      OBVIOUS
    <3>1. PICK q \in sequences : t = Shrunk(q, i)
      BY <2>7
    <3>2. PICK r \in sequences : u = Shrunk(r, i)
      BY <2>7
    <3>3. q.second < r.first \/ r.second < q.first
      BY <3>1, <3>2 DEF WellPlaced
    <3> QED
      BY <2>1, <2>5, <3>1, <3>2, <3>3, ShrunkApart
  <2>11. AllCovered'
    <3> SUFFICES ASSUME NEW k \in 1 .. n, flags'[k] = "traj"
                 PROVE  \E t \in sequences' : Covers(t, k)
      BY <2>1 DEF AllCovered
    <3>1. flags[Was(k, i)] = "traj" /\ ~\E q \in sequences : Frees(q, i, k)
      BY <2>4
    <3>2. PICK q \in sequences : Covers(q, Was(k, i))
      BY <2>3, <3>1 DEF AllCovered
    <3>3. Covers(Shrunk(q, i), k) /\ Shrunk(q, i) \in [first : Int, second : Int]
      BY <2>1, <2>5, <3>2, ShrunkCovers, ShrunkCases
    <3>4. ~Collapses(q, i)
      <4>1. ASSUME Collapses(q, i) PROVE FALSE
        <5>1. Shrunk(q, i).first = k /\ Shrunk(q, i).second = k
          BY <3>3, <4>1 DEF Collapses, Covers
        <5>2. Shrunk(q, i) = [first |-> k, second |-> k]
          BY <3>3, <5>1
        <5> QED
          BY <3>1, <5>2 DEF Frees
      <4> QED
        BY <4>1
    <3>5. Shrunk(q, i) \in sequences'
      BY <2>2, <3>4
    <3> QED
      BY <3>3, <3>5
  <2> QED
    BY <2>1, <2>8, <2>9, <2>10, <2>11 DEF WellPlaced, Count
<1> QED
  BY <1>1, <1>2

\* The invariant of what is on the canvas, and of what is in the file.
CanvasInv ==
    /\ WellPlaced(samples, flags, sequences) /\ StrokeFits
    /\ \A k \in 1 .. Count : flags[k] = "traj" =>
         (\E q \in sequences : Covers(q, k)) \/ InStroke(k)
FileInv == ~fileInterrupted => \A f \in file : f # NoData /\ Sound(f.flags, f.sequences)

\* the two halves of DrawingInv: the canvas and the file
LEMMA InvParts == DrawingInv <=> (~interrupted => CanvasInv) /\ FileInv
BY DEF DrawingInv, CanvasInv, FileInv, NothingHidden

\* without a stroke CanvasInv says that the data set is sound
LEMMA CanvasAtRest ==
    ASSUME trajectory = None
    PROVE  CanvasInv <=> WellPlaced(samples, flags, sequences) /\ AllCovered
BY DEF CanvasInv, StrokeFits, InStroke, AllCovered

\* data without a sequence and without a flagged sample is sound
LEMMA UnusedIsSound ==
    ASSUME NEW n \in Nat, Count' = n, sequences' = {}, \A k \in 1 .. n : flags'[k] = "unused"
    PROVE  WellPlaced(samples, flags, sequences)' /\ AllCovered'
BY DEF WellPlaced, AllCovered

\* a slot that leaves the data and the stroke alone keeps the sequences placed
LEMMA CanvasUnchanged ==
    ASSUME UNCHANGED dataVars, UNCHANGED trajectory, CanvasInv
    PROVE  CanvasInv'
BY DEF dataVars, CanvasInv, StrokeFits, InStroke, Count, WellPlaced, Covers

\* a slot that does not write the file keeps what is saved sound
LEMMA FileInvUnchanged ==
    ASSUME UNCHANGED fileVars, FileInv
    PROVE  FileInv'
BY DEF fileVars, FileInv

\* new samples are put behind the sequences
LEMMA AddSampleIsPlaced ==
    ASSUME DataOK, NEW n \in Nat, NEW new \in [1 .. n -> Samples], NEW flag \in Flags,
           AddSample(new, flag), WellPlaced(samples, flags, sequences)
    PROVE  WellPlaced(samples, flags, sequences)'
<1>1. /\ Count \in Nat /\ Count' = Count + n /\ sequences' = sequences
      /\ \A k \in 1 .. Count : flags'[k] = flags[k]
  BY DataLengths, AddSampleKeeps DEF AddSample
<1>2. \A q \in sequences : q \in [first : Int, second : Int]
  BY DEF DataOK, DataType
<1>3. \A q \in sequences : 1 <= q.first /\ q.first <= q.second /\ q.second <= Count
  BY DEF WellPlaced, Count
<1>4. \A q \in sequences : q.second <= Count + n
  BY <1>1, <1>2, <1>3
<1>5. \A q \in sequences : \A k \in q.first .. q.second : flags'[k] = "traj"
  <2> SUFFICES ASSUME NEW q \in sequences, NEW k \in q.first .. q.second
               PROVE  flags'[k] = "traj"
    OBVIOUS
  <2>1. k \in 1 .. Count
    BY <1>1, <1>2, <1>3
  <2> QED
    BY <1>1, <2>1 DEF WellPlaced
<1> QED
  BY <1>1, <1>3, <1>4, <1>5 DEF WellPlaced, Count

\* An empty data set at rest, and no file, satisfy DrawingInv.
LEMMA DrawingInit == Init => DrawingInv
<1> SUFFICES ASSUME Init PROVE DrawingInv
  OBVIOUS
<1>1. sequences = {} /\ samples = <<>> /\ trajectory = None /\ file = {}
  BY DEF Init, DataInit
<1>2. Count = 0
  BY <1>1, EmptySeq DEF Count
<1>3. WellPlaced(samples, flags, sequences) /\ AllCovered
  BY <1>1, <1>2 DEF WellPlaced, AllCovered
<1> QED
  BY <1>1, <1>3, CanvasAtRest, InvParts DEF FileInv

\* new samples that are not part of a trajectory
LEMMA DrawSamplesIsSound ==
    ASSUME LabelInv, CanvasInv, NEW new \in NewSamples, DrawSamples(new)
    PROVE  CanvasInv'
<1>1. PICK n \in Nat : new \in [1 .. n -> Samples]
  BY NewSamplesAreFunctions
<1>2. /\ AddSample(new, "unused") /\ trajectory = None /\ trajectory' = None
  BY DEF DrawSamples, AtRest, sessionVars
<1>3. WellPlaced(samples, flags, sequences)'
  BY <1>1, <1>2, AddSampleIsPlaced DEF LabelInv, CanvasInv, Flags
<1>4. /\ Count \in Nat /\ Count' = Count + n /\ sequences' = sequences
      /\ \A k \in 1 .. Count : flags'[k] = flags[k]
      /\ \A k \in 1 .. n : flags'[Count + k] = "unused"
  BY <1>1, <1>2, DataLengths, AddSampleKeeps DEF LabelInv, Flags, AddSample
<1>5. AllCovered'
  <2> SUFFICES ASSUME NEW k \in 1 .. Count + n, flags'[k] = "traj"
               PROVE  \E q \in sequences : Covers(q, k)
    BY <1>4 DEF AllCovered
  <2>1. CASE k \in 1 .. Count
    <3>1. AllCovered
      BY <1>2, CanvasAtRest
    <3> QED
      BY <1>4, <2>1, <3>1 DEF AllCovered
  <2>2. CASE k \notin 1 .. Count
    <3>1. PICK j \in 1 .. n : k = Count + j
      <4>1. k - Count \in 1 .. n /\ k = Count + (k - Count)
        BY <1>4, <2>2
      <4> QED
        BY <4>1
    <3> QED
      BY <1>4, <3>1
  <2> QED
    BY <2>1, <2>2
<1>6. StrokeFits'
  BY <1>2 DEF StrokeFits
<1> QED
  BY <1>3, <1>5, <1>6 DEF CanvasInv, AllCovered

\* a point of a trajectory: the stroke grows at the end of the samples
LEMMA DrawTrajectoryIsSound ==
    ASSUME LabelInv, CanvasInv, NEW p \in Samples, DrawTrajectory(p)
    PROVE  CanvasInv'
<1>1. <<p>> \in [1 .. 1 -> Samples]
  OBVIOUS
<1>2. AddSample(<<p>>, "traj")
  BY DEF DrawTrajectory
<1>3. WellPlaced(samples, flags, sequences)'
  BY <1>1, <1>2, AddSampleIsPlaced DEF LabelInv, CanvasInv, Flags
<1>4. /\ Count \in Nat /\ Count' = Count + 1 /\ sequences' = sequences
      /\ \A k \in 1 .. Count : flags'[k] = flags[k]
      /\ flags'[Count + 1] = "traj"
  <2>1. /\ Count' = Count + 1 /\ \A k \in 1 .. Count : flags'[k] = flags[k]
        /\ \A k \in 1 .. 1 : flags'[Count + k] = "traj"
    BY <1>1, <1>2, AddSampleKeeps DEF LabelInv, Flags
  <2>2. Count \in Nat /\ sequences' = sequences
    BY <1>2, DataLengths DEF LabelInv, AddSample
  <2> QED
    BY <2>1, <2>2
<1> DEFINE first == IF trajectory = None THEN Count + 1 ELSE trajectory.first
<1>5. trajectory' = [first |-> first, second |-> Count + 1]
  BY DEF DrawTrajectory
<1>6. /\ first \in Int /\ 1 <= first /\ first <= Count + 1
      /\ \A q \in sequences : q.second < first
      /\ \A k \in first .. Count : flags[k] = "traj"
  <2>1. CASE trajectory = None
    <3>1. \A q \in sequences : q.second \in Int /\ q.second <= Count
      BY DEF CanvasInv, WellPlaced, Count, LabelInv, DataOK, DataType
    <3> QED
      BY <1>4, <2>1, <3>1
  <2>2. CASE trajectory # None
    BY <1>4, <2>2 DEF CanvasInv, StrokeFits, LabelInv, StrokeOK
  <2> QED
    BY <2>1, <2>2
<1> HIDE DEF first
<1>7. trajectory' # None /\ trajectory'.first = first /\ trajectory'.second = Count + 1
  BY <1>4, <1>5 DEF None
<1>8. \A k \in first .. Count + 1 : flags'[k] = "traj"
  <2> SUFFICES ASSUME NEW k \in first .. Count + 1 PROVE flags'[k] = "traj"
    OBVIOUS
  <2>1. k = Count + 1 \/ (k \in first .. Count /\ k \in 1 .. Count)
    BY <1>4, <1>6
  <2> QED
    BY <1>4, <1>6, <2>1
<1>9. StrokeFits'
  BY <1>4, <1>6, <1>7, <1>8 DEF StrokeFits
<1>10. ASSUME NEW k \in 1 .. Count + 1, flags'[k] = "traj"
       PROVE  (\E q \in sequences : Covers(q, k)) \/ k >= first
  <2>1. CASE k = Count + 1
    BY <1>4, <1>6, <2>1
  <2>2. CASE k # Count + 1
    <3>1. k \in 1 .. Count
      BY <1>4, <2>2
    <3>2. (\E q \in sequences : Covers(q, k)) \/ InStroke(k)
      BY <1>4, <1>10, <3>1 DEF CanvasInv
    <3> QED
      BY <3>2 DEF InStroke, first
  <2> QED
    BY <2>1, <2>2
<1>11. \A k \in 1 .. Count' : flags'[k] = "traj" =>
         (\E q \in sequences' : Covers(q, k)) \/ InStroke(k)'
  BY <1>4, <1>7, <1>10 DEF InStroke
<1> QED
  BY <1>3, <1>9, <1>11 DEF CanvasInv

\* the end of a stroke, which becomes a sequence
LEMMA AddStrokeIsSound ==
    ASSUME LabelInv, CanvasInv, trajectory # None, AddSequence(trajectory)
    PROVE  WellPlaced(samples, flags, sequences)' /\ AllCovered'
<1> DEFINE t == trajectory
<1>1. /\ Count \in Nat /\ t \in [first : Nat, second : Nat]
      /\ 1 <= t.first /\ t.first <= t.second /\ t.second = Count
      /\ \A q \in sequences : q.second < t.first
  BY DataLengths DEF LabelInv, StrokeOK, CanvasInv, StrokeFits
<1>2. /\ flags' = [k \in 1 .. Count |-> IF k \in t.first .. t.second THEN "traj" ELSE flags[k]]
      /\ sequences' = sequences \cup {t} /\ UNCHANGED <<samples, labels, obstacles>>
  BY <1>1 DEF AddSequence
<1>3. Count' = Count
  BY <1>2 DEF Count
<1> HIDE DEF t
<1>4. \A q \in sequences : /\ q \in [first : Int, second : Int]
                           /\ 1 <= q.first /\ q.first <= q.second /\ q.second <= Count
  BY DEF CanvasInv, WellPlaced, LabelInv, DataOK, DataType, Count
<1>5. \A q \in sequences' : 1 <= q.first /\ q.first <= q.second /\ q.second <= Count
  BY <1>1, <1>2, <1>4
<1>6. ASSUME NEW q \in sequences', NEW k \in q.first .. q.second PROVE flags'[k] = "traj"
  <2>1. k \in 1 .. Count
    BY <1>1, <1>2, <1>4
  <2>2. CASE q = t
    BY <1>2, <2>1, <2>2
  <2>3. CASE q \in sequences
    <3>1. flags[k] = "traj"
      BY <2>3 DEF CanvasInv, WellPlaced
    <3> QED
      BY <1>2, <2>1, <3>1
  <2> QED
    BY <1>2, <2>2, <2>3
<1>7. \A q, r \in sequences' : q = r \/ q.second < r.first \/ r.second < q.first
  <2>1. \A q, r \in sequences : q = r \/ q.second < r.first \/ r.second < q.first
    BY DEF CanvasInv, WellPlaced
  <2> QED
    BY <1>1, <1>2, <2>1
<1>8. WellPlaced(samples, flags, sequences)'
  BY <1>3, <1>5, <1>6, <1>7 DEF WellPlaced, Count
<1>9. AllCovered'
  <2> SUFFICES ASSUME NEW k \in 1 .. Count, flags'[k] = "traj"
               PROVE  \E q \in sequences' : Covers(q, k)
    BY <1>3 DEF AllCovered
  <2>1. CASE k \in t.first .. t.second
    BY <1>2, <2>1 DEF Covers
  <2>2. CASE k \notin t.first .. t.second
    <3>1. flags[k] = "traj"
      BY <1>2, <2>2
    <3>2. (\E q \in sequences : Covers(q, k)) \/ InStroke(k)
      BY <3>1 DEF CanvasInv
    <3>3. ~InStroke(k)
      BY <1>1, <2>2 DEF InStroke, t
    <3> QED
      BY <1>2, <3>2, <3>3
  <2> QED
    BY <2>1, <2>2
<1> QED
  BY <1>8, <1>9

\* what is saved between two strokes is sound
LEMMA SaveIsSound ==
    ASSUME LabelInv, ~interrupted => CanvasInv, Save
    PROVE  FileInv'
<1> SUFFICES ASSUME ~fileInterrupted' PROVE \A f \in file' : f # NoData /\ Sound(f.flags, f.sequences)
  BY DEF FileInv
<1>1. ~interrupted /\ Count > 0 /\ file' = {Stored} /\ trajectory = None
  <2>1. fileInterrupted' = (interrupted \/ trajectory # None \/ Count = 0)
    BY DEF Save
  <2>2. ~interrupted /\ trajectory = None /\ ~(Count = 0)
    BY <2>1, Zenon
  <2>3. Count \in Nat
    BY DataLengths DEF LabelInv
  <2>4. Count > 0
    BY <2>2, <2>3
  <2>5. file' = {Stored}
    BY <2>4 DEF Save
  <2> QED
    BY <2>2, <2>4, <2>5
<1>2. WellPlaced(samples, flags, sequences) /\ AllCovered
  BY <1>1, CanvasAtRest
<1>3. Stored # NoData
  <2>1. Stored.samples = samples /\ NoData.samples = <<>>
    BY DEF Stored, NoData
  <2>2. samples # <<>>
    BY <1>1, EmptySeq DEF Count
  <2> QED
    BY <2>1, <2>2
<1>4. Len(flags) = Len(samples) /\ DOMAIN flags = 1 .. Count
  BY DataLengths DEF LabelInv, Count
<1>5. Sound(flags, sequences)
  BY <1>2, <1>4 DEF Sound, WellPlaced, AllCovered
<1> QED
  BY <1>1, <1>3, <1>5 DEF Stored

\* and so is what is loaded, unless it had been saved after an interruption or
\* without samples
LEMMA LoadIsSound ==
    ASSUME LabelInv, FileInv, Load, ~fileInterrupted
    PROVE  WellPlaced(samples, flags, sequences)' /\ AllCovered'
<1>1. PICK f \in file : LoadFrom(f) /\ Sound(f.flags, f.sequences)
  BY DEF Load, FileInv
<1>2. /\ f.samples \in Seq(Samples) /\ f.flags \in Seq(Flags)
      /\ DOMAIN f.flags = DOMAIN f.samples
  BY DEF LabelInv, FileOK, FileType, InStep
<1>3. /\ Len(f.flags) \in Nat /\ Len(f.samples) \in Nat
      /\ DOMAIN f.flags = 1 .. Len(f.flags) /\ DOMAIN f.samples = 1 .. Len(f.samples)
  BY <1>2, SeqIsFunction
<1>4. Len(f.flags) = Len(f.samples)
  BY <1>2, <1>3, SameLength
<1>5. samples' = f.samples /\ flags' = f.flags /\ sequences' = f.sequences
  BY <1>1 DEF LoadFrom
<1>6. WellPlaced(f.samples, f.flags, f.sequences)
  BY <1>1, <1>4 DEF Sound, WellPlaced
<1>7. \A k \in 1 .. Len(f.samples) : f.flags[k] = "traj" => \E q \in f.sequences : Covers(q, k)
  BY <1>1, <1>3, <1>4 DEF Sound
<1> QED
  BY <1>5, <1>6, <1>7 DEF AllCovered, Count

\* moving the samples leaves their flags and the sequences
LEMMA MoveSamplesIsSound ==
    ASSUME LabelInv, CanvasInv, NEW to \in [1 .. Count -> Places], MoveSamples(to),
           UNCHANGED trajectory
    PROVE  CanvasInv'
<1>1. Count' = Count /\ UNCHANGED <<flags, sequences>>
  BY MoveSamplesKeeps DEF LabelInv, MoveSamples
<1>2. WellPlaced(samples, flags, sequences)'
  BY <1>1 DEF CanvasInv, WellPlaced, Count
<1>3. StrokeFits'
  BY <1>1 DEF CanvasInv, StrokeFits
<1> QED
  BY <1>1, <1>2, <1>3 DEF CanvasInv, InStroke, Covers

\* The proof that a step preserves DrawingInv: the canvas unless the step has
\* interrupted a stroke, the file unless the step is Save.
LEMMA DrawingStepInv == LabelInv /\ DrawingInv /\ [Next]_vars => DrawingInv'
<1> SUFFICES ASSUME LabelInv, DrawingInv, [Next]_vars
             PROVE  (~interrupted' => CanvasInv') /\ FileInv'
  BY DEF DrawingInv, CanvasInv, FileInv, NothingHidden
<1> DEFINE Goal == (~interrupted' => CanvasInv') /\ FileInv'
<1>0. (~interrupted => CanvasInv) /\ FileInv
  BY InvParts
\* for steps after which there is no stroke
<1>a. ASSUME trajectory' = None, ~interrupted' => (WellPlaced(samples, flags, sequences)' /\ AllCovered')
      PROVE  ~interrupted' => CanvasInv'
  BY <1>a DEF CanvasInv, StrokeFits, InStroke, AllCovered
<1>1. ASSUME NEW new \in NewSamples, DrawSamples(new) PROVE Goal
  <2>1. UNCHANGED fileVars /\ UNCHANGED interrupted
    BY <1>1 DEF DrawSamples, sessionVars
  <2> QED
    BY <1>0, <1>1, <2>1, DrawSamplesIsSound, FileInvUnchanged
<1>2. ASSUME NEW p \in Samples, DrawTrajectory(p) PROVE Goal
  <2>1. UNCHANGED fileVars /\ UNCHANGED interrupted
    BY <1>2 DEF DrawTrajectory
  <2> QED
    BY <1>0, <1>2, <2>1, DrawTrajectoryIsSound, FileInvUnchanged
<1>3. CASE DrawObstacle
  <2>1. UNCHANGED <<dataVars, trajectory, interrupted, fileVars>>
    BY <1>3 DEF DrawObstacle
  <2> QED
    BY <1>0, <2>1, CanvasUnchanged, FileInvUnchanged
<1>4. ASSUME NEW i \in 1 .. Count, EraseSample(i) PROVE Goal
  <2>1. /\ UNCHANGED <<trajectory, interrupted, fileVars>> /\ trajectory = None
        /\ RemoveSample(i)
    BY <1>4 DEF EraseSample
  <2>2. ~interrupted' => (WellPlaced(samples, flags, sequences)' /\ AllCovered')
    BY <1>0, <2>1, CanvasAtRest, RemoveSampleIsSound DEF LabelInv
  <2>3. trajectory' = None
    BY <2>1
  <2> QED
    BY <1>0, <1>a, <2>1, <2>2, <2>3, FileInvUnchanged
<1>5. CASE EraseObstacle
  <2>1. UNCHANGED <<samples, flags, sequences, trajectory, interrupted, fileVars>>
    BY <1>5 DEF EraseObstacle
  <2>2. CanvasInv => CanvasInv'
    BY <2>1 DEF CanvasInv, StrokeFits, InStroke, Count, WellPlaced, Covers
  <2> QED
    BY <1>0, <2>1, <2>2, FileInvUnchanged
<1>6. CASE EraseEnd
  <2>1. UNCHANGED <<dataVars, trajectory, interrupted, fileVars>>
    BY <1>6 DEF EraseEnd
  <2> QED
    BY <1>0, <2>1, CanvasUnchanged, FileInvUnchanged
<1>7. CASE DrawingStopped
  <2>1. UNCHANGED <<interrupted, fileVars>> /\ trajectory' = None
    BY <1>7 DEF DrawingStopped
  <2>2. ~interrupted => (WellPlaced(samples, flags, sequences)' /\ AllCovered')
    <3>1. CASE trajectory # None
      <4>1. AddSequence(trajectory)
        BY <1>7, <3>1 DEF DrawingStopped
      <4> QED
        BY <1>0, <3>1, <4>1, AddStrokeIsSound
    <3>2. CASE trajectory = None
      <4>1. UNCHANGED <<samples, flags, sequences>>
        BY <1>7, <3>2 DEF DrawingStopped
      <4>2. ~interrupted => WellPlaced(samples, flags, sequences) /\ AllCovered
        BY <1>0, <3>2, CanvasAtRest
      <4> QED
        BY <4>1, <4>2 DEF WellPlaced, AllCovered, Count, Covers
    <3> QED
      BY <3>1, <3>2
  <2> QED
    BY <1>0, <1>a, <2>1, <2>2, FileInvUnchanged
<1>8. CASE ClearData
  <2>1. Clear /\ UNCHANGED <<trajectory, fileVars>> /\ interrupted' = (trajectory # None)
    BY <1>8 DEF ClearData, Interrupt
  <2>2. WellPlaced(samples, flags, sequences)' /\ AllCovered'
    <3>1. Count' = 0 /\ sequences' = {}
      BY <2>1, ClearKeeps DEF Clear
    <3> QED
      BY <3>1, UnusedIsSound
  <2> QED
    BY <1>0, <1>a, <2>1, <2>2, FileInvUnchanged
<1>9. ASSUME NEW new \in NewSamples, SetData(new) PROVE Goal
  <2>1. SetSamples(new) /\ UNCHANGED <<trajectory, fileVars>> /\ interrupted' = (trajectory # None)
    BY <1>9 DEF SetData, Interrupt
  <2>2. PICK n \in Nat : new \in [1 .. n -> Samples]
    BY NewSamplesAreFunctions
  <2>3. WellPlaced(samples, flags, sequences)' /\ AllCovered'
    BY <2>1, <2>2, SetSamplesKeeps, UnusedIsSound
  <2> QED
    BY <1>0, <1>a, <2>1, <2>3, FileInvUnchanged
<1>10. CASE Save
  <2>1. UNCHANGED <<dataVars, trajectory, interrupted>>
    BY <1>10 DEF Save, sessionVars
  <2> QED
    BY <1>0, <1>10, <2>1, CanvasUnchanged, SaveIsSound
<1>11. CASE Load
  <2>1. /\ UNCHANGED <<trajectory, fileVars>>
        /\ interrupted' = (fileInterrupted \/ trajectory # None)
    BY <1>11 DEF Load
  <2>2. ASSUME ~interrupted'
        PROVE  CanvasInv'
    <3>1. ~fileInterrupted /\ trajectory = None
      BY <2>1, <2>2, Zenon
    <3>2. WellPlaced(samples, flags, sequences)' /\ AllCovered'
      BY <1>0, <1>11, <3>1, LoadIsSound
    <3>3. trajectory' = None
      BY <2>1, <3>1
    <3> QED
      BY <1>a, <2>2, <3>2, <3>3
  <2> QED
    BY <1>0, <2>1, <2>2, FileInvUnchanged
<1>12. ASSUME NEW to \in [1 .. Count -> Places], SendToCanvas(to) PROVE Goal
  <2>1. MoveSamples(to) /\ UNCHANGED <<trajectory, interrupted, fileVars>>
    BY <1>12 DEF SendToCanvas, sessionVars
  <2> QED
    BY <1>0, <2>1, MoveSamplesIsSound, FileInvUnchanged
<1>13. CASE ViewStep
  <2>1. UNCHANGED <<dataVars, trajectory, interrupted, fileVars>>
    BY <1>13 DEF ViewStep, DisplayOptionChanged, CanvasMoved, resizeEvent, FitToData, sessionVars
  <2> QED
    BY <1>0, <2>1, CanvasUnchanged, FileInvUnchanged
<1>14. CASE UNCHANGED vars
  <2>1. UNCHANGED <<dataVars, trajectory, interrupted, fileVars>>
    BY <1>14 DEF vars, sessionVars
  <2> QED
    BY <1>0, <2>1, CanvasUnchanged, FileInvUnchanged
<1> QED
  BY <1>1, <1>2, <1>3, <1>4, <1>5, <1>6, <1>7, <1>8, <1>9, <1>10, <1>11, <1>12, <1>13, <1>14
     DEF Next, DrawingStep, DataStep

\* As long as no stroke has been interrupted, the data is sound but for the stroke,
\* and so is the file: the inductive invariant of the two theorems below.
THEOREM DrawingInvHolds == Spec => []DrawingInv
BY LabelInit, LabelStep, DrawingInit, DrawingStepInv, PTL DEF Spec

\* As long as no stroke has been interrupted, the sequences are ranges of
\* flagged samples, apart from each other, whatever has been erased, saved and
\* loaded.
THEOREM SequencesAlwaysFit == Spec => []SequencesFit
<1>1. DrawingInv => SequencesFit
  BY DEF DrawingInv, SequencesFit
<1> QED
  BY <1>1, DrawingInvHolds, PTL

\* ... and every sample is on one of the layers of the canvas.
THEOREM NothingIsHidden == Spec => []NothingHidden
<1>1. DrawingInv => NothingHidden
  BY DEF DrawingInv, NothingHidden
<1> QED
  BY <1>1, DrawingInvHolds, PTL

=============================================================================
