-------------------------- MODULE ProcessingProofs --------------------------
(***************************************************************************)
(* Proofs about Processing for every value of its constants:                *)
(*  - the types are correct (TypeCorrect);                                   *)
(*  - the models are created, changed, evaluated and deleted under `mutex'   *)
(*    (ModelsLocked, NothingDangles).                                        *)
(* The second follows from LockInv of ProcessingInv, which also says what    *)
(* the steps a slot still has to do need: every slot is well locked in       *)
(* itself (ProgramsAreSlots), its rest stays so (TailIsWellLocked), and so    *)
(* do two slots nested by processEvents (NestedCallIsWellLocked).            *)
(***************************************************************************)
EXTENDS ProcessingInv, SequenceTheorems, TLAPS

\* an area is a natural number
LEMMA AreaIsNat ==
    ASSUME NEW s \in [w : Nat, h : Nat]
    PROVE  Area(s) \in Nat
BY DEF Area

\* the sizes of the canvas have natural sides
LEMMA SizesAreNat == \A s \in Sizes : s \in [w : Nat, h : Nat]
BY SizesAssumption

-----------------------------------------------------------------------------
(* The slots are well locked, each in itself.                                *)

\* Of the steps s, those that need mutex are between p, which takes it, and q,
\* before which it is not released.
Block(s, p, q) ==
    /\ p \in 1 .. Len(s) /\ q \in Nat /\ s[p] \in Takes
    /\ \A k \in 1 .. q - 1 : k <= Len(s) => s[k] # "unlock"
    /\ \A i \in 1 .. Len(s) : s[i] \in Guarded => i \in p + 1 .. q

\* A slot is well locked, and takes mutex before it first releases it.
Slot(s) ==
    /\ s \in Seq(Steps)
    /\ WellLocked(s, "free")
    /\ (\E k \in 1 .. Len(s) : s[k] = "unlock") =>
         \E j \in 1 .. Len(s) : s[j] \in Takes /\ \A k \in 1 .. j - 1 : s[k] # "unlock"

\* What a slot with one block of steps under mutex has to satisfy.
LEMMA OneBlock ==
    ASSUME NEW s \in Seq(Steps), NEW p \in Int, NEW q \in Int, Block(s, p, q)
    PROVE  Slot(s)
<1>1. ASSUME NEW i \in 1 .. Len(s), s[i] \in Guarded PROVE Held(s, "free", i)
  <2>1. p \in 0 .. i - 1 /\ p # 0 /\ s[p] \in Takes
    BY <1>1 DEF Block
  <2>2. \A k \in p + 1 .. i - 1 : s[k] # "unlock"
    BY <1>1 DEF Block
  <2> QED
    BY <2>1, <2>2 DEF Held
<1>2. WellLocked(s, "free")
  BY <1>1 DEF WellLocked
<1>3. (\E k \in 1 .. Len(s) : s[k] = "unlock") =>
        \E j \in 1 .. Len(s) : s[j] \in Takes /\ \A k \in 1 .. j - 1 : s[k] # "unlock"
  <2> SUFFICES ASSUME NEW u \in 1 .. Len(s), s[u] = "unlock"
               PROVE  p \in 1 .. Len(s) /\ s[p] \in Takes /\ \A k \in 1 .. p - 1 : s[k] # "unlock"
    OBVIOUS
  <2>1. u \in p + 1 .. q
    BY DEF Block, Guarded
  <2> QED
    BY <2>1 DEF Block
<1> QED
  BY <1>2, <1>3 DEF Slot

\* What a slot with no step that needs mutex has to satisfy.
LEMMA NoBlock ==
    ASSUME NEW s \in Seq(Steps), \A i \in 1 .. Len(s) : s[i] \notin Guarded
    PROVE  Slot(s)
BY DEF Slot, WellLocked, Guarded

\* Every slot is well locked: one step per slot; ClassifyFailed takes mutex
\* three times.
LEMMA ProgramsAreSlots == \A h \in DOMAIN Program : Slot(Program[h])
<1>1. Slot(Classify)
  <2>1. Classify \in Seq(Steps)
    BY DEF Classify, Steps, ModelSteps, Creations
  <2>2. Block(Classify, 5, 9)
    BY DEF Classify, Block, Takes, Guarded, ModelSteps, Creations
  <2> QED
    BY <2>1, <2>2, OneBlock
<1>2. Slot(ClassifyDirect)
  <2>1. ClassifyDirect \in Seq(Steps)
    BY DEF ClassifyDirect, Steps, ModelSteps, Creations
  <2>2. Block(ClassifyDirect, 5, 8)
    BY DEF ClassifyDirect, Block, Takes, Guarded, ModelSteps, Creations
  <2> QED
    BY <2>1, <2>2, OneBlock
<1>3. Slot(ClassifyCross)
  <2>1. ClassifyCross \in Seq(Steps)
    BY DEF ClassifyCross, Steps, ModelSteps, Creations
  <2>2. Block(ClassifyCross, 2, 5)
    BY DEF ClassifyCross, Block, Takes, Guarded, ModelSteps, Creations
  <2> QED
    BY <2>1, <2>2, OneBlock
<1>4. Slot(Regression)
  <2>1. Regression \in Seq(Steps)
    BY DEF Regression, Steps, ModelSteps, Creations
  <2>2. Block(Regression, 5, 8)
    BY DEF Regression, Block, Takes, Guarded, ModelSteps, Creations
  <2> QED
    BY <2>1, <2>2, OneBlock
<1>5. Slot(Dynamize)
  <2>1. Dynamize \in Seq(Steps)
    BY DEF Dynamize, Steps, ModelSteps, Creations
  <2>2. Block(Dynamize, 5, 10)
    BY DEF Dynamize, Block, Takes, Guarded, ModelSteps, Creations
  <2> QED
    BY <2>1, <2>2, OneBlock
<1>6. Slot(Cluster)
  <2>1. Cluster \in Seq(Steps)
    BY DEF Cluster, Steps, ModelSteps, Creations
  <2>2. Block(Cluster, 2, 10)
    BY DEF Cluster, Block, Takes, Guarded, ModelSteps, Creations
  <2> QED
    BY <2>1, <2>2, OneBlock
<1>7. Slot(ClusterIterate)
  <2>1. ClusterIterate \in Seq(Steps)
    BY DEF ClusterIterate, Steps, ModelSteps, Creations
  <2>2. Block(ClusterIterate, 2, 4)
    BY DEF ClusterIterate, Block, Takes, Guarded, ModelSteps, Creations
  <2> QED
    BY <2>1, <2>2, OneBlock
<1>8. Slot(Maximize)
  <2>1. Maximize \in Seq(Steps)
    BY DEF Maximize, Steps, ModelSteps, Creations
  <2>2. Block(Maximize, 1, 10)
    BY DEF Maximize, Block, Takes, Guarded, ModelSteps, Creations
  <2> QED
    BY <2>1, <2>2, OneBlock
<1>9. Slot(MaximizeContinue)
  <2>1. MaximizeContinue \in Seq(Steps)
    BY DEF MaximizeContinue, Steps, ModelSteps, Creations
  <2>2. Block(MaximizeContinue, 1, 5)
    BY DEF MaximizeContinue, Block, Takes, Guarded, ModelSteps, Creations
  <2> QED
    BY <2>1, <2>2, OneBlock
<1>10. Slot(Compare)
  <2>1. Compare \in Seq(Steps)
    BY DEF Compare, Steps, ModelSteps, Creations
  <2>2. Block(Compare, 1, 7)
    BY DEF Compare, Block, Takes, Guarded, ModelSteps, Creations
  <2> QED
    BY <2>1, <2>2, OneBlock
<1>11. Slot(Clear)
  <2>1. Clear \in Seq(Steps)
    BY DEF Clear, Steps, ModelSteps, Creations
  <2>2. Block(Clear, 5, 9)
    BY DEF Clear, Block, Takes, Guarded, ModelSteps, Creations
  <2> QED
    BY <2>1, <2>2, OneBlock
<1>12. Slot(AvoidOptionChanged)
  <2>1. AvoidOptionChanged \in Seq(Steps)
    BY DEF AvoidOptionChanged, Steps, ModelSteps, Creations
  <2>2. Block(AvoidOptionChanged, 1, 3)
    BY DEF AvoidOptionChanged, Block, Takes, Guarded, ModelSteps, Creations
  <2> QED
    BY <2>1, <2>2, OneBlock
<1>13. Slot(ZoomChanged)
  <2>1. ZoomChanged \in Seq(Steps)
    BY DEF ZoomChanged, Steps, ModelSteps, Creations
  <2>2. Block(ZoomChanged, 6, 8)
    BY DEF ZoomChanged, Block, Takes, Guarded, ModelSteps, Creations
  <2> QED
    BY <2>1, <2>2, OneBlock
<1>14. Slot(CanvasMoved)
  <2>1. CanvasMoved \in Seq(Steps)
    BY DEF CanvasMoved, Steps, ModelSteps, Creations
  <2>2. Block(CanvasMoved, 6, 8)
    BY DEF CanvasMoved, Block, Takes, Guarded, ModelSteps, Creations
  <2> QED
    BY <2>1, <2>2, OneBlock
<1>15. Slot(resizeEvent)
  <2>1. resizeEvent \in Seq(Steps)
    BY DEF resizeEvent, Steps, ModelSteps, Creations
  <2>2. Block(resizeEvent, 6, 8)
    BY DEF resizeEvent, Block, Takes, Guarded, ModelSteps, Creations
  <2> QED
    BY <2>1, <2>2, OneBlock
<1>16. Slot(Erase)
  <2>1. Erase \in Seq(Steps)
    BY DEF Erase, Steps, ModelSteps, Creations
  <2>2. Block(Erase, 5, 7)
    BY DEF Erase, Block, Takes, Guarded, ModelSteps, Creations
  <2> QED
    BY <2>1, <2>2, OneBlock
<1>17. Slot(Navigation)
  <2>1. Navigation \in Seq(Steps)
    BY DEF Navigation, Steps, ModelSteps, Creations
  <2>2. Block(Navigation, 1, 3)
    BY DEF Navigation, Block, Takes, Guarded, ModelSteps, Creations
  <2> QED
    BY <2>1, <2>2, OneBlock
<1>18. Slot(Query)
  <2>1. Query \in Seq(Steps)
    BY DEF Query, Steps, ModelSteps, Creations
  <2>2. Block(Query, 1, 3)
    BY DEF Query, Block, Takes, Guarded, ModelSteps, Creations
  <2> QED
    BY <2>1, <2>2, OneBlock
<1>19. Slot(ColorMapChanged)
  <2>1. ColorMapChanged \in Seq(Steps)
    BY DEF ColorMapChanged, Steps, ModelSteps, Creations
  <2>2. \A i \in 1 .. Len(ColorMapChanged) : ColorMapChanged[i] \notin Guarded
    BY DEF ColorMapChanged, Guarded, ModelSteps, Creations
  <2> QED
    BY <2>1, <2>2, NoBlock
<1>20. Slot(ObstacleDrawn)
  <2>1. ObstacleDrawn \in Seq(Steps)
    BY DEF ObstacleDrawn, Steps, ModelSteps, Creations
  <2>2. \A i \in 1 .. Len(ObstacleDrawn) : ObstacleDrawn[i] \notin Guarded
    BY DEF ObstacleDrawn, Guarded, ModelSteps, Creations
  <2> QED
    BY <2>1, <2>2, NoBlock
<1>21. Slot(ClassifyFailed)
  <2> DEFINE s == ClassifyFailed
  <2>1. s \in Seq(Steps)
    BY DEF ClassifyFailed, Steps, ModelSteps, Creations
  <2>2. Len(s) = 19 /\ s[5] \in Takes /\ s[13] \in Takes /\ s[18] \in Takes
    BY DEF ClassifyFailed, Takes
  <2>3. \A i \in 1 .. 19 : s[i] \in Guarded => i \in 6 .. 8 \cup 14 .. 17 \cup {19}
    BY DEF ClassifyFailed, Guarded, ModelSteps, Creations
  <2>4. \A k \in 1 .. 19 : s[k] = "unlock" => k \in {8, 17, 19}
    BY DEF ClassifyFailed
  <2> HIDE DEF s
  <2>5. \A i \in 6 .. 8 : Held(s, "free", i)
    BY <2>2, <2>4 DEF Held
  <2>6. \A i \in 14 .. 17 : Held(s, "free", i)
    BY <2>2, <2>4 DEF Held
  <2>7. Held(s, "free", 19)
    BY <2>2, <2>4 DEF Held
  <2>8. WellLocked(s, "free")
    BY <2>2, <2>3, <2>5, <2>6, <2>7 DEF WellLocked
  <2>9. \E j \in 1 .. Len(s) : s[j] \in Takes /\ \A k \in 1 .. j - 1 : s[k] # "unlock"
    BY <2>2, <2>4
  <2>10. Slot(s)
    BY <2>1, <2>8, <2>9 DEF Slot
  <2> QED
    BY <2>10 DEF s
<1>22. \A h \in DOMAIN Program :
        Program[h] \in {Classify, ClassifyDirect, ClassifyFailed, ClassifyCross, Regression,
                        Dynamize, Cluster, ClusterIterate, Maximize, MaximizeContinue, Compare,
                        Clear, AvoidOptionChanged, ColorMapChanged, ZoomChanged, CanvasMoved,
                        resizeEvent, Erase, ObstacleDrawn, Navigation, Query}
  BY DEF Program
<1> QED
  BY <1>1, <1>2, <1>3, <1>4, <1>5, <1>6, <1>7, <1>8, <1>9, <1>10, <1>11, <1>12, <1>13,
     <1>14, <1>15, <1>16, <1>17, <1>18, <1>19, <1>20, <1>21, <1>22

-----------------------------------------------------------------------------
(* Types: the steps of the drawing thread.                                   *)

\* The variables of a group keep their types when they do not change.
LEMMA UnchangedTypes ==
    ASSUME TypeOK
    PROVE  /\ UNCHANGED modelVars => ModelTypes'
           /\ UNCHANGED canvasVars => CanvasTypes'
           /\ UNCHANGED lockVars => LockTypes'
           /\ UNCHANGED timerVars => TimerTypes'
           /\ UNCHANGED threadVars => ThreadTypes'
BY DEF TypeOK, ModelTypes, modelVars, CanvasTypes, canvasVars, LockTypes, lockVars,
       TimerTypes, timerVars, Ranks, ThreadTypes, threadVars

\* the mark of an unknown pixel has the type of a rank
LEMMA UnknownIsInt == Unknown \in Int
BY DEF Unknown

\* the thread's local variables between two batches have their types
LEMMA NoLocalsAreLocals == NoLocals \in Locals
BY UnknownIsInt DEF NoLocals, Locals

\* the area the thread paints is a natural number
LEMMA DimsAreNat == TypeOK => Area(dims) \in Nat
BY AreaIsNat DEF TypeOK, TimerTypes

\* the counters among the thread's local variables
LEMMA LocalsCount ==
    ASSUME NEW l \in Locals
    PROVE  l.i \in Int /\ l.i + 1 \in Int /\ l.stop \in Int /\ l.steps - 1 \in Int
BY DEF Locals

\* run keeps the types: one step per action of Run
LEMMA TypeRun ==
    ASSUME TypeOK, Run, UNCHANGED <<todo, timedOut>>
    PROVE  TypeOK'
<1> USE DEF GuiTypes
<1>1. CASE RunBegin
  <2>1. TimerTypes'
    BY <1>1 DEF RunBegin, TypeOK, TimerTypes, Ranks
  <2>2. ThreadTypes'
    BY <1>1 DEF RunBegin, TypeOK, ThreadTypes, PCs, Locals
  <2> QED
    BY <1>1, <2>1, <2>2, UnchangedTypes DEF RunBegin, TypeOK
<1>2. CASE RunLoop
  <2>1. ThreadTypes'
    BY <1>2 DEF RunLoop, TypeOK, ThreadTypes, PCs, Locals
  <2> QED
    BY <1>2, <2>1, UnchangedTypes DEF RunLoop, TypeOK
<1>3. CASE RunCheck
  <2>1. ThreadTypes'
    BY <1>3 DEF RunCheck, TypeOK, ThreadTypes, PCs, Locals, CallClear
  <2> QED
    BY <1>3, <2>1, UnchangedTypes DEF RunCheck, TypeOK
<1>4. CASE Emit
  <2>1. CanvasTypes'
    BY <1>4 DEF Emit, TypeOK, CanvasTypes, Images, ImageOfMap
  <2>2. ThreadTypes'
    BY <1>4 DEF Emit, TypeOK, ThreadTypes, PCs, Locals
  <2> QED
    BY <1>4, <2>1, <2>2, UnchangedTypes DEF Emit, TypeOK
<1> QED
  BY <1>1, <1>2, <1>3, <1>4 DEF Run

\* the bounds of a batch are integers, because refineMax is not 0
LEMMA BatchIsInt ==
    ASSUME TypeOK
    PROVE  /\ BatchStart(Area(dims), refineLevel, refineMax) \in Int
           /\ BatchStop(Area(dims), refineLevel, refineMax) \in Int
<1>1. Area(dims) \in Nat
  BY DimsAreNat
<1> QED
  BY <1>1 DEF TypeOK, TimerTypes, BatchStart, BatchStop

\* Refine keeps the types: one step per action of Refine
LEMMA TypeRefine ==
    ASSUME TypeOK, Refine, UNCHANGED <<todo, timedOut>>
    PROVE  TypeOK'
<1> USE DEF GuiTypes
<1>1. CASE RefineDone
  <2>1. TimerTypes'
    BY <1>1 DEF RefineDone, TypeOK, TimerTypes, Ranks
  <2>2. ThreadTypes'
    BY <1>1 DEF RefineDone, TypeOK, ThreadTypes, PCs, Locals
  <2> QED
    BY <1>1, <2>1, <2>2, UnchangedTypes DEF RefineDone, TypeOK
<1>2. CASE RefineSize
  <2>1. ThreadTypes'
    BY <1>2 DEF RefineSize, TypeOK, ThreadTypes, PCs, Locals, CallClear
  <2> QED
    BY <1>2, <2>1, UnchangedTypes DEF RefineSize, TypeOK
<1>3. CASE RefineFirst
  <2>1. ThreadTypes'
    BY <1>3 DEF RefineFirst, TypeOK, ThreadTypes, PCs, Locals, CallClear
  <2> QED
    BY <1>3, <2>1, UnchangedTypes DEF RefineFirst, TypeOK
<1>4. CASE ChooseMax
  <2>1. TimerTypes'
    BY <1>4, LevelsAssumption DEF ChooseMax, TypeOK, TimerTypes, Ranks
  <2>2. ThreadTypes'
    BY <1>4 DEF ChooseMax, TypeOK, ThreadTypes, PCs, Locals
  <2> QED
    BY <1>4, <2>1, <2>2, UnchangedTypes DEF ChooseMax, TypeOK
<1>5. CASE RefineBatch
  <2>1. ThreadTypes'
    BY <1>5, BatchIsInt DEF RefineBatch, TypeOK, ThreadTypes, PCs, Locals
  <2> QED
    BY <1>5, <2>1, UnchangedTypes DEF RefineBatch, TypeOK
<1>6. CASE IncRead
  <2>1. ThreadTypes'
    BY <1>6 DEF IncRead, TypeOK, ThreadTypes, PCs, Locals, TimerTypes
  <2> QED
    BY <1>6, <2>1, UnchangedTypes DEF IncRead, TypeOK
<1>7. CASE IncWrite
  <2>1. TimerTypes'
    BY <1>7 DEF IncWrite, TypeOK, TimerTypes, Ranks, ThreadTypes, Locals
  <2>2. ThreadTypes'
    BY <1>7, NoLocalsAreLocals DEF IncWrite, TypeOK, ThreadTypes, PCs
  <2> QED
    BY <1>7, <2>1, <2>2, UnchangedTypes DEF IncWrite, TypeOK
<1> QED
  BY <1>1, <1>2, <1>3, <1>4, <1>5, <1>6, <1>7 DEF Refine

\* the painter, when it paints, is a kind of model that exists
LEMMA PainterIsAModel == Paints(Painter) => Painter \in models /\ Painter \in Kinds
BY DEF Paints, Painter, Kinds

\* what TestFast looks up in perm is a rank or one of the two marks
LEMMA LookupIsInt ==
    ASSUME NEW i \in Int, NEW p \in Lookup(i)
    PROVE  p \in Int
BY DEF Lookup, Unknown, Outside

\* TestFast keeps the types
LEMMA TypeTestFast ==
    ASSUME TypeOK, TestFast, UNCHANGED <<todo, timedOut>>
    PROVE  TypeOK'
<1> USE DEF GuiTypes
<1>1. CASE TestFastBegin
  <2>3. loc \in Locals
    BY DEF TypeOK, ThreadTypes
  <2>4. PICK n \in Int : loc' = [loc EXCEPT !.stop = n]
    BY <1>1, <2>3, DimsAreNat, LocalsCount DEF TestFastBegin, Locals
  <2>1. ThreadTypes'
    BY <1>1, <2>3, <2>4 DEF TestFastBegin, ThreadTypes, PCs, Locals
  <2> QED
    BY <1>1, <2>1, UnchangedTypes DEF TestFastBegin, TypeOK
<1>2. CASE TestFastPixel
  <2>3. loc \in Locals
    BY DEF TypeOK, ThreadTypes
  <2>4. loc.i \in Int /\ [loc EXCEPT !.i = @ + 1] \in Locals
    BY <2>3, LocalsCount DEF Locals
  <2>5. PICK p \in Int :
          \/ loc' = [loc EXCEPT !.i = @ + 1] /\ UNCHANGED pc
          \/ loc' = [loc EXCEPT !.pixel = p, !.current = TRUE] /\ pc' = "lockModel"
    BY <1>2, <2>4, LookupIsInt DEF TestFastPixel
  <2>6. [loc EXCEPT !.pixel = p, !.current = TRUE] \in Locals
    BY <2>3, <2>5 DEF Locals
  <2>7. pc \in PCs /\ "lockModel" \in PCs
    BY DEF TypeOK, ThreadTypes, PCs
  <2>1. ThreadTypes'
    BY <2>4, <2>5, <2>6, <2>7 DEF ThreadTypes
  <2>2. LockTypes'
    BY <1>2 DEF TestFastPixel, TypeOK, LockTypes, Threads
  <2> QED
    BY <1>2, <2>1, <2>2, UnchangedTypes DEF TestFastPixel, TypeOK
<1>3. CASE TestFastLock
  <2>1. LockTypes'
    BY <1>3 DEF TestFastLock, TypeOK, LockTypes, Threads
  <2>2. ThreadTypes'
    BY <1>3 DEF TestFastLock, TypeOK, ThreadTypes, PCs, Locals
  <2> QED
    BY <1>3, <2>1, <2>2, UnchangedTypes DEF TestFastLock, TypeOK
<1>4. CASE TestFastTest
  <2>1. LockTypes'
    BY <1>4 DEF TestFastTest, TypeOK, LockTypes, Threads
  <2>3. loc \in Locals
    BY DEF TypeOK, ThreadTypes
  <2>4. Paints(Painter) => [loc EXCEPT !.using = Painter] \in Locals
    BY <2>3, PainterIsAModel DEF Locals
  <2>5. [loc EXCEPT !.i = @ + 1, !.pixel = Unknown] \in Locals
    BY <2>3, UnknownIsInt, LocalsCount DEF Locals
  <2>6. {"pixel", "paint"} \subseteq PCs
    BY DEF PCs
  <2>2. ThreadTypes'
    BY <1>4, <2>4, <2>5, <2>6 DEF TestFastTest, ThreadTypes
  <2> QED
    BY <1>4, <2>1, <2>2, UnchangedTypes DEF TestFastTest, TypeOK
<1>5. CASE TestFastPaint
  <2>1. TimerTypes'
    BY <1>5 DEF TestFastPaint, TypeOK, TimerTypes, Ranks
  <2>2. LockTypes'
    BY <1>5 DEF TestFastPaint, TypeOK, LockTypes, Threads
  <2>3. ThreadTypes'
    BY <1>5, UnknownIsInt, LocalsCount DEF TestFastPaint, TypeOK, ThreadTypes, PCs, Locals
  <2> QED
    BY <1>5, <2>1, <2>2, <2>3, UnchangedTypes DEF TestFastPaint, TypeOK
<1>6. CASE TestFastEnd
  <2>1. ThreadTypes'
    BY <1>6, NoLocalsAreLocals DEF TestFastEnd, TypeOK, ThreadTypes, PCs
  <2> QED
    BY <1>6, <2>1, UnchangedTypes DEF TestFastEnd, TypeOK
<1> QED
  BY <1>1, <1>2, <1>3, <1>4, <1>5, <1>6 DEF TestFast

\* VectorsFast keeps the types
LEMMA TypeVectorsFast ==
    ASSUME TypeOK, VectorsFast, UNCHANGED <<todo, timedOut>>
    PROVE  TypeOK'
<1> USE DEF GuiTypes
<1>1. CASE FieldBegin
  <2>1. ThreadTypes'
    BY <1>1 DEF FieldBegin, TypeOK, ThreadTypes, PCs, Locals
  <2> QED
    BY <1>1, <2>1, UnchangedTypes DEF FieldBegin, TypeOK
<1>2. CASE FieldRate
  <2>1. ThreadTypes'
    BY <1>2 DEF FieldRate, TypeOK, ThreadTypes, PCs, Locals
  <2> QED
    BY <1>2, <2>1, UnchangedTypes DEF FieldRate, TypeOK
<1>3. CASE FieldDraw
  <2>1. LockTypes'
    BY <1>3 DEF FieldDraw, TypeOK, LockTypes, Threads
  <2>2. ThreadTypes'
    BY <1>3, BoundsAssumption DEF FieldDraw, TypeOK, ThreadTypes, PCs, Locals
  <2> QED
    BY <1>3, <2>1, <2>2, UnchangedTypes DEF FieldDraw, TypeOK
<1>4. CASE FieldPoint
  <2>1. LockTypes'
    BY <1>4 DEF FieldPoint, TypeOK, LockTypes, Threads
  <2>2. ThreadTypes'
    BY <1>4, NoLocalsAreLocals DEF FieldPoint, TypeOK, ThreadTypes, PCs
  <2> QED
    BY <1>4, <2>1, <2>2, UnchangedTypes DEF FieldPoint, TypeOK
<1>5. CASE FieldLock
  <2>1. LockTypes'
    BY <1>5 DEF FieldLock, TypeOK, LockTypes, Threads
  <2>2. ThreadTypes'
    BY <1>5 DEF FieldLock, TypeOK, ThreadTypes, PCs, Locals, Kinds
  <2> QED
    BY <1>5, <2>1, <2>2, UnchangedTypes DEF FieldLock, TypeOK
<1>6. CASE FieldTest
  <2>1. LockTypes'
    BY <1>6 DEF FieldTest, TypeOK, LockTypes, Threads
  <2>2. ThreadTypes'
    BY <1>6, LocalsCount DEF FieldTest, TypeOK, ThreadTypes, PCs, Locals
  <2> QED
    BY <1>6, <2>1, <2>2, UnchangedTypes DEF FieldTest, TypeOK
<1> QED
  BY <1>1, <1>2, <1>3, <1>4, <1>5, <1>6 DEF VectorsFast

\* Maximization keeps the types
LEMMA TypeMaximization ==
    ASSUME TypeOK, Maximization, UNCHANGED <<todo, timedOut>>
    PROVE  TypeOK'
<1> USE DEF GuiTypes
<1>1. CASE OptimizeBegin
  <2>1. ThreadTypes'
    BY <1>1 DEF OptimizeBegin, TypeOK, ThreadTypes, PCs, Locals
  <2> QED
    BY <1>1, <2>1, UnchangedTypes DEF OptimizeBegin, TypeOK
<1>2. CASE OptimizeLock
  <2>1. LockTypes'
    BY <1>2 DEF OptimizeLock, TypeOK, LockTypes, Threads
  <2>2. ThreadTypes'
    BY <1>2 DEF OptimizeLock, TypeOK, ThreadTypes, PCs, Locals, Kinds
  <2> QED
    BY <1>2, <2>1, <2>2, UnchangedTypes DEF OptimizeLock, TypeOK
<1>3. CASE OptimizeTest
  <2> USE <1>3 DEF OptimizeTest, TypeOK, ModelTypes
  <2>3. converged' \in BOOLEAN
    BY Zenon
  <2>4. age' \in Nat
    BY SMT
  <2>1. ModelTypes'
    BY <2>3, <2>4
  <2>2. ThreadTypes'
    BY <1>3 DEF OptimizeTest, TypeOK, ThreadTypes, PCs, Locals
  <2> QED
    BY <1>3, <2>1, <2>2, UnchangedTypes DEF OptimizeTest, TypeOK
<1>4. CASE OptimizeDraw
  <2>1. LockTypes'
    BY <1>4 DEF OptimizeDraw, TypeOK, LockTypes, Threads
  <2>2. ThreadTypes'
    BY <1>4, NoLocalsAreLocals DEF OptimizeDraw, TypeOK, ThreadTypes, PCs
  <2> QED
    BY <1>4, <2>1, <2>2, UnchangedTypes DEF OptimizeDraw, TypeOK
<1>5. CASE OptimizeDone
  <2>1. TimerTypes'
    BY <1>5 DEF OptimizeDone, TypeOK, TimerTypes, Ranks
  <2>2. ThreadTypes'
    BY <1>5 DEF OptimizeDone, TypeOK, ThreadTypes, PCs, Locals
  <2> QED
    BY <1>5, <2>1, <2>2, UnchangedTypes DEF OptimizeDone, TypeOK
<1> QED
  BY <1>1, <1>2, <1>3, <1>4, <1>5 DEF Maximization

-----------------------------------------------------------------------------
(* Types: the steps of the GUI.                                              *)

\* a step of the GUI is the head of what it has to do
LEMMA StepTakesHead ==
    ASSUME todo \in Seq(Steps), NEW op, Step(op)
    PROVE  /\ todo' \in Seq(Steps)
           /\ Len(todo') = Len(todo) - 1 /\ Len(todo) >= 1
           /\ todo[1] = op
           /\ \A i \in 1 .. Len(todo') : todo'[i] = todo[i + 1]
BY HeadTailProperties DEF Step

\* what the parts that several steps share do to the types
LEMMA TypeNewMaps ==
    ASSUME TypeOK, NewMaps, UNCHANGED <<bRunning, refineLevel, refineMax, dims>>
    PROVE  TimerTypes'
BY DEF TypeOK, TimerTypes, NewMaps, Ranks

\* Outdate keeps the types of the map and of what is posted
LEMMA TypeOutdate ==
    ASSUME TypeOK, Outdate, UNCHANGED <<pc, bRunning, refineLevel, refineMax, dims, mapSize>>
    PROVE  TimerTypes' /\ ThreadTypes'
<1>1. TimerTypes'
  BY DEF TypeOK, TimerTypes, Outdate, Ranks
<1>2. ThreadTypes'
  BY DEF TypeOK, ThreadTypes, Outdate, Locals
<1> QED
  BY <1>1, <1>2

\* OutdateShown keeps the types of what is shown
LEMMA TypeShown ==
    ASSUME TypeOK, UNCHANGED size,
           Outdate \/ UNCHANGED posted, OutdateShown \/ shown' = NoPictures \/ UNCHANGED shown
    PROVE  CanvasTypes'
<1>1. \A image \in Images : Outdated(image) \in Images
  BY DEF Outdated, Images
<1>2. NoPictures \in [map : Images, model : BOOLEAN]
  BY DEF NoPictures, Images
<1>3. posted' \in [map : Images, model : BOOLEAN]
  BY <1>1 DEF TypeOK, CanvasTypes, Outdate
<1>4. shown' \in [map : Images, model : BOOLEAN]
  BY <1>1, <1>2 DEF TypeOK, CanvasTypes, OutdateShown
<1> QED
  BY <1>3, <1>4 DEF TypeOK, CanvasTypes

\* what a slot creates is a model of one of the five kinds
LEMMA CreatedIsKind == \A op \in Creations : Created(op) \subseteq Kinds
BY DEF Creations, Created, Kinds

\* DrawTimer's methods called by the GUI keep the types
LEMMA TypeGuiTimer ==
    ASSUME TypeOK, GuiTimer
    PROVE  TypeOK'
<1> USE DEF Disturb
<1>1. CASE GuiStop
  <2>1. GuiTypes'
    BY <1>1, StepTakesHead DEF GuiStop, TypeOK, GuiTypes
  <2>2. TimerTypes'
    BY <1>1 DEF GuiStop, TypeOK, TimerTypes, Ranks
  <2> QED
    BY <1>1, <2>1, <2>2, UnchangedTypes DEF GuiStop, TypeOK
<1>2. CASE GuiClearLevel
  <2>1. GuiTypes'
    BY <1>2, StepTakesHead DEF GuiClearLevel, TypeOK, GuiTypes
  <2>2. TimerTypes'
    BY <1>2 DEF GuiClearLevel, TypeOK, TimerTypes, Ranks
  <2> QED
    BY <1>2, <2>1, <2>2, UnchangedTypes DEF GuiClearLevel, TypeOK
<1>3. CASE GuiClearSize
  <2>1. GuiTypes'
    BY <1>3, StepTakesHead DEF GuiClearSize, TypeOK, GuiTypes
  <2>2. TimerTypes'
    BY <1>3, SizesAreNat DEF GuiClearSize, TypeOK, TimerTypes, Ranks, CanvasTypes
  <2> QED
    BY <1>3, <2>1, <2>2, UnchangedTypes DEF GuiClearSize, TypeOK
<1>4. CASE GuiClearMaps
  <2>1. GuiTypes'
    BY <1>4, StepTakesHead DEF GuiClearMaps, TypeOK, GuiTypes
  <2>2. TimerTypes'
    BY <1>4, TypeNewMaps DEF GuiClearMaps
  <2>3. ThreadTypes'
    BY <1>4, UnknownIsInt DEF GuiClearMaps, TypeOK, ThreadTypes, PCs, Locals
  <2> QED
    BY <1>4, <2>1, <2>2, <2>3, UnchangedTypes DEF GuiClearMaps, TypeOK
<1>5. CASE GuiStart
  <2>1. GuiTypes'
    BY <1>5, StepTakesHead DEF GuiStart, TypeOK, GuiTypes
  <2>2. ThreadTypes'
    BY <1>5 DEF GuiStart, TypeOK, ThreadTypes, PCs, Locals, Start
  <2> QED
    BY <1>5, <2>1, <2>2, UnchangedTypes DEF GuiStart, TypeOK
<1> QED
  BY <1>1, <1>2, <1>3, <1>4, <1>5 DEF GuiTimer

\* locking and unlocking by the GUI keeps the types
LEMMA TypeGuiLocks ==
    ASSUME TypeOK, GuiLocks
    PROVE  TypeOK'
<1> USE DEF Disturb
<1>1. CASE GuiLock
  <2>1. GuiTypes'
    BY <1>1, StepTakesHead DEF GuiLock, TypeOK, GuiTypes
  <2>2. LockTypes'
    BY <1>1 DEF GuiLock, TypeOK, LockTypes, Threads
  <2> QED
    BY <1>1, <2>1, <2>2, UnchangedTypes DEF GuiLock, TypeOK
<1>2. CASE GuiTryLock
  <2>1. GuiTypes'
    BY <1>2, StepTakesHead DEF GuiTryLock, TypeOK, GuiTypes
  <2>2. LockTypes'
    BY <1>2 DEF GuiTryLock, TypeOK, LockTypes, Threads
  <2> QED
    BY <1>2, <2>1, <2>2, UnchangedTypes DEF GuiTryLock, TypeOK
<1>3. CASE GuiUnlock
  <2>1. GuiTypes'
    BY <1>3, StepTakesHead DEF GuiUnlock, TypeOK, GuiTypes
  <2>2. LockTypes'
    BY <1>3 DEF GuiUnlock, TypeOK, LockTypes, Threads
  <2> QED
    BY <1>3, <2>1, <2>2, UnchangedTypes DEF GuiUnlock, TypeOK
<1> QED
  BY <1>1, <1>2, <1>3 DEF GuiLocks

\* the GUI's steps on models keep the types
LEMMA TypeGuiModels ==
    ASSUME TypeOK, GuiModels
    PROVE  TypeOK'
<1> USE DEF Disturb
<1>1. CASE GuiDelete
  <2>1. GuiTypes'
    BY <1>1, StepTakesHead DEF GuiDelete, TypeOK, GuiTypes
  <2>2. ModelTypes'
    BY <1>1 DEF GuiDelete, TypeOK, ModelTypes, Kinds
  <2>3. CanvasTypes'
    BY <1>1, TypeShown DEF GuiDelete
  <2>4. TimerTypes' /\ ThreadTypes'
    BY <1>1, TypeOutdate DEF GuiDelete
  <2> QED
    BY <1>1, <2>1, <2>2, <2>3, <2>4, UnchangedTypes DEF GuiDelete, TypeOK
<1>2. CASE GuiNew
  <2>1. GuiTypes'
    BY <1>2, StepTakesHead DEF GuiNew, TypeOK, GuiTypes
  <2>2. ModelTypes'
    <3>1. usesTimer' \in BOOLEAN /\ converged' \in BOOLEAN
      BY <1>2, Zenon DEF GuiNew
    <3>2. models' \subseteq Kinds /\ age' \in Nat /\ UNCHANGED bColorMap
      BY <1>2, CreatedIsKind DEF GuiNew, TypeOK, ModelTypes
    <3> QED
      BY <3>1, <3>2 DEF TypeOK, ModelTypes
  <2>3. CanvasTypes'
    BY <1>2, TypeShown DEF GuiNew
  <2>4. TimerTypes' /\ ThreadTypes'
    BY <1>2, TypeOutdate DEF GuiNew
  <2> QED
    BY <1>2, <2>1, <2>2, <2>3, <2>4, UnchangedTypes DEF GuiNew, TypeOK
<1>3. CASE GuiSetAvoid
  <2>1. GuiTypes'
    BY <1>3, StepTakesHead DEF GuiSetAvoid, TypeOK, GuiTypes
  <2>2. CanvasTypes'
    BY <1>3, TypeShown DEF GuiSetAvoid
  <2>3. TimerTypes' /\ ThreadTypes'
    BY <1>3, TypeOutdate DEF GuiSetAvoid
  <2> QED
    BY <1>3, <2>1, <2>2, <2>3, UnchangedTypes DEF GuiSetAvoid, TypeOK
<1>4. CASE GuiSetColorMap
  <2>1. GuiTypes'
    BY <1>4, StepTakesHead DEF GuiSetColorMap, TypeOK, GuiTypes
  <2>2. ModelTypes'
    BY <1>4 DEF GuiSetColorMap, TypeOK, ModelTypes, Kinds
  <2>3. CanvasTypes'
    BY <1>4, TypeShown DEF GuiSetColorMap
  <2>4. TimerTypes' /\ ThreadTypes'
    BY <1>4, TypeOutdate DEF GuiSetColorMap
  <2> QED
    BY <1>4, <2>1, <2>2, <2>3, <2>4, UnchangedTypes DEF GuiSetColorMap, TypeOK
<1>5. CASE GuiToggle
  <2>1. GuiTypes'
    BY <1>5, StepTakesHead DEF GuiToggle, TypeOK, GuiTypes
  <2>2. ModelTypes'
    BY <1>5 DEF GuiToggle, TypeOK, ModelTypes, Kinds
  <2> QED
    BY <1>5, <2>1, <2>2, UnchangedTypes DEF GuiToggle, TypeOK
<1>6. CASE GuiUseModel
  <2>1. GuiTypes'
    BY <1>6, StepTakesHead DEF GuiUseModel, TypeOK, GuiTypes, timerAll
  <2> QED
    BY <1>6, <2>1, UnchangedTypes DEF GuiUseModel, TypeOK, timerAll
<1> QED
  BY <1>1, <1>2, <1>3, <1>4, <1>5, <1>6 DEF GuiModels

\* the GUI's steps on the canvas keep the types
LEMMA TypeGuiCanvas ==
    ASSUME TypeOK, GuiCanvas
    PROVE  TypeOK'
<1> USE DEF Disturb
<1>1. CASE GuiSetView
  <2>1. GuiTypes'
    BY <1>1, StepTakesHead DEF GuiSetView, TypeOK, GuiTypes
  <2>2. CanvasTypes'
    BY <1>1, TypeShown DEF GuiSetView
  <2>3. TimerTypes' /\ ThreadTypes'
    BY <1>1, TypeOutdate DEF GuiSetView
  <2> QED
    BY <1>1, <2>1, <2>2, <2>3, UnchangedTypes DEF GuiSetView, TypeOK
<1>2. CASE GuiSetSize
  <2>1. GuiTypes'
    BY <1>2, StepTakesHead DEF GuiSetSize, TypeOK, GuiTypes
  <2>2. CanvasTypes'
    BY <1>2 DEF GuiSetSize, TypeOK, CanvasTypes, Images, OutdateShown, Outdate, Outdated
  <2>3. TimerTypes' /\ ThreadTypes'
    BY <1>2, TypeOutdate DEF GuiSetSize
  <2> QED
    BY <1>2, <2>1, <2>2, <2>3, UnchangedTypes DEF GuiSetSize, TypeOK
<1>3. CASE GuiWipe
  <2>1. GuiTypes'
    BY <1>3, StepTakesHead DEF GuiWipe, TypeOK, GuiTypes
  <2>2. CanvasTypes'
    BY <1>3, TypeShown DEF GuiWipe
  <2> QED
    BY <1>3, <2>1, <2>2, UnchangedTypes DEF GuiWipe, TypeOK
<1> QED
  BY <1>1, <1>2, <1>3 DEF GuiCanvas

\* delivering images and entering slots keeps the types
LEMMA TypeEventLoop ==
    ASSUME TypeOK, DeliverMap \/ DeliverModel \/ GuiEvents \/ GuiCalls
    PROVE  TypeOK'
<1>1. CASE DeliverMap
  <2>1. CanvasTypes'
    BY <1>1 DEF DeliverMap, TypeOK, CanvasTypes, Images
  <2> QED
    BY <1>1, <2>1, UnchangedTypes DEF DeliverMap, TypeOK, GuiTypes
<1>2. CASE DeliverModel
  <2>1. CanvasTypes'
    BY <1>2 DEF DeliverModel, TypeOK, CanvasTypes
  <2> QED
    BY <1>2, <2>1, UnchangedTypes DEF DeliverModel, TypeOK, GuiTypes
<1>3. CASE GuiEvents
  <2>1. GuiTypes'
    BY <1>3, StepTakesHead DEF GuiEvents, TypeOK, GuiTypes, timerAll
  <2> QED
    BY <1>3, <2>1, UnchangedTypes DEF GuiEvents, TypeOK, timerAll
<1>4. CASE GuiCalls
  <2>1. \A h \in Handlers : Program[h] \in Seq(Steps)
    BY ProgramsAreSlots, HandlersAssumption DEF Slot
  <2>2. \A h \in Handlers : Program[h] \o todo \in Seq(Steps)
    BY <2>1, ConcatProperties DEF TypeOK, GuiTypes
  <2>3. todo' \in Seq(Steps)
    BY <1>4, <2>1, <2>2, HandlersAssumption DEF GuiCalls, Call, NestedCall
  <2>4. UNCHANGED <<timerAll, timedOut>>
    BY <1>4 DEF GuiCalls, Call, NestedCall
  <2> QED
    BY <2>3, <2>4, UnchangedTypes DEF TypeOK, GuiTypes, timerAll
<1> QED
  BY <1>1, <1>2, <1>3, <1>4

\* The types hold when the program has started.
LEMMA TypeInit == Init => TypeOK
<1> SUFFICES ASSUME Init PROVE TypeOK
  OBVIOUS
<1>1. ModelTypes /\ LockTypes
  BY DEF Init, TimerInit, ModelTypes, LockTypes
<1>2. CanvasTypes
  BY DEF Init, TimerInit, CanvasTypes, Images
<1>3. TimerTypes
  <2>1. Ranks = {}
    BY DEF Init, TimerInit, Ranks, Area
  <2>2. bigMap \in [Ranks -> {"blank", "fresh", "stale"}]
    BY <2>1 DEF Init, TimerInit
  <2>3. refineLevel \in Nat /\ refineMax \in Nat \ {0}
    BY DEF Init, TimerInit
  <2>6. bRunning \in BOOLEAN
    BY DEF Init, TimerInit
  <2>4. dims = [w |-> 0, h |-> 0] /\ mapSize = dims
    BY DEF Init, TimerInit
  <2>5. dims \in [w : Nat, h : Nat]
    BY <2>4
  <2> QED
    BY <2>2, <2>3, <2>4, <2>5, <2>6 DEF TimerTypes
<1>4. ThreadTypes
  BY NoLocalsAreLocals DEF Init, TimerInit, ThreadTypes, PCs
<1>5. GuiTypes
  BY EmptySeq DEF Init, TimerInit, GuiTypes
<1> QED
  BY <1>1, <1>2, <1>3, <1>4, <1>5 DEF TypeOK

\* Clear, run by the thread, keeps the types
LEMMA TypeClear ==
    ASSUME TypeOK, ThreadClear, UNCHANGED <<todo, timedOut>>
    PROVE  TypeOK'
<1>1. TimerTypes'
  <2>1. CASE pc = "clearLevel"
    BY <2>1 DEF ThreadClear, TypeOK, TimerTypes, Ranks
  <2>2. CASE pc = "clearSize"
    BY <2>2, SizesAreNat DEF ThreadClear, TypeOK, TimerTypes, CanvasTypes, Ranks
  <2>3. CASE pc = "clearMaps"
    <3>1. bRunning' \in BOOLEAN
      BY <2>3, Zenon DEF ThreadClear
    <3> QED
      BY <2>3, <3>1 DEF ThreadClear, TypeOK, TimerTypes, NewMaps, Ranks
  <2> QED
    BY <2>1, <2>2, <2>3 DEF ThreadClear
<1>2. ThreadTypes'
  BY NoLocalsAreLocals DEF ThreadClear, TypeOK, ThreadTypes, PCs
<1>3. disturbed' \in BOOLEAN
  BY Zenon DEF ThreadClear, TypeOK, GuiTypes
<1> QED
  BY <1>1, <1>2, <1>3, UnchangedTypes DEF ThreadClear, TypeOK, GuiTypes

\* Every step keeps the types.
LEMMA TypeNext == TypeOK /\ [Next]_vars => TypeOK'
<1> SUFFICES ASSUME TypeOK, [Next]_vars PROVE TypeOK'
  OBVIOUS
<1>1. CASE ThreadStep
  BY <1>1, TypeClear, TypeRun, TypeRefine, TypeTestFast, TypeVectorsFast, TypeMaximization
     DEF ThreadStep, DrawingThread
<1>2. CASE GuiWorks \/ GuiCalls
  BY <1>2, TypeGuiTimer, TypeGuiLocks, TypeGuiModels, TypeGuiCanvas, TypeEventLoop
     DEF GuiWorks
<1>3. CASE UNCHANGED vars
  BY <1>3, UnchangedTypes DEF vars, timerAll, TypeOK, GuiTypes
<1> QED
  BY <1>1, <1>2, <1>3 DEF Next

\* Types are correct whatever the sizes, the numbers of levels and the slots
\* (drawTimer.cpp: refineLevel and the map against w, h and refineMax).
THEOREM TypeCorrect == Spec => []TypeOK
BY TypeInit, TypeNext, PTL DEF Spec

-----------------------------------------------------------------------------
(* What it means for the GUI to hold mutex before a step.                    *)

\* A GUI that holds mutex holds it up to the next unlock.
LEMMA HeldNow ==
    ASSUME NEW s, NEW owner, owner = "gui", NEW i \in Nat \ {0}, \A k \in 1 .. i - 1 : s[k] # "unlock"
    PROVE  Held(s, owner, i)
<1>1. 0 \in 0 .. i - 1 /\ (IF 0 = 0 THEN owner = "gui" ELSE s[0] \in Takes)
  OBVIOUS
<1>2. \A k \in 0 + 1 .. i - 1 : s[k] # "unlock"
  OBVIOUS
<1> QED
  BY <1>1, <1>2, Zenon DEF Held

\* A GUI that takes mutex at step j holds it up to the next unlock.
LEMMA HeldSince ==
    ASSUME NEW s, NEW owner, NEW i \in Nat, NEW j \in 1 .. i - 1, s[j] \in Takes,
           \A k \in j + 1 .. i - 1 : s[k] # "unlock"
    PROVE  Held(s, owner, i)
<1>1. j \in 0 .. i - 1 /\ (IF j = 0 THEN owner = "gui" ELSE s[j] \in Takes)
  OBVIOUS
<1> QED
  BY <1>1, Zenon DEF Held

\* A GUI that holds mutex and takes it again before an unlock is blocked.
LEMMA BlockedBy ==
    ASSUME NEW s, NEW owner, owner = "gui", NEW i \in Nat, NEW j \in 1 .. i - 1, s[j] \in Takes,
           \A k \in 1 .. j - 1 : s[k] # "unlock"
    PROVE  Blocked(s, owner, i)
BY Zenon DEF Blocked

\* The ways in which mutex can be held before step i.
LEMMA HeldCases ==
    ASSUME NEW s, NEW owner, NEW i \in Nat, Held(s, owner, i)
    PROVE  \/ owner = "gui" /\ \A k \in 1 .. i - 1 : s[k] # "unlock"
           \/ \E j \in 1 .. i - 1 : s[j] \in Takes /\ \A k \in j + 1 .. i - 1 : s[k] # "unlock"
<1>1. PICK j \in 0 .. i - 1 : /\ IF j = 0 THEN owner = "gui" ELSE s[j] \in Takes
                              /\ \A k \in j + 1 .. i - 1 : s[k] # "unlock"
  BY Zenon DEF Held
<1>2. CASE j = 0
  BY <1>1, <1>2
<1>3. CASE j # 0
  BY <1>1, <1>3
<1> QED
  BY <1>2, <1>3

\* the number before k
LEMMA StepBefore ==
    ASSUME NEW n \in Nat, NEW i \in 1 .. n, NEW k \in 1 .. i, k >= 2
    PROVE  k - 1 \in 1 .. n /\ (k - 1) + 1 = k
OBVIOUS

\* the number after k
LEMMA StepAfter ==
    ASSUME NEW n \in Nat, NEW i \in 1 .. n, NEW k \in 1 .. i - 1
    PROVE  k \in 1 .. n /\ k + 1 \in 1 .. i
OBVIOUS

\* The steps left after the first one are well locked: the first one takes
\* mutex only when the GUI does not hold it, and only an unlock gives it back.
LEMMA TailIsWellLocked ==
    ASSUME NEW s \in Seq(Steps), NEW t \in Seq(Steps),
           Len(s) >= 1, Len(t) = Len(s) - 1, \A i \in 1 .. Len(t) : t[i] = s[i + 1],
           NEW owner, NEW after, WellLocked(s, owner),
           s[1] \in Takes => owner # "gui" /\ after = "gui",
           owner = "gui" /\ s[1] # "unlock" => after = "gui"
    PROVE  WellLocked(t, after)
<1> SUFFICES ASSUME NEW i \in 1 .. Len(t), t[i] \in Guarded
             PROVE  Held(t, after, i) \/ Blocked(t, after, i)
  BY DEF WellLocked
<1>1. i + 1 \in 1 .. Len(s) /\ s[i + 1] \in Guarded /\ (i + 1) - 1 = i
  OBVIOUS
<1>2. \A k \in 1 .. i : k >= 2 => k - 1 \in 1 .. Len(t) /\ t[k - 1] = s[k]
  <2> SUFFICES ASSUME NEW k \in 1 .. i, k >= 2
               PROVE  k - 1 \in 1 .. Len(t) /\ t[k - 1] = s[k]
    OBVIOUS
  <2>1. k - 1 \in 1 .. Len(t) /\ (k - 1) + 1 = k
    BY StepBefore, LenProperties
  <2> QED
    BY <2>1
<1>3. \A k \in 1 .. i - 1 : t[k] = s[k + 1] /\ k + 1 \in 1 .. i
  <2> SUFFICES ASSUME NEW k \in 1 .. i - 1 PROVE t[k] = s[k + 1] /\ k + 1 \in 1 .. i
    OBVIOUS
  <2>1. k \in 1 .. Len(t) /\ k + 1 \in 1 .. i
    BY StepAfter, LenProperties
  <2> QED
    BY <2>1
<1>4. CASE owner = "gui" /\ \A k \in 1 .. i : s[k] # "unlock"
  <2>1. after = "gui"
    BY <1>4
  <2>2. \A k \in 1 .. i - 1 : t[k] # "unlock"
    BY <1>3, <1>4
  <2> QED
    BY <2>1, <2>2, HeldNow
<1>5. ASSUME NEW j \in 1 .. i, s[j] \in Takes, \A k \in j + 1 .. i : s[k] # "unlock"
      PROVE  Held(t, after, i)
  <2>1. \A k \in j .. i - 1 : t[k] # "unlock"
    BY <1>3, <1>5
  <2>2. CASE j = 1
    <3>1. after = "gui"
      BY <1>5, <2>2
    <3> QED
      BY <2>1, <2>2, <3>1, HeldNow
  <2>3. CASE j # 1
    <3>1. j - 1 \in 1 .. i - 1 /\ t[j - 1] \in Takes /\ j - 1 + 1 = j
      BY <1>2, <1>5, <2>3
    <3> QED
      BY <2>1, <3>1, HeldSince
  <2> QED
    BY <2>2, <2>3
<1>6. CASE Blocked(s, owner, i + 1)
  <2>1. PICK j \in 1 .. i : owner = "gui" /\ s[j] \in Takes /\ \A k \in 1 .. j - 1 : s[k] # "unlock"
    BY <1>1, <1>6 DEF Blocked
  <2>2. j # 1 /\ after = "gui"
    BY <2>1
  <2>3. j - 1 \in 1 .. i - 1 /\ t[j - 1] \in Takes
    BY <1>2, <2>1, <2>2
  <2>4. ASSUME NEW k \in 1 .. (j - 1) - 1 PROVE t[k] # "unlock"
    <3>1. k \in 1 .. i - 1 /\ k + 1 \in 1 .. j - 1
      OBVIOUS
    <3> QED
      BY <1>3, <2>1, <3>1
  <2> QED
    BY <2>2, <2>3, <2>4, BlockedBy
<1>7. Held(s, owner, i + 1) \/ Blocked(s, owner, i + 1)
  BY <1>1 DEF WellLocked
<1>8. Held(s, owner, i + 1) =>
        \/ owner = "gui" /\ \A k \in 1 .. i : s[k] # "unlock"
        \/ \E j \in 1 .. i : s[j] \in Takes /\ \A k \in j + 1 .. i : s[k] # "unlock"
  <2>1. i + 1 \in Nat
    OBVIOUS
  <2>2. Held(s, owner, i + 1) =>
          \/ owner = "gui" /\ \A k \in 1 .. (i + 1) - 1 : s[k] # "unlock"
          \/ \E j \in 1 .. (i + 1) - 1 :
                s[j] \in Takes /\ \A k \in j + 1 .. (i + 1) - 1 : s[k] # "unlock"
    BY <2>1, HeldCases
  <2> QED
    BY <1>1, <2>2
<1>9. CASE Held(s, owner, i + 1)
  BY <1>4, <1>5, <1>8, <1>9
<1> QED
  BY <1>6, <1>7, <1>9

\* A slot called when the GUI has nothing to do is well locked.
LEMMA CallIsWellLocked ==
    ASSUME NEW P, Slot(P), NEW owner
    PROVE  WellLocked(P, owner)
<1> SUFFICES ASSUME NEW i \in 1 .. Len(P), P[i] \in Guarded PROVE Held(P, owner, i)
  BY DEF WellLocked
<1>1. Held(P, "free", i)
  BY DEF Slot, WellLocked, Blocked
<1> QED
  BY <1>1, HeldCases, HeldSince

\* So is one called from inside another slot: either it does not release mutex,
\* or it takes it first, and waits for itself if the other slot holds it.
LEMMA NestedCallIsWellLocked ==
    ASSUME NEW P, Slot(P), NEW s \in Seq(Steps), NEW owner, WellLocked(s, owner)
    PROVE  WellLocked(P \o s, owner)
<1> DEFINE t == P \o s
           L == Len(P)
<1>1. P \in Seq(Steps) /\ L \in Nat /\ Len(s) \in Nat
  BY LenProperties DEF Slot
<1>2. /\ Len(t) = L + Len(s)
      /\ \A i \in 1 .. L : t[i] = P[i]
      /\ \A i \in 1 .. Len(s) : t[L + i] = s[i]
  BY <1>1, ConcatProperties
<1> HIDE DEF t, L
<1> SUFFICES ASSUME NEW i \in 1 .. Len(t), t[i] \in Guarded
             PROVE  Held(t, owner, i) \/ Blocked(t, owner, i)
  BY DEF WellLocked, t
<1>3. CASE i <= L
  <2>1. Held(P, "free", i)
    <3>1. i \in 1 .. Len(P) /\ P[i] \in Guarded
      BY <1>1, <1>2, <1>3 DEF L
    <3> QED
      BY <3>1 DEF Slot, WellLocked, Blocked
  <2>2. PICK j \in 1 .. i - 1 : P[j] \in Takes /\ \A k \in j + 1 .. i - 1 : P[k] # "unlock"
    BY <2>1, HeldCases
  <2>3. t[j] \in Takes /\ \A k \in j + 1 .. i - 1 : t[k] # "unlock"
    BY <1>1, <1>2, <1>3, <2>2
  <2> QED
    BY <2>3, HeldSince
<1>4. CASE i > L
  <2> DEFINE h == i - L
  <2>1. h \in 1 .. Len(s) /\ s[h] \in Guarded /\ i = L + h
    BY <1>1, <1>2, <1>4
  <2> HIDE DEF h
  <2>2. Held(s, owner, h) \/ Blocked(s, owner, h)
    BY <2>1 DEF WellLocked
  <2>3. ASSUME NEW k \in L + 1 .. i - 1 PROVE k - L \in 1 .. h - 1 /\ t[k] = s[k - L]
    <3> DEFINE r == k - L
    <3>1. r \in 1 .. h - 1 /\ r \in 1 .. Len(s) /\ k = L + r
      BY <1>1, <2>1
    <3> HIDE DEF r
    <3>2. r \in 1 .. h - 1 /\ t[k] = s[r]
      BY <1>2, <3>1
    <3> QED
      BY <3>2 DEF r
  <2>4. ASSUME NEW j \in 1 .. h - 1, s[j] \in Takes, \A k \in j + 1 .. h - 1 : s[k] # "unlock"
        PROVE  Held(t, owner, i)
    <3>1. L + j \in 1 .. i - 1 /\ t[L + j] \in Takes
      BY <1>1, <1>2, <2>1, <2>4
    <3>2. ASSUME NEW k \in (L + j) + 1 .. i - 1 PROVE t[k] # "unlock"
      <4>1. k \in L + 1 .. i - 1 /\ k - L \in j + 1 .. h - 1
        BY <1>1, <2>1
      <4> QED
        BY <2>3, <2>4, <4>1
    <3> QED
      BY <3>1, <3>2, HeldSince
  <2>5. CASE owner = "gui" /\ \E k \in 1 .. L : P[k] = "unlock"
    <3>1. PICK j \in 1 .. L : P[j] \in Takes /\ \A k \in 1 .. j - 1 : P[k] # "unlock"
      BY <2>5 DEF Slot, L
    <3>2. j \in 1 .. i - 1 /\ t[j] \in Takes /\ \A k \in 1 .. j - 1 : t[k] # "unlock"
      BY <1>1, <1>2, <1>4, <3>1
    <3> QED
      BY <2>5, <3>2, BlockedBy
  <2>6. CASE owner = "gui" /\ \A k \in 1 .. L : P[k] # "unlock"
    <3>1. \A k \in 1 .. L : t[k] # "unlock"
      BY <1>2, <2>6
    <3>2. CASE \A k \in 1 .. h - 1 : s[k] # "unlock"
      <4>1. \A k \in 1 .. i - 1 : t[k] # "unlock"
        BY <1>1, <2>3, <3>1, <3>2
      <4> QED
        BY <2>6, <4>1, HeldNow
    <3>3. CASE Blocked(s, owner, h)
      <4>1. PICK j \in 1 .. h - 1 : s[j] \in Takes /\ \A k \in 1 .. j - 1 : s[k] # "unlock"
        BY <3>3 DEF Blocked
      <4>2. L + j \in 1 .. i - 1 /\ t[L + j] \in Takes
        BY <1>1, <1>2, <2>1, <4>1
      <4>3. ASSUME NEW k \in 1 .. (L + j) - 1 PROVE t[k] # "unlock"
        <5>1. CASE k <= L
          <6>1. k \in 1 .. L
            BY <1>1, <5>1
          <6> QED
            BY <3>1, <6>1
        <5>2. CASE k > L
          <6>1. k \in L + 1 .. i - 1 /\ k - L \in 1 .. j - 1
            BY <1>1, <2>1, <4>1, <5>2
          <6> QED
            BY <2>3, <4>1, <6>1
        <5>3. k \in Int /\ L \in Nat
          BY <1>1
        <5> QED
          BY <5>1, <5>2, <5>3
      <4> QED
        BY <2>6, <4>2, <4>3, BlockedBy
    <3> QED
      BY <2>1, <2>2, <2>4, <3>2, <3>3, HeldCases
  <2>7. CASE owner # "gui"
    <3>1. Held(s, owner, h)
      BY <2>2, <2>7 DEF Blocked
    <3> QED
      BY <2>1, <2>4, <2>7, <3>1, HeldCases
  <2> QED
    BY <2>5, <2>6, <2>7
<1> QED
  BY <1>1, <1>3, <1>4

-----------------------------------------------------------------------------
(* The locks, in every step.                                                 *)

\* What LockInv says of the thread, apart from the GUI's steps.
ThreadLocks ==
    /\ mutex = "draw" <=> pc \in InModelLock
    /\ pc \in {"optTest", "optDraw"} => loc.using = "maximizer"
    /\ pc \in {"paint", "optDraw"} => loc.using \in models

\* The parts of LockInv, under its hypothesis.
LEMMA LockInvParts ==
    LockInv <=> ((~timedOut /\ pc # "crashed") => ThreadLocks /\ WellLocked(todo, mutex))
BY DEF LockInv, ThreadLocks, NoDangling

\* WellLocked depends on the owner of mutex only through its being the GUI.
LEMMA SameOwner ==
    ASSUME NEW s, NEW m, NEW n, WellLocked(s, m), m = "gui" <=> n = "gui"
    PROVE  WellLocked(s, n)
BY DEF WellLocked, Held, Blocked

\* run does not touch mutex or evaluate a model
LEMMA RunLocks ==
    ASSUME TypeOK, ThreadLocks, Run, pc' # "crashed"
    PROVE  ThreadLocks' /\ (mutex = "gui" <=> mutex' = "gui")
<1> USE DEF TypeOK, ThreadTypes, Locals, ThreadLocks, InModelLock, Evaluating, modelVars, lockVars
<1>1. CASE RunBegin
  BY <1>1 DEF RunBegin
<1>2. CASE RunLoop
  BY <1>2 DEF RunLoop
<1>3. CASE RunCheck
  BY <1>3 DEF RunCheck, CallClear
<1>4. CASE Emit
  BY <1>4 DEF Emit
<1> QED
  BY <1>1, <1>2, <1>3, <1>4 DEF Run

\* Refine does not touch mutex or evaluate a model
LEMMA RefineLocks ==
    ASSUME TypeOK, ThreadLocks, Refine, pc' # "crashed"
    PROVE  ThreadLocks' /\ (mutex = "gui" <=> mutex' = "gui")
<1> USE DEF TypeOK, ThreadTypes, Locals, ThreadLocks, InModelLock, Evaluating, modelVars, lockVars
<1>1. CASE RefineDone
  BY <1>1 DEF RefineDone
<1>2. CASE RefineSize
  BY <1>2 DEF RefineSize, CallClear
<1>3. CASE RefineFirst
  BY <1>3 DEF RefineFirst, CallClear
<1>4. CASE ChooseMax
  BY <1>4 DEF ChooseMax
<1>5. CASE RefineBatch
  BY <1>5 DEF RefineBatch
<1>6. CASE IncRead
  BY <1>6 DEF IncRead
<1>7. CASE IncWrite
  BY <1>7 DEF IncWrite, NoLocals
<1> QED
  BY <1>1, <1>2, <1>3, <1>4, <1>5, <1>6, <1>7 DEF Refine

\* TestFast owns mutex exactly where it evaluates a model
LEMMA TestFastLocks ==
    ASSUME TypeOK, ThreadLocks, TestFast, pc' # "crashed"
    PROVE  ThreadLocks' /\ (mutex = "gui" <=> mutex' = "gui")
<1> USE DEF TypeOK, ThreadTypes, Locals, ThreadLocks, InModelLock, Evaluating, modelVars, lockVars
<1>1. CASE TestFastBegin
  BY <1>1 DEF TestFastBegin
<1>2. CASE TestFastPixel
  BY <1>2 DEF TestFastPixel
<1>3. CASE TestFastLock
  BY <1>3 DEF TestFastLock
<1>4. CASE TestFastTest
  BY <1>4, PainterIsAModel DEF TestFastTest
<1>5. CASE TestFastPaint
  BY <1>5 DEF TestFastPaint
<1>6. CASE TestFastEnd
  BY <1>6 DEF TestFastEnd
<1> QED
  BY <1>1, <1>2, <1>3, <1>4, <1>5, <1>6 DEF TestFast

\* VectorsFast owns mutex exactly where it evaluates a model
LEMMA VectorsFastLocks ==
    ASSUME TypeOK, ThreadLocks, VectorsFast, pc' # "crashed"
    PROVE  ThreadLocks' /\ (mutex = "gui" <=> mutex' = "gui")
<1> USE DEF TypeOK, ThreadTypes, Locals, ThreadLocks, InModelLock, Evaluating, modelVars, lockVars
<1>1. CASE FieldBegin
  BY <1>1 DEF FieldBegin
<1>2. CASE FieldRate
  BY <1>2 DEF FieldRate
<1>3. CASE FieldDraw
  BY <1>3 DEF FieldDraw
<1>4. CASE FieldPoint
  BY <1>4 DEF FieldPoint
<1>5. CASE FieldLock
  BY <1>5 DEF FieldLock
<1>6. CASE FieldTest
  BY <1>6 DEF FieldTest
<1> QED
  BY <1>1, <1>2, <1>3, <1>4, <1>5, <1>6 DEF VectorsFast

\* Maximization owns mutex exactly where it evaluates a model
LEMMA MaximizationLocks ==
    ASSUME TypeOK, ThreadLocks, Maximization, pc' # "crashed"
    PROVE  ThreadLocks' /\ (mutex = "gui" <=> mutex' = "gui")
<1> USE DEF TypeOK, ThreadTypes, Locals, ThreadLocks, InModelLock, Evaluating, modelVars, lockVars
<1>1. CASE OptimizeBegin
  BY <1>1 DEF OptimizeBegin
<1>2. CASE OptimizeLock
  BY <1>2 DEF OptimizeLock
<1>3. CASE OptimizeTest
  BY <1>3 DEF OptimizeTest
<1>4. CASE OptimizeDraw
  BY <1>4 DEF OptimizeDraw
<1>5. CASE OptimizeDone
  BY <1>5 DEF OptimizeDone
<1> QED
  BY <1>1, <1>2, <1>3, <1>4, <1>5 DEF Maximization

\* Clear, run by the thread, does not touch mutex
LEMMA ClearLocks ==
    ASSUME TypeOK, ThreadLocks, ThreadClear
    PROVE  ThreadLocks' /\ (mutex = "gui" <=> mutex' = "gui")
BY DEF ThreadClear, TypeOK, ThreadTypes, Locals, ThreadLocks, InModelLock, Evaluating,
       modelVars, lockVars

\* The drawing thread takes mutex only when it is free and so keeps LockInv.
LEMMA ThreadKeepsLockInv ==
    ASSUME TypeOK, LockInv, pc # "crashed", ThreadStep
    PROVE  LockInv'
<1> SUFFICES ASSUME ~timedOut', pc' # "crashed" PROVE ThreadLocks' /\ WellLocked(todo', mutex')
  BY LockInvParts DEF LockInv, ThreadLocks, NoDangling
<1>1. ThreadLocks /\ WellLocked(todo, mutex)
  BY LockInvParts DEF ThreadStep
<1>2. ThreadLocks' /\ (mutex = "gui" <=> mutex' = "gui")
  BY <1>1, RunLocks, RefineLocks, ClearLocks, TestFastLocks, VectorsFastLocks, MaximizationLocks
     DEF ThreadStep, DrawingThread
<1> QED
  BY <1>1, <1>2, SameOwner DEF ThreadStep

\* A step of a slot keeps the rest of the slot well locked, if it takes mutex
\* only when it is free and otherwise changes it only to unlock it.
LEMMA StepIsWellLocked ==
    ASSUME TypeOK, WellLocked(todo, mutex), NEW op, Step(op),
           op \in Takes => mutex = "free" /\ mutex' = "gui",
           op \notin Guarded \ ModelSteps /\ op \notin Takes => mutex' = mutex
    PROVE  WellLocked(todo', mutex') /\ (op \in Guarded => mutex = "gui")
<1>1. /\ todo \in Seq(Steps) /\ todo' \in Seq(Steps)
      /\ Len(todo') = Len(todo) - 1 /\ Len(todo) >= 1
      /\ todo[1] = op
      /\ \A i \in 1 .. Len(todo') : todo'[i] = todo[i + 1]
  BY StepTakesHead DEF TypeOK, GuiTypes
<1>2. op \in Guarded => mutex = "gui"
  <2> SUFFICES ASSUME op \in Guarded PROVE mutex = "gui"
    OBVIOUS
  <2>1. 1 \in 1 .. Len(todo) /\ todo[1] \in Guarded
    BY <1>1, LenProperties
  <2>2. Held(todo, mutex, 1) \/ Blocked(todo, mutex, 1)
    BY <2>1 DEF WellLocked
  <2> QED
    BY <2>2 DEF Held, Blocked
<1>3. mutex = "gui" /\ todo[1] # "unlock" => mutex' = "gui"
  BY <1>1 DEF Guarded
<1> QED
  BY <1>1, <1>2, <1>3, TailIsWellLocked

\* Outdate leaves the model the thread is using alone.
LEMMA OutdateKeepsUsing ==
    ASSUME TypeOK, Outdate
    PROVE  loc'.using = loc.using
BY DEF TypeOK, ThreadTypes, Locals, Outdate

\* the steps that take or give back no lock
LEMMA PlainStep ==
    ASSUME TypeOK, WellLocked(todo, mutex), NEW op \in Steps \ {"lock", "tryLock", "unlock"},
           Step(op), mutex' = mutex
    PROVE  WellLocked(todo', mutex') /\ (op \in ModelSteps => mutex = "gui")
BY StepIsWellLocked DEF Takes, Guarded

\* DrawTimer's methods called by the GUI keep LockInv: they touch no lock.
LEMMA TimerKeepsLockInv ==
    ASSUME TypeOK, ThreadLocks, WellLocked(todo, mutex), GuiTimer
    PROVE  ThreadLocks' /\ WellLocked(todo', mutex')
<1>1. mutex' = mutex /\ models' = models
  BY DEF GuiTimer, GuiStop, GuiClearLevel, GuiClearSize, GuiClearMaps, GuiStart, lockVars,
         canvasVars, modelVars
<1>2. PICK op \in {"stop", "clearLevel", "clearSize", "clearMaps", "start", "restart",
                   "restartAny"} : Step(op)
  BY DEF GuiTimer, GuiStop, GuiClearLevel, GuiClearSize, GuiClearMaps, GuiStart
<1>3. WellLocked(todo', mutex')
  BY <1>1, <1>2, PlainStep DEF Steps
<1>4. loc'.using = loc.using
  BY DEF GuiTimer, GuiStop, GuiClearLevel, GuiClearSize, GuiClearMaps, GuiStart, threadVars,
         TypeOK, ThreadTypes, Locals
<1>5. pc' = pc \/ (pc = "idle" /\ pc' = "starting")
  BY DEF GuiTimer, GuiStop, GuiClearLevel, GuiClearSize, GuiClearMaps, GuiStart, Start, threadVars
<1> QED
  BY <1>1, <1>3, <1>4, <1>5 DEF ThreadLocks, InModelLock, Evaluating

\* The GUI's locking steps keep LockInv, as long as no tryLock times out.
LEMMA LocksKeepLockInv ==
    ASSUME TypeOK, ThreadLocks, WellLocked(todo, mutex), GuiLocks, ~timedOut'
    PROVE  ThreadLocks' /\ WellLocked(todo', mutex')
<1> USE DEF modelVars, canvasVars, threadVars, ThreadLocks
<1>1. CASE GuiLock
  BY <1>1, StepIsWellLocked DEF GuiLock, Takes, Guarded, ModelSteps, Creations
<1>2. CASE GuiTryLock
  BY <1>2, StepIsWellLocked DEF GuiTryLock, Takes, Guarded, ModelSteps, Creations
<1>3. CASE GuiUnlock
  <2>1. Step("unlock") /\ "unlock" \in Guarded \ ModelSteps /\ "unlock" \notin Takes
    BY <1>3 DEF GuiUnlock, Takes, Guarded, ModelSteps, Creations
  <2>2. WellLocked(todo', mutex') /\ mutex = "gui"
    BY <2>1, StepIsWellLocked
  <2> QED
    BY <1>3, <2>2 DEF GuiUnlock
<1> QED
  BY <1>1, <1>2, <1>3 DEF GuiLocks

\* The models change only while the GUI holds mutex, when the thread uses none.
LEMMA ModelsKeepLockInv ==
    ASSUME TypeOK, ThreadLocks, WellLocked(todo, mutex), GuiModels
    PROVE  ThreadLocks' /\ WellLocked(todo', mutex')
<1>1. mutex' = mutex /\ pc' = pc
  BY DEF GuiModels, GuiDelete, GuiNew, GuiSetAvoid, GuiSetColorMap, GuiToggle, GuiUseModel,
         lockVars, threadVars, timerAll
<1>2. loc'.using = loc.using
  BY OutdateKeepsUsing
     DEF GuiModels, GuiDelete, GuiNew, GuiSetAvoid, GuiSetColorMap, GuiToggle, GuiUseModel,
         threadVars, timerAll
<1>3. CASE GuiSetColorMap
  <2>1. WellLocked(todo', mutex')
    BY <1>1, <1>3, PlainStep DEF GuiSetColorMap, Steps
  <2> QED
    BY <1>1, <1>2, <1>3, <2>1 DEF GuiSetColorMap, ThreadLocks
<1>4. CASE GuiDelete \/ GuiNew \/ GuiSetAvoid \/ GuiToggle \/ GuiUseModel
  <2>1. PICK op \in ModelSteps : Step(op)
    BY <1>4 DEF GuiDelete, GuiNew, GuiSetAvoid, GuiToggle, GuiUseModel, ModelSteps
  <2>2. op \in Steps \ {"lock", "tryLock", "unlock"}
    BY DEF Steps, ModelSteps, Creations
  <2>3. WellLocked(todo', mutex') /\ mutex = "gui"
    BY <1>1, <2>1, <2>2, PlainStep
  <2>4. pc \notin InModelLock
    BY <2>3 DEF ThreadLocks
  <2> QED
    BY <1>1, <2>3, <2>4 DEF ThreadLocks, InModelLock, Evaluating
<1> QED
  BY <1>3, <1>4 DEF GuiModels

\* The GUI's steps on the canvas keep LockInv.
LEMMA CanvasKeepsLockInv ==
    ASSUME TypeOK, ThreadLocks, WellLocked(todo, mutex), GuiCanvas \/ GuiEvents
    PROVE  ThreadLocks' /\ WellLocked(todo', mutex')
<1>1. mutex' = mutex /\ pc' = pc /\ models' = models
  BY DEF GuiCanvas, GuiSetView, GuiSetSize, GuiWipe, GuiEvents, lockVars, threadVars, modelVars,
         timerAll
<1>2. PICK op \in {"setView", "setSize", "wipe", "events", "signals"} : Step(op)
  BY DEF GuiCanvas, GuiSetView, GuiSetSize, GuiWipe, GuiEvents, Processes
<1>3. WellLocked(todo', mutex')
  BY <1>1, <1>2, PlainStep DEF Steps
<1>4. loc'.using = loc.using
  BY OutdateKeepsUsing DEF GuiCanvas, GuiSetView, GuiSetSize, GuiWipe, GuiEvents, threadVars, timerAll
<1> QED
  BY <1>1, <1>3, <1>4 DEF ThreadLocks

\* Entering a slot, from the event loop or inside processEvents, keeps LockInv.
LEMMA CallsKeepLockInv ==
    ASSUME TypeOK, ThreadLocks, WellLocked(todo, mutex), GuiCalls
    PROVE  ThreadLocks' /\ WellLocked(todo', mutex')
<1>1. mutex' = mutex /\ pc' = pc /\ models' = models /\ loc' = loc
  BY DEF GuiCalls, Call, NestedCall, timerAll, lockVars, threadVars, modelVars
<1>2. PICK h \in Handlers : todo' = Program[h] \/ todo' = Program[h] \o todo
  BY HandlersAssumption DEF GuiCalls, Call, NestedCall
<1>3. Slot(Program[h])
  BY ProgramsAreSlots, HandlersAssumption
<1>4. WellLocked(todo', mutex')
  BY <1>1, <1>2, <1>3, CallIsWellLocked, NestedCallIsWellLocked DEF TypeOK, GuiTypes
<1> QED
  BY <1>1, <1>4 DEF ThreadLocks

\* LockInv holds when the program has started: no slot runs and mutex is free.
LEMMA LockInit == Init => LockInv
<1> SUFFICES ASSUME Init PROVE ThreadLocks /\ WellLocked(todo, mutex)
  BY LockInvParts
<1>1. WellLocked(todo, mutex)
  BY EmptySeq DEF Init, WellLocked
<1> QED
  BY <1>1 DEF Init, TimerInit, ThreadLocks, InModelLock, Evaluating

\* Every step keeps LockInv.
LEMMA LockNext == TypeOK /\ LockInv /\ [Next]_vars => LockInv'
<1> SUFFICES ASSUME TypeOK, LockInv, [Next]_vars PROVE LockInv'
  OBVIOUS
<1>1. CASE pc # "crashed" /\ ThreadStep
  BY <1>1, ThreadKeepsLockInv
<1>2. CASE pc # "crashed" /\ (GuiWorks \/ GuiCalls)
  <2> SUFFICES ASSUME ~timedOut', pc' # "crashed"
               PROVE  ThreadLocks' /\ WellLocked(todo', mutex')
    BY DEF LockInv, ThreadLocks, NoDangling
  <2>1. ~timedOut
    BY <1>2 DEF GuiWorks, GuiCalls, GuiTimer, GuiStop, GuiClearLevel, GuiClearSize, GuiClearMaps,
                GuiStart, GuiLocks, GuiLock, GuiTryLock, GuiUnlock, GuiModels, GuiDelete, GuiNew,
                GuiSetAvoid, GuiSetColorMap, GuiToggle, GuiUseModel, GuiCanvas, GuiSetView,
                GuiSetSize, GuiWipe, GuiEvents, DeliverMap, DeliverModel, Call, NestedCall
  <2>2. ThreadLocks /\ WellLocked(todo, mutex)
    BY <1>2, <2>1, LockInvParts
  <2>3. CASE DeliverMap \/ DeliverModel
    BY <2>2, <2>3 DEF DeliverMap, DeliverModel, modelVars, lockVars, threadVars, ThreadLocks
  <2> QED
    BY <1>2, <2>2, <2>3, TimerKeepsLockInv, LocksKeepLockInv, ModelsKeepLockInv,
       CanvasKeepsLockInv, CallsKeepLockInv DEF GuiWorks
<1>3. CASE UNCHANGED vars
  BY <1>3 DEF vars, timerAll, modelVars, lockVars, threadVars, LockInv, NoDangling
<1> QED
  BY <1>1, <1>2, <1>3 DEF Next

\* LockInv is strong enough for the two properties.
LEMMA LockInvImplies == TypeOK /\ LockInv => ModelsAreLocked /\ NoDangling
<1> SUFFICES ASSUME TypeOK, LockInv PROVE ModelsAreLocked /\ NoDangling
  OBVIOUS
<1>1. CASE timedOut \/ pc = "crashed"
  BY <1>1 DEF ModelsAreLocked, NoDangling
<1>2. CASE ~timedOut /\ pc # "crashed"
  <2>1. ThreadLocks /\ WellLocked(todo, mutex)
    BY <1>2, LockInvParts
  <2>2. todo # <<>> /\ Head(todo) \in ModelSteps => mutex = "gui"
    <3> SUFFICES ASSUME todo # <<>>, Head(todo) \in ModelSteps PROVE mutex = "gui"
      OBVIOUS
    <3>1. Head(todo) = todo[1] /\ 1 \in 1 .. Len(todo)
      BY EmptySeq, LenProperties DEF TypeOK, GuiTypes
    <3>2. Held(todo, mutex, 1) \/ Blocked(todo, mutex, 1)
      BY <2>1, <3>1 DEF WellLocked, Guarded
    <3> QED
      BY <3>2 DEF Held, Blocked
  <2> QED
    BY <2>1, <2>2 DEF ThreadLocks, ModelsAreLocked, NoDangling
<1> QED
  BY <1>1, <1>2

\* The lock invariant holds in every reachable state.
LEMMA LockInvHolds == Spec => [](TypeOK /\ LockInv)
<1>1. Init => TypeOK /\ LockInv
  BY TypeInit, LockInit
<1>2. (TypeOK /\ LockInv) /\ [Next]_vars => (TypeOK /\ LockInv)'
  BY TypeNext, LockNext
<1> QED
  BY <1>1, <1>2, PTL DEF Spec

\* Whatever slots the GUI runs, nested ones included, no model is created,
\* changed, evaluated or deleted by one thread while the other holds mutex for
\* one, as long as no tryLock of Navigation has timed out.
THEOREM ModelsLocked == Spec => []ModelsAreLocked
BY LockInvHolds, LockInvImplies, PTL

\* So the drawing thread never goes on with a model that has been deleted.
THEOREM NothingDangles == Spec => []NoDangling
BY LockInvHolds, LockInvImplies, PTL
=============================================================================
