---------------------------- MODULE PictureProofs ----------------------------
(***************************************************************************)
(* Two proofs about the picture of the map, for every value of the constants.  *)
(*                                                                           *)
(* A map whose refinement nobody disturbed is complete when the refinement     *)
(* ends.  The invariant is RefineInv of ProcessingInv: in an undisturbed round   *)
(* the pixels painted so far are exactly those the levels done, the batches done   *)
(* and the loop inside TestFast have reached.  The thread keeps it, one lemma       *)
(* per part of its code; of the GUI's steps one disturbs the round, clears it,        *)
(* or does not touch the map (GuiKeepsLevel).                                          *)
(*                                                                           *)
(* Processing implements Picture.  A step of either thread is a step of the    *)
(* picture, named in the lemma about it, or leaves the picture as it is.        *)
(***************************************************************************)
EXTENDS PictureMap, ProcessingProofs

-----------------------------------------------------------------------------
(* An undisturbed map is complete                                            *)

\* The remainder of the area goes to the last level, and each level begins
\* where the one before it ends.
LEMMA BatchesJoin ==
    ASSUME NEW a \in Nat, NEW m \in Nat \ {0}, NEW l \in Nat
    PROVE  /\ BatchStart(a, 1, m) = 0
           /\ l >= 1 => BatchStart(a, l, m) >= 0
           /\ l # m => BatchStop(a, l, m) = BatchStart(a, l + 1, m)
           /\ l = m => BatchStop(a, l, m) = a
<1> DEFINE q == a \div m
<1>1. q \in Nat
  OBVIOUS
<1> HIDE DEF q
<1>2. q * (1 - 1) = 0 /\ (l >= 1 => q * (l - 1) >= 0) /\ q * ((l + 1) - 1) = q * l
  BY <1>1
<1> QED
  BY <1>2 DEF BatchStart, BatchStop, q


\* The thread's steps other than Clear leave the models it paints, and what
\* the GUI has done to them, alone.
LEMMA ThreadKeepsUndisturbed ==
    ASSUME DrawingThread, ~ThreadClear
    PROVE  UNCHANGED <<models, bColorMap, disturbed>> /\ (Undisturbed' <=> Undisturbed)
<1>1. UNCHANGED <<models, bColorMap, disturbed>>
  BY DEF DrawingThread, Run, RunBegin, RunLoop, RunCheck, Emit, Refine, RefineDone, RefineSize,
         RefineFirst, ChooseMax, RefineBatch, IncRead, IncWrite, TestFast, TestFastBegin,
         TestFastPixel, TestFastLock, TestFastTest, TestFastPaint, TestFastEnd, VectorsFast,
         FieldBegin, FieldRate, FieldDraw, FieldPoint, FieldLock, FieldTest, Maximization,
         OptimizeBegin, OptimizeLock, OptimizeTest, OptimizeDraw, OptimizeDone, modelVars
<1> QED
  BY <1>1 DEF Undisturbed, Painter, Paints

\* the range of what Painted speaks of
LEMMA PaintedTypes ==
    ASSUME TypeOK
    PROVE  /\ refineLevel \in Nat /\ refineMax \in Nat \ {0} /\ Area(dims) \in Nat
           /\ loc.i \in Int /\ loc.stop \in Int /\ loc \in Locals /\ Area(mapSize) \in Nat
BY DimsAreNat, AreaIsNat, LocalsCount DEF TypeOK, TimerTypes, ThreadTypes

\* run does not disturb what Painted says: it paints nothing.
LEMMA RunPaints ==
    ASSUME TypeOK, RefineInv, Undisturbed, Run
    PROVE  Painted'
<1> USE PaintedTypes
<1>0. Painted
  BY DEF RefineInv
<1> USE DEF Painted, Covered, StartOfLevel, StopOfLevel, MapComplete, Ranks, timerVars, Between,
        InLevel, InBatch, AtPixel, AfterBatch
<1>1. CASE RunBegin
  BY <1>0, <1>1 DEF RunBegin
<1>2. CASE RunLoop
  BY <1>0, <1>2 DEF RunLoop
<1>3. CASE RunCheck
  BY <1>0, <1>3 DEF RunCheck, CallClear
<1>4. CASE Emit
  BY <1>0, <1>4 DEF Emit
<1> QED
  BY <1>1, <1>2, <1>3, <1>4 DEF Run

\* Refine keeps Painted: level n + 1 starts where level n has stopped.
LEMMA RefinePaints ==
    ASSUME TypeOK, RefineInv, Undisturbed, Refine
    PROVE  Painted'
<1> USE PaintedTypes
<1>0. Painted
  BY DEF RefineInv
<1> USE DEF Painted, Covered, StartOfLevel, StopOfLevel, MapComplete, Ranks, timerVars, Between,
        InLevel, InBatch, AtPixel, AfterBatch
<1>1. CASE RefineDone
  BY <1>0, <1>1 DEF RefineDone
<1>2. CASE RefineSize
  BY <1>0, <1>2 DEF RefineSize, CallClear
<1>3. CASE RefineFirst
  BY <1>0, <1>3 DEF RefineFirst, CallClear
<1>4. CASE ChooseMax
  <2>1. refineLevel = 0
    BY <1>4 DEF ChooseMax, RefineInv
  <2>2. refineMax' \in Nat \ {0}
    BY <1>4, LevelsAssumption DEF ChooseMax
  <2> QED
    BY <1>0, <1>4, <2>1, <2>2 DEF ChooseMax
<1>5. CASE RefineBatch
  <2>1. BatchStart(Area(dims), refineLevel, refineMax) >= 0
    BY <1>0, <1>5, BatchesJoin DEF RefineBatch
  <2>2. loc' = [loc EXCEPT !.i = StartOfLevel, !.stop = StopOfLevel] /\ pc' = "obstacles"
    BY <1>5 DEF RefineBatch, Undisturbed
  <2>3. loc'.i = StartOfLevel /\ loc'.stop = StopOfLevel
    BY <2>2 DEF Locals
  <2> QED
    BY <1>0, <1>5, <2>1, <2>2, <2>3 DEF RefineBatch
<1>6. CASE IncRead
  <2>1. loc'.level = refineLevel /\ pc' = "incWrite"
    BY <1>6 DEF IncRead, Locals
  <2> QED
    BY <1>0, <1>6, <2>1 DEF IncRead
<1>7. CASE IncWrite
  <2>1. refineLevel' = refineLevel + 1 /\ pc' = "emit"
    BY <1>0, <1>7 DEF IncWrite
  <2>2. UNCHANGED <<refineMax, dims, mapSize, bigMap>> /\ dims = mapSize
    BY <1>0, <1>7 DEF IncWrite
  <2>3. CASE refineLevel = 0
    <3>1. BatchStart(Area(dims), 1, refineMax) = 0
      BY BatchesJoin
    <3> QED
      BY <1>0, <2>1, <2>2, <2>3, <3>1
  <2>4. CASE refineLevel >= 1 /\ refineLevel # refineMax
    <3>1. BatchStop(Area(dims), refineLevel, refineMax)
            = BatchStart(Area(dims), refineLevel + 1, refineMax)
      BY <2>4, BatchesJoin
    <3> QED
      BY <1>0, <1>7, <2>1, <2>2, <2>4, <3>1 DEF IncWrite
  <2>5. CASE refineLevel = refineMax
    <3>1. BatchStop(Area(dims), refineLevel, refineMax) = Area(dims)
      BY <2>5, BatchesJoin
    <3>2. MapComplete
      BY <1>0, <1>7, <2>2, <2>5, <3>1 DEF IncWrite
    <3> QED
      BY <2>1, <2>2, <2>5, <3>2
  <2> QED
    BY <2>3, <2>4, <2>5
<1> QED
  BY <1>1, <1>2, <1>3, <1>4, <1>5, <1>6, <1>7 DEF Refine

\* TestFast keeps Painted: it paints rank loc.i and goes on with loc.i + 1.
LEMMA TestFastPaints ==
    ASSUME TypeOK, RefineInv, Undisturbed, TestFast
    PROVE  Painted'
<1> USE PaintedTypes
<1>0. Painted
  BY DEF RefineInv
<1> USE DEF Painted, Covered, StartOfLevel, StopOfLevel, MapComplete, Ranks, timerVars, Between,
        InLevel, InBatch, AtPixel, AfterBatch
<1>1. CASE TestFastBegin
  <2>1. /\ loc'.i = loc.i /\ pc' = "pixel"
        /\ loc'.stop = IF loc.stop < 0 \/ loc.stop > Area(dims) THEN Area(dims) ELSE loc.stop
    BY <1>1 DEF TestFastBegin, Locals
  <2> QED
    BY <1>0, <1>1, <2>1 DEF TestFastBegin
<1>2. CASE TestFastPixel
  <2>1. loc.i \in Ranks /\ dims = mapSize
    BY <1>0, <1>2 DEF TestFastPixel
  <2>2. Lookup(loc.i) = {loc.i} /\ loc.i # Outside
    BY <2>1 DEF Lookup, Outside
  <2>3. loc' = [loc EXCEPT !.pixel = loc.i, !.current = TRUE] /\ pc' = "lockModel"
    BY <1>2, <2>2 DEF TestFastPixel
  <2>4. loc'.i = loc.i /\ loc'.stop = loc.stop /\ loc'.pixel = loc.i /\ loc'.current
    BY <2>3 DEF Locals
  <2> QED
    BY <1>0, <1>2, <2>3, <2>4 DEF TestFastPixel
<1>3. CASE TestFastLock
  BY <1>0, <1>3 DEF TestFastLock
<1>4. CASE TestFastTest
  <2>1. loc' = [loc EXCEPT !.using = Painter] /\ pc' = "paint"
    BY <1>4 DEF TestFastTest, Undisturbed
  <2>2. /\ loc'.i = loc.i /\ loc'.stop = loc.stop /\ loc'.pixel = loc.pixel
        /\ loc'.current = loc.current
    BY <2>1 DEF Locals
  <2> QED
    BY <1>0, <1>4, <2>1, <2>2 DEF TestFastTest
<1>5. CASE TestFastPaint
  <2>1. loc'.i = loc.i + 1 /\ loc'.stop = loc.stop /\ pc' = "pixel"
    BY <1>5 DEF TestFastPaint, Locals
  <2>2. loc.pixel = loc.i /\ loc.pixel # Unknown /\ loc.current
    BY <1>0, <1>5 DEF TestFastPaint, Unknown
  <2>3. bigMap' = [r \in DOMAIN bigMap |-> IF r # loc.i THEN bigMap[r] ELSE "fresh"]
    BY <1>5, <2>2 DEF TestFastPaint
  <2>4. UNCHANGED <<refineLevel, refineMax, dims, mapSize>>
    BY <1>5 DEF TestFastPaint
  <2>5. \A r \in Ranks : bigMap'[r] = IF r # loc.i THEN bigMap[r] ELSE "fresh"
    BY <2>3 DEF TypeOK, TimerTypes
  <2> QED
    BY <1>0, <1>5, <2>1, <2>4, <2>5 DEF TestFastPaint
<1>6. CASE TestFastEnd
  BY <1>0, <1>6 DEF TestFastEnd
<1> QED
  BY <1>1, <1>2, <1>3, <1>4, <1>5, <1>6 DEF TestFast

\* VectorsFast keeps Painted: it leaves the map alone.
LEMMA VectorsFastPaints ==
    ASSUME TypeOK, RefineInv, Undisturbed, VectorsFast
    PROVE  Painted'
<1> USE PaintedTypes
<1>0. Painted
  BY DEF RefineInv
<1> USE DEF Painted, Covered, StartOfLevel, StopOfLevel, MapComplete, Ranks, timerVars, Between,
        InLevel, InBatch, AtPixel, AfterBatch
<1>1. CASE FieldBegin
  BY <1>0, <1>1 DEF FieldBegin
<1>2. CASE FieldRate
  BY <1>0, <1>2 DEF FieldRate
<1>3. CASE FieldDraw
  BY <1>0, <1>3 DEF FieldDraw
<1>4. CASE FieldPoint
  BY <1>0, <1>4 DEF FieldPoint
<1>5. CASE FieldLock
  BY <1>0, <1>5 DEF FieldLock
<1>6. CASE FieldTest
  BY <1>0, <1>6 DEF FieldTest
<1> QED
  BY <1>1, <1>2, <1>3, <1>4, <1>5, <1>6 DEF VectorsFast

\* Maximization does not run in an undisturbed refinement of a map.
LEMMA MaximizationPaints ==
    ASSUME TypeOK, RefineInv, Undisturbed, Maximization
    PROVE  Painted'
<1> USE PaintedTypes
<1>0. Painted
  BY DEF RefineInv
<1> USE DEF Painted, Covered, StartOfLevel, StopOfLevel, MapComplete, Ranks, timerVars, Between,
        InLevel, InBatch, AtPixel, AfterBatch
<1>1. CASE OptimizeBegin
  BY <1>0, <1>1 DEF OptimizeBegin
<1>2. CASE OptimizeLock
  BY <1>0, <1>2 DEF OptimizeLock
<1>3. CASE OptimizeTest
  BY <1>0, <1>3 DEF OptimizeTest
<1>4. CASE OptimizeDraw
  BY <1>0, <1>4 DEF OptimizeDraw
<1>5. CASE OptimizeDone
  BY <1>0, <1>5 DEF OptimizeDone, Undisturbed
<1> QED
  BY <1>1, <1>2, <1>3, <1>4, <1>5 DEF Maximization

\* Between the thread's clearing of refineLevel and the end of its Clear the
\* GUI writes nothing but 0 to it.
LEMMA LevelIsCleared ==
    ASSUME TypeOK, RefineInv, DrawingThread
    PROVE  (pc \in {"clearSize", "clearMaps", "setMax"} => refineLevel = 0)'
<1>1. CASE ThreadClear
  BY <1>1 DEF ThreadClear, RefineInv
<1>2. CASE Run \/ Refine
  BY <1>2 DEF Run, RunBegin, RunLoop, RunCheck, Emit, Refine, RefineDone, RefineSize, RefineFirst,
       ChooseMax, RefineBatch, IncRead, IncWrite, CallClear
<1>3. CASE TestFast \/ VectorsFast \/ Maximization
  BY <1>3 DEF TestFast, TestFastBegin, TestFastPixel, TestFastLock, TestFastTest, TestFastPaint,
       TestFastEnd, VectorsFast, FieldBegin, FieldRate, FieldDraw, FieldPoint, FieldLock,
       FieldTest, Maximization, OptimizeBegin, OptimizeLock, OptimizeTest, OptimizeDraw,
       OptimizeDone
<1> QED
  BY <1>1, <1>2, <1>3 DEF DrawingThread

\* Clear keeps Painted: for a new round it leaves level 0, with nothing to be painted.
LEMMA ClearPaints ==
    ASSUME TypeOK, RefineInv, ThreadClear
    PROVE  Undisturbed' => Painted'
<1> SUFFICES ASSUME Undisturbed' PROVE Painted'
  OBVIOUS
<1> USE PaintedTypes
<1> USE DEF Painted, Covered, StartOfLevel, StopOfLevel, MapComplete, Ranks, timerVars, Between,
        InLevel, InBatch, AtPixel, AfterBatch
<1>1. UNCHANGED <<models, bColorMap>>
  BY DEF ThreadClear, modelVars
<1>2. CASE pc = "clearMaps"
  <2>1. refineLevel' = 0 /\ refineMax' \in Nat \ {0}
    BY <1>2 DEF ThreadClear, RefineInv
  <2>2. dims' = mapSize' /\ pc' \in {"idle", "emit", "setMax"}
    BY <1>2 DEF ThreadClear, NewMaps
  <2> QED
    BY <2>1, <2>2
<1>3. CASE pc \in {"clearLevel", "clearSize"}
  <2>1. Undisturbed
    BY <1>1, <1>3 DEF ThreadClear, Undisturbed, Painter, Paints
  <2>2. Painted
    BY <2>1 DEF RefineInv
  <2>3. CASE pc = "clearLevel"
    BY <2>2, <2>3 DEF ThreadClear
  <2>4. CASE pc = "clearSize"
    <3>1. refineLevel' = 0 /\ refineMax' \in Nat \ {0} /\ pc' = "clearMaps"
      BY <2>4 DEF ThreadClear, RefineInv
    <3> QED
      BY <3>1
  <2> QED
    BY <1>3, <2>3, <2>4
<1> QED
  BY <1>2, <1>3 DEF ThreadClear

\* The drawing thread keeps RefineInv.
LEMMA ThreadKeepsRefineInv ==
    ASSUME TypeOK, RefineInv, DrawingThread
    PROVE  RefineInv'
<1>1. (pc \in {"clearSize", "clearMaps", "setMax"} => refineLevel = 0)'
  BY LevelIsCleared
<1>2. Undisturbed' => Painted'
  <2>1. CASE ThreadClear
    BY <2>1, ClearPaints
  <2>2. CASE ~ThreadClear
    BY <2>2, ThreadKeepsUndisturbed, RunPaints, RefinePaints, TestFastPaints, VectorsFastPaints,
       MaximizationPaints DEF DrawingThread
  <2> QED
    BY <2>1, <2>2
<1> QED
  BY <1>1, <1>2 DEF RefineInv

\* A step of the GUI disturbs the refinement, or leaves all of it alone, except
\* that it may start the thread.
LEMMA GuiDisturbs ==
    ASSUME TypeOK, GuiWorks \/ GuiCalls
    PROVE  \/ disturbed'
           \/ /\ UNCHANGED <<models, bColorMap, timerVars, loc, disturbed>>
              /\ pc' = pc \/ (pc = "idle" /\ pc' = "starting")
<1> USE DEF Disturb, timerAll, modelVars, threadVars
<1>1. CASE GuiTimer
  BY <1>1 DEF GuiTimer, GuiStop, GuiClearLevel, GuiClearSize, GuiClearMaps, GuiStart, Start
<1>2. CASE GuiLocks
  BY <1>2 DEF GuiLocks, GuiLock, GuiTryLock, GuiUnlock
<1>3. CASE GuiModels
  BY <1>3 DEF GuiModels, GuiDelete, GuiNew, GuiSetAvoid, GuiSetColorMap, GuiToggle, GuiUseModel
<1>4. CASE GuiCanvas
  BY <1>4 DEF GuiCanvas, GuiSetView, GuiSetSize, GuiWipe
<1>5. CASE GuiEvents \/ DeliverMap \/ DeliverModel
  BY <1>5 DEF GuiEvents, DeliverMap, DeliverModel
<1>6. CASE GuiCalls
  BY <1>6 DEF GuiCalls, Call, NestedCall
<1> QED
  BY <1>1, <1>2, <1>3, <1>4, <1>5, <1>6 DEF GuiWorks

\* The GUI writes nothing but 0 to refineLevel, and moves the thread nowhere
\* but to its beginning.
LEMMA GuiKeepsLevel ==
    ASSUME TypeOK, GuiWorks \/ GuiCalls
    PROVE  /\ refineLevel' \in {0, refineLevel}
           /\ pc' = pc \/ pc' = "starting"
<1> USE DEF timerAll, timerVars, threadVars
<1>1. CASE GuiTimer
  BY <1>1 DEF GuiTimer, GuiStop, GuiClearLevel, GuiClearSize, GuiClearMaps, GuiStart, Start
<1>2. CASE GuiLocks
  BY <1>2 DEF GuiLocks, GuiLock, GuiTryLock, GuiUnlock
<1>3. CASE GuiModels
  BY <1>3 DEF GuiModels, GuiDelete, GuiNew, GuiSetAvoid, GuiSetColorMap, GuiToggle, GuiUseModel
<1>4. CASE GuiCanvas
  BY <1>4 DEF GuiCanvas, GuiSetView, GuiSetSize, GuiWipe
<1>5. CASE GuiEvents \/ DeliverMap \/ DeliverModel
  BY <1>5 DEF GuiEvents, DeliverMap, DeliverModel
<1>6. CASE GuiCalls
  BY <1>6 DEF GuiCalls, Call, NestedCall
<1> QED
  BY <1>1, <1>2, <1>3, <1>4, <1>5, <1>6 DEF GuiWorks

\* The GUI keeps RefineInv: what it does to a map disturbs the round.
LEMMA GuiKeepsRefineInv ==
    ASSUME TypeOK, RefineInv, GuiWorks \/ GuiCalls
    PROVE  RefineInv'
<1>1. (pc \in {"clearSize", "clearMaps", "setMax"} => refineLevel = 0)'
  BY GuiKeepsLevel DEF RefineInv
<1>2. ASSUME Undisturbed' PROVE Painted'
  <2>1. /\ UNCHANGED <<models, bColorMap, timerVars, loc, disturbed>>
        /\ pc' = pc \/ (pc = "idle" /\ pc' = "starting")
    BY <1>2, GuiDisturbs DEF Undisturbed
  <2>2. Undisturbed
    BY <1>2, <2>1 DEF Undisturbed, Painter, Paints
  <2>3. Painted
    BY <2>2 DEF RefineInv
  <2> QED
    BY <2>1, <2>3 DEF Painted, Covered, StartOfLevel, StopOfLevel, MapComplete, Ranks, timerVars,
       Between, InLevel, InBatch, AtPixel, AfterBatch
<1> QED
  BY <1>1, <1>2 DEF RefineInv

\* RefineInv holds when the program has started.
LEMMA RefineInit == Init => RefineInv
BY DEF Init, TimerInit, RefineInv, Undisturbed

\* Every step keeps RefineInv.
LEMMA RefineNext == TypeOK /\ RefineInv /\ [Next]_vars => RefineInv'
<1> SUFFICES ASSUME TypeOK, RefineInv, [Next]_vars PROVE RefineInv'
  OBVIOUS
<1>1. CASE ThreadStep
  BY <1>1, ThreadKeepsRefineInv DEF ThreadStep
<1>2. CASE GuiWorks \/ GuiCalls
  BY <1>2, GuiKeepsRefineInv
<1>3. CASE UNCHANGED vars
  <2>1. UNCHANGED <<models, bColorMap, disturbed, refineLevel, refineMax, dims, mapSize, bigMap,
                    pc, loc>>
    BY <1>3 DEF vars, timerAll, modelVars, timerVars, threadVars
  <2> QED
    BY <2>1 DEF RefineInv, Undisturbed, Painter, Paints, Painted, Covered, StartOfLevel,
       StopOfLevel, MapComplete, Ranks
<1> QED
  BY <1>1, <1>2, <1>3 DEF Next

\* On a canvas of any size, with any number of levels and whatever slots the
\* GUI has run before, a refinement that the GUI leaves alone ends with every
\* pixel painted with the current model (drawTimer.cpp:139-160).
THEOREM UndisturbedMapCompletes == Spec => []UndisturbedMapIsComplete
<1>1. Init => TypeOK /\ RefineInv
  BY TypeInit, RefineInit
<1>2. (TypeOK /\ RefineInv) /\ [Next]_vars => (TypeOK /\ RefineInv)'
  BY TypeNext, RefineNext
<1>3. TypeOK /\ RefineInv => UndisturbedMapIsComplete
  BY DEF RefineInv, Undisturbed, Painted, UndisturbedMapIsComplete
<1> QED
  BY <1>1, <1>2, <1>3, PTL DEF Spec

-----------------------------------------------------------------------------
(* Processing implements Picture                                             *)

\* A step that touches neither the map nor its level, nor an image, is none of
\* the picture's.
LEMMA PictureStutters ==
    ASSUME UNCHANGED <<models, bColorMap, disturbed, mapSize, bigMap, refineLevel, refineMax>>,
           UNCHANGED <<posted.map, shown.map>>
    PROVE  UNCHANGED Pict!vars
BY DEF Pict!vars, Ranks, Fresh, Round, Undisturbed, Painter, Paints

\* A step that disturbs and leaves the map and the images alone.
LEMMA PictureDisturbed ==
    ASSUME disturbed', UNCHANGED <<mapSize, bigMap, posted.map, shown.map>>
    PROVE  Pict!Disturb
BY DEF Pict!Disturb, Ranks, Fresh, Round, Undisturbed

\* A step that changes what is to be shown: Outdate.
LEMMA PictureChanged ==
    ASSUME TypeOK, Outdate, disturbed', UNCHANGED mapSize,
           shown'.map \in {Outdated(shown.map), "none"}
    PROVE  Pict!Change
<1>1. Round' = "void"
  BY DEF Round, Undisturbed
<1>2. Fresh' = {} /\ Ranks' = Ranks
  BY DEF Fresh, Ranks, Outdate, TypeOK, TimerTypes
<1>3. posted'.map = Outdated(posted.map)
  BY DEF Outdate, TypeOK, CanvasTypes
<1> QED
  BY <1>1, <1>2, <1>3 DEF Pict!Change, Pict!Aged, Outdated

-----------------------------------------------------------------------------
(* PictureInv                                                               *)

\* Outside its loop over the pixels the thread holds no pixel, and inside it
\* takes one as current.
LEMMA ThreadKeepsCurrent ==
    ASSUME TypeOK, DrawingThread, (pc \in AtPixel /\ ~loc.current) => Fresh = {}
    PROVE  ((pc \in AtPixel /\ ~loc.current) => Fresh = {})'
<1> USE DEF AtPixel
<1>1. CASE ThreadClear \/ Run \/ Refine \/ VectorsFast \/ Maximization
  BY <1>1 DEF ThreadClear, Run, RunBegin, RunLoop, RunCheck, Emit, Refine, RefineDone, RefineSize,
     RefineFirst, ChooseMax, RefineBatch, IncRead, IncWrite, CallClear, VectorsFast, FieldBegin,
     FieldRate, FieldDraw, FieldPoint, FieldLock, FieldTest, Maximization, OptimizeBegin,
     OptimizeLock, OptimizeTest, OptimizeDraw, OptimizeDone
<1>2. CASE TestFastBegin \/ TestFastPaint \/ TestFastEnd
  BY <1>2 DEF TestFastBegin, TestFastPaint, TestFastEnd
<1>3. CASE TestFastPixel
  BY <1>3 DEF TestFastPixel, TypeOK, ThreadTypes, Locals
<1>4. CASE TestFastLock
  BY <1>4 DEF TestFastLock, timerVars, Fresh, Ranks
<1>5. CASE TestFastTest
  <2>1. pc' \in AtPixel => loc'.current = loc.current
    BY <1>5 DEF TestFastTest, TypeOK, ThreadTypes, Locals
  <2> QED
    BY <1>5, <2>1 DEF TestFastTest, timerVars, Fresh, Ranks
<1> QED
  BY <1>1, <1>2, <1>3, <1>4, <1>5 DEF DrawingThread, TestFast

\* Clear is called at a level of the round, or with no model.
LEMMA ThreadClearsInLevel ==
    ASSUME TypeOK, RefineInv, DrawingThread
    PROVE  ((pc = "clearLevel" /\ Undisturbed) => refineLevel <= refineMax)'
<1>1. CASE ThreadClear \/ TestFast \/ VectorsFast \/ Maximization
  BY <1>1 DEF ThreadClear, TestFast, TestFastBegin, TestFastPixel, TestFastLock, TestFastTest,
     TestFastPaint, TestFastEnd, VectorsFast, FieldBegin, FieldRate, FieldDraw, FieldPoint,
     FieldLock, FieldTest, Maximization, OptimizeBegin, OptimizeLock, OptimizeTest, OptimizeDraw,
     OptimizeDone
<1>2. CASE Run
  <2>1. pc' = "clearLevel" => models' = {}
    BY <1>2 DEF Run, RunBegin, RunLoop, RunCheck, Emit, modelVars
  <2> QED
    BY <2>1 DEF Undisturbed, Painter, Paints
<1>3. CASE Refine
  <2>1. pc' = "clearLevel" => pc \in InLevel /\ UNCHANGED <<refineLevel, refineMax>>
    BY <1>3 DEF Refine, RefineDone, RefineSize, RefineFirst, ChooseMax, RefineBatch, IncRead,
       IncWrite, InLevel, timerVars
  <2>2. Undisturbed' => Undisturbed
    BY <1>3, ThreadKeepsUndisturbed DEF DrawingThread, Refine, ThreadClear, RefineDone, RefineSize,
       RefineFirst, ChooseMax, RefineBatch, IncRead, IncWrite
  <2> QED
    BY <2>1, <2>2 DEF RefineInv, Painted
<1> QED
  BY <1>1, <1>2, <1>3 DEF DrawingThread

\* What the GUI does to the map leaves nothing fresh on it.
LEMMA GuiKeepsCurrent ==
    ASSUME TypeOK, GuiWorks \/ GuiCalls, (pc \in AtPixel /\ ~loc.current) => Fresh = {}
    PROVE  ((pc \in AtPixel /\ ~loc.current) => Fresh = {})'
<1>0. pc' \in AtPixel => pc' = pc
  BY GuiKeepsLevel DEF AtPixel
<1>1. ASSUME Outdate, UNCHANGED mapSize PROVE Fresh' = {}
  BY <1>1 DEF Outdate, Fresh, Ranks, TypeOK, TimerTypes
<1>2. ASSUME UNCHANGED <<loc, bigMap, mapSize>>
      PROVE  ((pc \in AtPixel /\ ~loc.current) => Fresh = {})'
  BY <1>0, <1>2 DEF Fresh, Ranks
<1> USE DEF timerAll, timerVars, threadVars
<1>3. CASE GuiStop \/ GuiClearLevel \/ GuiClearSize \/ GuiStart
  BY <1>2, <1>3 DEF GuiStop, GuiClearLevel, GuiClearSize, GuiStart
<1>4. CASE GuiClearMaps
  BY <1>4 DEF GuiClearMaps, NewMaps, Fresh, Ranks, Area
<1>5. CASE GuiLocks
  BY <1>2, <1>5 DEF GuiLocks, GuiLock, GuiTryLock, GuiUnlock
<1>6. CASE GuiToggle \/ GuiUseModel \/ GuiWipe \/ GuiEvents \/ DeliverMap \/ DeliverModel \/ GuiCalls
  BY <1>2, <1>6 DEF GuiToggle, GuiUseModel, GuiWipe, GuiEvents, DeliverMap, DeliverModel,
     GuiCalls, Call, NestedCall
<1>7. CASE GuiDelete \/ GuiNew \/ GuiSetAvoid \/ GuiSetColorMap \/ GuiSetView \/ GuiSetSize
  BY <1>1, <1>7 DEF GuiDelete, GuiNew, GuiSetAvoid, GuiSetColorMap, GuiSetView, GuiSetSize
<1> QED
  BY <1>3, <1>4, <1>5, <1>6, <1>7 DEF GuiWorks, GuiTimer, GuiModels, GuiCanvas

\* A disturbed round is not cleared as an undisturbed one.
LEMMA GuiClearsInLevel ==
    ASSUME TypeOK, GuiWorks \/ GuiCalls,
           (pc = "clearLevel" /\ Undisturbed) => refineLevel <= refineMax
    PROVE  ((pc = "clearLevel" /\ Undisturbed) => refineLevel <= refineMax)'
<1>1. CASE disturbed'
  BY <1>1 DEF Undisturbed
<1>2. CASE /\ UNCHANGED <<models, bColorMap, timerVars, loc, disturbed>>
           /\ pc' = pc \/ (pc = "idle" /\ pc' = "starting")
  BY <1>2 DEF Undisturbed, Painter, Paints, timerVars
<1> QED
  BY <1>1, <1>2, GuiDisturbs

\* PictureInv holds when the program has started.
LEMMA PictureInvInit == Init => PictureInv
BY RefineInit DEF PictureInv, Init, TimerInit, AtPixel

\* Every step keeps PictureInv.
LEMMA PictureInvNext == TypeOK /\ PictureInv /\ [Next]_vars => PictureInv'
<1> SUFFICES ASSUME TypeOK, PictureInv, [Next]_vars PROVE PictureInv'
  OBVIOUS
<1>1. RefineInv'
  BY RefineNext DEF PictureInv
<1>2. CASE ThreadStep
  BY <1>1, <1>2, ThreadKeepsCurrent, ThreadClearsInLevel DEF ThreadStep, PictureInv
<1>3. CASE GuiWorks \/ GuiCalls
  BY <1>1, <1>3, GuiKeepsCurrent, GuiClearsInLevel DEF PictureInv
<1>4. CASE UNCHANGED vars
  <2>1. UNCHANGED <<models, bColorMap, disturbed, refineLevel, refineMax, mapSize, bigMap, pc, loc>>
    BY <1>4 DEF vars, timerAll, modelVars, timerVars, threadVars
  <2> QED
    BY <1>1, <2>1 DEF PictureInv, Fresh, Ranks, Undisturbed, Painter, Paints
<1> QED
  BY <1>2, <1>3, <1>4 DEF Next

\* Every state satisfies it: no pixel evaluated on what is no longer to be shown is
\* painted beside fresh ones, and a whole round is not cleared undisturbed.
THEOREM PictureInvHolds == Spec => []PictureInv
<1>1. Init => TypeOK /\ PictureInv
  BY TypeInit, PictureInvInit
<1>2. (TypeOK /\ PictureInv) /\ [Next]_vars => (TypeOK /\ PictureInv)'
  BY TypeNext, PictureInvNext DEF PictureInv
<1> QED
  BY <1>1, <1>2, PTL DEF Spec

-----------------------------------------------------------------------------
(* The drawing thread's steps                                               *)

\* Clear: the picture's NewMap, when it gives the thread new images.
LEMMA ClearOnPicture ==
    ASSUME TypeOK, PictureInv, ThreadClear
    PROVE  Pict!NewMap \/ UNCHANGED Pict!vars
<1>1. UNCHANGED <<models, bColorMap, posted, shown>>
  BY DEF ThreadClear, modelVars, canvasVars
<1>2. CASE pc = "clearLevel"
  <2>1. UNCHANGED <<mapSize, bigMap, refineMax, disturbed>> /\ refineLevel' = 0
    BY <1>2 DEF ThreadClear
  <2>2. Undisturbed' = Undisturbed
    BY <1>1, <2>1 DEF Undisturbed, Painter, Paints
  <2>3. Round' = Round
    BY <1>2, <2>1, <2>2, PaintedTypes DEF Round, PictureInv
  <2> QED
    BY <1>1, <2>1, <2>3 DEF Pict!vars, Ranks, Fresh
<1>3. CASE pc = "clearSize"
  <2>1. UNCHANGED <<mapSize, bigMap, refineMax, refineLevel, disturbed>>
    BY <1>3 DEF ThreadClear
  <2> QED
    BY <1>1, <2>1, PictureStutters
<1>4. CASE pc = "clearMaps"
  <2>1. NewMaps /\ refineLevel = 0 /\ UNCHANGED <<refineLevel, refineMax>>
    BY <1>4 DEF ThreadClear, PictureInv, RefineInv
  <2>2. Fresh' = {}
    BY <2>1 DEF NewMaps, Fresh, Ranks
  <2>3. Round # "whole" /\ Round' \in {"void", "growing"}
    BY <2>1, PaintedTypes DEF Round
  <2> QED
    BY <1>1, <2>2, <2>3 DEF Pict!NewMap
<1> QED
  BY <1>2, <1>3, <1>4 DEF ThreadClear

\* run: the picture's Send, when it emits the map.
LEMMA RunOnPicture ==
    ASSUME TypeOK, Run
    PROVE  Pict!Send \/ UNCHANGED Pict!vars
<1>1. CASE RunBegin \/ RunLoop \/ RunCheck
  BY <1>1, PictureStutters DEF RunBegin, RunLoop, RunCheck, modelVars, canvasVars, timerVars
<1>2. CASE Emit
  <2>1. UNCHANGED <<models, bColorMap, disturbed, mapSize, bigMap, refineLevel, refineMax, shown>>
    BY <1>2 DEF Emit, modelVars, timerVars
  <2>2. UNCHANGED <<Ranks, Fresh, Round, shown.map>>
    BY <2>1 DEF Ranks, Fresh, Round, Undisturbed, Painter, Paints
  <2>3. MapComplete <=> Fresh = Ranks
    BY DEF MapComplete, Fresh
  <2>4. posted'.map \in {posted.map, "partial", ImageOfMap}
    BY <1>2 DEF Emit, TypeOK, CanvasTypes
  <2>5. CASE posted'.map = posted.map
    BY <2>2, <2>5 DEF Pict!vars
  <2>6. CASE posted'.map \in {"partial", ImageOfMap}
    BY <2>2, <2>3, <2>6 DEF Pict!Send, Pict!Complete, ImageOfMap
  <2> QED
    BY <2>4, <2>5, <2>6
<1> QED
  BY <1>1, <1>2 DEF Run

\* Refine: the picture's Finish, when the last level is done.
LEMMA RefineOnPicture ==
    ASSUME TypeOK, PictureInv, Refine
    PROVE  Pict!Finish \/ UNCHANGED Pict!vars
<1>1. CASE RefineDone \/ RefineSize \/ RefineFirst \/ RefineBatch \/ IncRead
  BY <1>1, PictureStutters DEF RefineDone, RefineSize, RefineFirst, RefineBatch, IncRead,
     modelVars, canvasVars, timerVars
<1>2. CASE ChooseMax
  <2>1. refineLevel = 0 /\ refineLevel' = 0 /\ refineMax' \in Nat
    BY <1>2, LevelsAssumption DEF ChooseMax, PictureInv, RefineInv
  <2>2. UNCHANGED <<models, bColorMap, disturbed, mapSize, bigMap, posted, shown>>
    BY <1>2 DEF ChooseMax, modelVars, canvasVars
  <2>3. Round' = Round
    BY <2>1, <2>2, PaintedTypes DEF Round, Undisturbed, Painter, Paints
  <2> QED
    BY <2>2, <2>3 DEF Pict!vars, Ranks, Fresh
<1>3. CASE IncWrite
  <2>1. UNCHANGED <<models, bColorMap, disturbed, mapSize, bigMap, posted, shown, refineMax>>
    BY <1>3 DEF IncWrite, modelVars, canvasVars
  <2>2. Undisturbed' = Undisturbed /\ UNCHANGED <<Ranks, Fresh, posted.map, shown.map>>
    BY <2>1 DEF Undisturbed, Painter, Paints, Ranks, Fresh
  <2>3. CASE ~Undisturbed
    BY <2>2, <2>3 DEF Round, Pict!vars
  <2>4. CASE Undisturbed
    <3>1. Painted /\ Painted'
      BY <1>3, <2>4, RefinePaints DEF PictureInv, RefineInv
    <3>2. refineLevel <= refineMax
      BY <1>3, <3>1, PaintedTypes DEF IncWrite, Painted, AfterBatch
    <3>3. Round = "growing"
      BY <2>4, <3>2, PaintedTypes DEF Round
    <3>4. CASE refineLevel' > refineMax'
      <4>1. Fresh = Ranks
        BY <2>1, <3>1, <3>4 DEF Painted, MapComplete, Fresh, Ranks
      <4>2. Round' = "whole"
        BY <2>2, <2>4, <3>4 DEF Round
      <4> QED
        BY <2>2, <3>3, <4>1, <4>2 DEF Pict!Finish, Pict!Complete
    <3>5. CASE ~(refineLevel' > refineMax')
      BY <2>2, <2>4, <3>3, <3>5 DEF Round, Pict!vars
    <3> QED
      BY <3>4, <3>5
  <2> QED
    BY <2>3, <2>4
<1> QED
  BY <1>1, <1>2, <1>3 DEF Refine

\* TestFast: the picture's Paint, when the pixel is painted with what is to be
\* shown and lies in the map.
LEMMA TestFastOnPicture ==
    ASSUME TypeOK, PictureInv, TestFast
    PROVE  (\E r \in Ranks : Pict!Paint(r)) \/ UNCHANGED Pict!vars
<1>1. CASE TestFastBegin \/ TestFastPixel \/ TestFastLock \/ TestFastTest \/ TestFastEnd
  BY <1>1, PictureStutters DEF TestFastBegin, TestFastPixel, TestFastLock, TestFastTest,
     TestFastEnd, modelVars, canvasVars, timerVars
<1>2. CASE TestFastPaint
  <2>1. UNCHANGED <<models, bColorMap, disturbed, mapSize, refineLevel, refineMax, posted, shown>>
    BY <1>2 DEF TestFastPaint, modelVars, canvasVars
  <2>2. UNCHANGED <<Ranks, Round, posted.map, shown.map>>
    BY <2>1 DEF Ranks, Round, Undisturbed, Painter, Paints
  <2>3. PICK r \in IF loc.pixel = Unknown THEN Ranks \cup {Outside} ELSE {loc.pixel} :
          bigMap' = [q \in DOMAIN bigMap |->
                       IF q # r THEN bigMap[q] ELSE IF loc.current THEN "fresh" ELSE "stale"]
    BY <1>2 DEF TestFastPaint
  <2>4. \A q \in Ranks :
          bigMap'[q] = IF q # r THEN bigMap[q] ELSE IF loc.current THEN "fresh" ELSE "stale"
    BY <2>3 DEF TypeOK, TimerTypes
  <2>5. CASE r \in Ranks /\ loc.current
    <3>1. Fresh' = Fresh \cup {r}
      BY <2>2, <2>4, <2>5 DEF Fresh
    <3> QED
      BY <2>2, <2>5, <3>1 DEF Pict!Paint
  <2>6. CASE r \notin Ranks
    <3>1. Fresh' = Fresh
      BY <2>2, <2>4, <2>6 DEF Fresh
    <3> QED
      BY <2>2, <3>1 DEF Pict!vars
  <2>7. CASE ~loc.current
    <3>1. Fresh = {}
      BY <1>2, <2>7 DEF TestFastPaint, PictureInv, AtPixel
    <3>2. Fresh' = {}
      BY <2>2, <2>4, <2>7, <3>1 DEF Fresh
    <3> QED
      BY <2>2, <3>1, <3>2 DEF Pict!vars
  <2> QED
    BY <2>5, <2>6, <2>7
<1> QED
  BY <1>1, <1>2 DEF TestFast

\* VectorsFast and Maximization leave the picture of the map alone.
LEMMA FieldOnPicture ==
    ASSUME TypeOK, VectorsFast \/ Maximization
    PROVE  UNCHANGED Pict!vars
<1> USE PictureStutters DEF modelVars, canvasVars, timerVars
<1>1. CASE VectorsFast
  BY <1>1 DEF VectorsFast, FieldBegin, FieldRate, FieldDraw, FieldPoint, FieldLock, FieldTest
<1>2. CASE OptimizeBegin \/ OptimizeLock \/ OptimizeTest \/ OptimizeDraw
  BY <1>2 DEF OptimizeBegin, OptimizeLock, OptimizeTest, OptimizeDraw
<1>3. CASE OptimizeDone
  <2>1. UNCHANGED <<models, bColorMap, disturbed, mapSize, bigMap, refineMax, posted, shown>>
    BY <1>3 DEF OptimizeDone
  <2>2. "maximizer" \in models \/ refineLevel' = refineLevel
    BY <1>3 DEF OptimizeDone
  <2>3. Round' = Round
    BY <2>1, <2>2 DEF Round, Undisturbed, Painter, Paints
  <2> QED
    BY <2>1, <2>3 DEF Pict!vars, Ranks, Fresh
<1> QED
  BY <1>1, <1>2, <1>3 DEF Maximization

\* A step of the drawing thread is one of the picture's, or none.
LEMMA ThreadOnPicture ==
    ASSUME TypeOK, PictureInv, DrawingThread
    PROVE  Pict!Next \/ UNCHANGED Pict!vars
BY ClearOnPicture, RunOnPicture, RefineOnPicture, TestFastOnPicture, FieldOnPicture
   DEF DrawingThread, Pict!Next

-----------------------------------------------------------------------------
(* The GUI thread's steps                                                   *)

\* A step of the GUI thread is one of the picture's, or none.
LEMMA GuiOnPicture ==
    ASSUME TypeOK, GuiWorks \/ GuiCalls
    PROVE  Pict!Next \/ UNCHANGED Pict!vars
<1>1. CASE GuiStop \/ GuiClearLevel \/ GuiClearSize \/ GuiToggle
  BY <1>1, PictureDisturbed DEF GuiStop, GuiClearLevel, GuiClearSize, GuiToggle, Disturb, timerVars,
     canvasVars, Pict!Next
<1>2. CASE GuiClearMaps
  <2>1. Fresh' = {}
    BY <1>2 DEF GuiClearMaps, NewMaps, Fresh, Ranks
  <2>2. Round' = "void" /\ UNCHANGED <<posted.map, shown.map>>
    BY <1>2 DEF GuiClearMaps, Disturb, Round, Undisturbed, canvasVars
  <2> QED
    BY <2>1, <2>2 DEF Pict!NewMap, Pict!Next
<1>3. CASE GuiStart \/ GuiLocks \/ GuiUseModel \/ GuiEvents \/ GuiCalls
  BY <1>3, PictureStutters DEF GuiStart, GuiLocks, GuiLock, GuiTryLock, GuiUnlock, GuiUseModel,
     GuiEvents, GuiCalls, Call, NestedCall, timerAll, modelVars, canvasVars, timerVars
<1>4. CASE GuiDelete \/ GuiNew \/ GuiSetAvoid \/ GuiSetColorMap \/ GuiSetSize
  <2>1. Outdate /\ OutdateShown /\ disturbed' /\ UNCHANGED mapSize
    BY <1>4 DEF GuiDelete, GuiNew, GuiSetAvoid, GuiSetColorMap, GuiSetSize, Disturb
  <2>2. shown'.map = Outdated(shown.map)
    BY <2>1 DEF OutdateShown, TypeOK, CanvasTypes
  <2> QED
    BY <2>1, <2>2, PictureChanged DEF Pict!Next
<1>5. CASE GuiSetView
  BY <1>5, PictureChanged DEF GuiSetView, Disturb, NoPictures, Pict!Next
<1>6. CASE GuiWipe
  <2>1. /\ UNCHANGED <<models, bColorMap, disturbed, mapSize, bigMap, refineLevel, refineMax, posted>>
        /\ shown'.map = "none"
    BY <1>6 DEF GuiWipe, NoPictures, modelVars, timerVars
  <2> QED
    BY <2>1 DEF Pict!Drop, Pict!Next, Ranks, Fresh, Round, Undisturbed, Painter, Paints
<1>7. CASE DeliverMap
  <2>1. UNCHANGED <<models, bColorMap, disturbed, mapSize, bigMap, refineLevel, refineMax>>
    BY <1>7 DEF DeliverMap, modelVars, timerVars
  <2>2. posted.map # "none" /\ shown'.map = posted.map /\ posted'.map = "none"
    BY <1>7 DEF DeliverMap, TypeOK, CanvasTypes
  <2> QED
    BY <2>1, <2>2 DEF Pict!Deliver, Pict!Next, Ranks, Fresh, Round, Undisturbed, Painter, Paints
<1>8. CASE DeliverModel
  <2>1. UNCHANGED <<posted.map, shown.map>>
    BY <1>8 DEF DeliverModel, TypeOK, CanvasTypes
  <2> QED
    BY <1>8, <2>1, PictureStutters DEF DeliverModel, modelVars, timerVars
<1> QED
  BY <1>1, <1>2, <1>3, <1>4, <1>5, <1>6, <1>7, <1>8 DEF GuiWorks, GuiTimer, GuiModels, GuiCanvas

-----------------------------------------------------------------------------
\* Whatever the sizes, the levels and the slots: the thread and the window
\* together implement Picture (drawTimer.cpp:64-203).  A painted pixel is never
\* lost to an evaluation of what was to be shown before, a round nobody came
\* between ends only when it is whole, and what is sent as complete is so.
THEOREM PictureIsImplemented == Spec => ImplementsPicture
<1>1. Init => TypeOK /\ PictureInv
  BY TypeInit, PictureInvInit
<1>2. (TypeOK /\ PictureInv) /\ [Next]_vars => (TypeOK /\ PictureInv)'
  BY TypeNext, PictureInvNext DEF PictureInv
<1>3. Init => Pict!Init
  <2> SUFFICES ASSUME Init PROVE Pict!Init
    OBVIOUS
  <2>1. Ranks = {}
    BY DEF Init, TimerInit, Ranks, Area
  <2> QED
    BY <2>1 DEF Init, TimerInit, Pict!Init, Fresh, Round, Undisturbed
<1>4. (TypeOK /\ PictureInv) /\ [Next]_vars => [Pict!Next]_Pict!vars
  <2> SUFFICES ASSUME TypeOK, PictureInv, [Next]_vars PROVE Pict!Next \/ UNCHANGED Pict!vars
    OBVIOUS
  <2>1. CASE ThreadStep
    BY <2>1, ThreadOnPicture DEF ThreadStep
  <2>2. CASE GuiWorks \/ GuiCalls
    BY <2>2, GuiOnPicture
  <2>3. CASE UNCHANGED vars
    BY <2>3, PictureStutters DEF vars, timerAll, modelVars, canvasVars, timerVars
  <2> QED
    BY <2>1, <2>2, <2>3 DEF Next
<1> QED
  BY <1>1, <1>2, <1>3, <1>4, PTL DEF Spec, ImplementsPicture, Pict!Spec
=============================================================================
