----------------------------- MODULE DrawTimer -----------------------------
(***************************************************************************)
(* The drawing thread of MLDemos (MLDemos/drawTimer.cpp).  A DrawTimer is a *)
(* QThread that refines the picture of the current model: level after       *)
(* level it evaluates the model on a batch of the canvas' pixels, in the    *)
(* order of a random permutation, and posts the picture to the canvas.  It  *)
(* shares the models with the GUI thread under `mutex' and the picture      *)
(* under `drawMutex'; its control fields (bRunning, refineLevel, w, h) are  *)
(* written by both threads with no lock at all.                             *)
(*                                                                          *)
(* This module holds the state both threads share, the steps of the drawing *)
(* thread, and DrawTimer's methods as the GUI thread calls them (Stop,      *)
(* Clear, start).  Module Processing adds the GUI's handlers and composes   *)
(* the two threads.                                                         *)
(*                                                                          *)
(* Abstractions of the data:                                                *)
(*  - a pixel of the map is blank, fresh (evaluated on the current model    *)
(*    and view) or stale (evaluated on an earlier one);                     *)
(*  - the map is indexed by a pixel's rank in the permutation `perm', which *)
(*    is replaced only together with the map; a pixel looked up before such *)
(*    a replacement has an unknown rank after it;                           *)
(*  - a block between drawMutex.lock() and unlock() that waits for nothing  *)
(*    is one step, enabled while drawMutex is free;                         *)
(*  - of several images posted and not yet delivered only the last counts.  *)
(***************************************************************************)
EXTENDS Integers, Sequences, FiniteSets

CONSTANTS
    Sizes,       \* the sizes [w, h] the canvas may have
    MapLevels,   \* refineMax of a map            (20 in the code)
    OptLevels,   \* refineMax of a maximization   (100 in the code)
    FieldSteps,  \* integration steps of VectorsFast (count * 8 in the code)
    MaxAge       \* iterations of a maximizer (maxAge)

ASSUME SizesAssumption == Sizes \subseteq [w : Nat \ {0}, h : Nat \ {0}] /\ Sizes # {}
ASSUME LevelsAssumption == MapLevels \in Nat \ {0} /\ OptLevels \in Nat \ {0}
ASSUME BoundsAssumption == FieldSteps \in Nat /\ MaxAge \in Nat

Kinds == {"classifier", "regressor", "dynamical", "clusterer", "maximizer"}
Threads == {"gui", "draw"}

Unknown == -1   \* a pixel whose rank in the current permutation is not known
Outside == -2   \* a pixel that is not in the map

VARIABLES
    \* the models of MLDemos and what they are drawn with
    models,       \* the kinds whose pointer is not null
    usesTimer,    \* classifier->UsesDrawTimer()
    converged,    \* maximizer->hasConverged()
    age,          \* maximizer->age
    bColorMap,    \* the dynamical system is drawn as a colour map
    \* the canvas
    size,         \* its current width and height
    shown,        \* [map, model]: its confidencePixmap and modelPixmap
    posted,       \* [map, model]: images in the GUI's event queue
    \* the locks: their owner, or "free"
    mutex, drawMutex,
    \* the fields of DrawTimer
    bRunning, refineLevel, refineMax,
    dims,         \* w and h
    mapSize,      \* the size of bigMap, modelMap and perm
    bigMap,       \* by rank: "blank", "fresh" or "stale"
    \* the drawing thread: its program counter and its local variables
    pc, loc,
    \* history: the thread has not cleared the map for a new refinement since
    \* the GUI last changed something (or since the beginning)
    disturbed

modelVars  == <<models, usesTimer, converged, age, bColorMap>>
canvasVars == <<size, shown, posted>>
lockVars   == <<mutex, drawMutex>>
timerVars  == <<bRunning, refineLevel, refineMax, dims, mapSize, bigMap>>
threadVars == <<pc, loc>>
timerAll   == <<modelVars, canvasVars, lockVars, timerVars, threadVars, disturbed>>

Area(s) == s.w * s.h
Ranks == 0 .. Area(mapSize) - 1
Images == {"none", "partial", "complete"}

\* The model TestFast paints with: the first that is not null, in the order
\* of its if ... else if chain; a regressor is evaluated but not painted.
Painter ==
    IF "classifier" \in models THEN "classifier"
    ELSE IF "regressor" \in models THEN "regressor"
    ELSE IF "clusterer" \in models THEN "clusterer"
    ELSE IF "dynamical" \in models /\ bColorMap THEN "dynamical"
    ELSE "nobody"

Paints(kind) == kind \in {"classifier", "clusterer", "dynamical"}

MapComplete == \A r \in Ranks : bigMap[r] = "fresh"

PCs == {"idle", "starting", "loop", "check", "clearLevel", "clearSize", "clearMaps",
        "refine", "size", "level", "setMax", "batch", "obstacles", "pixel",
        "lockModel", "test", "paint", "field", "fieldRate", "fieldDraw",
        "fieldPoint", "fieldLock", "fieldTest", "optimize", "optLock", "optTest",
        "optDraw", "optDone", "incRead", "incWrite", "emit", "crashed"}

NoLocals == [back |-> "check", level |-> 0, i |-> 0, stop |-> 0,
             pixel |-> Unknown, current |-> FALSE, steps |-> 0, using |-> "nobody"]

TimerInit ==
    /\ models = {} /\ usesTimer = FALSE /\ converged = TRUE /\ age = 0
    /\ bColorMap = TRUE
    /\ size \in Sizes
    /\ shown = [map |-> "none", model |-> FALSE]
    /\ posted = [map |-> "none", model |-> FALSE]
    /\ mutex = "free" /\ drawMutex = "free"
    /\ bRunning = FALSE /\ refineLevel = 0 /\ refineMax = 10
    /\ dims = [w |-> 0, h |-> 0] /\ mapSize = dims /\ bigMap = <<>>
    /\ pc = "idle" /\ loc = NoLocals
    /\ disturbed = TRUE

-----------------------------------------------------------------------------
(* DrawTimer::Clear, in the three steps that other threads can observe.     *)

\* mutant: the images keep the size they had
NewMapsOfOldSize ==
    /\ mapSize' = dims
    /\ bigMap' = [r \in DOMAIN bigMap |-> "blank"]

\* a fresh pair of images and a fresh permutation, under drawMutex
NewMaps ==
    /\ mapSize' = dims
    /\ bigMap' = [r \in 0 .. Area(dims) - 1 |-> "blank"]

\* What the canvas should show changes: pixels painted so far become stale.
Outdated(image) == IF image = "complete" THEN "partial" ELSE image
Outdate ==
    /\ bigMap' = [r \in DOMAIN bigMap |-> IF bigMap[r] = "fresh" THEN "stale" ELSE bigMap[r]]
    /\ loc' = [loc EXCEPT !.current = FALSE]
    /\ posted' = [posted EXCEPT !.map = Outdated(@)]
OutdateShown == shown' = [shown EXCEPT !.map = Outdated(@)]

\* The image the thread sends: complete when every pixel is fresh.
ImageOfMap == IF MapComplete THEN "complete" ELSE "partial"

\* The three steps as the thread runs them; loc.back says what called Clear.
ThreadClear ==
    \/ /\ pc = "clearLevel"
       /\ refineLevel' = 0 /\ pc' = "clearSize"
       /\ UNCHANGED <<modelVars, canvasVars, lockVars, bRunning, refineMax, dims,
                      mapSize, bigMap, loc, disturbed>>
    \/ /\ pc = "clearSize"
       /\ dims' = size /\ pc' = "clearMaps"
       /\ UNCHANGED <<modelVars, canvasVars, lockVars, bRunning, refineLevel, refineMax,
                      mapSize, bigMap, loc, disturbed>>
    \/ /\ pc = "clearMaps" /\ drawMutex = "free"
       /\ NewMaps
       /\ pc' = IF loc.back = "check" THEN "idle"
                ELSE IF loc.back = "size" THEN "emit" ELSE "setMax"
       /\ bRunning' = (bRunning /\ loc.back # "check")
       /\ loc' = NoLocals
       /\ disturbed' = (disturbed /\ loc.back # "level")
       /\ UNCHANGED <<modelVars, canvasVars, lockVars, refineLevel, refineMax, dims>>

CallClear(from) == pc' = "clearLevel" /\ loc' = [loc EXCEPT !.back = from]

-----------------------------------------------------------------------------
(* DrawTimer::run and DrawTimer::Refine.                                    *)

RunBegin ==
    /\ pc = "starting"
    /\ bRunning' = TRUE /\ pc' = "loop"
    /\ UNCHANGED <<modelVars, canvasVars, lockVars, refineLevel, refineMax, dims,
                   mapSize, bigMap, loc, disturbed>>

\* while(bRunning); the thread ends when it is false
RunLoop ==
    /\ pc = "loop"
    /\ pc' = IF bRunning THEN "check" ELSE "idle"
    /\ UNCHANGED <<modelVars, canvasVars, lockVars, timerVars, loc, disturbed>>

\* no model at all: Clear, bRunning = false, return
RunCheck ==
    /\ pc = "check"
    /\ IF models = {} THEN CallClear("check") ELSE pc' = "refine" /\ UNCHANGED loc
    /\ UNCHANGED <<modelVars, canvasVars, lockVars, timerVars, disturbed>>

\* mutant: bRunning stays true after the last level
RefineDoneForever ==
    /\ pc = "refine"
    /\ pc' = IF refineLevel > refineMax THEN "emit" ELSE "size"
    /\ UNCHANGED <<modelVars, canvasVars, lockVars, timerVars, loc, disturbed>>

RefineDone ==
    /\ pc = "refine"
    /\ IF refineLevel > refineMax
         THEN bRunning' = FALSE /\ pc' = "emit"
         ELSE pc' = "size" /\ UNCHANGED bRunning
    /\ UNCHANGED <<modelVars, canvasVars, lockVars, refineLevel, refineMax, dims,
                   mapSize, bigMap, loc, disturbed>>

RefineSize ==
    /\ pc = "size"
    /\ IF size # dims THEN CallClear("size") ELSE pc' = "level" /\ UNCHANGED loc
    /\ UNCHANGED <<modelVars, canvasVars, lockVars, timerVars, disturbed>>

RefineFirst ==
    /\ pc = "level"
    /\ IF refineLevel = 0 THEN CallClear("level") ELSE pc' = "batch" /\ UNCHANGED loc
    /\ UNCHANGED <<modelVars, canvasVars, lockVars, timerVars, disturbed>>

ChooseMax ==
    /\ pc = "setMax"
    /\ refineMax' = IF "maximizer" \in models THEN OptLevels ELSE MapLevels
    /\ pc' = "incRead"
    /\ UNCHANGED <<modelVars, canvasVars, lockVars, bRunning, refineLevel, dims,
                   mapSize, bigMap, loc, disturbed>>

\* mutants: the last level forgets the remainder; levels counted from 0
BatchStopWithoutRest(area, level, max) == (area \div max) * level
BatchStartFromZero(area, level, max) == (area \div max) * level

\* The ranks [start, stop) of level `level' of `max' levels over `area' pixels.
BatchStart(area, level, max) == (area \div max) * (level - 1)
BatchStop(area, level, max) == IF level = max THEN area ELSE (area \div max) * level

RefineBatch ==
    /\ pc = "batch"
    /\ IF "maximizer" \in models
         THEN pc' = "optimize" /\ UNCHANGED loc
         ELSE /\ pc' = "obstacles"
              /\ loc' = [loc EXCEPT !.i = BatchStart(Area(dims), refineLevel, refineMax),
                                    !.stop = BatchStop(Area(dims), refineLevel, refineMax)]
    /\ UNCHANGED <<modelVars, canvasVars, lockVars, timerVars, disturbed>>

\* refineLevel++ reads and writes the field; the GUI may clear it in between
IncRead ==
    /\ pc = "incRead"
    /\ loc' = [loc EXCEPT !.level = refineLevel] /\ pc' = "incWrite"
    /\ UNCHANGED <<modelVars, canvasVars, lockVars, timerVars, disturbed>>

IncWrite ==
    /\ pc = "incWrite"
    /\ refineLevel' = loc.level + 1
    /\ loc' = NoLocals /\ pc' = "emit"
    /\ UNCHANGED <<modelVars, canvasVars, lockVars, bRunning, refineMax, dims,
                   mapSize, bigMap, disturbed>>

\* the images are posted to the GUI thread under drawMutex
Emit ==
    /\ pc = "emit" /\ drawMutex = "free"
    /\ posted' =
         IF "maximizer" \in models THEN [posted EXCEPT !.model = TRUE]
         ELSE [posted EXCEPT !.map =
                 IF "dynamical" \in models /\ ~bColorMap THEN "partial" ELSE ImageOfMap]
    /\ pc' = "loop"
    /\ UNCHANGED <<modelVars, size, shown, lockVars, timerVars, loc, disturbed>>

-----------------------------------------------------------------------------
(* DrawTimer::TestFast: paint the ranks from loc.i up to loc.stop.          *)

\* the limit is checked against the whole picture, then the obstacles are
\* copied under mutex
TestFastBegin ==
    /\ pc = "obstacles" /\ mutex = "free"
    /\ loc' = [loc EXCEPT !.stop = IF @ < 0 \/ @ > Area(dims) THEN Area(dims) ELSE @]
    /\ pc' = "pixel"
    /\ UNCHANGED <<modelVars, canvasVars, lockVars, timerVars, disturbed>>

\* perm[i], split into x and y by the current w: when w and h are those of the
\* map this is the pixel of rank i; otherwise it is some pixel, or none.  An
\* index outside perm reads whatever lies in memory there.
InMap(p) == p % dims.w < mapSize.w /\ p \div dims.w < mapSize.h
Lookup(i) ==
    IF dims = mapSize /\ i \in Ranks THEN {i}
    ELSE {IF InMap(p) THEN Unknown ELSE Outside :
            p \in IF i \in Ranks THEN Ranks ELSE {0, dims.w * mapSize.h}}

\* a pixel that is not in the map is skipped with drawMutex still locked
TestFastPixel ==
    /\ pc = "pixel" /\ loc.i < loc.stop /\ drawMutex = "free"
    /\ \E p \in Lookup(loc.i) :
         IF p = Outside
           THEN /\ drawMutex' = "draw"
                /\ loc' = [loc EXCEPT !.i = @ + 1]
                /\ UNCHANGED pc
           ELSE /\ loc' = [loc EXCEPT !.pixel = p, !.current = TRUE]
                /\ pc' = "lockModel"
                /\ UNCHANGED drawMutex
    /\ UNCHANGED <<modelVars, canvasVars, mutex, timerVars, disturbed>>

TestFastLock ==
    /\ pc = "lockModel" /\ mutex = "free"
    /\ mutex' = "draw" /\ pc' = "test"
    /\ UNCHANGED <<modelVars, canvasVars, drawMutex, timerVars, loc, disturbed>>

\* mutant: mutex is released before the model is evaluated
TestFastTestUnlocked ==
    /\ pc = "test" /\ mutex' = "free"
    /\ IF Paints(Painter)
         THEN loc' = [loc EXCEPT !.using = Painter] /\ pc' = "paint"
         ELSE loc' = [loc EXCEPT !.i = @ + 1, !.pixel = Unknown] /\ pc' = "pixel"
    /\ UNCHANGED <<modelVars, canvasVars, drawMutex, timerVars, disturbed>>

\* mutant: mutex is not released for a pixel that is not painted
TestFastTestLocked ==
    /\ pc = "test"
    /\ IF Paints(Painter)
         THEN loc' = [loc EXCEPT !.using = Painter] /\ pc' = "paint"
         ELSE loc' = [loc EXCEPT !.i = @ + 1, !.pixel = Unknown] /\ pc' = "pixel"
    /\ UNCHANGED <<modelVars, canvasVars, lockVars, timerVars, disturbed>>

\* the model is chosen and evaluated under mutex
TestFastTest ==
    /\ pc = "test"
    /\ IF Paints(Painter)
         THEN /\ loc' = [loc EXCEPT !.using = Painter] /\ pc' = "paint"
              /\ UNCHANGED mutex
         ELSE /\ loc' = [loc EXCEPT !.i = @ + 1, !.pixel = Unknown]
              /\ pc' = "pixel" /\ mutex' = "free"
    /\ UNCHANGED <<modelVars, canvasVars, drawMutex, timerVars, disturbed>>

\* setPixel under drawMutex, nested in mutex.  A pixel of an earlier
\* permutation lands on some rank of the new one, or outside a smaller map.
TestFastPaint ==
    /\ pc = "paint" /\ drawMutex = "free"
    /\ \E r \in IF loc.pixel = Unknown THEN Ranks \cup {Outside} ELSE {loc.pixel} :
         bigMap' = [q \in DOMAIN bigMap |->
                      IF q # r THEN bigMap[q] ELSE IF loc.current THEN "fresh" ELSE "stale"]
    /\ loc' = [loc EXCEPT !.i = @ + 1, !.pixel = Unknown, !.current = FALSE, !.using = "nobody"]
    /\ mutex' = "free" /\ pc' = "pixel"
    /\ UNCHANGED <<modelVars, canvasVars, drawMutex, bRunning, refineLevel, refineMax,
                   dims, mapSize, disturbed>>

\* the batch is finished; a dynamical system without colour map goes on with
\* its vector field
TestFastEnd ==
    /\ pc = "pixel" /\ loc.i >= loc.stop
    /\ loc' = NoLocals
    /\ pc' = IF "dynamical" \in models /\ ~bColorMap THEN "field" ELSE "incRead"
    /\ UNCHANGED <<modelVars, canvasVars, lockVars, timerVars, disturbed>>

-----------------------------------------------------------------------------
(* DrawTimer::VectorsFast: short trajectories, painted with drawMutex held  *)
(* throughout and mutex taken for each step.                                *)

FieldBegin ==
    /\ pc = "field"
    /\ pc' = IF "dynamical" \in models /\ bRunning THEN "fieldRate" ELSE "incRead"
    /\ UNCHANGED <<modelVars, canvasVars, lockVars, timerVars, loc, disturbed>>

\* dT is read under mutex, from a pointer that was checked before it
FieldRate ==
    /\ pc = "fieldRate" /\ mutex = "free"
    /\ pc' = IF "dynamical" \in models THEN "fieldDraw" ELSE "crashed"
    /\ UNCHANGED <<modelVars, canvasVars, lockVars, timerVars, loc, disturbed>>

FieldDraw ==
    /\ pc = "fieldDraw" /\ drawMutex = "free"
    /\ drawMutex' = "draw" /\ pc' = "fieldPoint"
    /\ loc' = [loc EXCEPT !.steps = FieldSteps]
    /\ UNCHANGED <<modelVars, canvasVars, mutex, timerVars, disturbed>>

FieldPoint ==
    /\ pc = "fieldPoint"
    /\ IF loc.steps > 0 /\ "dynamical" \in models
         THEN pc' = "fieldLock" /\ UNCHANGED <<drawMutex, loc>>
         ELSE pc' = "incRead" /\ drawMutex' = "free" /\ loc' = NoLocals
    /\ UNCHANGED <<modelVars, canvasVars, mutex, timerVars, disturbed>>

\* mutant: the model is evaluated without mutex
FieldLockMissing ==
    /\ pc = "fieldLock"
    /\ pc' = "fieldTest" /\ loc' = [loc EXCEPT !.using = "dynamical"]
    /\ UNCHANGED <<modelVars, canvasVars, lockVars, timerVars, disturbed>>

FieldLock ==
    /\ pc = "fieldLock" /\ mutex = "free"
    /\ mutex' = "draw" /\ pc' = "fieldTest"
    /\ loc' = [loc EXCEPT !.using = "dynamical"]
    /\ UNCHANGED <<modelVars, canvasVars, drawMutex, timerVars, disturbed>>

FieldTest ==
    /\ pc = "fieldTest"
    /\ IF "dynamical" \in models THEN pc' = "fieldPoint" /\ mutex' = "free"
                                 ELSE pc' = "crashed" /\ UNCHANGED mutex
    /\ loc' = [loc EXCEPT !.steps = @ - 1, !.using = "nobody"]
    /\ UNCHANGED <<modelVars, canvasVars, drawMutex, timerVars, disturbed>>

-----------------------------------------------------------------------------
(* DrawTimer::Maximization and the use Refine makes of it.                  *)

OptimizeBegin ==
    /\ pc = "optimize"
    /\ pc' = IF "maximizer" \in models THEN "optLock" ELSE "optDone"
    /\ UNCHANGED <<modelVars, canvasVars, lockVars, timerVars, loc, disturbed>>

OptimizeLock ==
    /\ pc = "optLock" /\ mutex = "free"
    /\ IF bRunning
         THEN mutex' = "draw" /\ pc' = "optTest" /\ loc' = [loc EXCEPT !.using = "maximizer"]
         ELSE pc' = "optDone" /\ UNCHANGED <<mutex, loc>>
    /\ UNCHANGED <<modelVars, canvasVars, drawMutex, timerVars, disturbed>>

\* mutant: no limit on the age
OptimizeTestAgeless ==
    /\ pc = "optTest" /\ "maximizer" \in models
    /\ \E reached \in BOOLEAN : converged' = (converged \/ reached)
    /\ age' = IF age >= MaxAge THEN age ELSE age + 1
    /\ pc' = "optDraw"
    /\ UNCHANGED <<models, usesTimer, bColorMap, canvasVars, lockVars, timerVars, loc,
                   disturbed>>

\* one iteration, which may reach stopValue; at maxAge the method is
\* declared converged
OptimizeTest ==
    /\ pc = "optTest"
    /\ IF "maximizer" \in models
         THEN /\ \E reached \in BOOLEAN :
                   converged' = (converged \/ reached \/ age >= MaxAge)
              /\ age' = IF age >= MaxAge THEN age ELSE age + 1
              /\ pc' = "optDraw"
         ELSE pc' = "crashed" /\ UNCHANGED <<converged, age>>
    /\ UNCHANGED <<models, usesTimer, bColorMap, canvasVars, lockVars, timerVars, loc,
                   disturbed>>

OptimizeDraw ==
    /\ pc = "optDraw" /\ drawMutex = "free"
    /\ mutex' = "free" /\ pc' = "optDone" /\ loc' = NoLocals
    /\ UNCHANGED <<modelVars, canvasVars, drawMutex, timerVars, disturbed>>

\* hasConverged() is called with no lock, on a pointer that is not checked
OptimizeDone ==
    /\ pc = "optDone"
    /\ IF "maximizer" \in models
         THEN /\ refineLevel' = IF converged THEN refineMax + 1 ELSE 1
              /\ pc' = "emit"
         ELSE pc' = "crashed" /\ UNCHANGED refineLevel
    /\ UNCHANGED <<modelVars, canvasVars, lockVars, bRunning, refineMax, dims, mapSize,
                   bigMap, loc, disturbed>>

-----------------------------------------------------------------------------
Run == RunBegin \/ RunLoop \/ RunCheck \/ Emit
Refine == RefineDone \/ RefineSize \/ RefineFirst \/ ChooseMax \/ RefineBatch
            \/ IncRead \/ IncWrite
TestFast == TestFastBegin \/ TestFastPixel \/ TestFastLock \/ TestFastTest
              \/ TestFastPaint \/ TestFastEnd
VectorsFast == FieldBegin \/ FieldRate \/ FieldDraw \/ FieldPoint \/ FieldLock \/ FieldTest
Maximization == OptimizeBegin \/ OptimizeLock \/ OptimizeTest \/ OptimizeDraw \/ OptimizeDone

DrawingThread == Run \/ Refine \/ ThreadClear \/ TestFast \/ VectorsFast \/ Maximization

\* where the thread evaluates a model, and where it holds mutex to do so
Evaluating == {"paint", "fieldTest", "optTest", "optDraw"}
InModelLock == Evaluating \cup {"test"}
=============================================================================
