----------------------------- MODULE Processing ----------------------------
(***************************************************************************)
(* The GUI thread of MLDemos against the drawing thread.  A slot of the     *)
(* main window (Classify, Cluster, Maximize, Clear, CanvasMoveEvent, ...)   *)
(* runs to its end in the GUI thread, while the drawing thread goes on      *)
(* between any two of its steps.  A slot is a program: the sequence of its  *)
(* steps that touch what the two threads share, in the order of the code.   *)
(* Choices the user makes (which algorithm, whether training succeeds,      *)
(* which size) are choices between programs or of a step.                   *)
(*                                                                          *)
(* The slots are entered with data on the canvas and with every plugin      *)
(* loaded, so that their early returns (no sample, no such tab) do not      *)
(* happen: those return before they touch anything, except that Classify    *)
(* would leave `mutex' locked.                                              *)
(***************************************************************************)
EXTENDS DrawTimer

CONSTANTS
    Handlers,     \* the slots the GUI may run, of DOMAIN Program
    Nested        \* those it may run from inside a processEvents

VARIABLES
    todo,         \* the steps the GUI thread has left to do
    timedOut      \* history: a tryLock of Navigation has timed out

vars == <<timerAll, todo, timedOut>>

-----------------------------------------------------------------------------
(* The slots.  "clearLevel", "clearSize", "clearMaps" are the steps of       *)
(* DrawTimer::Clear; "delete" stands for the five DELs.                      *)

Classify == <<"stop", "clearLevel", "clearSize", "clearMaps", "lock", "delete",
              "newClassifier", "start", "unlock">>
\* an algorithm that draws itself (UsesDrawTimer() is false)
ClassifyDirect == <<"stop", "clearLevel", "clearSize", "clearMaps", "lock", "delete",
                    "newDirect", "unlock">>
\* Train fails: mutex is released around the call of Clear
ClassifyFailed == <<"stop", "clearLevel", "clearSize", "clearMaps", "lock", "delete",
                    "newClassifier", "unlock",
                    "stop", "clearLevel", "clearSize", "clearMaps", "lock", "events",
                    "delete", "wipe", "unlock",
                    "lock", "unlock">>
ClassifyCross == <<"stop", "lock", "delete", "newClassifier", "unlock">>
\* Regression; RegressionCross does the same with more than one training
Regression == <<"stop", "clearLevel", "clearSize", "clearMaps", "lock", "delete",
                "newRegressor", "unlock">>
Dynamize == <<"stop", "clearLevel", "clearSize", "clearMaps", "lock", "delete",
              "newDynamical", "setColorMap", "start", "unlock">>
Cluster == <<"stop", "lock", "delete", "newClusterer",
             "stop", "clearLevel", "clearSize", "clearMaps", "start", "unlock">>
\* the models of the other kinds stay
ClusterIterate == <<"stop", "lock", "newClusterer", "unlock">>
\* mutant: mutex is released before the models are deleted
MaximizeUnlocked == <<"lock", "stop", "unlock", "delete", "newMaximizer",
                      "stop", "clearLevel", "clearSize", "clearMaps", "start">>
Maximize == <<"lock", "stop", "delete", "newMaximizer",
              "stop", "clearLevel", "clearSize", "clearMaps", "start", "unlock">>
MaximizeContinue == <<"lock", "stop", "toggle", "start", "unlock">>
\* one fold of one algorithm
Compare == <<"lock", "stop", "delete", "newCompared", "delete", "signals", "unlock">>
Clear == <<"stop", "clearLevel", "clearSize", "clearMaps", "lock", "events", "delete",
           "wipe", "unlock">>
AvoidOptionChanged == <<"lock", "setAvoid", "unlock",
                        "stop", "clearLevel", "clearSize", "clearMaps", "start">>
ColorMapChanged == <<"stop", "clearLevel", "clearSize", "clearMaps", "setColorMap", "start">>
\* DisplayOptionChanged, when the zoom has changed
ZoomChanged == <<"stop", "clearLevel", "clearSize", "clearMaps", "setView", "lock",
                 "restartAny", "unlock">>
\* FitToData, and the drag of the canvas that emits CanvasMoveEvent
CanvasMoved == <<"setView", "stop", "clearLevel", "clearSize", "clearMaps", "lock",
                 "restart", "unlock">>
resizeEvent == <<"setSize", "stop", "clearLevel", "clearSize", "clearMaps", "lock",
                 "restart", "unlock">>
\* Drawing with the eraser, when it has deleted something
Erase == <<"stop", "clearLevel", "clearSize", "clearMaps", "lock", "start", "unlock">>
\* DrawingStopped after an obstacle has been drawn
ObstacleDrawn == <<"stop", "clearLevel", "clearSize", "clearMaps", "start">>
Navigation == <<"tryLock", "useModel", "unlock">>
Query == <<"lock", "useModel", "unlock">>

Program == [
    Classify |-> Classify, ClassifyDirect |-> ClassifyDirect,
    ClassifyFailed |-> ClassifyFailed, ClassifyCross |-> ClassifyCross,
    Regression |-> Regression, Dynamize |-> Dynamize,
    Cluster |-> Cluster, ClusterIterate |-> ClusterIterate,
    Maximize |-> Maximize, MaximizeContinue |-> MaximizeContinue,
    Compare |-> Compare, Clear |-> Clear,
    AvoidOptionChanged |-> AvoidOptionChanged, ColorMapChanged |-> ColorMapChanged,
    ZoomChanged |-> ZoomChanged, CanvasMoved |-> CanvasMoved, resizeEvent |-> resizeEvent,
    Erase |-> Erase, ObstacleDrawn |-> ObstacleDrawn,
    Navigation |-> Navigation, Query |-> Query]

Creations == {"newClassifier", "newDirect", "newRegressor", "newDynamical", "newClusterer",
              "newMaximizer", "newCompared"}
\* the steps that create, change, evaluate or delete a model
ModelSteps == {"delete", "setAvoid", "toggle", "useModel"} \cup Creations
Steps == ModelSteps \cup
    {"stop", "clearLevel", "clearSize", "clearMaps", "start", "restart", "restartAny",
     "lock", "tryLock", "unlock", "setColorMap", "setView", "setSize", "wipe", "events",
     "signals"}

ASSUME HandlersAssumption == Handlers \subseteq DOMAIN Program /\ Nested \subseteq Handlers

\* what a slot checks before it does anything
Enters(h) ==
    CASE h \in {"AvoidOptionChanged", "ColorMapChanged", "ObstacleDrawn"} ->
                "dynamical" \in models
      [] h = "MaximizeContinue" -> "maximizer" \in models
      [] OTHER -> TRUE

-----------------------------------------------------------------------------
\* The GUI changes what the thread draws, or what it draws it with.
Disturb == disturbed' = TRUE

Step(op) == todo # <<>> /\ Head(todo) = op /\ todo' = Tail(todo)

GuiStop ==
    /\ Step("stop")
    /\ bRunning' = FALSE /\ Disturb
    /\ UNCHANGED <<modelVars, canvasVars, lockVars, refineLevel, refineMax, dims, mapSize,
                   bigMap, threadVars, timedOut>>

GuiClearLevel ==
    /\ Step("clearLevel")
    /\ refineLevel' = 0 /\ Disturb
    /\ UNCHANGED <<modelVars, canvasVars, lockVars, bRunning, refineMax, dims, mapSize,
                   bigMap, threadVars, timedOut>>

GuiClearSize ==
    /\ Step("clearSize")
    /\ dims' = size /\ Disturb
    /\ UNCHANGED <<modelVars, canvasVars, lockVars, bRunning, refineLevel, refineMax, mapSize,
                   bigMap, threadVars, timedOut>>

\* a new permutation: the thread no longer knows the rank of its pixel
GuiClearMaps ==
    /\ Step("clearMaps") /\ drawMutex = "free"
    /\ NewMaps /\ Disturb
    /\ loc' = [loc EXCEPT !.pixel = Unknown]
    /\ UNCHANGED <<modelVars, canvasVars, lockVars, bRunning, refineLevel, refineMax, dims, pc,
                   timedOut>>

\* QThread::start() does nothing while the thread has not ended
Start == pc' = IF pc = "idle" THEN "starting" ELSE pc
GuiStart ==
    /\ \/ Step("start") /\ Start
       \/ Step("restart")
            /\ IF "classifier" \in models THEN IF usesTimer THEN Start ELSE UNCHANGED pc
               ELSE IF "regressor" \in models THEN UNCHANGED pc
               ELSE IF models \cap {"clusterer", "dynamical"} # {} THEN Start ELSE UNCHANGED pc
       \/ Step("restartAny")
            /\ IF "classifier" \in models THEN IF usesTimer THEN Start ELSE UNCHANGED pc
               ELSE IF "regressor" \in models THEN UNCHANGED pc
               ELSE IF models # {} THEN Start ELSE UNCHANGED pc
    /\ UNCHANGED <<modelVars, canvasVars, lockVars, timerVars, loc, disturbed, timedOut>>

-----------------------------------------------------------------------------
(* the locks                                                                *)

GuiLock ==
    /\ Step("lock") /\ mutex = "free"
    /\ mutex' = "gui"
    /\ UNCHANGED <<modelVars, canvasVars, drawMutex, timerVars, threadVars, disturbed, timedOut>>

\* tryLock(500), its result not looked at: it gives up when another holds it
GuiTryLock ==
    /\ Step("tryLock")
    /\ \/ mutex = "free" /\ mutex' = "gui" /\ UNCHANGED timedOut
       \/ mutex # "free" /\ timedOut' = TRUE /\ UNCHANGED mutex
    /\ UNCHANGED <<modelVars, canvasVars, drawMutex, timerVars, threadVars, disturbed>>

\* unlock() whoever the owner is
GuiUnlock ==
    /\ Step("unlock")
    /\ mutex' = "free"
    /\ UNCHANGED <<modelVars, canvasVars, drawMutex, timerVars, threadVars, disturbed, timedOut>>

-----------------------------------------------------------------------------
(* the models                                                               *)

GuiDelete ==
    /\ Step("delete")
    /\ models' = {} /\ Outdate /\ OutdateShown /\ Disturb
    /\ UNCHANGED <<usesTimer, converged, age, bColorMap, size, lockVars, bRunning,
                   refineLevel, refineMax, dims, mapSize, pc, timedOut>>

\* the kinds a creation may create
Created(op) ==
    CASE op \in {"newClassifier", "newDirect"} -> {"classifier"}
      [] op = "newRegressor" -> {"regressor"}
      [] op = "newDynamical" -> {"dynamical"}
      [] op = "newClusterer" -> {"clusterer"}
      [] op = "newMaximizer" -> {"maximizer"}
      [] op = "newCompared" -> Kinds

\* GetClassifier and Train, and likewise for the other kinds.  A clusterer
\* that exists already is trained once more.
GuiNew ==
    \E op \in Creations : \E kind \in Created(op) :
    /\ Step(op)
    /\ models' = models \cup {kind} /\ Outdate /\ OutdateShown /\ Disturb
    /\ usesTimer' = (op # "newDirect")
    /\ converged' = (converged /\ kind # "maximizer")
    /\ age' = IF kind = "maximizer" THEN 0 ELSE age
    /\ UNCHANGED <<bColorMap, size, lockVars, bRunning, refineLevel, refineMax, dims,
                   mapSize, pc, timedOut>>

\* the obstacle avoidance of the dynamical system is replaced
GuiSetAvoid ==
    /\ Step("setAvoid")
    /\ Outdate /\ OutdateShown /\ Disturb
    /\ UNCHANGED <<modelVars, size, lockVars, bRunning, refineLevel, refineMax, dims,
                   mapSize, pc, timedOut>>

GuiSetColorMap ==
    /\ Step("setColorMap")
    /\ bColorMap' \in BOOLEAN
    /\ Outdate /\ OutdateShown /\ Disturb
    /\ UNCHANGED <<models, usesTimer, converged, age, size, lockVars, bRunning,
                   refineLevel, refineMax, dims, mapSize, pc, timedOut>>

GuiToggle ==
    /\ Step("toggle")
    /\ converged' = ~converged /\ Disturb
    /\ UNCHANGED <<models, usesTimer, age, bColorMap, canvasVars, lockVars, timerVars,
                   threadVars, timedOut>>

\* Navigation and the Query slots evaluate the model
GuiUseModel ==
    /\ Step("useModel")
    /\ UNCHANGED <<timerAll, timedOut>>

-----------------------------------------------------------------------------
(* the canvas                                                               *)

NoPictures == [map |-> "none", model |-> FALSE]

\* SetZoom, SetCenter: another part of the space, the pictures are dropped
GuiSetView ==
    /\ Step("setView")
    /\ shown' = NoPictures /\ Outdate /\ Disturb
    /\ UNCHANGED <<modelVars, size, lockVars, bRunning, refineLevel, refineMax, dims, mapSize,
                   pc, timedOut>>

GuiSetSize ==
    /\ Step("setSize")
    /\ size' \in Sizes
    /\ Outdate /\ OutdateShown /\ Disturb
    /\ UNCHANGED <<modelVars, lockVars, bRunning, refineLevel, refineMax, dims, mapSize, pc,
                   timedOut>>

GuiWipe ==
    /\ Step("wipe")
    /\ shown' = NoPictures
    /\ UNCHANGED <<modelVars, size, posted, lockVars, timerVars, threadVars, disturbed, timedOut>>

-----------------------------------------------------------------------------
(* the event loop                                                           *)

\* processEvents with all events, and without the user's input
Processes == {"events", "signals"}
\* the slots called by what is not the user's input
WindowEvents == {"resizeEvent"}
InEventLoop == IF todo = <<>> THEN TRUE ELSE Head(todo) \in Processes

\* a queued MapReady or ModelReady reaches the canvas
DeliverMap ==
    /\ InEventLoop /\ posted.map # "none"
    /\ shown' = [shown EXCEPT !.map = posted.map]
    /\ posted' = [posted EXCEPT !.map = "none"]
    /\ UNCHANGED <<modelVars, size, lockVars, timerVars, threadVars, disturbed, todo, timedOut>>

DeliverModel ==
    /\ InEventLoop /\ posted.model
    /\ shown' = [shown EXCEPT !.model = TRUE]
    /\ posted' = [posted EXCEPT !.model = FALSE]
    /\ UNCHANGED <<modelVars, size, lockVars, timerVars, threadVars, disturbed, todo, timedOut>>

\* processEvents returns when nothing is queued
GuiEvents ==
    /\ \E op \in Processes : Step(op)
    /\ posted = NoPictures
    /\ UNCHANGED <<timerAll, timedOut>>

\* a slot is called by the event loop, or by the user inside Clear's processEvents
Call(h) ==
    /\ Enters(h)
    /\ todo = <<>> /\ todo' = Program[h]
    /\ UNCHANGED <<timerAll, timedOut>>

\* ... or inside that of Compare, when the window system asks for it
NestedCall(h) ==
    /\ Enters(h)
    /\ todo # <<>>
    /\ Head(todo) = "events" \/ (Head(todo) = "signals" /\ h \in WindowEvents)
    /\ todo' = Program[h] \o todo
    /\ UNCHANGED <<timerAll, timedOut>>

-----------------------------------------------------------------------------
GuiTimer == GuiStop \/ GuiClearLevel \/ GuiClearSize \/ GuiClearMaps \/ GuiStart
GuiLocks == GuiLock \/ GuiTryLock \/ GuiUnlock
GuiModels == GuiDelete \/ GuiNew \/ GuiSetAvoid \/ GuiSetColorMap \/ GuiToggle \/ GuiUseModel
GuiCanvas == GuiSetView \/ GuiSetSize \/ GuiWipe

\* the GUI thread goes on with the slot it is in, or delivers an image
GuiWorks == GuiTimer \/ GuiLocks \/ GuiModels \/ GuiCanvas \/ GuiEvents
              \/ DeliverMap \/ DeliverModel
GuiCalls == (\E h \in Handlers : Call(h)) \/ (\E h \in Nested : NestedCall(h))

ThreadStep == DrawingThread /\ UNCHANGED <<todo, timedOut>>

Init == TimerInit /\ todo = <<>> /\ timedOut = FALSE
Next == pc # "crashed" /\ (ThreadStep \/ GuiWorks \/ GuiCalls)

Spec == Init /\ [][Next]_vars
\* The system schedules both threads, and the GUI thread is never idle while
\* it has a slot to finish or an image to deliver.
FairSpec == Spec /\ WF_vars(pc # "crashed" /\ ThreadStep) /\ WF_vars(pc # "crashed" /\ GuiWorks)

-----------------------------------------------------------------------------
(* Properties                                                               *)

\* Types, and what the domain of the map is.
ModelTypes ==
    /\ models \subseteq Kinds /\ usesTimer \in BOOLEAN
    /\ converged \in BOOLEAN /\ age \in Nat
    /\ bColorMap \in BOOLEAN
CanvasTypes ==
    /\ size \in Sizes
    /\ shown \in [map : Images, model : BOOLEAN]
    /\ posted \in [map : Images, model : BOOLEAN]
LockTypes == mutex \in Threads \cup {"free"} /\ drawMutex \in {"draw", "free"}
TimerTypes ==
    /\ bRunning \in BOOLEAN /\ refineLevel \in Nat /\ refineMax \in Nat \ {0}
    /\ dims \in [w : Nat, h : Nat] /\ mapSize \in [w : Nat, h : Nat]
    /\ bigMap \in [Ranks -> {"blank", "fresh", "stale"}]
Locals == [back : {"check", "size", "level"}, level : Nat, i : Int, stop : Int,
           pixel : Int, current : BOOLEAN, steps : Int, using : Kinds \cup {"nobody"}]
ThreadTypes == pc \in PCs /\ loc \in Locals
GuiTypes == todo \in Seq(Steps) /\ timedOut \in BOOLEAN /\ disturbed \in BOOLEAN

TypeOK == ModelTypes /\ CanvasTypes /\ LockTypes /\ TimerTypes /\ ThreadTypes /\ GuiTypes

\* As long as no tryLock of Navigation has timed out, the drawing thread owns
\* `mutex' exactly where TestFast, VectorsFast and Maximization evaluate a
\* model, and the GUI owns it wherever a slot deletes, creates or evaluates one.
ModelsAreLocked ==
    (~timedOut /\ pc # "crashed") =>
      /\ mutex = "draw" <=> pc \in InModelLock
      /\ (todo # <<>> /\ Head(todo) \in ModelSteps) => mutex = "gui"

\* A model that the drawing thread has found under `mutex' and still uses has
\* not been deleted.  (VectorsFast and Maximization look for theirs before they
\* take `mutex': what they find gone under it is the null pointer, pc "crashed".)
NoDangling == (~timedOut /\ pc \in {"paint", "optDraw"}) => loc.using \in models

\* A refinement that ends (run sees refineLevel beyond refineMax) has painted
\* every pixel with the current model, provided the GUI changed nothing since
\* the thread cleared the map for it.  (With a maximizer the levels count
\* iterations, and the map of a model beside it is not refined.)
UndisturbedMapIsComplete ==
    (/\ pc = "refine" /\ refineLevel > refineMax /\ ~disturbed
     /\ Paints(Painter) /\ "maximizer" \notin models) => MapComplete

\* TestFast has skipped a pixel and left drawMutex locked.
Leaked == drawMutex = "draw" /\ pc \notin {"fieldPoint", "fieldLock", "fieldTest"}

\* Every slot returns to the event loop, unless drawMutex has been leaked or
\* the program has crashed: the GUI freezes on a lock for no other reason.
SlotsReturn == (todo # <<>>) ~> (todo = <<>> \/ Leaked \/ pc = "crashed")

\* While the GUI is quiet the drawing thread comes to its end, or has crashed on
\* a model that was deleted before it was quiet.
DrawingEnds == (pc # "idle") ~> (pc \in {"idle", "crashed"} \/ todo # <<>> \/ Leaked)

\* While the GUI is quiet, an undisturbed refinement that has begun ends with
\* the complete map on the canvas.
MapIsShown ==
    (bRunning /\ pc # "idle" /\ ~disturbed /\ Paints(Painter) /\ todo = <<>>)
      ~> (shown.map = "complete" \/ todo # <<>>)

\* While the GUI is quiet, a maximization that is running comes to an end: the
\* method reaches stopValue or its maximal age.
MaximizationConverges ==
    (bRunning /\ pc # "idle" /\ refineLevel <= refineMax /\ "maximizer" \in models /\ todo = <<>>)
      ~> (converged \/ todo # <<>>)

-----------------------------------------------------------------------------
(* Statements of the code's comments and of the user interface that the     *)
(* code does not keep.                                                       *)

\* drawTimer.cpp:91: "and we send the image to the canvas": a map that is
\* being refined is sent.
MapIsSent == (pc = "obstacles") ~> (pc = "loop")

\* drawTimer.cpp:91, for the vector field: an image that VectorsFast is
\* painting is sent.
FieldIsSent == (pc = "fieldPoint") ~> (pc = "loop")
=============================================================================
