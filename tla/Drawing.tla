------------------------------ MODULE Drawing ------------------------------
(***************************************************************************)
(* Drawing data on the canvas (MLDemos/mldemos.cpp, MLDemos/canvas.cpp): the *)
(* slots of the main window that change the data set, and the layer on which *)
(* the canvas keeps the samples it has drawn, to add only the new ones.      *)
(*                                                                           *)
(* A trajectory is drawn by one mouse stroke, over many calls of Drawing,    *)
(* and becomes a sequence when the button is released (DrawingStopped).      *)
(* While the button is down the data can change under the stroke: the keys   *)
(* that clear or load data, or the timer of an input plugin that sends its   *)
(* samples. No other tool is chosen, nor FitToData's button clicked, during  *)
(* a stroke: the mouse is busy.                                              *)
(***************************************************************************)
EXTENDS Dataset

CONSTANTS
    Centers, Zooms, CanvasSizes,   \* the views a canvas is fitted to
    SpinZooms,                     \* the zooms the user may set
    MaxSamples,                    \* bound: samples in the data set
    MaxSaved,                      \* bound: samples in a file
    MaxObstacles                   \* bound: obstacles in it

ASSUME DrawingBounds ==
    /\ 0 \in Centers /\ Zooms \subseteq Int /\ SpinZooms \subseteq Int
    /\ MaxSamples \in Nat /\ MaxSaved \in Nat /\ MaxObstacles \in Nat

VARIABLES
    trajectory,     \* the samples of the stroke so far, or None
    bNewObstacle,   \* an obstacle is being placed
    erasing,        \* 0, or the sample the eraser looks at next
    file,           \* the set of what the file holds: a data set, or nothing yet
    view,           \* [center, zoom, size] of the canvas
    spinZoom,       \* the zoom in the spin box of the display options
    bDisplaySamples,
    drawnSamples,   \* how many samples the canvas believes are on the layer
    layer,          \* what is on it: samples, each with the view it was drawn in
    drawnTrajectories,  \* how many sequences the canvas believes are on theirs
    trajLayer,      \* what is on that: their samples, ended or not, with the view
    \* history: the stroke in progress, or one that the data still shows, has
    \* seen the data change under it or be saved without its sequence, or the
    \* data is what an empty file was read as; and likewise for the file's data
    interrupted, fileInterrupted,
    \* history: the view has changed and the layer has not been reset since
    shifted

sessionVars == <<trajectory, bNewObstacle, erasing, interrupted>>
canvasVars == <<view, spinZoom, bDisplaySamples, drawnSamples, layer, drawnTrajectories,
                trajLayer, shifted>>
fileVars == <<file, fileInterrupted>>
vars == <<dataVars, sessionVars, fileVars, canvasVars>>

None == [first |-> 0, second |-> 0]
Views == [center : Centers, zoom : Int, size : CanvasSizes]

\* between two strokes
AtRest == trajectory = None /\ ~bNewObstacle /\ erasing = 0

Init ==
    /\ DataInit
    /\ trajectory = None /\ bNewObstacle = FALSE /\ erasing = 0
    /\ file = {}
    /\ \E s \in CanvasSizes : view = [center |-> 0, zoom |-> 0, size |-> s]
    /\ spinZoom = 0 /\ bDisplaySamples = TRUE
    /\ drawnSamples = 0 /\ layer = <<>> /\ drawnTrajectories = 0 /\ trajLayer = {}
    /\ interrupted = FALSE /\ fileInterrupted = FALSE /\ shifted = FALSE

-----------------------------------------------------------------------------
(* Canvas::DrawSamples and DrawTrajectories: what a repaint does to the      *)
(* layers.                                                                   *)

\* the samples of s from `from' on that are not part of a trajectory, as seen in v
Plain(s, g, from, v) ==
    LET upTo[n \in 0 .. Len(s)] ==
          IF n < from THEN <<>>
          ELSE IF g[n] = "traj" THEN upTo[n - 1]
          ELSE Append(upTo[n - 1], [sample |-> s[n], view |-> v])
    IN  upTo[Len(s)]

\* A repaint that finds `drawn' samples on the layer.
PaintSamples(drawn) ==
    LET base == IF drawn > Len(samples') THEN 0 ELSE drawn
        kept == IF base = 0 THEN <<>> ELSE layer
    IN  /\ layer' = kept \o Plain(samples', flags', base + 1, view')
        /\ drawnSamples' = Len(samples')

\* DrawTrajectories looks for an unfinished trajectory: the flagged
\* samples at the end of the data, down to the last sequence.
Last == CHOOSE q \in sequences : \A r \in sequences : r.first <= q.first
Unfinished ==
    LET stop == IF sequences = {} THEN 1 ELSE Last.second
    IN  IF Count = 0 THEN None
        ELSE IF flags[Count] # "traj" \/ stop >= Count THEN None
        ELSE LET before == {k \in stop .. Count : k = stop \/ flags[k] # "traj"}
                 start  == CHOOSE k \in before : \A j \in before : j <= k
             IN  [first |-> IF sequences = {} THEN start ELSE start + 1, second |-> Count]

\* the sequences from the `from'th on, in the order in which they start, as they
\* are drawn in v; `ended' says whether their ends are marked
Drawn(s, qs, from, ended, v) ==
    {[path |-> SubSeq(s, q.first, q.second), ended |-> ended, view |-> v] :
        q \in {r \in qs : Cardinality({t \in qs : t.first < r.first}) >= from}}
\* an unfinished one lacks its last sample; without any other it is not drawn
DrawnUnfinished(s, q, v) ==
    IF q.second <= q.first THEN {}
    ELSE {[path |-> SubSeq(s, q.first, q.second - 1), ended |-> FALSE, view |-> v]}

\* A repaint that finds `drawn' sequences on the layer.
PaintTrajectories(drawn) ==
    LET count == Cardinality(sequences')
        bDrawing == Unfinished' # None
        nothing == samples' = <<>> \/ (count = 0 /\ flags'[Len(samples')] # "traj")
        found == IF nothing THEN 0 ELSE drawn
        base == IF found > count + (IF bDrawing THEN 1 ELSE 0) THEN 0 ELSE found
        kept == IF base = 0 THEN {} ELSE trajLayer
    IN  /\ trajLayer' =
             IF nothing THEN {}
             ELSE IF ~bDrawing /\ found = count THEN trajLayer
             ELSE kept \cup Drawn(samples', sequences', base, ~bDrawing, view')
                       \cup (IF bDrawing THEN DrawnUnfinished(samples', Unfinished', view') ELSE {})
        /\ drawnTrajectories' = count

\* The canvas repaints, and counts on `drawn' samples and `sketched' sequences.
PaintFrom(drawn, sketched) ==
    IF bDisplaySamples' THEN PaintSamples(drawn) /\ PaintTrajectories(sketched)
    ELSE /\ drawnSamples' = drawn /\ drawnTrajectories' = sketched
         /\ UNCHANGED <<layer, trajLayer>>

Repaint == PaintFrom(drawnSamples, drawnTrajectories) /\ UNCHANGED shifted
\* ResetSamples, and then repaint
ResetAndRepaint == PaintFrom(0, 0) /\ shifted' = FALSE

-----------------------------------------------------------------------------
(* MLDemos::Drawing, by tool, and DrawingStopped.                            *)

Fits(n) == Count + n <= MaxSamples

\* the single sample, the spray, the ellipse and the line
DrawSamples(new) ==
    /\ AtRest /\ Fits(Len(new))
    /\ AddSample(new, "unused")
    /\ UNCHANGED <<sessionVars, fileVars, view, spinZoom, bDisplaySamples>>
    /\ Repaint

\* mutant: a stroke begins with the sample before it
DrawTrajectoryFromBefore(p) ==
    /\ erasing = 0 /\ ~bNewObstacle /\ Fits(1)
    /\ AddSample(<<p>>, "traj")
    /\ trajectory' = [first |-> IF trajectory = None
                                  THEN IF Count = 0 THEN 1 ELSE Count ELSE trajectory.first,
                      second |-> Count + 1]
    /\ UNCHANGED <<bNewObstacle, erasing, interrupted, fileVars, view, spinZoom, bDisplaySamples>>
    /\ Repaint

DrawTrajectory(p) ==
    /\ erasing = 0 /\ ~bNewObstacle /\ Fits(1)
    /\ AddSample(<<p>>, "traj")
    /\ trajectory' = [first |-> IF trajectory = None THEN Count + 1 ELSE trajectory.first,
                      second |-> Count + 1]
    /\ UNCHANGED <<bNewObstacle, erasing, interrupted, fileVars, view, spinZoom, bDisplaySamples>>
    /\ Repaint

DrawObstacle ==
    /\ erasing = 0 /\ trajectory = None
    /\ bNewObstacle' = TRUE
    /\ UNCHANGED <<dataVars, trajectory, erasing, interrupted, fileVars, view, spinZoom, bDisplaySamples>>
    /\ Repaint

\* Canvas::DeleteData goes through the samples once; a sample that follows one
\* that has been removed has taken its place.
EraseSample(i) ==
    /\ trajectory = None /\ ~bNewObstacle /\ i >= erasing
    /\ RemoveSample(i)
    /\ erasing' = i
    /\ UNCHANGED <<trajectory, bNewObstacle, interrupted, fileVars, canvasVars>>

\* mutant: an obstacle is removed where there is none
EraseObstacleAnyway ==
    /\ trajectory = None /\ ~bNewObstacle
    /\ obstacles' = obstacles - 1
    /\ erasing' = Count + 1
    /\ UNCHANGED <<samples, labels, flags, sequences, trajectory, bNewObstacle, interrupted,
                   fileVars, canvasVars>>

\* ... and then through the obstacles
EraseObstacle ==
    /\ trajectory = None /\ ~bNewObstacle /\ obstacles > 0
    /\ obstacles' = obstacles - 1
    /\ erasing' = Count + 1
    /\ UNCHANGED <<samples, labels, flags, sequences, trajectory, bNewObstacle, interrupted,
                   fileVars, canvasVars>>

\* something has been deleted: the slot resets the layer and repaints
EraseEnd ==
    /\ erasing # 0
    /\ erasing' = 0
    /\ UNCHANGED <<dataVars, trajectory, bNewObstacle, interrupted, fileVars, view, spinZoom, bDisplaySamples>>
    /\ ResetAndRepaint

\* mutant: the layer of trajectories is not drawn anew
DrawingStoppedKept ==
    /\ trajectory # None \/ bNewObstacle
    /\ trajectory' = None /\ bNewObstacle' = FALSE
    /\ IF trajectory # None THEN AddSequence(trajectory)
       ELSE /\ obstacles' = obstacles + 1 /\ obstacles < MaxObstacles
            /\ UNCHANGED <<samples, labels, flags, sequences>>
    /\ UNCHANGED <<erasing, interrupted, fileVars, view, spinZoom, bDisplaySamples>>
    /\ Repaint

\* the mouse button is released
DrawingStopped ==
    /\ trajectory # None \/ bNewObstacle
    /\ trajectory' = None /\ bNewObstacle' = FALSE
    /\ IF trajectory # None THEN AddSequence(trajectory)
       ELSE /\ obstacles' = obstacles + 1 /\ obstacles < MaxObstacles
            /\ UNCHANGED <<samples, labels, flags, sequences>>
    /\ UNCHANGED <<erasing, interrupted, fileVars, view, spinZoom, bDisplaySamples>>
    /\ PaintFrom(drawnSamples, IF trajectory # None THEN 0 ELSE drawnTrajectories)
    /\ UNCHANGED shifted

-----------------------------------------------------------------------------
(* Slots that replace the data: they may run while a stroke is in progress.  *)

Interrupt == interrupted' = (trajectory # None)

ClearData ==
    /\ erasing = 0
    /\ Clear /\ Interrupt
    /\ UNCHANGED <<trajectory, bNewObstacle, erasing, fileVars, view, spinZoom, bDisplaySamples>>
    /\ Repaint

\* Canvas::FitToData: without samples back to the origin, otherwise to where
\* the samples are
Fitted ==
    IF samples' = <<>> THEN view' = [view EXCEPT !.center = 0, !.zoom = 0]
    ELSE \E c \in Centers, z \in Zooms : view' = [view EXCEPT !.center = c, !.zoom = z]

\* mutant: the layer is not reset
SetDataKept(new) ==
    /\ erasing = 0 /\ Len(new) <= MaxSamples
    /\ SetSamples(new) /\ Interrupt
    /\ Fitted
    /\ UNCHANGED <<trajectory, bNewObstacle, erasing, fileVars, spinZoom, bDisplaySamples>>
    /\ Repaint

\* an input plugin sends its samples
SetData(new) ==
    /\ erasing = 0 /\ Len(new) <= MaxSamples
    /\ SetSamples(new) /\ Interrupt
    /\ Fitted
    /\ UNCHANGED <<trajectory, bNewObstacle, erasing, fileVars, spinZoom, bDisplaySamples>>
    /\ ResetAndRepaint

\* The file is emptied first, and without samples nothing is written to it; or
\* `0 2' when there is a model, which LoadUnread reads as no samples.
Save ==
    /\ erasing = 0 /\ Count <= MaxSaved
    /\ file' = {IF Count > 0 THEN Stored ELSE NoData}
    /\ fileInterrupted' = (interrupted \/ trajectory # None \/ Count = 0)
    /\ UNCHANGED <<dataVars, sessionVars, canvasVars>>

\* DatasetManager::Load. In an empty file the number of samples is not read, nor
\* are their labels and flags: the variables are not initialized, and every
\* sample is the same null vector.
LoadUnread ==
    \E n \in 0 .. MaxSamples, p \in Places :
        \E l \in [1 .. n -> Labels], g \in [1 .. n -> Flags] :
            LoadFrom([NoData EXCEPT !.samples = [k \in 1 .. n |-> [at |-> p, of |-> l[k]]],
                                    !.labels = l, !.flags = g])

\* ClearData, which repaints the empty canvas, and then the samples of the file
Load ==
    /\ erasing = 0
    /\ \E f \in file : IF f = NoData THEN LoadUnread ELSE LoadFrom(f)
    /\ interrupted' = (fileInterrupted \/ trajectory # None)
    /\ UNCHANGED <<trajectory, bNewObstacle, erasing, fileVars, view, spinZoom, bDisplaySamples>>
    /\ IF bDisplaySamples THEN PaintFrom(0, 0) ELSE PaintFrom(drawnSamples, drawnTrajectories)
    /\ UNCHANGED shifted

\* ClassProjections::SendToCanvas: every sample moves
SendToCanvas(to) ==
    /\ erasing = 0
    /\ MoveSamples(to)
    /\ UNCHANGED <<sessionVars, fileVars, view, spinZoom, bDisplaySamples>>
    /\ ResetAndRepaint

-----------------------------------------------------------------------------
(* Slots that change the view. A zoom is counted in hundredths of the scale  *)
(* of the spin box, on which 100 is twice and -100 half the size; the spin   *)
(* box holds tenths, from -20 to 20.                                         *)

\* Setting any option sets the zoom of the canvas to that of the spin box.
DisplayOptionChanged ==
    /\ erasing = 0
    /\ bDisplaySamples' \in BOOLEAN
    /\ spinZoom' \in SpinZooms \cup {spinZoom}
    /\ view' = [view EXCEPT !.zoom = spinZoom']
    /\ UNCHANGED <<dataVars, sessionVars, fileVars>>
    /\ ResetAndRepaint

\* SetCenter and then CanvasMoveEvent
CanvasMoved ==
    /\ erasing = 0
    /\ \E c \in Centers \ {view.center} : view' = [view EXCEPT !.center = c]
    /\ UNCHANGED <<dataVars, sessionVars, fileVars, spinZoom, bDisplaySamples>>
    /\ ResetAndRepaint

\* the canvas has another size, and is repainted with the layer it has
resizeEvent ==
    /\ erasing = 0
    /\ \E s \in CanvasSizes \ {view.size} : view' = [view EXCEPT !.size = s]
    /\ UNCHANGED <<dataVars, sessionVars, fileVars, spinZoom, bDisplaySamples>>
    /\ PaintFrom(drawnSamples, drawnTrajectories) /\ shifted' = TRUE

\* what FitToData takes for the spin box's value of a zoom (below 1 it is 2 off)
OnSpin(z) == IF z >= 0 THEN z ELSE z - 200
\* what the spin box makes of it
Shown(z) == IF OnSpin(z) < -2000 THEN -2000 ELSE IF OnSpin(z) > 2000 THEN 2000
            ELSE 10 * ((OnSpin(z) + 5) \div 10)

\* The centre is set without SetCenter; only a new zoom resets the layer. If
\* the spin box has the zoom already, the canvas is not repainted.
FitToData ==
    /\ AtRest
    /\ UNCHANGED <<dataVars, sessionVars, fileVars, bDisplaySamples>>
    /\ Fitted
    /\ LET drawn == IF view'.zoom = view.zoom THEN drawnSamples ELSE 0
           sketched == IF view'.zoom = view.zoom THEN drawnTrajectories ELSE 0
       IN  IF OnSpin(view'.zoom) = spinZoom
             THEN /\ drawnSamples' = drawn /\ drawnTrajectories' = sketched
                  /\ UNCHANGED <<spinZoom, layer, trajLayer>>
             ELSE spinZoom' = Shown(view'.zoom) /\ PaintFrom(drawn, sketched)
    /\ shifted' = (view'.zoom = view.zoom /\ (shifted \/ view'.center # view.center))

-----------------------------------------------------------------------------
NewSamples == UNION {[1 .. n -> Samples] : n \in 1 .. MaxSamples}

DrawingStep ==
    \/ \E new \in NewSamples : DrawSamples(new)
    \/ \E p \in Samples : DrawTrajectory(p)
    \/ DrawObstacle
    \/ \E i \in 1 .. Count : EraseSample(i)
    \/ EraseObstacle \/ EraseEnd
    \/ DrawingStopped
DataStep ==
    \/ ClearData
    \/ \E new \in NewSamples : SetData(new)
    \/ Save \/ Load
    \/ \E to \in [1 .. Count -> Places] : SendToCanvas(to)
ViewStep == DisplayOptionChanged \/ CanvasMoved \/ resizeEvent \/ FitToData

Next == DrawingStep \/ DataStep \/ ViewStep
Spec == Init /\ [][Next]_vars

-----------------------------------------------------------------------------
(* Properties                                                                *)

DataType ==
    /\ samples \in Seq(Samples) /\ labels \in Seq(Labels) /\ flags \in Seq(Flags)
    /\ sequences \subseteq [first : Int, second : Int] /\ obstacles \in Nat
FileType ==
    file \subseteq [samples : Seq(Samples), labels : Seq(Labels), flags : Seq(Flags),
              sequences : SUBSET [first : Int, second : Int], obstacles : Nat]
SessionType ==
    /\ trajectory \in [first : Nat, second : Nat] /\ bNewObstacle \in BOOLEAN
    /\ erasing \in Nat /\ interrupted \in BOOLEAN /\ fileInterrupted \in BOOLEAN

\* Types.
DrawingTypeOK ==
    /\ DataType /\ FileType /\ SessionType
    /\ view \in Views /\ spinZoom \in Int /\ bDisplaySamples \in BOOLEAN /\ shifted \in BOOLEAN
    /\ drawnSamples \in Nat /\ drawnTrajectories \in Nat

\* Whatever is drawn, erased, loaded and moved, every sample has its flag and
\* the label it was drawn with: the three vectors never get out of step.
LabelsFollow == InStep(samples, labels, flags)

\* The stroke in progress.
InStroke(k) == trajectory # None /\ k >= trajectory.first

\* As long as no stroke has been interrupted, the sequences are ranges of
\* flagged samples, apart from each other, after any erasing ...
SequencesFit == ~interrupted => WellPlaced(samples, flags, sequences)

\* ... and no sample is lost from sight: one that the sample layer leaves out,
\* because it is flagged, is drawn with a sequence or with the stroke.
NothingHidden ==
    ~interrupted =>
      \A k \in 1 .. Count : flags[k] = "traj" =>
        (\E q \in sequences : Covers(q, k)) \/ InStroke(k)

\* The layer shows the samples, in the current view, and nothing else.
LayerIsRight == layer = Plain(samples, flags, 1, view)

\* Between two calls of the slots the layer is right whenever the canvas counts
\* on it, unless the view has changed without a reset: counting what has been
\* drawn is enough to know when to draw, and what.
LayerIsCurrent ==
    (bDisplaySamples /\ erasing = 0 /\ ~interrupted /\ ~shifted /\ drawnSamples = Count)
      => LayerIsRight

\* The layer of trajectories is right between two strokes: whenever the canvas
\* counts on it, it shows the sequences, ended, in the current view, and nothing
\* that the drawing of a stroke has left there.
TrajectoriesAreCurrent ==
    (/\ bDisplaySamples /\ erasing = 0 /\ ~interrupted /\ ~shifted
     /\ trajectory = None /\ drawnTrajectories = Cardinality(sequences))
      => trajLayer = Drawn(samples, sequences, 0, TRUE, view)

\* What DrawTrajectories finds unfinished is the stroke in progress, once there
\* is a sequence.
StrokeIsFound == (~interrupted /\ sequences # {}) => Unfinished = trajectory
=============================================================================
