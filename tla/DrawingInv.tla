----------------------------- MODULE DrawingInv -----------------------------
(* The inductive invariants of the drawing session: DrawingInv, behind         *)
(* SequencesFit and NothingHidden, and LayerInv, behind LayerIsCurrent and       *)
(* TrajectoriesAreCurrent.  DrawingProofs and LayerProofs prove them for every     *)
(* value of the constants, drawing_data and drawing_layer check them on small ones.  *)
EXTENDS Drawing

\* A data set at rest, of samples with flags g: the sequences are ranges of
\* flagged samples, apart from each other, and every flagged sample is in one.
Sound(g, qs) ==
    /\ WellPlaced(g, g, qs)
    /\ \A k \in DOMAIN g : g[k] = "traj" => \E q \in qs : Covers(q, k)

\* A stroke reaches from after the last sequence to the last sample, and
\* Drawing has flagged its samples.
StrokeFits ==
    trajectory # None =>
        /\ 1 <= trajectory.first /\ trajectory.first <= trajectory.second
        /\ trajectory.second = Count
        /\ \A q \in sequences : q.second < trajectory.first
        /\ \A k \in trajectory.first .. Count : flags[k] = "traj"

\* What is saved is sound, unless it had been saved after an interruption or
\* empty; and what is on the canvas is sound but for the stroke.
DrawingInv ==
    /\ ~interrupted =>
         WellPlaced(samples, flags, sequences) /\ NothingHidden /\ StrokeFits
    /\ ~fileInterrupted => \A f \in file : f # NoData /\ Sound(f.flags, f.sequences)

\* The layer of samples: the canvas counts on none of it or on all, and then it is
\* right, unless it has been shifted and is not empty.
SampleLayerInv ==
    (bDisplaySamples /\ erasing = 0 /\ ~interrupted) =>
        /\ drawnSamples \in {0, Count}
        /\ (drawnSamples = Count /\ (~shifted \/ Count = 0)) => LayerIsRight

\* Likewise the layer of trajectories, between two strokes.
TrajectoryLayerInv ==
    (bDisplaySamples /\ erasing = 0 /\ ~interrupted /\ trajectory = None) =>
        /\ drawnTrajectories \in {0, Cardinality(sequences)}
        /\ (drawnTrajectories = Cardinality(sequences) /\ (~shifted \/ sequences = {})) =>
             trajLayer = Drawn(samples, sequences, 0, TRUE, view)

LayerInv == SampleLayerInv /\ TrajectoryLayerInv
=============================================================================
