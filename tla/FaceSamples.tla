---------------------------- MODULE FaceSamples ----------------------------
(***************************************************************************)
(* The faces of the PCAFaces plugin (PCAFaces/sampleManager.cpp): images,    *)
(* and beside them, in vectors of their own, a label and a flag for each.    *)
(* They are edited by clicks on the picture that shows them in a grid, which  *)
(* may have blank cells after the last face (PCAFaces/projector.cpp).         *)
(*                                                                           *)
(* This module holds the state and the operations the plugin calls, as parts  *)
(* of the actions of module InputPlugins.                                     *)
(*                                                                           *)
(* Abstractions: an image is, as history, the label the user has given it;    *)
(* indices count from 1, and Count + 1 is a blank cell; of the flags, which   *)
(* are all UNUSED, only the number counts.  Save writes a file and changes    *)
(* nothing here; what a file holds makes no difference to Load.               *)
(***************************************************************************)
EXTENDS Integers, SequencesExt

CONSTANTS
    MaxLabel,       \* 255
    MaxFaces,       \* bounds the faces,
    MaxFlags        \* and those added since the last Clear

ASSUME FacesAssumption == {MaxLabel, MaxFaces, MaxFlags} \subseteq Nat

VARIABLES
    faces,          \* sequence of labels: what the user gave each image
    faceLabels,     \* the labels
    faceFlags       \* the number of flags

faceVars == <<faces, faceLabels, faceFlags>>

Count == Len(faces)
Cells == 1 .. Count + 1
Buttons == {"left", "right"}
Modifiers == {"none", "shift", "ctrl"}

FacesInit == faces = <<>> /\ faceLabels = <<>> /\ faceFlags = 0

AddSample ==
    /\ Count < MaxFaces /\ faceFlags < MaxFlags
    /\ faces' = Append(faces, 0) /\ faceLabels' = Append(faceLabels, 0)
    /\ faceFlags' = faceFlags + 1

Clear == faces' = <<>> /\ faceLabels' = <<>> /\ faceFlags' = 0

\* mutant: the labels stay where they are, and the last one is dropped
RemoveSampleOfLabel(i) ==
    \/ i > Count /\ UNCHANGED faceVars
    \/ i = 1 /\ Count = 1 /\ Clear
    \/ i <= Count /\ Count > 1
       /\ faces' = RemoveAt(faces, i) /\ faceLabels' = Front(faceLabels)
       /\ UNCHANGED faceFlags

\* mutant: the face is taken out, its label is not
RemoveSampleOnly(i) ==
    \/ i > Count /\ UNCHANGED faceVars
    \/ i = 1 /\ Count = 1 /\ Clear
    \/ i <= Count /\ Count > 1
       /\ faces' = RemoveAt(faces, i) /\ UNCHANGED <<faceLabels, faceFlags>>

\* the flags are left longer than the faces
RemoveSample(i) ==
    \/ i > Count /\ UNCHANGED faceVars
    \/ i = 1 /\ Count = 1 /\ Clear
    \/ i <= Count /\ Count > 1
       /\ faces' = RemoveAt(faces, i) /\ faceLabels' = RemoveAt(faceLabels, i)
       /\ UNCHANGED faceFlags

\* mutant: only 0 is a limit
SteppedPast(label, button) ==
    CASE button = "left" -> label + 1
      [] button = "right" /\ label > 0 -> label - 1
      [] OTHER -> label

\* one label more or less, within what a label can be
Stepped(label, button) ==
    CASE button = "left" /\ label < MaxLabel -> label + 1
      [] button = "right" /\ label > 0 -> label - 1
      [] OTHER -> label

\* the labels s after a click on cell i: with Shift those from i on take its label
Clicked(s, i, button, modifier) ==
    [k \in 1 .. Len(s) |->
        IF k = i \/ (modifier = "shift" /\ k > i) THEN Stepped(s[i], button) ELSE s[k]]

Relabel(i, button, modifier) ==
    /\ faces' = Clicked(faces, i, button, modifier)
    /\ faceLabels' = Clicked(faceLabels, i, button, modifier)
    /\ UNCHANGED faceFlags

\* SetLabel of a sample that is then removed changes nothing else
DatasetClick(i, button, modifier) ==
    /\ Count > 0
    /\ IF button = "left" /\ modifier = "ctrl" THEN RemoveSample(i)
       ELSE Relabel(i, button, modifier)

\* Load takes the first tile of any image for the blank one that ends the
\* faces (bZero is never false): nothing but Clear comes of it.
Load == Clear

-----------------------------------------------------------------------------
(* Properties                                                               *)

\* What CreateSampleImage indexes by the faces it draws covers them, through removals
\* in any order: one label for each face, and no fewer flags.
FacesInStep == Len(faceLabels) = Count /\ faceFlags >= Count
=============================================================================
