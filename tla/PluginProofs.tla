---------------------------- MODULE PluginProofs ----------------------------
(***************************************************************************)
(* Proofs about the input plugins and the comparison of algorithms.            *)
(*                                                                           *)
(* For every set of plugins and of files and all bounds: the menu, the flag      *)
(* and the windows agree, and the faces keep their labels, also on the canvas.     *)
(* For every set of parameters, any number of folds and lists of any length: the     *)
(* two lists stay in step, the picture is of the chosen measure, what the event         *)
(* loop delivers between two folds does not change the data they share, and the           *)
(* results are those of the list, in its order.                                            *)
(***************************************************************************)
EXTENDS Comparing, Inductions

(***************************************************************************)
(* The two parts of the inductive invariant.  The faces: both vectors hold   *)
(* the same labels, and the canvas does when it shows them.  The menu: which    *)
(* plugins are on, and what follows.                                           *)
(***************************************************************************)
LabelSequence == Seq(0 .. MaxLabel)
FacesInv ==
    /\ faces \in LabelSequence /\ faceFlags \in Nat /\ faceFlags >= Len(faces)
    /\ faceLabels = faces
    /\ (data.by = "PCAFaces" /\ Len(faces) >= 2) => data.what = faces

LastShown == dialogs # <<>> /\ Last(dialogs) = TRUE
MenuInv ==
    /\ dialogs \in Seq(BOOLEAN) /\ timer \in BOOLEAN /\ running = checked
    /\ (timer = TRUE <=> "RandomEmitter" \in checked)
    /\ gui = "shown" => "PCAFaces" \in checked
    /\ LastShown => "WebImport" \in checked

-----------------------------------------------------------------------------
(* The faces                                                                *)

\* What remains of a sequence without one of its elements.
LEMMA RemovedFits ==
    ASSUME NEW S, NEW s \in Seq(S), NEW i \in 1 .. Len(s)
    PROVE  RemoveAt(s, i) \in Seq(S) /\ Len(RemoveAt(s, i)) = Len(s) - 1
<1> DEFINE before == SubSeq(s, 1, i - 1)
           after == SubSeq(s, i + 1, Len(s))
<1>1. before \in Seq(S) /\ Len(before) = i - 1
  <2>1. /\ before \in Seq(S)
        /\ Len(before) = IF 1 <= i - 1 THEN (i - 1) - 1 + 1 ELSE 0
    <3>1. \A k \in 1 .. i - 1 : s[k] \in S
      OBVIOUS
    <3> QED  BY <3>1, SubSeqProperties
  <2> QED  BY <2>1
<1>2. after \in Seq(S) /\ Len(after) = Len(s) - i
  <2>1. /\ after \in Seq(S)
        /\ Len(after) = IF i + 1 <= Len(s) THEN Len(s) - (i + 1) + 1 ELSE 0
    <3>1. \A k \in i + 1 .. Len(s) : s[k] \in S
      OBVIOUS
    <3> QED  BY <3>1, SubSeqProperties
  <2> QED  BY <2>1
<1> HIDE DEF before, after
<1>3. before \o after \in Seq(S) /\ Len(before \o after) = Len(before) + Len(after)
  BY <1>1, <1>2, ConcatProperties
<1>4. RemoveAt(s, i) = before \o after
  BY DEF RemoveAt, before, after
<1>5. Len(before) + Len(after) = Len(s) - 1
  BY <1>1, <1>2
<1> QED
  BY <1>3, <1>4, <1>5

\* A click on a face leaves the labels what labels can be, and as many as they were.
LEMMA ClickedFits ==
    ASSUME NEW s \in LabelSequence, NEW i \in 1 .. Len(s), NEW button, NEW modifier
    PROVE  Clicked(s, i, button, modifier) \in LabelSequence
           /\ Len(Clicked(s, i, button, modifier)) = Len(s)
<1> DEFINE S == 0 .. MaxLabel
           element(k) == IF k = i \/ (modifier = "shift" /\ k > i) THEN Stepped(s[i], button)
                         ELSE s[k]
<1> s \in Seq(S) /\ Len(s) \in Nat
  BY DEF LabelSequence
<1>1. \A k \in 1 .. Len(s) : element(k) \in S
  <2>1. \A k \in 1 .. Len(s) : s[k] \in S
    <3> HIDE DEF S
    <3> QED  OBVIOUS
  <2>2. Stepped(s[i], button) \in S
    BY <2>1, FacesAssumption DEF Stepped
  <2> HIDE DEF S
  <2> QED  BY <2>1, <2>2
<1>2. [k \in 1 .. Len(s) |-> element(k)] \in Seq(S)
      /\ Len([k \in 1 .. Len(s) |-> element(k)]) = Len(s)
  <2> HIDE DEF element
  <2> QED  BY <1>1
<1> QED
  BY <1>2 DEF Clicked, LabelSequence

\* A click on the blank cell after them changes nothing.
LEMMA BlankClicked ==
    ASSUME NEW s \in LabelSequence, NEW button, NEW modifier
    PROVE  Clicked(s, Len(s) + 1, button, modifier) = s
BY DEF Clicked, LabelSequence

\* Removing a face removes its label, and leaves enough flags.
LEMMA RemovedInStep ==
    ASSUME FacesInv, NEW i \in Cells, RemoveSample(i)
    PROVE  /\ faces' \in LabelSequence /\ faceLabels' = faces'
           /\ faceFlags' \in Nat /\ faceFlags' >= Len(faces')
<1> Count \in Nat /\ i \in 1 .. Count + 1
  BY DEF FacesInv, LabelSequence, Count, Cells
<1>1. CASE i > Count
  <2>1. ~(i = 1 /\ Count = 1) /\ ~(i <= Count)
    BY <1>1
  <2>2. UNCHANGED faceVars
    BY <1>1, <2>1, Zenon DEF RemoveSample
  <2> QED
    BY <2>2 DEF faceVars, FacesInv
<1>2. CASE i = 1 /\ Count = 1 /\ Clear
  BY <1>2 DEF Clear, LabelSequence
<1>3. CASE i <= Count /\ Count > 1
  <2>0. ~(i > Count) /\ ~(i = 1 /\ Count = 1)
    BY <1>3
  <2>1. faces' = RemoveAt(faces, i) /\ faceLabels' = RemoveAt(faceLabels, i) /\ faceFlags' = faceFlags
    BY <1>3, <2>0, Zenon DEF RemoveSample
  <2>2. i \in 1 .. Len(faces)
    BY <1>3 DEF Count
  <2>3. faces' \in LabelSequence /\ Len(faces') = Len(faces) - 1
    BY <2>1, <2>2, RemovedFits DEF FacesInv, LabelSequence
  <2> QED
    BY <2>1, <2>3 DEF FacesInv
<1> QED
  BY <1>1, <1>2, <1>3 DEF RemoveSample

\* So does every other way of editing the faces.
LEMMA EditedInStep ==
    ASSUME FacesInv,
           AddSample \/ Clear \/ Load
             \/ \E i \in Cells, button \in Buttons, modifier \in Modifiers :
                  DatasetClick(i, button, modifier)
    PROVE  /\ faces' \in LabelSequence /\ faceLabels' = faces'
           /\ faceFlags' \in Nat /\ faceFlags' >= Len(faces')
<1> Len(faces) \in Nat
  BY DEF FacesInv, LabelSequence
<1>1. CASE AddSample
  <2>1. 0 \in 0 .. MaxLabel
    BY FacesAssumption
  <2>2. Append(faces, 0) \in LabelSequence /\ Len(Append(faces, 0)) = Len(faces) + 1
    <3> DEFINE S == 0 .. MaxLabel
    <3> faces \in Seq(S) /\ 0 \in S
      BY <2>1 DEF FacesInv, LabelSequence
    <3>1. Append(faces, 0) \in Seq(S) /\ Len(Append(faces, 0)) = Len(faces) + 1
      <4> HIDE DEF S
      <4> QED  BY AppendProperties
    <3> QED  BY <3>1 DEF LabelSequence
  <2> QED
    BY <1>1, <2>2 DEF AddSample, FacesInv
<1>2. CASE Clear \/ Load
  <2>1. faces' = <<>> /\ faceLabels' = <<>> /\ faceFlags' = 0
    BY <1>2 DEF Clear, Load
  <2> QED
    BY <2>1 DEF LabelSequence
<1>3. CASE \E i \in Cells, button \in Buttons, modifier \in Modifiers :
             DatasetClick(i, button, modifier)
  <2> PICK i \in Cells, button \in Buttons, modifier \in Modifiers :
        DatasetClick(i, button, modifier)
    BY <1>3
  <2>1. CASE RemoveSample(i)
    BY <2>1, RemovedInStep
  <2>2. CASE Relabel(i, button, modifier)
    <3>1. faces' = Clicked(faces, i, button, modifier) /\ faceLabels' = faces'
          /\ faceFlags' = faceFlags
      BY <2>2 DEF Relabel, FacesInv
    <3>2. i \in 1 .. Len(faces) \/ i = Len(faces) + 1
      BY DEF Cells, Count
    <3>3. faces' \in LabelSequence /\ Len(faces') = Len(faces)
      BY <3>1, <3>2, ClickedFits, BlankClicked DEF FacesInv
    <3> QED
      BY <3>1, <3>3 DEF FacesInv
  <2> QED
    BY <2>1, <2>2 DEF DatasetClick
<1> QED
  BY <1>1, <1>2, <1>3

\* What PCAFaces then sends is the labels of the faces.
LEMMA FacesSent ==
    ASSUME FacesInv,
           faces' \in LabelSequence /\ faceLabels' = faces'
             /\ faceFlags' \in Nat /\ faceFlags' >= Len(faces'),
           NEW greatest, Updating(faceLabels', greatest)
    PROVE  FacesInv'
<1>1. CASE Len(faces') < 2
  BY <1>1 DEF FacesInv, LabelSequence
<1>2. CASE ~(Len(faces') < 2)
  BY <1>2 DEF Updating, SetData, FacesInv
<1> QED
  BY <1>1, <1>2

\* Data from anybody else is not taken for faces.
LEMMA OthersSent ==
    ASSUME FacesInv, UNCHANGED faceVars,
           UNCHANGED data \/ data'.by # "PCAFaces"
    PROVE  FacesInv'
BY DEF FacesInv, faceVars

\* The faces through every step of the program.
LEMMA FacesInvNext ==
    ASSUME FacesInv, [InputNext]_inputVars
    PROVE  FacesInv'
<1>1. CASE UNCHANGED inputVars
  BY <1>1 DEF inputVars, faceVars, FacesInv
<1>2. CASE UserInput
  <2>1. CASE AddImage \/ ClickFaces \/ ClearDataset \/ LoadDataset
    <3>1. /\ faces' \in LabelSequence /\ faceLabels' = faces'
          /\ faceFlags' \in Nat /\ faceFlags' >= Len(faces')
      BY <2>1, EditedInStep DEF AddImage, ClickFaces, ClearDataset, LoadDataset
    <3>2. Updating(faceLabels', axes)
      BY <2>1 DEF AddImage, ClickFaces, ClearDataset, LoadDataset, RefreshDataset
    <3> QED
      BY <3>1, <3>2, FacesSent
  <2>2. CASE SpinChanged
    <3>1. UNCHANGED faceVars /\ Updating(faceLabels, axes')
      BY <2>2 DEF SpinChanged
    <3>2. CASE Len(faceLabels) < 2
      BY <3>1, <3>2, OthersSent DEF Updating
    <3>3. CASE ~(Len(faceLabels) < 2)
      BY <3>1, <3>3 DEF Updating, SetData, FacesInv, faceVars
    <3> QED
      BY <3>2, <3>3
  <2>3. ASSUME NEW p \in Plugins, Toggle(p) PROVE FacesInv'
    BY <2>3, OthersSent DEF Toggle
  <2>4. CASE CloseWebImport \/ ClosePCAFaces \/ HideDialog
    BY <2>4, OthersSent DEF CloseWebImport, ClosePCAFaces, Close, HideDialog
  <2>5. ASSUME NEW file \in Files \cup BadFiles, Import(file) PROVE FacesInv'
    <3>1. UNCHANGED faceVars /\ (UNCHANGED data \/ data'.by = "WebImport")
      BY <2>5 DEF Import, SetData
    <3> QED
      BY <3>1, OthersSent
  <2> QED
    BY <1>2, <2>1, <2>2, <2>3, <2>4, <2>5 DEF UserInput
<1>3. CASE EmitterTimer
  <2>1. UNCHANGED faceVars /\ data'.by = "RandomEmitter"
    BY <1>3 DEF EmitterTimer, SetData
  <2> QED
    BY <2>1, OthersSent
<1> QED
  BY <1>1, <1>2, <1>3 DEF InputNext

\* Every state satisfies the invariant of the faces.
LEMMA FacesInvHolds == InputSpec => []FacesInv
<1>1. InputInit => FacesInv
  BY DEF InputInit, FacesInit, FacesInv, LabelSequence, UserData
<1>2. FacesInv /\ [InputNext]_inputVars => FacesInv'
  BY FacesInvNext
<1> QED
  BY <1>1, <1>2, PTL DEF InputSpec

\* One label and at least one flag for each face, whatever is added, removed,
\* relabelled, cleared and loaded.
THEOREM FacesStayInStep == InputSpec => []FacesInStep
<1>1. FacesInv => FacesInStep
  BY DEF FacesInv, FacesInStep, Count
<1> QED
  BY <1>1, FacesInvHolds, PTL

\* The canvas shows the faces that are left with the labels the user gave them, until
\* somebody else sends data.
THEOREM FacesAreAlwaysShown == InputSpec => []FacesAreShown
<1>1. FacesInv => FacesAreShown
  BY DEF FacesInv, FacesAreShown, Count
<1> QED
  BY <1>1, FacesInvHolds, PTL

-----------------------------------------------------------------------------
(* The menu                                                                 *)

\* Hiding one of the dialogs.
LEMMA OneHidden ==
    ASSUME dialogs \in Seq(BOOLEAN), NEW d \in DOMAIN dialogs,
           dialogs' = [dialogs EXCEPT ![d] = FALSE]
    PROVE  /\ dialogs' \in Seq(BOOLEAN)
           /\ LastShown' => LastShown
           /\ d = Len(dialogs) => ~LastShown'
<1>1. dialogs' \in Seq(BOOLEAN) /\ Len(dialogs') = Len(dialogs)
  BY ExceptSeq
<1>2. Len(dialogs) >= 1 /\ Len(dialogs) \in DOMAIN dialogs /\ dialogs # <<>>
  BY DEF LastShown
<1>3. dialogs'[Len(dialogs)] = IF d = Len(dialogs) THEN FALSE ELSE dialogs[Len(dialogs)]
  BY <1>2
<1> QED
  BY <1>1, <1>2, <1>3 DEF LastShown, Last

\* The plugins follow ActivateIO, whichever entries are marked.
LEMMA ActivatedInStep ==
    ASSUME MenuInv, NEW marks, ActivateIO(marks)
    PROVE  MenuInv'
<1> DEFINE off == running \ marks
<1>1. checked' = marks /\ running' = marks
  BY DEF ActivateIO
<1>2. timer' \in BOOLEAN /\ (timer' = TRUE <=> "RandomEmitter" \in marks)
  <2>1. CASE "RandomEmitter" \in marks
    BY <2>1 DEF ActivateIO, RandomEmitter
  <2>2. CASE "RandomEmitter" \notin marks /\ "RandomEmitter" \in running
    <3>1. timer' = FALSE
      BY <2>2 DEF ActivateIO, RandomEmitter
    <3> QED
      BY <2>2, <3>1
  <2>3. CASE "RandomEmitter" \notin marks /\ "RandomEmitter" \notin running
    BY <2>3 DEF ActivateIO, RandomEmitter, MenuInv
  <2> QED
    BY <2>1, <2>2, <2>3
<1>3. gui' = "shown" => "PCAFaces" \in marks
  BY DEF ActivateIO, PCAFaces, MenuInv
<1>4. dialogs' \in Seq(BOOLEAN) /\ (LastShown' => "WebImport" \in marks)
  <2>1. CASE "WebImport" \in marks
    <3>1. dialogs' = Append(dialogs, TRUE)
      BY <2>1 DEF ActivateIO, WebImport
    <3>2. dialogs' \in Seq(BOOLEAN)
      BY <3>1, AppendProperties DEF MenuInv
    <3> QED
      BY <2>1, <3>2
  <2>2. CASE "WebImport" \notin marks /\ "WebImport" \in running
    <3>1. dialogs' = [dialogs EXCEPT ![Len(dialogs)] = FALSE]
      BY <2>2 DEF ActivateIO, WebImport
    <3>2. CASE dialogs = <<>>
      <4>1. dialogs' = <<>>
        BY <3>1, <3>2
      <4> QED
        BY <4>1 DEF LastShown
    <3>3. CASE dialogs # <<>>
      <4>1. Len(dialogs) \in DOMAIN dialogs
        BY <3>3 DEF MenuInv
      <4> QED
        BY <3>1, <4>1, OneHidden DEF MenuInv
    <3> QED
      BY <3>2, <3>3
  <2>3. CASE "WebImport" \notin marks /\ "WebImport" \notin running
    <3>1. UNCHANGED dialogs
      BY <2>3 DEF ActivateIO, WebImport
    <3> QED
      BY <2>3, <3>1 DEF MenuInv, LastShown
  <2> QED
    BY <2>1, <2>2, <2>3
<1> QED
  BY <1>1, <1>2, <1>3, <1>4 DEF MenuInv

\* Closing a dialog by its button.
LEMMA ClosedInStep ==
    ASSUME MenuInv, NEW p, Close(p)
    PROVE  MenuInv'
<1>1. CASE p \in checked
  BY <1>1, ActivatedInStep DEF Close
<1>2. CASE p \notin checked
  <2>1. running' = checked /\ UNCHANGED <<checked, timer, dialogs, gui>>
    BY <1>2 DEF Close, MenuInv
  <2> QED
    BY <2>1 DEF MenuInv, LastShown
<1> QED
  BY <1>1, <1>2

\* Closing one by its title bar.
LEMMA HiddenInStep ==
    ASSUME MenuInv, HideDialog
    PROVE  MenuInv'
<1>1. UNCHANGED <<checked, running, timer>>
  BY DEF HideDialog
<1>2. CASE \E d \in DOMAIN dialogs : dialogs' = [dialogs EXCEPT ![d] = FALSE] /\ UNCHANGED gui
  <2> PICK d \in DOMAIN dialogs : dialogs' = [dialogs EXCEPT ![d] = FALSE] /\ UNCHANGED gui
    BY <1>2
  <2>1. dialogs' \in Seq(BOOLEAN) /\ (LastShown' => LastShown)
    BY OneHidden DEF MenuInv
  <2> QED
    BY <1>1, <2>1 DEF MenuInv
<1>3. CASE gui' = "hidden" /\ UNCHANGED dialogs
  BY <1>1, <1>3 DEF MenuInv, LastShown
<1> QED
  BY <1>2, <1>3 DEF HideDialog

\* The menu through every step of the program.
LEMMA MenuInvNext ==
    ASSUME MenuInv, [InputNext]_inputVars
    PROVE  MenuInv'
<1>1. CASE UNCHANGED <<checked, running, timer, dialogs, gui>>
  BY <1>1 DEF MenuInv, LastShown
<1>2. ASSUME NEW p \in Plugins, Toggle(p) PROVE MenuInv'
  BY <1>2, ActivatedInStep DEF Toggle
<1>3. CASE CloseWebImport \/ ClosePCAFaces
  BY <1>3, ClosedInStep DEF CloseWebImport, ClosePCAFaces
<1>4. CASE HideDialog
  BY <1>4, HiddenInStep
<1>5. CASE UNCHANGED inputVars \/ EmitterTimer \/ AddImage \/ ClickFaces \/ ClearDataset
           \/ LoadDataset \/ SpinChanged
  BY <1>1, <1>5 DEF inputVars, pluginVars, EmitterTimer, AddImage, ClickFaces, ClearDataset,
     LoadDataset, SpinChanged, RefreshDataset
<1>6. ASSUME NEW file \in Files \cup BadFiles, Import(file) PROVE MenuInv'
  BY <1>1, <1>6 DEF Import
<1> QED
  BY <1>2, <1>3, <1>4, <1>5, <1>6 DEF InputNext, UserInput

\* Every state satisfies the invariant of the menu.
LEMMA MenuInvHolds == InputSpec => []MenuInv
<1>1. InputInit => MenuInv
  <2> SUFFICES ASSUME InputInit PROVE MenuInv
    OBVIOUS
  <2>1. dialogs \in Seq(BOOLEAN) /\ ~LastShown /\ running = checked /\ gui # "shown"
    BY DEF InputInit, LastShown
  <2>2. timer \in BOOLEAN /\ (timer = TRUE <=> "RandomEmitter" \in checked)
    BY DEF InputInit
  <2> QED
    BY <2>1, <2>2 DEF MenuInv
<1>2. MenuInv /\ [InputNext]_inputVars => MenuInv'
  BY MenuInvNext
<1> QED
  BY <1>1, <1>2, PTL DEF InputSpec

\* The menu, bInputRunning, the timer and the windows agree, whatever is toggled,
\* closed and hidden in whatever order.
THEOREM PluginsAlwaysFollow == InputSpec => []PluginsFollowMenu
<1>1. MenuInv => PluginsFollowMenu
  <2> SUFFICES ASSUME MenuInv PROVE PluginsFollowMenu
    OBVIOUS
  <2>1. (dialogs # <<>> /\ Last(dialogs)) => LastShown
    <3> SUFFICES ASSUME dialogs # <<>>, Last(dialogs) PROVE LastShown
      OBVIOUS
    <3>1. Last(dialogs) \in BOOLEAN
      BY DEF MenuInv, Last
    <3> QED
      BY <3>1, Zenon DEF LastShown
  <2> QED
    BY <2>1, Zenon DEF MenuInv, PluginsFollowMenu
<1> QED
  BY <1>1, MenuInvHolds, PTL

-----------------------------------------------------------------------------
(* Imports                                                                  *)

\* What the parser holds was chosen since it was made.
ParsedChosen == parsed # None => parsed \in chosen

\* The parser through every step of the program.
LEMMA ParsedChosenNext ==
    ASSUME ParsedChosen, [InputNext]_inputVars
    PROVE  ParsedChosen'
<1>1. CASE UNCHANGED <<parsed, chosen>>
  BY <1>1 DEF ParsedChosen
<1>2. ASSUME NEW marks, ActivateIO(marks) PROVE ParsedChosen'
  <2>1. UNCHANGED <<parsed, chosen>> \/ parsed' = None
    BY <1>2 DEF ActivateIO, WebImport
  <2> QED
    BY <1>1, <2>1 DEF ParsedChosen
<1>3. ASSUME NEW p, Toggle(p) \/ Close(p) PROVE ParsedChosen'
  BY <1>1, <1>2, <1>3 DEF Toggle, Close
<1>4. ASSUME NEW file, Import(file) PROVE ParsedChosen'
  BY <1>4 DEF Import, ParsedChosen
<1> QED
  BY <1>1, <1>3, <1>4 DEF InputNext, UserInput, CloseWebImport, ClosePCAFaces, HideDialog,
     EmitterTimer, AddImage, ClickFaces, ClearDataset, LoadDataset, SpinChanged, RefreshDataset,
     inputVars, pluginVars

\* A file that WebImport sends was chosen in the session it is sent in.
LEMMA SentWasChosen ==
    ASSUME ParsedChosen, InputNext, data' # data, data'.by = "WebImport"
    PROVE  data'.what[1] \in chosen'
<1>1. PICK file \in Files \cup BadFiles : Import(file)
  <2>1. ~EmitterTimer
    BY DEF EmitterTimer, SetData
  <2>2. ~AddImage /\ ~ClickFaces /\ ~ClearDataset /\ ~LoadDataset /\ ~SpinChanged
    <3>1. ASSUME NEW s, NEW greatest, Updating(s, greatest) PROVE FALSE
      BY <3>1 DEF Updating, SetData
    <3> QED
      BY <3>1 DEF AddImage, ClickFaces, ClearDataset, LoadDataset, SpinChanged, RefreshDataset
  <2>3. \A p \in Plugins : ~Toggle(p)
    BY DEF Toggle
  <2>4. ~CloseWebImport /\ ~ClosePCAFaces /\ ~HideDialog
    BY DEF CloseWebImport, ClosePCAFaces, Close, HideDialog
  <2> QED
    BY <2>1, <2>2, <2>3, <2>4 DEF InputNext, UserInput
<1>2. CASE parsed # None
  <2>1. data' = [by |-> "WebImport", what |-> <<parsed>>] /\ chosen' = chosen \cup {file}
    BY <1>1, <1>2 DEF Import, SetData
  <2> QED
    BY <1>2, <2>1 DEF ParsedChosen
<1>3. CASE parsed = None
  <2>1. data' = [by |-> "WebImport", what |-> <<file>>] /\ chosen' = chosen \cup {file}
    BY <1>1, <1>3 DEF Import, SetData
  <2> QED
    BY <2>1
<1> QED
  BY <1>2, <1>3

\* WebImport sends no file of an earlier session, though it resends the first of this.
THEOREM ImportsAlwaysChosen == InputSpec => ImportsWereChosen
<1>1. InputInit => ParsedChosen
  BY DEF InputInit, ParsedChosen
<1>2. ParsedChosen /\ [InputNext]_inputVars => ParsedChosen'
  BY ParsedChosenNext
<1>3. ParsedChosen /\ [InputNext]_inputVars
        => [(data' # data /\ data'.by = "WebImport") => data'.what[1] \in chosen']_inputVars
  BY SentWasChosen
<1> QED
  BY <1>1, <1>2, <1>3, PTL DEF InputSpec, ImportsWereChosen

-----------------------------------------------------------------------------
(* Types                                                                    *)

\* The types that neither of the two invariants gives.
WindowTypes ==
    /\ checked \subseteq Plugins
    /\ parsed \in Files \cup {None} /\ chosen \subseteq Files \cup BadFiles
    /\ gui \in {"none", "hidden", "shown"} /\ axes \in Nat
    /\ data.by \in AllPlugins \cup {"user"} /\ alive \in BOOLEAN

\* What ActivateIO leaves, whichever plugins are marked.
LEMMA ActivatedTypes ==
    ASSUME WindowTypes, NEW marks \in SUBSET Plugins, ActivateIO(marks), UNCHANGED <<data, alive>>
    PROVE  WindowTypes'
<1>1. checked' = marks /\ axes' = axes
  BY DEF ActivateIO
<1>2. (parsed' = None \/ parsed' = parsed) /\ (chosen' = {} \/ chosen' = chosen)
  BY DEF ActivateIO, WebImport
<1>3. gui' \in {"none", "hidden", "shown"}
  BY DEF ActivateIO, PCAFaces, WindowTypes
<1> QED
  BY <1>1, <1>2, <1>3 DEF WindowTypes

\* What PCAFaces sends is its own, and the program may end.
LEMMA UpdatedTypes ==
    ASSUME WindowTypes, NEW s, NEW greatest, Updating(s, greatest)
    PROVE  data'.by \in AllPlugins \cup {"user"} /\ alive' \in BOOLEAN
<1>1. alive' = alive \/ alive' \in BOOLEAN
  BY DEF Updating
<1>2. data' = data \/ data'.by = "PCAFaces"
  BY DEF Updating, SetData
<1> QED
  BY <1>1, <1>2 DEF WindowTypes, AllPlugins

\* The types through every step of the program.
LEMMA WindowTypesNext ==
    ASSUME WindowTypes, [InputNext]_inputVars
    PROVE  WindowTypes'
<1>1. CASE UNCHANGED inputVars
  BY <1>1 DEF inputVars, pluginVars, WindowTypes
<1>2. ASSUME NEW p \in Plugins, Toggle(p) PROVE WindowTypes'
  <2>1. (IF p \in checked THEN checked \ {p} ELSE checked \cup {p}) \in SUBSET Plugins
    BY DEF WindowTypes
  <2> QED
    BY <1>2, <2>1, ActivatedTypes DEF Toggle
<1>3. ASSUME NEW p, Close(p) PROVE WindowTypes'
  <2>1. CASE p \in checked
    <3>1. checked \ {p} \in SUBSET Plugins
      BY DEF WindowTypes
    <3> QED
      BY <1>3, <2>1, <3>1, ActivatedTypes DEF Close
  <2>2. CASE p \notin checked
    BY <1>3, <2>2 DEF Close, WindowTypes
  <2> QED
    BY <2>1, <2>2
<1>4. CASE HideDialog
  BY <1>4 DEF HideDialog, WindowTypes
<1>5. ASSUME NEW file \in Files \cup BadFiles, Import(file) PROVE WindowTypes'
  <2>1. data' = data \/ data'.by = "WebImport"
    BY <1>5 DEF Import, SetData
  <2>2. alive' = alive \/ alive' = FALSE
    BY <1>5 DEF Import
  <2>3. parsed' \in Files \cup {None} /\ chosen' \subseteq Files \cup BadFiles
    BY <1>5 DEF Import, WindowTypes
  <2>4. UNCHANGED <<checked, gui, axes>>
    BY <1>5 DEF Import
  <2>5. alive' \in BOOLEAN
    BY <2>2 DEF WindowTypes
  <2> QED
    BY <2>1, <2>3, <2>4, <2>5 DEF WindowTypes, AllPlugins
<1>6. CASE AddImage \/ ClickFaces \/ ClearDataset \/ LoadDataset
  <2>1. UNCHANGED pluginVars /\ Updating(faceLabels', axes)
    BY <1>6 DEF AddImage, ClickFaces, ClearDataset, LoadDataset, RefreshDataset
  <2> QED
    BY <2>1, UpdatedTypes DEF pluginVars, WindowTypes
<1>7. CASE SpinChanged
  <2>1. /\ axes' \in Nat /\ UNCHANGED <<checked, parsed, chosen, gui>> /\ Updating(faceLabels, axes')
    BY <1>7, PluginsAssumption DEF SpinChanged
  <2> QED
    BY <2>1, UpdatedTypes DEF WindowTypes
<1>8. CASE EmitterTimer
  BY <1>8 DEF EmitterTimer, SetData, pluginVars, WindowTypes, AllPlugins
<1> QED
  BY <1>1, <1>2, <1>3, <1>4, <1>5, <1>6, <1>7, <1>8
     DEF InputNext, UserInput, CloseWebImport, ClosePCAFaces

\* Everything has its type: only plugins that were found are on, the parser holds
\* none of the files that cannot be read, and the data is somebody's.
THEOREM InputTypesHold == InputSpec => []Types
<1>1. InputInit => WindowTypes
  BY DEF InputInit, WindowTypes, UserData
<1>2. WindowTypes /\ [InputNext]_inputVars => WindowTypes'
  BY WindowTypesNext
<1>3. FacesInv /\ MenuInv /\ WindowTypes => Types
  BY DEF FacesInv, MenuInv, WindowTypes, Types, LabelSequence
<1> QED
  BY <1>1, <1>2, <1>3, FacesInvHolds, MenuInvHolds, PTL DEF InputSpec

-----------------------------------------------------------------------------
(* Where the comparison is                                                  *)

Values == UNION Range(Params)
Algorithms == [kind : Kinds, param : Values]
Stages == [at : {"idle", "train", "events"}, entry : Nat, fold : Nat]

\* The entry that is compared is one of the list, which has only algorithms; its
\* folds are kept for each of its measures.
CompareTypes ==
    /\ params \in [Kinds -> Values]
    /\ options \in Seq(Algorithms) /\ algoList = options
    /\ comparing \in Stages
    /\ comparing.at # "idle" =>
         /\ comparing.entry \in 1 .. Len(options)
         /\ DOMAIN partial = DOMAIN MeasuresOf[Entry.kind]

\* An algorithm in the list is of one of the kinds, with a value as parameter.
LEMMA EntryIsAlgorithm ==
    ASSUME CompareTypes, comparing.at # "idle"
    PROVE  Entry \in Algorithms /\ Entry.kind \in Kinds /\ Entry.param \in Values
<1>1. Entry \in Algorithms
  BY DEF CompareTypes, Entry
<1> QED
  BY <1>1 DEF Algorithms

\* The parameters of a plugin are values, what the user may set it to too.
LEMMA ParamsAreValues ==
    ASSUME NEW k \in Kinds
    PROVE  Params[k] \subseteq Values
BY DEF Kinds, Values, Range

\* What Begin sets up.
LEMMA BegunTypes ==
    ASSUME CompareTypes, NEW entry \in 1 .. Len(options), Begin(entry),
           UNCHANGED <<params, options, algoList>>
    PROVE  CompareTypes'
<1>1. comparing' = [at |-> "train", entry |-> entry, fold |-> 1]
      /\ partial' = [m \in DOMAIN MeasuresOf[options[entry].kind] |-> <<>>]
  BY DEF Begin
<1>2. Entry' = options[entry]
  BY <1>1 DEF Entry
<1>3. entry \in Nat
  BY DEF CompareTypes
<1>4. DOMAIN partial' = DOMAIN MeasuresOf[Entry'.kind]
  BY <1>1, <1>2
<1> QED
  BY <1>1, <1>3, <1>4 DEF CompareTypes, Stages

\* The list stays one of algorithms when the user edits it.
LEMMA EditedTypes ==
    ASSUME CompareTypes, comparing.at = "idle", CompareAdd \/ CompareRemove \/ CompareClear
    PROVE  CompareTypes'
<1>1. options' \in Seq(Algorithms) /\ algoList' = options'
  <2>1. CASE CompareAdd
    <3> PICK k \in Kinds : /\ options' = Append(options, Algorithm(k))
                            /\ algoList' = Append(algoList, Algorithm(k))
      BY <2>1 DEF CompareAdd
    <3>1. Algorithm(k) \in Algorithms
      BY DEF Algorithm, Algorithms, CompareTypes
    <3> QED
      BY <3>1, AppendProperties DEF CompareTypes
  <2>2. CASE CompareClear
    BY <2>2 DEF CompareClear
  <2>3. CASE CompareRemove
    <3> PICK i \in DOMAIN algoList : /\ options' = RemoveAt(options, i)
                                   /\ algoList' = RemoveAt(algoList, i)
      BY <2>3 DEF CompareRemove
    <3>1. options \in Seq(Algorithms) /\ i \in 1 .. Len(options)
      BY DEF CompareTypes
    <3> QED
      BY <3>1, RemovedFits DEF CompareTypes
  <2> QED
    BY <2>1, <2>2, <2>3
<1> QED
  BY <1>1 DEF CompareAdd, CompareRemove, CompareClear, CompareTypes

\* Fold and NextFold stay with their entry.
LEMMA EntryIsKept ==
    ASSUME CompareTypes, Fold \/ NextFold
    PROVE  /\ comparing.at # "idle" /\ comparing' \in Stages
           /\ comparing'.at # "idle" /\ comparing'.entry = comparing.entry
<1>1. comparing \in Stages /\ comparing.fold + 1 \in Nat
  BY DEF CompareTypes, Stages
<1>2. PICK stage \in {"train", "events"}, fold \in Nat :
        comparing.at # "idle" /\ comparing' = [comparing EXCEPT !.at = stage, !.fold = fold]
  <2>1. CASE Fold
    <3>1. comparing' = [comparing EXCEPT !.at = "events", !.fold = comparing.fold]
      BY <2>1, <1>1 DEF Fold, Stages
    <3> QED
      BY <2>1, <1>1, <3>1 DEF Fold, Stages
  <2>2. CASE NextFold
    <3>1. /\ comparing.at = "events"
          /\ comparing' = [comparing EXCEPT !.at = "train", !.fold = comparing.fold + 1]
      BY <2>2 DEF NextFold
    <3> QED
      BY <3>1, <1>1, Zenon
  <2> QED
    BY <2>1, <2>2
<1> QED
  BY <1>1, <1>2 DEF Stages

\* The types through the steps of Compare.
LEMMA StepTypes ==
    ASSUME CompareTypes, Compare \/ CompareStep
    PROVE  CompareTypes'
<1>1. CASE Compare
  <2>1. 1 \in 1 .. Len(options)
    <3>1. options \in Seq(Algorithms) /\ options # <<>>
      BY <1>1 DEF Compare, CompareTypes
    <3> QED
      BY <3>1
  <2> QED
    BY <1>1, <2>1, BegunTypes DEF Compare
<1>2. CASE Fold
  <2>1. UNCHANGED <<options, algoList>> /\ DOMAIN partial' = DOMAIN partial
    BY <1>2 DEF Fold
  <2>2. /\ comparing.at # "idle" /\ comparing' \in Stages
        /\ comparing'.at # "idle" /\ comparing'.entry = comparing.entry
    BY <1>2, EntryIsKept
  <2>3. params' \in [Kinds -> Values]
    <3>1. Entry.kind \in Kinds /\ Entry.param \in Values /\ params[Entry.kind] \in Values
      BY <2>2, EntryIsAlgorithm DEF CompareTypes
    <3>2. PICK v \in Values : params' = [params EXCEPT ![Entry.kind] = v]
      BY <1>2, <3>1 DEF Fold
    <3> QED
      BY <3>1, <3>2 DEF CompareTypes
  <2> QED
    BY <2>1, <2>2, <2>3 DEF CompareTypes, Entry
<1>3. CASE NextFold
  <2>1. UNCHANGED <<params, options, algoList, partial>>
    BY <1>3 DEF NextFold, resultVars
  <2>2. /\ comparing.at # "idle" /\ comparing' \in Stages
        /\ comparing'.at # "idle" /\ comparing'.entry = comparing.entry
    BY <1>3, EntryIsKept
  <2> QED
    BY <2>1, <2>2 DEF CompareTypes, Entry
<1>4. CASE EndEntry
  <2>1. CASE comparing.entry < Len(options)
    <3>1. comparing.entry + 1 \in 1 .. Len(options)
      BY <1>4, <2>1 DEF EndEntry, CompareTypes
    <3> QED
      BY <1>4, <2>1, <3>1, BegunTypes DEF EndEntry
  <2>2. CASE ~(comparing.entry < Len(options))
    BY <1>4, <2>2 DEF EndEntry, Idle, Stages, CompareTypes
  <2> QED
    BY <2>1, <2>2
<1> QED
  BY <1>1, <1>2, <1>3, <1>4 DEF CompareStep

\* The types through every step of the program.
LEMMA CompareTypesNext ==
    ASSUME CompareTypes, [CompareNext]_vars
    PROVE  CompareTypes'
<1>1. CASE UNCHANGED <<params, options, algoList, comparing, partial>>
  BY <1>1 DEF CompareTypes, Entry
<1>2. CASE comparing.at = "idle" /\ SetParam
  <2> PICK k \in Kinds, p \in Values : params' = [params EXCEPT ![k] = p]
    BY <1>2, ParamsAreValues DEF SetParam
  <2>1. params' \in [Kinds -> Values]
    BY DEF CompareTypes
  <2> QED
    BY <1>2, <2>1 DEF SetParam, CompareTypes
<1>3. CASE comparing.at = "idle" /\ (CompareAdd \/ CompareRemove \/ CompareClear)
  BY <1>3, EditedTypes
<1>4. CASE Compare \/ CompareStep
  BY <1>4, StepTypes
<1> QED
  BY <1>1, <1>2, <1>3, <1>4 DEF CompareNext, vars, compareVars, resultVars, SelectMeasure,
     ClearData, Draw, PaintReward, Events

\* Every state satisfies it.
LEMMA CompareTypesHold == CompareSpec => []CompareTypes
<1>1. CompareInit => CompareTypes
  <2> SUFFICES ASSUME CompareInit PROVE CompareTypes
    OBVIOUS
  <2>1. params \in [Kinds -> Values]
    BY DEF CompareInit, Values
  <2>2. comparing \in Stages /\ comparing.at = "idle"
    BY DEF CompareInit, Idle, Stages
  <2>3. options = <<>> /\ algoList = <<>>
    BY DEF CompareInit
  <2> QED
    BY <2>1, <2>2, <2>3 DEF CompareTypes
<1>2. CompareTypes /\ [CompareNext]_vars => CompareTypes'
  BY CompareTypesNext
<1> QED
  BY <1>1, <1>2, PTL DEF CompareSpec

\* The list on screen goes through every edit with the list of options.
THEOREM ListsStayInStep == CompareSpec => []ListInStep
<1>1. CompareTypes => ListInStep
  BY DEF CompareTypes, ListInStep
<1> QED
  BY <1>1, CompareTypesHold, PTL

\* Between comparisons the picture is of the chosen measure and has all its results.
THEOREM PictureStaysCurrent == CompareSpec => []PictureIsCurrent
<1>1. CompareInit => PictureIsCurrent
  BY DEF CompareInit, PictureIsCurrent
<1>2. CompareTypes /\ PictureIsCurrent /\ [CompareNext]_vars => PictureIsCurrent'
  <2> SUFFICES ASSUME CompareTypes, PictureIsCurrent, [CompareNext]_vars PROVE PictureIsCurrent'
    OBVIOUS
  <2>1. CASE UNCHANGED <<comparing, items, picture, results, current>>
    BY <2>1 DEF PictureIsCurrent
  <2>2. CASE Compare \/ Fold \/ NextFold
    <3>1. comparing'.at # "idle"
      <4>1. CASE Compare
        BY <4>1 DEF Compare, Begin
      <4>2. CASE Fold \/ NextFold
        BY <4>2, EntryIsKept
      <4> QED
        BY <2>2, <4>1, <4>2
    <3> QED
      BY <3>1 DEF PictureIsCurrent
  <2>3. CASE EndEntry
    BY <2>3 DEF EndEntry, Show, PictureIsCurrent
  <2>4. CASE SelectMeasure
    BY <2>4 DEF SelectMeasure, PictureIsCurrent
  <2> QED
    BY <2>1, <2>2, <2>3, <2>4 DEF CompareNext, vars, compareVars, resultVars, SetParam,
       CompareAdd, CompareRemove, CompareClear, ClearData, Draw, PaintReward, CompareStep, Events
<1> QED
  BY <1>1, <1>2, CompareTypesHold, PTL DEF CompareSpec

-----------------------------------------------------------------------------
(* What the folds were trained on                                           *)

(***************************************************************************)
(* With the emitter off, all that has been kept since the comparison began   *)
(* was trained on the data now on the canvas.  Outside a comparison, or with    *)
(* the emitter on, nothing is claimed, and nothing is needed: a comparison         *)
(* begins with empty results, and the timer does not change under it.              *)
(***************************************************************************)
TrainedOn(d) == [param : Values, data : {d}]
ResultsOf(d) == [algorithm : Algorithms, folds : Seq(TrainedOn(d))]
PartialShares == \A m \in DOMAIN partial : partial[m] \in Seq(TrainedOn(data))
ResultsShare == results \in [Measures -> Seq(ResultsOf(data))]
ShareInv == (comparing.at # "idle" /\ ~timer) => (PartialShares /\ ResultsShare)

\* It is what the property says.
LEMMA SharedOutcomes ==
    ASSUME ShareInv
    PROVE  FoldsShareData
<1> SUFFICES ASSUME comparing.at # "idle", ~timer, NEW o \in Outcomes
             PROVE  o.data = data
  BY DEF FoldsShareData
<1>1. PartialShares /\ ResultsShare
  BY DEF ShareInv
<1>2. \A s \in Seq(TrainedOn(data)) : \A x \in Range(s) : x.data = data
  <2>1. \A x \in TrainedOn(data) : x.data = data
    BY DEF TrainedOn
  <2>2. \A s \in Seq(TrainedOn(data)) : \A x \in Range(s) : x \in TrainedOn(data)
    BY DEF Range
  <2> QED
    BY <2>1, <2>2
<1>3. CASE o \in UNION {Range(partial[m]) : m \in DOMAIN partial}
  BY <1>1, <1>2, <1>3 DEF PartialShares
<1>4. ASSUME NEW m \in Measures, o \in UNION {Range(r.folds) : r \in Range(results[m])}
      PROVE  o.data = data
  <2>1. results[m] \in Seq(ResultsOf(data))
    BY <1>1 DEF ResultsShare
  <2>2. PICK r \in Range(results[m]) : o \in Range(r.folds)
    BY <1>4
  <2>3. r \in ResultsOf(data)
    BY <2>1, <2>2 DEF Range
  <2>4. r.folds \in Seq(TrainedOn(data))
    BY <2>3 DEF ResultsOf
  <2> QED
    BY <1>2, <2>2, <2>4
<1> QED
  BY <1>3, <1>4 DEF Outcomes

\* A comparison begins with nothing, and each entry with nothing of its own.
LEMMA BegunShares ==
    ASSUME NEW entry, Begin(entry)
    PROVE  PartialShares'
BY DEF Begin, PartialShares

\* A fold adds what was trained on the data now on the canvas.
LEMMA FoldShares ==
    ASSUME CompareTypes, PartialShares, Fold
    PROVE  PartialShares'
<1> DEFINE k == Entry.kind
           loaded == IF comparing.fold = 1 THEN Entry.param ELSE params[k]
           outcome == [param |-> loaded, data |-> data]
<1>1. comparing.at # "idle"
  BY DEF Fold
<1>2. outcome \in TrainedOn(data)
  <2>1. loaded \in Values
    BY <1>1, EntryIsAlgorithm DEF CompareTypes
  <2> HIDE DEF loaded
  <2> QED
    BY <2>1 DEF TrainedOn
<1>3. partial' = [m \in DOMAIN partial |-> With(k, m, outcome)] /\ UNCHANGED data
  BY DEF Fold
<1> HIDE DEF outcome, k
<1>4. ASSUME NEW m \in DOMAIN partial
      PROVE  With(k, m, outcome) \in Seq(TrainedOn(data))
  <2>1. partial[m] \in Seq(TrainedOn(data))
    BY DEF PartialShares
  <2>2. /\ <<outcome>> \in Seq(TrainedOn(data))
        /\ Append(partial[m], outcome) \in Seq(TrainedOn(data))
    BY <1>2, <2>1, AppendProperties
  <2> QED
    BY <2>1, <2>2, Zenon DEF With
<1> QED
  BY <1>3, <1>4 DEF PartialShares

\* The results of an entry are what its folds gave.
LEMMA ResultsAdded ==
    ASSUME CompareTypes, PartialShares, ResultsShare, comparing.at # "idle", AddResults,
           UNCHANGED <<params, data>>
    PROVE  ResultsShare'
<1> DEFINE k == Entry.kind
           at(m) == CHOOSE j \in DOMAIN MeasuresOf[k] : MeasuresOf[k][j] = m
           added(m) == [algorithm |-> Algorithm(k), folds |-> partial[at(m)]]
<1>1. k \in Kinds /\ DOMAIN partial = DOMAIN MeasuresOf[k]
  BY EntryIsAlgorithm DEF CompareTypes
<1>2. Algorithm(k) \in Algorithms
  BY <1>1 DEF Algorithm, Algorithms, CompareTypes
<1>3. results' = [m \in Measures |-> IF m \in Range(MeasuresOf[k])
                                      THEN Append(results[m], added(m)) ELSE results[m]]
  BY DEF AddResults
<1>4. ASSUME NEW m \in Range(MeasuresOf[k])
      PROVE  added(m) \in ResultsOf(data)
  <2>1. at(m) \in DOMAIN MeasuresOf[k]
    BY DEF Range
  <2>2. partial[at(m)] \in Seq(TrainedOn(data))
    BY <1>1, <2>1 DEF PartialShares
  <2> QED
    BY <1>2, <2>2 DEF ResultsOf
<1> HIDE DEF added, k
<1>5. ASSUME NEW m \in Measures
      PROVE  results'[m] \in Seq(ResultsOf(data))
  <2>1. results[m] \in Seq(ResultsOf(data))
    BY DEF ResultsShare
  <2>2. CASE m \in Range(MeasuresOf[k])
    BY <1>3, <1>4, <2>1, <2>2, AppendProperties
  <2>3. CASE m \notin Range(MeasuresOf[k])
    BY <1>3, <2>1, <2>3
  <2> QED
    BY <2>2, <2>3
<1> QED
  BY <1>3, <1>5 DEF ResultsShare

\* The data through every step of the program.
LEMMA ShareInvNext ==
    ASSUME CompareTypes, ShareInv, [CompareNext]_vars
    PROVE  ShareInv'
<1>1. CASE comparing.at # "idle" /\ ~timer
  <2>1. PartialShares /\ ResultsShare
    BY <1>1 DEF ShareInv
  <2>2. CASE UNCHANGED vars
    BY <2>1, <2>2 DEF vars, compareVars, resultVars, inputVars, ShareInv, PartialShares, ResultsShare
  <2>3. CASE Fold
    <3>1. UNCHANGED <<results, data>>
      BY <2>3 DEF Fold
    <3> QED
      BY <2>1, <2>3, <3>1, FoldShares DEF ShareInv, ResultsShare
  <2>4. CASE NextFold
    <3>1. UNCHANGED <<partial, results, data>>
      BY <2>4 DEF NextFold, resultVars, inputVars
    <3> QED
      BY <2>1, <3>1 DEF ShareInv, PartialShares, ResultsShare
  <2>5. CASE EndEntry
    <3>1. AddResults /\ UNCHANGED <<params, data>>
      BY <2>5 DEF EndEntry, inputVars
    <3>2. ResultsShare'
      BY <1>1, <2>1, <3>1, ResultsAdded
    <3>3. CASE comparing.entry < Len(options)
      BY <2>5, <3>2, <3>3, BegunShares DEF EndEntry, ShareInv
    <3>4. CASE ~(comparing.entry < Len(options))
      BY <2>5, <3>4 DEF EndEntry, Idle, ShareInv
    <3> QED
      BY <3>3, <3>4
  <2> QED
    BY <1>1, <2>2, <2>3, <2>4, <2>5 DEF CompareNext, CompareStep, Events, EmitterTimer
<1>2. CASE comparing.at # "idle" /\ timer
  <2>1. UNCHANGED timer
    BY <1>2 DEF CompareNext, CompareStep, Fold, NextFold, EndEntry, Events, EmitterTimer, vars,
       inputVars, pluginVars
  <2> QED
    BY <1>2, <2>1 DEF ShareInv
<1>3. CASE comparing.at = "idle"
  <2>1. CASE Compare
    <3>1. PartialShares'
      BY <2>1, BegunShares DEF Compare
    <3>2. results' = [m \in Measures |-> <<>>]
      BY <2>1 DEF Compare
    <3>3. ResultsShare'
      BY <3>2 DEF ResultsShare
    <3> QED
      BY <3>1, <3>3 DEF ShareInv
  <2>2. CASE ~Compare
    <3>1. UNCHANGED comparing
      BY <1>3, <2>2 DEF CompareNext, CompareStep, Fold, NextFold, EndEntry, Events, compareVars,
         vars, SetParam, CompareAdd, CompareRemove, CompareClear, SelectMeasure, ClearData, Draw,
         PaintReward
    <3> QED
      BY <1>3, <3>1 DEF ShareInv
  <2> QED
    BY <2>1, <2>2
<1> QED
  BY <1>1, <1>2, <1>3

\* Whatever the event loop delivers between two folds, with the emitter off all
\* algorithms of a comparison are trained on the same data.
THEOREM FoldsAlwaysShareData == CompareSpec => []FoldsShareData
<1>1. CompareInit => ShareInv
  <2> SUFFICES ASSUME CompareInit PROVE ShareInv
    OBVIOUS
  <2>1. comparing.at = "idle"
    BY DEF CompareInit, Idle
  <2> QED
    BY <2>1 DEF ShareInv
<1>2. CompareTypes /\ ShareInv /\ [CompareNext]_vars => ShareInv'
  BY ShareInvNext
<1>3. ShareInv => FoldsShareData
  BY SharedOutcomes
<1> QED
  BY <1>1, <1>2, <1>3, CompareTypesHold, PTL DEF CompareSpec

-----------------------------------------------------------------------------
(* What a comparison leaves                                                 *)

\* OfKind goes over the list, entry by entry.
OfKindLoop(F, k) ==
    /\ F[0] = <<>>
    /\ \A n \in 1 .. Len(options) :
         F[n] = IF options[n].kind = k THEN Append(F[n - 1], options[n]) ELSE F[n - 1]

\* The recursive function is that loop.
LEMMA OfKindIsLoop ==
    ASSUME options \in Seq(Algorithms), NEW k
    PROVE  /\ OfKindLoop(OfKind(k), k)
           /\ \A n \in 0 .. Len(options) : OfKind(k)[n] \in Seq(Algorithms)
<1> DEFINE N == Len(options)
           T == Seq(Algorithms)
           Pass(x, n) == IF options[n].kind = k THEN Append(x, options[n]) ELSE x
           step == [nx \in (1 .. N) \X T |-> Pass(nx[2], nx[1])]
           Body(h, n) == IF n = 0 THEN <<>>
                         ELSE IF options[n].kind = k THEN Append(h[n - 1], options[n]) ELSE h[n - 1]
<1>0. N \in Nat
  OBVIOUS
<1>1. \A x \in T, n \in 1 .. N : Pass(x, n) \in T
  <2> SUFFICES ASSUME NEW x \in T, NEW n \in 1 .. N PROVE Pass(x, n) \in T
    OBVIOUS
  <2>1. options[n] \in Algorithms
    OBVIOUS
  <2>2. Append(x, options[n]) \in T
    BY <2>1, AppendProperties
  <2> QED
    BY <2>2
<1>2. step \in [(1 .. N) \X T -> T] /\ <<>> \in T
  BY <1>1, EmptySeq
<1>3. PICK f \in [0 .. N -> T] : IsLoop(f, N, <<>>, step)
  <2> HIDE DEF step, T, N
  <2> QED
    BY <1>0, <1>2, LoopExists
<1>4. ASSUME NEW n \in 1 .. N PROVE f[n] = Pass(f[n - 1], n)
  <2>1. n - 1 \in 0 .. N
    BY <1>0
  <2>2. <<n, f[n - 1]>> \in (1 .. N) \X T
    <3> HIDE DEF T, N
    <3> QED
      BY <2>1
  <2>3. f[n] = step[<<n, f[n - 1]>>]
    BY <1>3 DEF IsLoop
  <2> HIDE DEF Pass, T
  <2> QED
    BY <2>2, <2>3
<1>5. f = [n \in 0 .. N |-> Body(f, n)]
  <2>1. f[0] = Body(f, 0)
    BY <1>3 DEF IsLoop
  <2>2. \A n \in 1 .. N : f[n] = Body(f, n)
    BY <1>4
  <2>3. \A n \in 0 .. N : n = 0 \/ n \in 1 .. N
    BY <1>0
  <2> HIDE DEF Body, N
  <2> QED
    BY <2>1, <2>2, <2>3
<1> DEFINE F == CHOOSE h : h = [n \in 0 .. N |-> Body(h, n)]
<1>6. F = [n \in 0 .. N |-> Body(F, n)]
  BY <1>5
<1>7. OfKind(k) = F
  BY DEF OfKind
<1> HIDE DEF F
<1>8. OfKindLoop(F, k)
  <2>1. 0 \in 0 .. N /\ \A n \in 1 .. N : n \in 0 .. N /\ n # 0
    BY <1>0
  <2>2. F[0] = <<>>
    BY <1>6, <2>1
  <2>3. ASSUME NEW n \in 1 .. N PROVE F[n] = Pass(F[n - 1], n)
    <3>1. F[n] = Body(F, n)
      <4> HIDE DEF Body
      <4> QED
        BY <1>6, <2>1
    <3> QED
      BY <2>1, <3>1
  <2> QED
    BY <2>2, <2>3 DEF OfKindLoop
<1>9. \A n \in 0 .. N : F[n] \in T
  <2> DEFINE Typed == {n \in 0 .. N : F[n] \in T}
  <2>1. 0 \in Typed
    <3>1. 0 \in 0 .. N /\ F[0] \in T
      BY <1>0, <1>2, <1>8 DEF OfKindLoop
    <3> QED
      BY <3>1
  <2>2. ASSUME NEW n \in 0 .. N - 1, n \in Typed PROVE n + 1 \in Typed
    <3>1. n + 1 \in 1 .. N /\ n + 1 \in 0 .. N /\ (n + 1) - 1 = n /\ F[n] \in T
      BY <1>0, <2>2
    <3>2. F[n + 1] = Pass(F[n], n + 1)
      BY <1>8, <3>1 DEF OfKindLoop
    <3> QED
      BY <1>1, <3>1, <3>2
  <2>3. \A n \in 0 .. N : n \in Typed
    <3> HIDE DEF Typed, N
    <3> QED
      BY <1>0, <2>1, <2>2, UpTo
  <2> QED
    BY <2>3
<1> QED
  BY <1>7, <1>8, <1>9

(***************************************************************************)
(* What the folds of an entry and the entries so far have left.  The data of  *)
(* an outcome, and so the set it is from, does not matter here.                 *)
(***************************************************************************)
Holds(s, p) == \E D : s \in Seq([param : {p}, data : D])
Follow(s, list) ==
    /\ \E R : s \in Seq(R)
    /\ Len(s) = Len(list)
    /\ \A i \in 1 .. Len(list) : s[i].algorithm = list[i] /\ Holds(s[i].folds, list[i].param)

\* Outcomes of models with one parameter, and one more.
LEMMA HoldsMore ==
    ASSUME NEW p, NEW d
    PROVE  /\ Holds(<<>>, p) /\ Holds(<<[param |-> p, data |-> d]>>, p)
           /\ \A s : Holds(s, p) => Holds(Append(s, [param |-> p, data |-> d]), p)
<1> DEFINE o == [param |-> p, data |-> d]
<1>1. Holds(<<>>, p)
  <2>1. <<>> \in Seq([param : {p}, data : {}])
    BY EmptySeq
  <2> QED
    BY <2>1 DEF Holds
<1>2. Holds(<<o>>, p)
  <2>1. o \in [param : {p}, data : {d}]
    OBVIOUS
  <2>2. <<o>> \in Seq([param : {p}, data : {d}])
    BY <2>1
  <2> QED
    BY <2>2 DEF Holds
<1>3. ASSUME NEW s, Holds(s, p) PROVE Holds(Append(s, o), p)
  <2>1. PICK D : s \in Seq([param : {p}, data : D])
    BY <1>3 DEF Holds
  <2> DEFINE E == [param : {p}, data : D \cup {d}]
  <2>2. o \in E /\ [param : {p}, data : D] \subseteq E
    OBVIOUS
  <2> HIDE DEF E, o
  <2>3. s \in Seq(E)
    <3>1. Len(s) \in Nat /\ s \in [1 .. Len(s) -> [param : {p}, data : D]]
      BY <2>1, SeqIsFunction
    <3>2. s \in [1 .. Len(s) -> E]
      BY <2>2, <3>1
    <3> QED
      BY <3>1, <3>2, FunctionIsSeq
  <2>4. Append(s, o) \in Seq(E)
    BY <2>2, <2>3, AppendProperties
  <2> QED
    BY <2>4 DEF Holds, E
<1> QED
  BY <1>1, <1>2, <1>3

\* What they hold.
LEMMA HoldsParam ==
    ASSUME NEW s, NEW p, Holds(s, p)
    PROVE  \A o \in Range(s) : o.param = p
<1>1. PICK D : s \in Seq([param : {p}, data : D])
  BY DEF Holds
<1>2. s \in [1 .. Len(s) -> [param : {p}, data : D]] /\ DOMAIN s = 1 .. Len(s)
  BY <1>1, SeqIsFunction
<1>3. \A o \in Range(s) : o \in [param : {p}, data : D]
  BY <1>2 DEF Range
<1> QED
  BY <1>3

\* Results follow a list, and those of one more algorithm follow the longer list.
LEMMA FollowMore ==
    ASSUME NEW s, NEW list \in Seq(Algorithms), Follow(s, list),
           NEW a \in Algorithms, NEW f, Holds(f, a.param)
    PROVE  Follow(Append(s, [algorithm |-> a, folds |-> f]), Append(list, a))
<1> DEFINE r == [algorithm |-> a, folds |-> f]
           n == Len(list)
<1>1. PICK R : s \in Seq(R)
  BY DEF Follow
<1>2. n \in Nat /\ Len(s) = n
  BY DEF Follow
<1>3. s \in Seq(R \cup {r})
  <2>1. s \in [1 .. n -> R]
    BY <1>1, <1>2, SeqIsFunction
  <2>2. s \in [1 .. n -> R \cup {r}]
    BY <2>1
  <2> QED
    BY <1>2, <2>2, FunctionIsSeq
<1>4. r \in R \cup {r} /\ r.algorithm = a /\ r.folds = f
  OBVIOUS
<1> HIDE DEF r, n
<1>5. /\ Append(s, r) \in Seq(R \cup {r}) /\ Len(Append(s, r)) = n + 1
      /\ \A i \in 1 .. n : Append(s, r)[i] = s[i]
      /\ Append(s, r)[n + 1] = r
  BY <1>2, <1>3, <1>4, AppendProperties
<1>6. /\ Len(Append(list, a)) = n + 1
      /\ \A i \in 1 .. n : Append(list, a)[i] = list[i]
      /\ Append(list, a)[n + 1] = a
  BY AppendProperties DEF n
<1>7. ASSUME NEW i \in 1 .. n + 1
      PROVE  /\ Append(s, r)[i].algorithm = Append(list, a)[i]
             /\ Holds(Append(s, r)[i].folds, Append(list, a)[i].param)
  <2>1. i \in 1 .. n \/ i = n + 1
    BY <1>2
  <2>2. CASE i \in 1 .. n
    <3>1. s[i].algorithm = list[i] /\ Holds(s[i].folds, list[i].param)
      BY <2>2 DEF Follow, n
    <3> QED
      BY <1>5, <1>6, <2>2, <3>1
  <2>3. CASE i = n + 1
    BY <1>4, <1>5, <1>6, <2>3
  <2> QED
    BY <2>1, <2>2, <2>3
<1>8. Follow(Append(s, r), Append(list, a))
  BY <1>5, <1>6, <1>7 DEF Follow
<1> QED
  BY <1>8 DEF r

\* They are in the order of the list, each with its own parameter.
LEMMA FollowOrder ==
    ASSUME NEW s, NEW list \in Seq(Algorithms), Follow(s, list)
    PROVE  /\ [i \in DOMAIN s |-> s[i].algorithm] = list
           /\ \A r \in Range(s) : \A o \in Range(r.folds) : o.param = r.algorithm.param
<1>1. Len(list) \in Nat /\ DOMAIN s = 1 .. Len(list) /\ list \in [1 .. Len(list) -> Algorithms]
  BY SeqIsFunction DEF Follow
<1>2. [i \in DOMAIN s |-> s[i].algorithm] = list
  BY <1>1 DEF Follow
<1>3. ASSUME NEW r \in Range(s), NEW o \in Range(r.folds) PROVE o.param = r.algorithm.param
  <2>1. PICK i \in 1 .. Len(list) : r = s[i]
    BY <1>1 DEF Range
  <2>2. r.algorithm = list[i] /\ Holds(r.folds, list[i].param)
    BY <2>1 DEF Follow
  <2> QED
    BY <2>2, HoldsParam
<1> QED
  BY <1>2, <1>3

\* what lists of two and of three hold
LEMMA ListRange ==
    ASSUME NEW a, NEW b, NEW c
    PROVE  Range(<<a, b>>) = {a, b} /\ Range(<<a, b, c>>) = {a, b, c}
<1>1. DOMAIN <<a, b>> = {1, 2} /\ DOMAIN <<a, b, c>> = {1, 2, 3}
  OBVIOUS
<1>2. Range(<<a, b>>) = {<<a, b>>[1], <<a, b>>[2]}
  BY <1>1 DEF Range
<1>3. Range(<<a, b, c>>) = {<<a, b, c>>[1], <<a, b, c>>[2], <<a, b, c>>[3]}
  BY <1>1 DEF Range
<1> QED
  BY <1>2, <1>3

\* No two kinds share a measure.
LEMMA MeasuresDiffer ==
    ASSUME NEW k \in Kinds, NEW l \in Kinds,
           NEW m \in Range(MeasuresOf[k]), m \in Range(MeasuresOf[l])
    PROVE  k = l
<1>1. \A j \in Kinds : j \in {"Classification", "Regression", "Dynamical", "Maximization"}
  BY ComparingAssumption DEF Kinds
<1>2. /\ Range(MeasuresOf["Classification"]) = {"f-Measure (Training)", "f-Measure (Test)"}
      /\ Range(MeasuresOf["Regression"]) = {"Error (Training)", "Error (Testing)"}
      /\ Range(MeasuresOf["Dynamical"]) =
           {"Reconstruction Error", "Target Error (trajectories)", "Target Error (random points)"}
      /\ Range(MeasuresOf["Maximization"]) = {"Evaluations", "Reward", "Iterations"}
  BY ListRange DEF MeasuresOf
<1>3. PICK K \in {"Classification", "Regression", "Dynamical", "Maximization"} : k = K
  BY <1>1
<1>4. PICK L \in {"Classification", "Regression", "Dynamical", "Maximization"} : l = L
  BY <1>1
<1>5. m \in Range(MeasuresOf[K]) /\ m \in Range(MeasuresOf[L])
  BY <1>3, <1>4
<1>6. K = L
  <2> DEFINE R(j) == Range(MeasuresOf[j])
  <2>1. /\ R("Classification") = {"f-Measure (Training)", "f-Measure (Test)"}
        /\ R("Regression") = {"Error (Training)", "Error (Testing)"}
        /\ R("Dynamical") =
             {"Reconstruction Error", "Target Error (trajectories)", "Target Error (random points)"}
        /\ R("Maximization") = {"Evaluations", "Reward", "Iterations"}
    BY <1>2
  <2>2. m \in R(K) /\ m \in R(L)
    BY <1>5
  <2> HIDE DEF R
  <2>3. CASE K = "Classification"
    BY <2>1, <2>2, <2>3
  <2>4. CASE K = "Regression"
    BY <2>1, <2>2, <2>4
  <2>5. CASE K = "Dynamical"
    BY <2>1, <2>2, <2>5
  <2>6. CASE K = "Maximization"
    BY <2>1, <2>2, <2>6
  <2> QED
    BY <2>3, <2>4, <2>5, <2>6
<1> QED
  BY <1>3, <1>4, <1>6

\* As long as the list stays, so does what is of a kind.
LEMMA SameOfKind ==
    ASSUME UNCHANGED options
    PROVE  \A k : OfKind(k)' = OfKind(k)
BY DEF OfKind

\* After n entries the results follow the algorithms of each kind among them; the
\* parameter of the present entry is in the options of its plugin from its first
\* fold on, and its folds hold it.
DoneTo(n) == \A k \in Kinds : \A m \in Range(MeasuresOf[k]) : Follow(results[m], OfKind(k)[n])
Loaded ==
    (comparing.at = "events" \/ comparing.fold > 1) => params[Entry.kind] = Entry.param
FollowInv ==
    comparing.at # "idle" =>
        /\ comparing.fold \in Nat \ {0} /\ Loaded
        /\ \A m \in DOMAIN partial : Holds(partial[m], Entry.param)
        /\ DoneTo(comparing.entry - 1)

\* Begin starts with no folds and nothing loaded.
LEMMA BegunFollows ==
    ASSUME NEW entry, Begin(entry), DoneTo(entry - 1)'
    PROVE  FollowInv'
<1>1. comparing' = [at |-> "train", entry |-> entry, fold |-> 1]
      /\ partial' = [m \in DOMAIN MeasuresOf[options[entry].kind] |-> <<>>]
  BY DEF Begin
<1>2. comparing'.fold \in Nat \ {0} /\ Loaded'
  BY <1>1 DEF Loaded
<1>3. \A m \in DOMAIN partial' : Holds(partial'[m], Entry'.param)
  BY <1>1, HoldsMore
<1>4. DoneTo(comparing.entry - 1)'
  <2>1. comparing'.entry = entry
    BY <1>1
  <2> QED
    BY <2>1 DEF DoneTo
<1> QED
  BY <1>2, <1>3, <1>4 DEF FollowInv

\* A comparison starts with no results.
LEMMA CompareFollows ==
    ASSUME CompareTypes, Compare
    PROVE  FollowInv'
<1>1. Begin(1) /\ options' = options /\ results' = [m \in Measures |-> <<>>]
  BY DEF Compare
<1>2. ASSUME NEW k \in Kinds, NEW m \in Range(MeasuresOf[k])
      PROVE  Follow(results'[m], OfKind(k)'[0])
  <2>1. m \in Measures
    BY DEF Measures
  <2>2. OfKind(k)' = OfKind(k) /\ OfKind(k)[0] = <<>>
    <3>1. OfKind(k)[0] = <<>>
      BY OfKindIsLoop DEF OfKindLoop, CompareTypes
    <3> QED
      BY <1>1, <3>1, SameOfKind
  <2>3. Follow(<<>>, <<>>)
    <3>1. <<>> \in Seq({}) /\ Len(<<>>) = 0
      BY EmptySeq
    <3> QED
      BY <3>1 DEF Follow
  <2> QED
    BY <1>1, <2>1, <2>2, <2>3
<1>3. DoneTo(1 - 1)'
  BY <1>2 DEF DoneTo
<1> QED
  BY <1>1, <1>3, BegunFollows

\* A fold loads the parameter of its entry and leaves outcomes of it.
LEMMA FoldFollows ==
    ASSUME CompareTypes, FollowInv, Fold
    PROVE  FollowInv'
<1> DEFINE k == Entry.kind
           p == Entry.param
           loaded == IF comparing.fold = 1 THEN p ELSE params[k]
           outcome == [param |-> loaded, data |-> data]
<1>1. /\ comparing.at = "train" /\ comparing.fold \in Nat \ {0} /\ Loaded
      /\ \A m \in DOMAIN partial : Holds(partial[m], p)
      /\ DoneTo(comparing.entry - 1)
  BY DEF Fold, FollowInv
<1>2. loaded = p
  BY <1>1 DEF Loaded
<1>3. /\ params' = [params EXCEPT ![k] = loaded] /\ UNCHANGED <<options, results>>
      /\ partial' = [m \in DOMAIN partial |-> With(k, m, outcome)]
      /\ comparing' = [comparing EXCEPT !.at = "events"]
  BY DEF Fold
<1>4. /\ comparing'.at = "events" /\ comparing'.fold = comparing.fold
      /\ comparing'.entry = comparing.entry /\ Entry' = Entry
  BY <1>3 DEF CompareTypes, Stages, Entry
<1>5. k \in Kinds /\ params \in [Kinds -> Values]
  BY <1>1, EntryIsAlgorithm DEF CompareTypes
<1>6. params'[k] = p
  <2> HIDE DEF k, p, loaded
  <2> QED
    BY <1>2, <1>3, <1>5
<1>7. ASSUME NEW m \in DOMAIN partial PROVE Holds(With(k, m, outcome), p)
  <2>1. outcome = [param |-> p, data |-> data] /\ Holds(partial[m], p)
    BY <1>1, <1>2
  <2> HIDE DEF outcome, p, k
  <2>2. Holds(<<outcome>>, p) /\ Holds(Append(partial[m], outcome), p)
    BY <2>1, HoldsMore
  <2> QED
    BY <2>1, <2>2, Zenon DEF With
<1>8. Loaded' /\ \A m \in DOMAIN partial' : Holds(partial'[m], Entry'.param)
  <2> HIDE DEF outcome
  <2> QED
    BY <1>3, <1>4, <1>6, <1>7 DEF Loaded
<1>9. DoneTo(comparing.entry - 1)'
  BY <1>1, <1>3, <1>4, SameOfKind DEF DoneTo
<1> QED
  BY <1>1, <1>4, <1>8, <1>9 DEF FollowInv

\* The next fold is one of the same entry.
LEMMA NextFoldFollows ==
    ASSUME CompareTypes, FollowInv, NextFold
    PROVE  FollowInv'
<1>1. /\ comparing.at = "events" /\ comparing.fold \in Nat \ {0} /\ Loaded
      /\ \A m \in DOMAIN partial : Holds(partial[m], Entry.param)
      /\ DoneTo(comparing.entry - 1)
  BY DEF NextFold, FollowInv
<1>2. /\ UNCHANGED <<params, options, partial, results>>
      /\ comparing' = [comparing EXCEPT !.at = "train", !.fold = @ + 1]
  BY DEF NextFold, resultVars
<1>3. comparing'.fold = comparing.fold + 1 /\ comparing'.entry = comparing.entry
  BY <1>2 DEF CompareTypes, Stages
<1>4. Entry' = Entry
  BY <1>2, <1>3 DEF Entry
<1>5. DoneTo(comparing.entry - 1)'
  BY <1>1, <1>2, <1>3, SameOfKind DEF DoneTo
<1>6. Loaded'
  BY <1>1, <1>2, <1>4 DEF Loaded
<1>7. comparing'.fold \in Nat \ {0}
  BY <1>1, <1>3
<1>8. \A m \in DOMAIN partial' : Holds(partial'[m], Entry'.param)
  BY <1>1, <1>2, <1>4
<1> QED
  BY <1>5, <1>6, <1>7, <1>8 DEF FollowInv

\* The results of an entry are put behind those of the entries before it.
LEMMA EntryFollows ==
    ASSUME CompareTypes, FollowInv, comparing.at = "events", AddResults
    PROVE  \A l \in Kinds : \A m \in Range(MeasuresOf[l]) :
             Follow(results'[m], OfKind(l)[comparing.entry])
<1> DEFINE k == Entry.kind
           e == comparing.entry
           at(m) == CHOOSE j \in DOMAIN MeasuresOf[k] : MeasuresOf[k][j] = m
           added(m) == [algorithm |-> Algorithm(k), folds |-> partial[at(m)]]
<1>1. /\ params[k] = Entry.param /\ DoneTo(e - 1)
      /\ \A m \in DOMAIN partial : Holds(partial[m], Entry.param)
  BY DEF FollowInv, Loaded
<1>2. Entry \in Algorithms /\ k \in Kinds /\ DOMAIN partial = DOMAIN MeasuresOf[k]
  BY EntryIsAlgorithm DEF CompareTypes
<1>3. Algorithm(k) = Entry
  BY <1>1, <1>2 DEF Algorithm, Algorithms
<1>4. results' = [m \in Measures |-> IF m \in Range(MeasuresOf[k])
                                      THEN Append(results[m], added(m)) ELSE results[m]]
  BY DEF AddResults
<1>5. e \in 1 .. Len(options) /\ e - 1 \in 0 .. Len(options) /\ Entry = options[e]
  BY DEF CompareTypes, Entry
<1>6. ASSUME NEW l \in Kinds
      PROVE  /\ OfKind(l)[e - 1] \in Seq(Algorithms)
             /\ OfKind(l)[e] = IF k = l THEN Append(OfKind(l)[e - 1], Entry) ELSE OfKind(l)[e - 1]
  <2>1. options \in Seq(Algorithms)
    BY DEF CompareTypes
  <2>2. OfKindLoop(OfKind(l), l) /\ OfKind(l)[e - 1] \in Seq(Algorithms)
    BY <1>5, <2>1, OfKindIsLoop
  <2> QED
    BY <1>5, <2>2 DEF OfKindLoop
<1>7. ASSUME NEW m \in Range(MeasuresOf[k])
      PROVE  added(m) = [algorithm |-> Entry, folds |-> partial[at(m)]]
             /\ Holds(partial[at(m)], Entry.param)
  <2>1. at(m) \in DOMAIN MeasuresOf[k]
    BY DEF Range
  <2> QED
    BY <1>1, <1>2, <1>3, <2>1
<1> HIDE DEF added, at, k, e
<1>8. ASSUME NEW l \in Kinds, NEW m \in Range(MeasuresOf[l])
      PROVE  Follow(results'[m], OfKind(l)[e])
  <2>1. m \in Measures /\ Follow(results[m], OfKind(l)[e - 1])
    BY <1>1 DEF DoneTo, Measures
  <2>2. CASE l = k
    <3>1. results'[m] = Append(results[m], [algorithm |-> Entry, folds |-> partial[at(m)]])
      BY <1>4, <1>7, <2>1, <2>2
    <3>2. OfKind(l)[e] = Append(OfKind(l)[e - 1], Entry)
      BY <1>6, <2>2
    <3> QED
      BY <1>2, <1>6, <1>7, <2>1, <2>2, <3>1, <3>2, FollowMore
  <2>3. CASE l # k
    <3>1. m \notin Range(MeasuresOf[k])
      BY <1>2, <2>3, MeasuresDiffer
    <3>2. results'[m] = results[m]
      BY <1>4, <2>1, <3>1
    <3> QED
      BY <1>6, <2>1, <2>3, <3>2
  <2> QED
    BY <2>2, <2>3
<1> QED
  BY <1>8 DEF e

\* Through every step of the program.
LEMMA FollowInvNext ==
    ASSUME CompareTypes, FollowInv, [CompareNext]_vars
    PROVE  FollowInv'
<1>1. CASE UNCHANGED compareVars
  <2>1. UNCHANGED <<params, options, comparing, partial, results>>
    BY <1>1 DEF compareVars, resultVars
  <2> QED
    BY <2>1, SameOfKind DEF FollowInv, Loaded, DoneTo, Entry
<1>2. CASE comparing.at = "idle" /\ UNCHANGED comparing
  BY <1>2 DEF FollowInv
<1>3. CASE Compare
  BY <1>3, CompareFollows
<1>4. CASE Fold
  BY <1>4, FoldFollows
<1>5. CASE NextFold
  BY <1>5, NextFoldFollows
<1>6. CASE EndEntry
  <2>1. CASE comparing.entry < Len(options)
    <3>1. Begin(comparing.entry + 1) /\ AddResults /\ comparing.at = "events" /\ UNCHANGED options
      BY <1>6, <2>1 DEF EndEntry
    <3>2. (comparing.entry + 1) - 1 = comparing.entry
      BY <3>1 DEF CompareTypes
    <3> DEFINE e == comparing.entry
               next == comparing.entry + 1
    <3>3. \A k \in Kinds : \A m \in Range(MeasuresOf[k]) : Follow(results'[m], OfKind(k)'[next - 1])
      BY <3>1, <3>2, EntryFollows, SameOfKind
    <3> QED
      BY <3>1, <3>3, BegunFollows DEF DoneTo
  <2>2. CASE ~(comparing.entry < Len(options))
    BY <1>6, <2>2 DEF EndEntry, Idle, FollowInv
  <2> QED
    BY <2>1, <2>2
<1> QED
  BY <1>1, <1>2, <1>3, <1>4, <1>5, <1>6 DEF CompareNext, CompareStep, Events, vars, SetParam,
     CompareAdd, CompareRemove, CompareClear, SelectMeasure, ClearData, Draw, PaintReward

\* The last entry ends the comparison with results that follow the whole list.
LEMMA LastEntryFollows ==
    ASSUME CompareTypes, FollowInv, CompareNext, comparing.at # "idle", comparing'.at = "idle",
           NEW k \in Kinds, NEW m \in Range(MeasuresOf[k])
    PROVE  Follow(results'[m], InOrder(k)) /\ InOrder(k) \in Seq(Algorithms)
<1>1. EndEntry /\ ~(comparing.entry < Len(options))
  <2>1. ~Fold /\ ~NextFold
    BY EntryIsKept
  <2>2. ~Events
    BY DEF Events, compareVars
  <2>3. EndEntry
    BY <2>1, <2>2 DEF CompareNext, CompareStep
  <2>4. ASSUME comparing.entry < Len(options) PROVE FALSE
    BY <2>3, <2>4 DEF EndEntry, Begin
  <2> QED
    BY <2>3, <2>4
<1>2. comparing.entry = Len(options) /\ options \in Seq(Algorithms)
  BY <1>1 DEF CompareTypes
<1>3. comparing.at = "events" /\ AddResults
  BY <1>1 DEF EndEntry
<1>4. Follow(results'[m], OfKind(k)[comparing.entry])
  BY <1>3, EntryFollows
<1>5. OfKind(k)[Len(options)] \in Seq(Algorithms)
  BY <1>2, OfKindIsLoop
<1> QED
  BY <1>2, <1>4, <1>5 DEF InOrder

\* When a comparison ends, each measure holds the algorithms of its kind in the order of
\* the list, with results of models trained with their own parameters.
THEOREM ResultsAlwaysFollowList == CompareSpec => ResultsFollowList
<1>1. CompareInit => FollowInv
  <2> SUFFICES ASSUME CompareInit PROVE FollowInv
    OBVIOUS
  <2>1. comparing.at = "idle"
    BY DEF CompareInit, Idle
  <2> QED
    BY <2>1 DEF FollowInv
<1>2. CompareTypes /\ FollowInv /\ [CompareNext]_vars => FollowInv'
  BY FollowInvNext
<1> DEFINE Ordered ==
        (comparing.at # "idle" /\ comparing'.at = "idle") =>
            \A k \in Kinds : \A m \in Range(MeasuresOf[k]) :
                /\ [i \in DOMAIN results'[m] |-> results'[m][i].algorithm] = InOrder(k)
                /\ \A r \in Range(results'[m]) : \A o \in Range(r.folds) :
                       o.param = r.algorithm.param
<1>3. CompareTypes /\ FollowInv /\ [CompareNext]_vars => [Ordered]_vars
  <2> SUFFICES ASSUME CompareTypes, FollowInv, CompareNext PROVE Ordered
    OBVIOUS
  <2> SUFFICES ASSUME comparing.at # "idle", comparing'.at = "idle",
                      NEW k \in Kinds, NEW m \in Range(MeasuresOf[k])
               PROVE  /\ [i \in DOMAIN results'[m] |-> results'[m][i].algorithm] = InOrder(k)
                      /\ \A r \in Range(results'[m]) : \A o \in Range(r.folds) :
                             o.param = r.algorithm.param
    OBVIOUS
  <2> DEFINE s == results'[m]
  <2>1. Follow(s, InOrder(k)) /\ InOrder(k) \in Seq(Algorithms)
    BY LastEntryFollows
  <2> HIDE DEF s
  <2>2. /\ [i \in DOMAIN s |-> s[i].algorithm] = InOrder(k)
        /\ \A r \in Range(s) : \A o \in Range(r.folds) : o.param = r.algorithm.param
    BY <2>1, FollowOrder
  <2> QED
    BY <2>2 DEF s
<1> QED
  BY <1>1, <1>2, <1>3, CompareTypesHold, PTL DEF CompareSpec, ResultsFollowList
=============================================================================
