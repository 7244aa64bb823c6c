---------------------------- MODULE InputPlugins ----------------------------
(***************************************************************************)
(* The input plugins of the main window (AddPlugin, ActivateIO,             *)
(* DisactivateIO, SetData of MLDemos/mldemos.cpp) and the three the program  *)
(* comes with: RandomEmitter, whose timer sends random data, WebImport,       *)
(* which loads a file, and PCAFaces, which sends labelled images.  Each is    *)
(* switched on and off by a check mark in the menu or by the Close button of   *)
(* its dialog, whose signal comes back to the window and from there, through   *)
(* setChecked, to every plugin that is on.                                     *)
(*                                                                           *)
(* All of it runs in the GUI thread, one slot after the other; the file        *)
(* dialogs are modal, and nothing a slot has read before one is used after it.  *)
(* The data on the canvas is who sent it, and what: the number of a random      *)
(* draw, the file, or the labels of the faces.                                  *)
(***************************************************************************)
EXTENDS FaceSamples

CONSTANTS
    Plugins,        \* those that were found when the program started
    Files,          \* data files that can be imported
    BadFiles,       \* those that are missing, have fewer than two rows, or text in them
    None,           \* no file
    Draws,          \* the outcomes of the random emitter
    Axes,           \* the greater of the two eigenvectors that may be chosen
    MaxDialogs      \* bounds the dialogs of WebImport

AllPlugins == {"RandomEmitter", "WebImport", "PCAFaces"}
ASSUME PluginsAssumption ==
    /\ Plugins \subseteq AllPlugins /\ None \notin Files \cup BadFiles
    /\ Axes \subseteq Nat /\ MaxDialogs \in Nat

VARIABLES
    checked,        \* the plugins whose menu entry is checked
    running,        \* bInputRunning
    timer,          \* RandomEmitter: its timer is on
    dialogs,        \* WebImport: for every dialog made, whether it is shown
    parsed,         \* WebImport: the file the parser of the last dialog holds
    chosen,         \* history: the files chosen since that dialog was made
    gui,            \* PCAFaces: its dialog, "none", "hidden" or "shown"
    axes,           \* PCAFaces: the greater of its two spin boxes
    data,           \* the data on the canvas
    alive           \* the program runs

pluginVars == <<checked, running, timer, dialogs, parsed, chosen, gui, axes>>
inputVars == <<pluginVars, faceVars, data, alive>>

UserData == [by |-> "user", what |-> <<>>]

InputInit ==
    /\ FacesInit
    /\ checked = {} /\ running = {} /\ timer = FALSE
    /\ dialogs = <<>> /\ parsed = None /\ chosen = {}
    /\ gui = "none" /\ axes = 2
    /\ data = UserData /\ alive = TRUE

SetData(who, sent) == data' = [by |-> who, what |-> sent]

-----------------------------------------------------------------------------
(* on and off                                                               *)

\* Start and Stop of the plugins `on' and `off'.
RandomEmitter(on, off) ==
    timer' = IF "RandomEmitter" \in on THEN TRUE
             ELSE IF "RandomEmitter" \in off THEN FALSE ELSE timer

\* mutant: Start makes a parser only when there is none
WebImportKept(on, off) ==
    IF "WebImport" \in on
    THEN /\ Len(dialogs) < MaxDialogs
         /\ dialogs' = Append(dialogs, TRUE) /\ chosen' = {}
         /\ UNCHANGED parsed
    ELSE /\ dialogs' = IF "WebImport" \in off
                       THEN [dialogs EXCEPT ![Len(dialogs)] = FALSE] ELSE dialogs
         /\ UNCHANGED <<parsed, chosen>>

\* every Start makes a dialog and a parser; Stop hides the last dialog, those
\* before it stay and are still connected
WebImport(on, off) ==
    IF "WebImport" \in on
    THEN /\ Len(dialogs) < MaxDialogs
         /\ dialogs' = Append(dialogs, TRUE)
         /\ parsed' = None /\ chosen' = {}
    ELSE /\ dialogs' = IF "WebImport" \in off
                       THEN [dialogs EXCEPT ![Len(dialogs)] = FALSE] ELSE dialogs
         /\ UNCHANGED <<parsed, chosen>>

PCAFaces(on, off) ==
    gui' = IF "PCAFaces" \in on THEN "shown"
           ELSE IF "PCAFaces" \in off THEN "hidden" ELSE gui

\* mutant: the flag is cleared, the plugin is not stopped
ActivateIOUnstopped(marks) ==
    /\ checked' = marks /\ running' = marks
    /\ RandomEmitter(marks, {}) /\ WebImport(marks, {}) /\ PCAFaces(marks, {})
    /\ UNCHANGED axes

\* called when any mark has changed: it starts every plugin that is marked,
\* those that run already too, and stops those that run unmarked
ActivateIO(marks) ==
    LET off == running \ marks IN
    /\ checked' = marks /\ running' = marks
    /\ RandomEmitter(marks, off) /\ WebImport(marks, off) /\ PCAFaces(marks, off)
    /\ UNCHANGED axes

\* the menu
Toggle(p) ==
    /\ ActivateIO(IF p \in checked THEN checked \ {p} ELSE checked \cup {p})
    /\ UNCHANGED <<faceVars, data, alive>>

\* the Close button of a dialog: Closing, Done, DisactivateIO, whose
\* setChecked(false) has called ActivateIO before it looks at bInputRunning
Close(p) ==
    /\ IF p \in checked THEN ActivateIO(checked \ {p})
       ELSE running' = running \ {p}
            /\ UNCHANGED <<checked, timer, dialogs, parsed, chosen, gui, axes>>
    /\ UNCHANGED <<faceVars, data, alive>>
CloseWebImport == (\E d \in DOMAIN dialogs : dialogs[d]) /\ Close("WebImport")
ClosePCAFaces == gui = "shown" /\ Close("PCAFaces")

\* a dialog closed by its title bar is hidden, and nobody is told
HideDialog ==
    /\ \/ \E d \in DOMAIN dialogs :
            dialogs[d] /\ dialogs' = [dialogs EXCEPT ![d] = FALSE] /\ UNCHANGED gui
       \/ gui = "shown" /\ gui' = "hidden" /\ UNCHANGED dialogs
    /\ UNCHANGED <<checked, running, timer, parsed, chosen, axes, faceVars, data, alive>>

-----------------------------------------------------------------------------
(* RandomEmitter and WebImport                                              *)

EmitterTimer ==
    /\ timer
    /\ \E n \in Draws : SetData("RandomEmitter", <<n>>)
    /\ UNCHANGED <<pluginVars, faceVars, alive>>

\* Updating, from any dialog.  A parser that has read a file does not open
\* another (the stream is open): it returns what it has.  One that cannot read
\* two rows of numbers throws, or runs off its columns.
Import(file) ==
    /\ \E d \in DOMAIN dialogs : dialogs[d]
    /\ chosen' = chosen \cup {file}
    /\ \/ parsed # None /\ SetData("WebImport", <<parsed>>) /\ UNCHANGED <<parsed, alive>>
       \/ parsed = None /\ file \in Files
          /\ parsed' = file /\ SetData("WebImport", <<file>>) /\ UNCHANGED alive
       \/ parsed = None /\ file \in BadFiles
          /\ alive' = FALSE /\ UNCHANGED <<parsed, data>>
    /\ UNCHANGED <<checked, running, timer, dialogs, gui, axes, faceVars>>

-----------------------------------------------------------------------------
(* PCAFaces                                                                 *)

\* Updating.  With too few faces for the axes GetProjections hands out its own
\* arrays, which GetData deletes and EigenFaces deletes again: the program may
\* end, or go on.
Updating(shown, greatest) ==
    IF Len(shown) < 2 THEN UNCHANGED <<data, alive>>
    ELSE /\ SetData("PCAFaces", shown)
         /\ IF greatest >= Len(shown) - 1 THEN alive' \in BOOLEAN ELSE UNCHANGED alive

\* RefreshDataset, which ends every change of the faces
RefreshDataset == Updating(faceLabels', axes) /\ UNCHANGED pluginVars

EditFaces == gui = "shown"
AddImage == EditFaces /\ AddSample /\ RefreshDataset
ClickFaces ==
    /\ EditFaces
    /\ \E i \in Cells, button \in Buttons, modifier \in Modifiers :
         DatasetClick(i, button, modifier)
    /\ RefreshDataset
ClearDataset == EditFaces /\ Clear /\ RefreshDataset
LoadDataset == EditFaces /\ Load /\ RefreshDataset
SpinChanged ==
    /\ EditFaces
    /\ axes' \in Axes \ {axes} /\ Updating(faceLabels, axes')
    /\ UNCHANGED <<checked, running, timer, dialogs, parsed, chosen, gui, faceVars>>

-----------------------------------------------------------------------------
\* what the user does
UserInput ==
    \/ \E p \in Plugins : Toggle(p)
    \/ CloseWebImport \/ ClosePCAFaces \/ HideDialog
    \/ \E file \in Files \cup BadFiles : Import(file)
    \/ AddImage \/ ClickFaces \/ ClearDataset \/ LoadDataset \/ SpinChanged

InputNext == alive /\ (UserInput \/ EmitterTimer)
InputSpec == InputInit /\ [][InputNext]_inputVars

-----------------------------------------------------------------------------
(* Properties                                                               *)

(* The type invariant. *)
Types ==
    /\ checked \subseteq Plugins /\ running \subseteq Plugins
    /\ timer \in BOOLEAN /\ dialogs \in Seq(BOOLEAN)
    /\ parsed \in Files \cup {None} /\ chosen \subseteq Files \cup BadFiles
    /\ gui \in {"none", "hidden", "shown"} /\ axes \in Nat
    /\ data.by \in AllPlugins \cup {"user"} /\ alive \in BOOLEAN
    /\ {faces, faceLabels} \subseteq Seq(0 .. MaxLabel) /\ faceFlags \in Nat

\* The menu, bInputRunning and the plugins agree, through the signals that
\* cross between them: a plugin is on when its entry is checked, one that is
\* off has no timer, and its window (the last of WebImport's) is hidden.
PluginsFollowMenu ==
    /\ running = checked
    /\ timer <=> "RandomEmitter" \in checked
    /\ gui = "shown" => "PCAFaces" \in checked
    /\ (dialogs # <<>> /\ Last(dialogs)) => "WebImport" \in checked

\* As long as there are two faces, data that PCAFaces has sent is labelled as
\* the user has labelled the faces that are left, whatever was removed.
FacesAreShown ==
    (alive /\ data.by = "PCAFaces" /\ Count >= 2) => data.what = faces

\* What WebImport sends is a file that was chosen since the dialog it is loaded
\* from, or one made after it, was opened: no file from an earlier session.
ImportsWereChosen ==
    [][(data' # data /\ data'.by = "WebImport") => data'.what[1] \in chosen']_inputVars
=============================================================================
