------------------------------ MODULE Picture ------------------------------
(***************************************************************************)
(* What the drawing thread promises: the picture of a model, as the user of  *)
(* the window sees it grow (MLDemos/drawTimer.cpp).  Nothing of levels,       *)
(* batches, permutations, threads or locks is left of it.                    *)
(*                                                                           *)
(*  - a pixel once painted with what is to be shown stays painted, until      *)
(*    something else is to be shown or the map is begun anew;                 *)
(*  - a round that nothing has come between ends only when no pixel is left;  *)
(*  - an image that is sent as complete is complete, and what has been sent   *)
(*    or is seen is complete no longer once something else is to be shown.    *)
(*                                                                           *)
(* Module PictureMap shows that Processing, with all its interleavings,       *)
(* implements it.                                                             *)
(***************************************************************************)

VARIABLES
    pixels,    \* the pixels of the map
    painted,   \* those painted with what is to be shown
    round,     \* "void": something has come between; "growing" or "whole"
    sent,      \* the image under way to the canvas: "none", "partial", "complete"
    seen       \* the image on the canvas

vars == <<pixels, painted, round, sent, seen>>

Init ==
    /\ pixels = {} /\ painted = {} /\ round = "void"
    /\ sent = "none" /\ seen = "none"

Complete == painted = pixels
Aged(image) == IF image = "complete" THEN "partial" ELSE image

\* Another map, blank and maybe of another size.  It begins a round, unless the
\* window comes between; the map of a finished round is not cleared otherwise.
NewMap ==
    /\ painted' = {}
    /\ round' = "void" \/ (round # "whole" /\ round' = "growing")
    /\ UNCHANGED <<sent, seen>>

Paint(r) ==
    /\ r \in pixels
    /\ painted' = painted \cup {r}
    /\ UNCHANGED <<pixels, round, sent, seen>>

\* nothing is left to paint
Finish ==
    /\ round = "growing" /\ Complete
    /\ round' = "whole"
    /\ UNCHANGED <<pixels, painted, sent, seen>>

\* The window comes between: it stops, clears or restarts the thread ...
Disturb ==
    /\ round' = "void"
    /\ UNCHANGED <<pixels, painted, sent, seen>>

\* ... or changes what is to be shown, and may drop the image on the canvas.
Change ==
    /\ round' = "void" /\ painted' = {}
    /\ sent' = Aged(sent) /\ seen' \in {Aged(seen), "none"}
    /\ UNCHANGED pixels

\* an image may be sent as partial whatever has been painted of it: the
\* vector field is drawn over it
Send ==
    /\ sent' \in IF Complete THEN {"partial", "complete"} ELSE {"partial"}
    /\ UNCHANGED <<pixels, painted, round, seen>>

Deliver ==
    /\ sent # "none"
    /\ seen' = sent /\ sent' = "none"
    /\ UNCHANGED <<pixels, painted, round>>

Drop ==
    /\ seen' = "none"
    /\ UNCHANGED <<pixels, painted, round, sent>>

Next ==
    \/ NewMap \/ Finish \/ Disturb \/ Change \/ Send \/ Deliver \/ Drop
    \/ \E r \in pixels : Paint(r)

Spec == Init /\ [][Next]_vars
=============================================================================
