----------------------------- MODULE PictureMap -----------------------------
(***************************************************************************)
(* Processing implements Picture: the refinement mapping, and the invariant  *)
(* its proof (PictureProofs) rests on.                                       *)
(***************************************************************************)
EXTENDS ProcessingInv

Fresh == {r \in Ranks : bigMap[r] = "fresh"}

Round == IF ~Undisturbed THEN "void"
         ELSE IF refineLevel > refineMax THEN "whole" ELSE "growing"

Pict == INSTANCE Picture
          WITH pixels <- Ranks, painted <- Fresh, round <- Round,
               sent <- posted.map, seen <- shown.map

\* The two threads keep what the picture promises, whatever the window does
\* and however their steps interleave: no pixel that has been painted is lost to
\* one evaluated earlier, a round ends only when it is whole, and only a
\* complete image is sent as one.
ImplementsPicture == Pict!Spec

\* A pixel evaluated on what is no longer to be shown is painted on a map that
\* has nothing fresh to lose, and an undisturbed round is not cleared once whole.
PictureInv ==
    /\ RefineInv
    /\ (pc \in AtPixel /\ ~loc.current) => Fresh = {}
    /\ (pc = "clearLevel" /\ Undisturbed) => refineLevel <= refineMax
=============================================================================
