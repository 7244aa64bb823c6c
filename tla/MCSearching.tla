---------------------------- MODULE MCSearching ----------------------------
(* A small search for TLC: two by two pixels; the genomes lie on the border   *)
(* at which mutation stops, where clones meet.                                *)
EXTENDS Searching

FourRewards == (<<0, 0>> :> 1) @@ (<<0, 1>> :> 3) @@ (<<1, 0>> :> 0) @@ (<<1, 1>> :> 2)
CornerPixel == <<0, 0>>
OneTarget == {<<1, 0>>}
TwoGenes == {<<0, 0>>, <<0, 1>>}
AllSurvive == <<1, 1>>
=============================================================================
