---------------------------- MODULE MCClustering ----------------------------
(* A few places for TLC, on which the norms differ and distances tie.       *)
EXTENDS Clustering

ThreePlaces == {<<1, 1>>, <<2, 0>>, <<1, 3>>}
=============================================================================
