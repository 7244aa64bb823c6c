----------------------------- MODULE MCDrawing -----------------------------
(* Small instances of Drawing for TLC.                                       *)
EXTENDS DrawingInv, TLC

\* For runs that ask of the data only: no action reads the canvas to change them.
DataView == <<dataVars, sessionVars, fileVars>>

\* Labels, places and sizes are only compared.
LabelSymmetry == Permutations(Labels)
ViewSymmetry == Permutations(Places) \cup Permutations(CanvasSizes)
=============================================================================
