---------------------------- MODULE MCProcessing ----------------------------
(* Small instances of Processing for TLC.                                    *)
EXTENDS PictureMap

Size(w, h) == [w |-> w, h |-> h]
OneSize == {Size(3, 1)}
TwoSizes == {Size(3, 1), Size(1, 2)}
=============================================================================
