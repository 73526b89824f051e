--------------------------- MODULE MCCanvasWindows ---------------------------
(* Instances of CanvasWindows for TLC: two windows of different classes.    *)
EXTENDS CanvasWindows, TLC

CONSTANTS w1, w2, c1, c2

TwoClasses == w1 :> c1 @@ w2 :> c2
=============================================================================
