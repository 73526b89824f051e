--------------------------- MODULE MCCanvasDrawing ---------------------------
(* CanvasDrawing for TLC.                                                    *)
EXTENDS CanvasDrawing, TLC

\* Pointing devices are interchangeable.
PointerSymmetry == Permutations(Pointers)
=============================================================================
