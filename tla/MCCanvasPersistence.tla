------------------------- MODULE MCCanvasPersistence -------------------------
(* CanvasPersistence for TLC.                                                *)
EXTENDS CanvasPersistence, TLC

\* Application classes are interchangeable, and so are sizes.
ClassSymmetry == Permutations(Classes)
SizeSymmetry == Permutations(Sizes)
=============================================================================
