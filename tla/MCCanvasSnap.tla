----------------------------- MODULE MCCanvasSnap -----------------------------
(* CanvasSnap for TLC: narrow and wide windows in a few places, close       *)
(* enough that two of them leave no room for a third in between.            *)
EXTENDS CanvasSnap

PlacedBoxes == [x : {0, 2, 4}, y : {0, 1}, w : {1, 3}, h : {2}]
MonitorView == [x |-> 0, y |-> 0, w |-> 5, h |-> 4]
=============================================================================
