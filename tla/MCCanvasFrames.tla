---------------------------- MODULE MCCanvasFrames ----------------------------
(* CanvasFrames for TLC: two places for windows and two for frames, each      *)
(* frame over one of the former, and a monitor six by two, which halves and *)
(* rows divide evenly.                                                      *)
EXTENDS CanvasFrames, TLC

FarAway == [x |-> -9, y |-> -9]
Monitor == [w |-> 6, h |-> 2]
Unit == [w |-> 1, h |-> 1]
TwoPlaces == {[x |-> 0, y |-> 0], [x |-> 8, y |-> 0]}
SmallSize == {[w |-> 2, h |-> 1]}
SmallRequests == {[w |-> 0, h |-> 1]}
TwoFramePlaces == {[x |-> 0, y |-> 0], [x |-> 7, y |-> 0]}

WindowSymmetry == Permutations(Windows)
=============================================================================
