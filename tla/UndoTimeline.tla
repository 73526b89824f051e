----------------------------- MODULE UndoTimeline -----------------------------
(***************************************************************************)
(* What an undo/redo history promises, without its two stacks: a timeline  *)
(* of at most MaxHistory commands and a cursor in it.  A new command       *)
(* forgets what lies after the cursor and, when the timeline is full, the  *)
(* oldest command; undo and redo only move the cursor.                     *)
(***************************************************************************)
EXTENDS Naturals, Sequences

CONSTANT MaxHistory

VARIABLES timeline, cursor

Init == timeline = <<>> /\ cursor = 0

\* Some command is done: it becomes the last one, with the cursor behind it.
Do ==
  LET drop == IF cursor = MaxHistory THEN 1 ELSE 0
      kept == SubSeq(timeline, 1 + drop, cursor)
  IN /\ cursor' = Len(kept) + 1
     /\ Len(timeline') = cursor'
     /\ SubSeq(timeline', 1, Len(kept)) = kept

Undo == cursor > 0 /\ cursor' = cursor - 1 /\ UNCHANGED timeline

Redo == cursor < Len(timeline) /\ cursor' = cursor + 1 /\ UNCHANGED timeline

Next == Do \/ Undo \/ Redo

Spec == Init /\ [][Next]_<<timeline, cursor>>
=============================================================================
