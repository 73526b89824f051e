------------------------------ MODULE CanvasSnap ------------------------------
(***************************************************************************)
(* resolveOverlap, step by step, for a window that is dropped or created   *)
(* among the others.  Each pass compares the window with every other and   *)
(* pushes it off those it overlaps, the shortest way and Gap further; a    *)
(* pass without an overlap ends the loop, and so does the last pass.  A    *)
(* created window is moved into view before and after.                     *)
(*                                                                         *)
(* A push may bring the window over others the pass has compared already,  *)
(* so the passes need not come to an end by themselves.                    *)
(***************************************************************************)
EXTENDS CanvasGeometry, Sequences

CONSTANTS
  Boxes,          \* boxes that windows can have
  View,           \* the part of the canvas in view
  MaxOthers,      \* bound on the other windows
  Gap,            \* RESOLVE_GAP
  MaxIterations   \* OVERLAP_MAX_ITERATIONS

ASSUME BoxAssumption == Boxes \subseteq Box /\ View \in Box
ASSUME SnapAssumption ==
  Gap \in Nat /\ MaxOthers \in Nat /\ MaxIterations \in Nat \ {0}

VARIABLES
  caller,      \* what the window is moved for: "drop" or "create"
  others,      \* otherWindows
  window,      \* the window's box: pos with droppedSize
  iter,        \* iter
  next,        \* the place in others of the next comparison
  anyOverlap,  \* anyOverlap
  pc           \* "scan" in the loop, "return" after it, "done" in the caller

snapVars == <<caller, others, window, iter, next, anyOverlap, pc>>

\* Into view; a window larger than the view begins where the view does.
InView(b) ==
  [b EXCEPT !.x = Clamp(@, View.x, Larger(View.x, View.x + View.w - b.w)),
            !.y = Clamp(@, View.y, Larger(View.y, View.y + View.h - b.h))]

\* b, which overlaps o, pushed off it.
Pushed(b, o) ==
  LET left  == o.x - (b.x + b.w)
      right == (o.x + o.w) - b.x
      up    == o.y - (b.y + b.h)
      down  == (o.y + o.h) - b.y
      shortest(push) ==
        \A other \in {left, right, up, down} : Abs(push) <= Abs(other)
  IN IF shortest(left) THEN [b EXCEPT !.x = @ + left - Gap]
     ELSE IF shortest(right) THEN [b EXCEPT !.x = @ + right + Gap]
     ELSE IF shortest(up) THEN [b EXCEPT !.y = @ + up - Gap]
     ELSE [b EXCEPT !.y = @ + down + Gap]

Compare ==
  /\ pc = "scan" /\ next <= Len(others)
  /\ next' = next + 1
  /\ IF Overlaps(window, others[next])
     THEN window' = Pushed(window, others[next]) /\ anyOverlap' = TRUE
     ELSE UNCHANGED <<window, anyOverlap>>
  /\ UNCHANGED <<caller, others, iter, pc>>

\* Faults: the passes are not counted; every pass is taken for the last one.
EndPass_NotCounted ==
  /\ pc = "scan" /\ next > Len(others)
  /\ IF anyOverlap
     THEN anyOverlap' = FALSE /\ next' = 1 /\ UNCHANGED <<iter, pc>>
     ELSE pc' = "return" /\ UNCHANGED <<iter, next, anyOverlap>>
  /\ UNCHANGED <<caller, others, window>>
EndPass_OnePass ==
  /\ pc = "scan" /\ next > Len(others)
  /\ pc' = "return" /\ anyOverlap' = FALSE
  /\ UNCHANGED <<caller, others, window, iter, next>>

EndPass ==
  /\ pc = "scan" /\ next > Len(others)
  /\ IF anyOverlap /\ iter + 1 < MaxIterations
     THEN iter' = iter + 1 /\ anyOverlap' = FALSE /\ next' = 1 /\ UNCHANGED pc
     ELSE pc' = "return" /\ UNCHANGED <<iter, next, anyOverlap>>
  /\ UNCHANGED <<caller, others, window>>

Return ==
  /\ pc = "return"
  /\ pc' = "done"
  /\ window' = IF caller = "create" THEN InView(window) ELSE window
  /\ UNCHANGED <<caller, others, iter, next, anyOverlap>>

SnapInit ==
  /\ caller \in {"drop", "create"}
  /\ others \in UNION {[1..n -> Boxes] : n \in 0..MaxOthers}
  /\ \E b \in Boxes : window = IF caller = "create" THEN InView(b) ELSE b
  /\ iter = 0 /\ next = 1 /\ anyOverlap = FALSE /\ pc = "scan"

SnapNext == Compare \/ EndPass \/ Return

\* The loop runs within one event handler, which nothing suspends.
SnapSpec == SnapInit /\ [][SnapNext]_snapVars /\ WF_snapVars(SnapNext)

-----------------------------------------------------------------------------
(* Properties.                                                              *)

SnapTypeOK ==
  /\ caller \in {"drop", "create"}
  /\ others \in Seq(Box) /\ window \in Box
  /\ iter \in 0..(MaxIterations - 1) /\ next \in 1..(Len(others) + 1)
  /\ anyOverlap \in BOOLEAN
  /\ pc \in {"scan", "return", "done"}

Free == \A i \in 1..Len(others) : ~Overlaps(window, others[i])

\* When the loop ends with a pass that pushed nothing, a dropped window is over
\* no other, though it was compared with each of them only once in that pass.
SettledIsFree == pc = "done" /\ caller = "drop" /\ ~anyOverlap => Free

\* A push takes the window off the other and leaves the gap between them.
PushesLeaveGap ==
  [][pc = "scan" /\ window' # window => Apart(window', others[next], Gap)]_snapVars

\* A created window ends up in view, however far it was pushed.
CreatedIsInView ==
  pc = "done" /\ caller = "create" =>
    /\ View.x <= window.x
    /\ View.y <= window.y
    /\ window.w <= View.w => window.x + window.w <= View.x + View.w
    /\ window.h <= View.h => window.y + window.h <= View.y + View.h

\* resolveOverlap returns, even where windows push the dropped one to and fro.
Terminates == <>(pc = "done")
=============================================================================
