---------------------------- MODULE CanvasGeometry ----------------------------
(***************************************************************************)
(* Boxes on the canvas.  Coordinates are numbers of some unit small enough *)
(* for every position; the code's are doubles.                             *)
(***************************************************************************)
EXTENDS Integers

Box == [x : Int, y : Int, w : Nat \ {0}, h : Nat \ {0}]

Overlaps(a, b) ==
  /\ a.x < b.x + b.w /\ a.x + a.w > b.x
  /\ a.y < b.y + b.h /\ a.y + a.h > b.y

\* At least gap lies between a and b, beside or above one another.
Apart(a, b, gap) ==
  \/ a.x + a.w + gap <= b.x \/ b.x + b.w + gap <= a.x
  \/ a.y + a.h + gap <= b.y \/ b.y + b.h + gap <= a.y

Inside(a, b) ==
  /\ b.x <= a.x /\ a.x + a.w <= b.x + b.w
  /\ b.y <= a.y /\ a.y + a.h <= b.y + b.h

Abs(n) == IF n < 0 THEN -n ELSE n

\* std::max
Larger(m, n) == IF m < n THEN n ELSE m

\* std::clamp
Clamp(n, low, high) == IF n < low THEN low ELSE IF high < n THEN high ELSE n
=============================================================================
