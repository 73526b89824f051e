--------------------------- MODULE CanvasAnnotation ---------------------------
(***************************************************************************)
(* The annotation store of the canvas: CCanvasAnnotation, the four vectors *)
(* of strokes, arrows, sticky notes and texts that are drawn on the canvas *)
(* plane, and the counter that numbers them.                               *)
(*                                                                         *)
(* What was drawn (points, colour, text) is a "mark", a number that tells  *)
(* one drawing from another.  Each vector is appended to in id order and   *)
(* never reordered, so a set of records with ids carries the vectors and   *)
(* their order: Before is the order in which the four vectors are walked.  *)
(***************************************************************************)
EXTENDS Naturals, FiniteSets

VARIABLES
  store,    \* m_strokes, m_arrows, m_stickyNotes and m_texts, in one set
  nextId,   \* m_nextId, shared by the four kinds
  dirty     \* m_dirty: the cached overlay texture is to be redrawn

storeVars == <<store, nextId, dirty>>

\* The four vectors, in the order in which they are saved and re-added.
KindPosition == [stroke |-> 1, arrow |-> 2, sticky |-> 3, text |-> 4]
Kinds == {"stroke", "arrow", "sticky", "text"}

Annotation == [id : Nat, kind : Kinds, mark : Nat]

Before(a, b) ==
  \/ KindPosition[a.kind] < KindPosition[b.kind]
  \/ a.kind = b.kind /\ a.id < b.id

\* How many members of S are walked before a.
Rank(a, S) == Cardinality({b \in S : Before(b, a)})

\* The copies that re-adding the annotations of S in order leaves in the
\* store when the counter stands at n: same kind and mark, a fresh id each.
Copies(S, n) == {[a EXCEPT !.id = n + Rank(a, S)] : a \in S}

\* What a viewer sees: which drawings of which kind, whatever their ids.
Picture(S) == {[kind |-> a.kind, mark |-> a.mark] : a \in S}

\* What a state file may hold: at most max annotations, of any kinds.
SavedSets(max) ==
  UNION {{ {[id |-> i, kind |-> k[i], mark |-> i] : i \in 1..n} :
           k \in [1..n -> Kinds] } : n \in 0..max}

InitStore(loaded) ==
  /\ store = Copies(loaded, 1)
  /\ nextId = 1 + Cardinality(loaded)
  /\ dirty = TRUE

-----------------------------------------------------------------------------
(* Operations.  Each also schedules a save, see CanvasPersistence.          *)

\* addStroke, addArrow, addStickyNote, addText.
AddAnnotation(kind, mark) ==
  /\ store' = store \cup {[id |-> nextId, kind |-> kind, mark |-> mark]}
  /\ nextId' = nextId + 1
  /\ dirty' = TRUE

\* The loops that add saved annotations again, one kind after the other.
AddCopies(S) ==
  /\ store' = store \cup Copies(S, nextId)
  /\ nextId' = nextId + Cardinality(S)
  /\ dirty' = TRUE

\* The annotations that removing the ids of S, each from its own kind's
\* vector, takes out.
Named(S) == {a \in store : \E r \in S : a.kind = r.kind /\ a.id = r.id}

\* Fault: ids are counted again from what is left.
RemoveAnnotations_ReusesIds(S) ==
  /\ store' = store \ Named(S)
  /\ nextId' = 1 + Cardinality(store')
  /\ dirty' = TRUE

\* removeStroke, removeArrow, removeStickyNote, removeText.
RemoveAnnotations(S) ==
  /\ store' = store \ Named(S)
  /\ dirty' = TRUE
  /\ UNCHANGED nextId

\* Fault: an empty store starts counting again.
ClearAll_ResetsIds ==
  /\ store' = {}
  /\ nextId' = 1
  /\ dirty' = TRUE

ClearAll ==
  /\ store' = {}
  /\ dirty' = TRUE
  /\ UNCHANGED nextId

\* clearByType; a type that names no vector clears nothing.
ClearByType(kinds) ==
  /\ store' = {a \in store : a.kind \notin kinds}
  /\ dirty' = TRUE
  /\ UNCHANGED nextId

StoreTypeOK ==
  /\ store \subseteq Annotation
  /\ IsFiniteSet(store)
  /\ nextId \in Nat \ {0}
  /\ dirty \in BOOLEAN
=============================================================================
