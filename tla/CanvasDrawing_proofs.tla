------------------------- MODULE CanvasDrawing_proofs -------------------------
(***************************************************************************)
(* Proofs about what the canvas shows: CanvasDrawing, for every set of     *)
(* pointing devices, history length and bound, and, at the end,            *)
(* CanvasWindows, for every set of windows, classes and views and every    *)
(* number of layout changes.                                               *)
(***************************************************************************)
EXTENDS CanvasDrawing, CanvasWindows, FiniteSetTheorems, SequenceTheorems, TLAPS

(***************************************************************************)
(* Copies: adding saved annotations again hands out consecutive fresh ids, *)
(* one for each.                                                           *)
(***************************************************************************)

DistinctIds(S) == \A a, b \in S : a.id = b.id => a = b
WalkedBefore(a, S) == {b \in S : Before(b, a)}

\* The four kinds have four positions.
LEMMA KindPositions ==
  /\ \A k \in Kinds : KindPosition[k] \in Nat
  /\ \A k, l \in Kinds : KindPosition[k] = KindPosition[l] => k = l
BY DEF Kinds, KindPosition

\* Before is a strict total order on annotations with distinct ids.
LEMMA BeforeIsAnOrder ==
  ASSUME NEW S \in SUBSET Annotation, DistinctIds(S)
  PROVE  /\ \A a \in S : ~Before(a, a)
         /\ \A a, b, c \in S : Before(a, b) /\ Before(b, c) => Before(a, c)
         /\ \A a, b \in S : a # b => Before(a, b) \/ Before(b, a)
<1> \A a \in S : a.kind \in Kinds /\ a.id \in Nat
  BY DEF Annotation
<1> QED  BY KindPositions, SMT DEF Before, DistinctIds

\* Ranks are smaller than the number of annotations, and distinct.
LEMMA RanksAreDistinct ==
  ASSUME NEW S \in SUBSET Annotation, IsFiniteSet(S), DistinctIds(S)
  PROVE  /\ \A a \in S : Rank(a, S) \in Nat /\ Rank(a, S) < Cardinality(S)
         /\ \A a, b \in S : Rank(a, S) = Rank(b, S) => a = b
<1>1. \A a \in S : /\ IsFiniteSet(WalkedBefore(a, S))
                   /\ Rank(a, S) = Cardinality(WalkedBefore(a, S))
                   /\ Rank(a, S) \in Nat
  BY FS_Subset, FS_CardinalityType DEF Rank, WalkedBefore
<1>2. ASSUME NEW a \in S  PROVE Rank(a, S) < Cardinality(S)
  <2>1. WalkedBefore(a, S) \in SUBSET S /\ a \notin WalkedBefore(a, S)
    BY BeforeIsAnOrder DEF WalkedBefore
  <2>2. Cardinality(WalkedBefore(a, S)) # Cardinality(S)
    BY <2>1, FS_Subset
  <2>3. Cardinality(WalkedBefore(a, S)) <= Cardinality(S)
    BY <2>1, FS_Subset
  <2> QED  BY <1>1, <2>2, <2>3, FS_CardinalityType
<1>3. ASSUME NEW a \in S, NEW b \in S, Before(a, b)
      PROVE  Rank(a, S) < Rank(b, S)
  <2>1. WalkedBefore(a, S) \in SUBSET WalkedBefore(b, S)
    BY <1>3, BeforeIsAnOrder DEF WalkedBefore
  <2>2. a \in WalkedBefore(b, S) /\ a \notin WalkedBefore(a, S)
    BY <1>3, BeforeIsAnOrder DEF WalkedBefore
  <2>3. Cardinality(WalkedBefore(a, S)) # Cardinality(WalkedBefore(b, S))
    BY <1>1, <2>1, <2>2, FS_Subset
  <2>4. Cardinality(WalkedBefore(a, S)) <= Cardinality(WalkedBefore(b, S))
    BY <1>1, <2>1, FS_Subset
  <2> QED  BY <1>1, <2>3, <2>4
<1> QED  BY <1>1, <1>2, <1>3, BeforeIsAnOrder

\* The copies are annotations with distinct ids from n on.
LEMMA CopiesAreFresh ==
  ASSUME NEW S \in SUBSET Annotation, IsFiniteSet(S), DistinctIds(S),
         NEW n \in Nat \ {0}
  PROVE  /\ Copies(S, n) \in SUBSET Annotation
         /\ IsFiniteSet(Copies(S, n))
         /\ Cardinality(S) \in Nat
         /\ \A c \in Copies(S, n) : n <= c.id /\ c.id < n + Cardinality(S)
         /\ DistinctIds(Copies(S, n))
<1> DEFINE copy(a) == [a EXCEPT !.id = n + Rank(a, S)]
           f == [a \in S |-> copy(a)]
<1>1. \A a \in S : copy(a) \in Annotation /\ copy(a).id = n + Rank(a, S)
  BY RanksAreDistinct DEF Annotation
<1>2. Copies(S, n) = {copy(a) : a \in S}
  BY DEF Copies
<1>3. f \in Surjection(S, Copies(S, n))
  BY <1>2 DEF Surjection
<1>4. IsFiniteSet(Copies(S, n)) /\ Cardinality(S) \in Nat
  BY <1>3, FS_Surjection, FS_CardinalityType
<1>5. DistinctIds(Copies(S, n))
  <2> SUFFICES ASSUME NEW a \in S, NEW b \in S, copy(a).id = copy(b).id
               PROVE  copy(a) = copy(b)
    BY <1>2 DEF DistinctIds
  <2> n + Rank(a, S) = n + Rank(b, S)  BY <1>1
  <2> QED  BY RanksAreDistinct
<1>6. \A a \in S : n <= copy(a).id /\ copy(a).id < n + Cardinality(S)
  BY <1>1, <1>4, RanksAreDistinct
<1> QED  BY <1>1, <1>2, <1>4, <1>5, <1>6

-----------------------------------------------------------------------------
(***************************************************************************)
(* The two stacks: what taking the top off, appending and dropping the     *)
(* oldest command keep.                                                    *)
(***************************************************************************)

LEMMA PoppedSeq ==
  ASSUME NEW s \in Seq(Command), s # <<>>
  PROVE  /\ Popped(s) \in Seq(Command)
         /\ Len(Popped(s)) = Len(s) - 1
         /\ \A i \in 1..(Len(s) - 1) : Popped(s)[i] = s[i]
<1>1. s \in Seq(Command) /\ Len(s) \in Nat \ {0} /\ DOMAIN s = 1..Len(s)
  OBVIOUS
<1> QED  BY <1>1 DEF Popped

LEMMA PoppedStack ==
  ASSUME NEW s, StackOK(s), s # <<>>
  PROVE  /\ StackOK(Popped(s))
         /\ Top(s) \in Command /\ CommandOK(Top(s))
         /\ Top(s).saved \subseteq SavedBy(s)
         /\ SavedBy(Popped(s)) \subseteq SavedBy(s)
         /\ Len(Popped(s)) = Len(s) - 1
<1>1. s \in Seq(Command) /\ Len(s) \in Nat \ {0} /\ DOMAIN s = 1..Len(s)
  BY DEF StackOK
<1>2. /\ Popped(s) \in Seq(Command)
      /\ Len(Popped(s)) = Len(s) - 1
      /\ \A i \in 1..(Len(s) - 1) : Popped(s)[i] = s[i]
  BY <1>1, PoppedSeq
<1>3. Len(s) \in DOMAIN s /\ Top(s) = s[Len(s)]
  BY <1>1 DEF Top
<1>4. \A i \in DOMAIN Popped(s) : i \in DOMAIN s /\ Popped(s)[i] = s[i]
  BY <1>1, <1>2
<1>5. StackOK(Popped(s))
  BY <1>2, <1>4 DEF StackOK
<1>6. Top(s) \in Command /\ CommandOK(Top(s))
  BY <1>1, <1>3 DEF StackOK
<1> QED  BY <1>2, <1>3, <1>4, <1>5, <1>6 DEF SavedBy

LEMMA AppendedStack ==
  ASSUME NEW s, StackOK(s), NEW c \in Command, CommandOK(c)
  PROVE  /\ StackOK(Append(s, c))
         /\ SavedBy(Append(s, c)) \subseteq SavedBy(s) \cup c.saved
         /\ Len(Append(s, c)) = Len(s) + 1
<1>1. s \in Seq(Command) /\ DOMAIN s = 1..Len(s)
  BY DEF StackOK
<1>2. /\ Append(s, c) \in Seq(Command)
      /\ Len(Append(s, c)) = Len(s) + 1
      /\ DOMAIN Append(s, c) = 1..(Len(s) + 1)
      /\ \A i \in 1..Len(s) : Append(s, c)[i] = s[i]
      /\ Append(s, c)[Len(s) + 1] = c
  BY <1>1
<1>3. \A i \in DOMAIN Append(s, c) :
        \/ i \in DOMAIN s /\ Append(s, c)[i] = s[i]
        \/ Append(s, c)[i] = c
  BY <1>1, <1>2
<1>4. StackOK(Append(s, c))
  BY <1>2, <1>3 DEF StackOK
<1> QED  BY <1>2, <1>3, <1>4 DEF SavedBy

\* The undo stack that push appends to.
LEMMA CutStack ==
  ASSUME NEW s, StackOK(s), NEW m \in {1, 2}, m <= Len(s) + 1
  PROVE  /\ StackOK(SubSeq(s, m, Len(s)))
         /\ SavedBy(SubSeq(s, m, Len(s))) \subseteq SavedBy(s)
         /\ Len(SubSeq(s, m, Len(s))) = Len(s) + 1 - m
<1>1. s \in Seq(Command) /\ DOMAIN s = 1..Len(s) /\ Len(s) \in Nat
  BY DEF StackOK
<1> DEFINE t == SubSeq(s, m, Len(s))
<1>2. /\ t \in Seq(Command) /\ Len(t) = Len(s) + 1 - m
      /\ \A i \in 1..Len(t) : t[i] = s[i + m - 1]
  BY <1>1
<1>3. \A i \in DOMAIN t : i + m - 1 \in DOMAIN s /\ t[i] = s[i + m - 1]
  BY <1>1, <1>2
<1> HIDE DEF t
<1>4. StackOK(t)
  BY <1>2, <1>3 DEF StackOK
<1>5. SavedBy(t) \subseteq SavedBy(s)
  BY <1>3 DEF SavedBy
<1> QED  BY <1>2, <1>4, <1>5 DEF t

\* Push leaves a stack of good commands, one longer or as long as the limit.
LEMMA PushKeepsStacks ==
  ASSUME StackOK(undoStack), NEW op, NEW S, Push(op, S),
         [op |-> op, saved |-> S] \in Command,
         CommandOK([op |-> op, saved |-> S])
  PROVE  /\ StackOK(undoStack') /\ StackOK(redoStack')
         /\ SavedBy(undoStack') \subseteq SavedBy(undoStack) \cup S
         /\ SavedBy(redoStack') = {}
         /\ Len(redoStack') = 0
         /\ Len(undoStack') = IF Len(undoStack) >= MaxHistory
                                THEN Len(undoStack) ELSE Len(undoStack) + 1
<1> DEFINE m == IF Len(undoStack) >= MaxHistory THEN 2 ELSE 1
           kept == SubSeq(undoStack, m, Len(undoStack))
           c == [op |-> op, saved |-> S]
<1>1. Len(undoStack) \in Nat
  BY DEF StackOK
<1>2. m \in {1, 2} /\ m <= Len(undoStack) + 1
  BY <1>1, HistoryAssumption
<1>3. /\ StackOK(kept) /\ SavedBy(kept) \subseteq SavedBy(undoStack)
      /\ Len(kept) = Len(undoStack) + 1 - m
  BY <1>2, CutStack
<1>4. undoStack' = Append(kept, c) /\ redoStack' = <<>>
  BY DEF Push, Pushed
<1>5. c.saved = S
  OBVIOUS
<1> HIDE DEF kept, c
<1>6. /\ StackOK(undoStack')
      /\ SavedBy(undoStack') \subseteq SavedBy(kept) \cup S
      /\ Len(undoStack') = Len(kept) + 1
  BY <1>3, <1>4, <1>5, AppendedStack DEF c
<1>7. StackOK(redoStack') /\ SavedBy(redoStack') = {} /\ Len(redoStack') = 0
  BY <1>4 DEF StackOK, SavedBy
<1> QED  BY <1>1, <1>3, <1>6, <1>7

-----------------------------------------------------------------------------
(***************************************************************************)
(* The inductive invariant: types, and ids that name one drawing.  The     *)
(* second needs the first (a command saves finitely many annotations, so   *)
(* the counter moves past all their copies), and CopiesAreFresh needs the  *)
(* second (annotations with distinct ids are re-added under distinct ids). *)
(***************************************************************************)

IdsBelow(K, n) == DistinctIds(K) /\ \A a \in K : a.id < n

DrawnOK ==
  /\ StoreTypeOK /\ StackOK(undoStack) /\ StackOK(redoStack)
  /\ IdsBelow(Known, nextId)

LEMMA InvariantParts == TypeOK /\ IdNamesOneDrawing <=> DrawnOK /\ ModeTypeOK
BY DEF TypeOK, IdNamesOneDrawing, DrawnOK, IdsBelow, DistinctIds

\* A set of annotations known in an old state stays unambiguous when others,
\* with distinct ids from the counter on, come in.
LEMMA FreshIdsStayDistinct ==
  ASSUME NEW K, NEW n \in Nat, IdsBelow(K, n), \A a \in K : a.id \in Nat,
         NEW F, DistinctIds(F), NEW k \in Nat,
         \A a \in F : a.id \in Nat /\ n <= a.id /\ a.id < n + k,
         NEW L, L \subseteq K \cup F
  PROVE  IdsBelow(L, n + k)
<1>1. ASSUME NEW a \in L, NEW b \in L, a.id = b.id  PROVE a = b
  <2>1. CASE a \in K /\ b \in K
    BY <1>1, <2>1 DEF IdsBelow, DistinctIds
  <2>2. CASE a \in F /\ b \in F
    BY <1>1, <2>2 DEF DistinctIds
  <2>3. CASE a \in K /\ b \in F
    BY <1>1, <2>3 DEF IdsBelow
  <2>4. CASE a \in F /\ b \in K
    BY <1>1, <2>4 DEF IdsBelow
  <2> QED  BY <2>1, <2>2, <2>3, <2>4
<1>2. ASSUME NEW a \in L  PROVE a.id < n + k
  BY DEF IdsBelow
<1> QED  BY <1>1, <1>2 DEF IdsBelow, DistinctIds

LEMMA KnownTypes ==
  ASSUME StoreTypeOK, StackOK(undoStack), StackOK(redoStack)
  PROVE  /\ Known \subseteq Annotation
         /\ \A a \in Known : a.id \in Nat
         /\ nextId \in Nat
<1>1. ASSUME NEW s, StackOK(s)  PROVE SavedBy(s) \subseteq Annotation
  <2>1. ASSUME NEW i \in DOMAIN s  PROVE s[i].saved \subseteq Annotation
    <3>1. s[i] \in Command
      BY <1>1 DEF StackOK
    <3> QED  BY <3>1 DEF Command
  <2> QED  BY <2>1 DEF SavedBy
<1>2. Known \subseteq Annotation
  BY <1>1 DEF Known, StoreTypeOK
<1> QED  BY <1>2 DEF Annotation, StoreTypeOK

\* Adding saved annotations again.
LEMMA AddCopiesKeepsStore ==
  ASSUME StoreTypeOK, StackOK(undoStack), StackOK(redoStack),
         IdsBelow(Known, nextId),
         NEW S \in SUBSET Known, IsFiniteSet(S), AddCopies(S)
  PROVE  /\ StoreTypeOK'
         /\ \A L : L \subseteq Known \cup store' => IdsBelow(L, nextId')
<1>1. Known \subseteq Annotation /\ nextId \in Nat \ {0} /\ DistinctIds(S)
  BY KnownTypes DEF StoreTypeOK, IdsBelow, DistinctIds
<1> DEFINE F == Copies(S, nextId)
<1>2. /\ F \subseteq Annotation /\ IsFiniteSet(F) /\ Cardinality(S) \in Nat
      /\ \A c \in F : nextId <= c.id /\ c.id < nextId + Cardinality(S)
      /\ DistinctIds(F)
  BY <1>1, CopiesAreFresh
<1>3. store' = store \cup F /\ nextId' = nextId + Cardinality(S) /\ dirty' = TRUE
  BY DEF AddCopies
<1> HIDE DEF F
<1>4. IsFiniteSet(store \cup F)
  BY <1>2, FS_Union DEF StoreTypeOK
<1>5. StoreTypeOK'
  BY <1>1, <1>2, <1>3, <1>4 DEF StoreTypeOK
<1>6. \A a \in F : a.id \in Nat
  BY <1>2 DEF Annotation
<1>7. ASSUME NEW L, L \subseteq Known \cup store'  PROVE IdsBelow(L, nextId')
  <2>1. L \subseteq Known \cup F
    BY <1>3, <1>7 DEF Known
  <2>2. IdsBelow(L, nextId + Cardinality(S))
    BY <1>1, <1>2, <1>6, <2>1, KnownTypes, FreshIdsStayDistinct
  <2> QED  BY <1>3, <2>2
<1> QED  BY <1>5, <1>7

\* Operations that only take annotations out of the store.
LEMMA ShrinkKeepsStore ==
  ASSUME StoreTypeOK, store' \subseteq store, nextId' = nextId, dirty' \in BOOLEAN
  PROVE  StoreTypeOK'
BY FS_Subset DEF StoreTypeOK

LEMMA SubsetKeepsIds ==
  ASSUME NEW K, NEW n, IdsBelow(K, n), NEW L, L \subseteq K
  PROVE  IdsBelow(L, n)
BY DEF IdsBelow, DistinctIds

-----------------------------------------------------------------------------
(***************************************************************************)
(* One lemma per operation that touches the annotations or the stacks.     *)
(***************************************************************************)

LEMMA UndoKeepsDrawn == ASSUME DrawnOK, Undo  PROVE DrawnOK'
<1> DEFINE c == Top(undoStack)
<1>1. /\ StackOK(Popped(undoStack)) /\ c \in Command /\ CommandOK(c)
      /\ c.saved \subseteq SavedBy(undoStack)
      /\ SavedBy(Popped(undoStack)) \subseteq SavedBy(undoStack)
  BY PoppedStack DEF DrawnOK, Undo
<1>2. StackOK(undoStack') /\ SavedBy(undoStack') \subseteq Known
  BY <1>1 DEF Undo, Known
<1>3. StackOK(redoStack') /\ SavedBy(redoStack') \subseteq Known
  <2>1. redoStack' = Append(redoStack, c) /\ StackOK(redoStack)
    BY DEF Undo, DrawnOK
  <2>2. StackOK(redoStack') /\ SavedBy(redoStack') \subseteq SavedBy(redoStack) \cup c.saved
    BY <1>1, <2>1, AppendedStack
  <2> QED  BY <1>1, <2>2 DEF Known
<1>4. /\ StoreTypeOK /\ StackOK(undoStack) /\ StackOK(redoStack)
      /\ IdsBelow(Known, nextId)
  BY DEF DrawnOK
<1>5. CASE RemoveAnnotations(c.saved)
  <2>1. store' \subseteq store /\ nextId' = nextId /\ dirty' \in BOOLEAN
    BY <1>5 DEF RemoveAnnotations
  <2>2. Known' \subseteq Known
    BY <1>2, <1>3, <2>1 DEF Known
  <2> QED  BY <1>2, <1>3, <1>4, <2>1, <2>2, ShrinkKeepsStore, SubsetKeepsIds DEF DrawnOK
<1>6. CASE AddCopies(c.saved)
  <2>1. c.saved \in SUBSET Known /\ IsFiniteSet(c.saved)
    BY <1>1 DEF Known, CommandOK
  <2>2. /\ StoreTypeOK'
        /\ \A L : L \subseteq Known \cup store' => IdsBelow(L, nextId')
    BY <1>4, <1>6, <2>1, AddCopiesKeepsStore
  <2>3. Known' \subseteq Known \cup store'
    BY <1>2, <1>3 DEF Known
  <2> QED  BY <1>2, <1>3, <2>2, <2>3 DEF DrawnOK
<1> QED  BY <1>5, <1>6 DEF Undo, Revert

LEMMA RedoKeepsDrawn == ASSUME DrawnOK, Redo  PROVE DrawnOK'
<1> DEFINE c == Top(redoStack)
<1>1. /\ StackOK(Popped(redoStack)) /\ c \in Command /\ CommandOK(c)
      /\ c.saved \subseteq SavedBy(redoStack)
      /\ SavedBy(Popped(redoStack)) \subseteq SavedBy(redoStack)
  BY PoppedStack DEF DrawnOK, Redo
<1>2. StackOK(redoStack') /\ SavedBy(redoStack') \subseteq Known
  BY <1>1 DEF Redo, Known
<1>3. StackOK(undoStack') /\ SavedBy(undoStack') \subseteq Known
  <2>1. undoStack' = Append(undoStack, c) /\ StackOK(undoStack)
    BY DEF Redo, DrawnOK
  <2>2. StackOK(undoStack') /\ SavedBy(undoStack') \subseteq SavedBy(undoStack) \cup c.saved
    BY <1>1, <2>1, AppendedStack
  <2> QED  BY <1>1, <2>2 DEF Known
<1>4. /\ StoreTypeOK /\ StackOK(undoStack) /\ StackOK(redoStack)
      /\ IdsBelow(Known, nextId)
  BY DEF DrawnOK
<1>5. CASE RemoveAnnotations(c.saved) \/ ClearAll
  <2>1. store' \subseteq store /\ nextId' = nextId /\ dirty' \in BOOLEAN
    BY <1>5 DEF RemoveAnnotations, ClearAll
  <2>2. Known' \subseteq Known
    BY <1>2, <1>3, <2>1 DEF Known
  <2> QED  BY <1>2, <1>3, <1>4, <2>1, <2>2, ShrinkKeepsStore, SubsetKeepsIds DEF DrawnOK
<1>6. CASE AddCopies(c.saved)
  <2>1. c.saved \in SUBSET Known /\ IsFiniteSet(c.saved)
    BY <1>1 DEF Known, CommandOK
  <2>2. /\ StoreTypeOK'
        /\ \A L : L \subseteq Known \cup store' => IdsBelow(L, nextId')
    BY <1>4, <1>6, <2>1, AddCopiesKeepsStore
  <2>3. Known' \subseteq Known \cup store'
    BY <1>2, <1>3 DEF Known
  <2> QED  BY <1>2, <1>3, <2>2, <2>3 DEF DrawnOK
<1>7. c.op \in {"add", "remove", "clear"} /\ Execute(c)
  BY <1>1 DEF Redo, Command
<1> QED  BY <1>5, <1>6, <1>7 DEF Execute

\* A command pushed for annotations that are in the store, while annotations
\* are only taken out of it.
LEMMA PushAndShrinkKeepDrawn ==
  ASSUME DrawnOK, NEW op \in {"remove", "clear"}, NEW S \in SUBSET store,
         CommandOK([op |-> op, saved |-> S]), Push(op, S),
         store' \subseteq store, nextId' = nextId, dirty' \in BOOLEAN
  PROVE  DrawnOK'
<1>1. [op |-> op, saved |-> S] \in Command
  BY DEF Command, DrawnOK, StoreTypeOK
<1>2. /\ StackOK(undoStack') /\ StackOK(redoStack')
      /\ SavedBy(undoStack') \subseteq SavedBy(undoStack) \cup S
      /\ SavedBy(redoStack') = {}
  BY <1>1, PushKeepsStacks DEF DrawnOK
<1>3. Known' \subseteq Known
  BY <1>2 DEF Known
<1> QED  BY <1>2, <1>3, ShrinkKeepsStore, SubsetKeepsIds DEF DrawnOK

LEMMA ClearKeepsDrawn == ASSUME DrawnOK, ClearAnnotations  PROVE DrawnOK'
<1>1. CommandOK([op |-> "clear", saved |-> store])
  BY DEF CommandOK, DrawnOK, StoreTypeOK
<1>2. Push("clear", store) /\ store' \subseteq store /\ nextId' = nextId /\ dirty' \in BOOLEAN
  BY DEF ClearAnnotations, ClearAll
<1> QED  BY <1>1, <1>2, PushAndShrinkKeepDrawn

LEMMA EraseKeepsDrawn ==
  ASSUME DrawnOK, NEW a \in store, Push("remove", {a}), RemoveAnnotations({a})
  PROVE  DrawnOK'
<1>1. CommandOK([op |-> "remove", saved |-> {a}])
  BY FS_Singleton DEF CommandOK
<1>2. store' \subseteq store /\ nextId' = nextId /\ dirty' \in BOOLEAN
  BY DEF RemoveAnnotations
<1> QED  BY <1>1, <1>2, PushAndShrinkKeepDrawn

LEMMA AddDrawingKeepsDrawn ==
  ASSUME DrawnOK, NEW kind \in Kinds, NEW mark \in Nat, AddDrawing(kind, mark)
  PROVE  DrawnOK'
<1> DEFINE a == [id |-> nextId, kind |-> kind, mark |-> mark]
<1>1. nextId \in Nat \ {0} /\ a \in Annotation /\ a.id = nextId
  BY DEF DrawnOK, StoreTypeOK, Annotation
<1>2. /\ store' = store \cup {a} /\ nextId' = nextId + 1 /\ dirty' = TRUE
      /\ Push("add", {a})
  BY DEF AddDrawing, AddAnnotation
<1> HIDE DEF a
<1>3. [op |-> "add", saved |-> {a}] \in Command /\ CommandOK([op |-> "add", saved |-> {a}])
  BY <1>1, FS_Singleton DEF Command, CommandOK
<1>4. /\ StackOK(undoStack') /\ StackOK(redoStack')
      /\ SavedBy(undoStack') \subseteq SavedBy(undoStack) \cup {a}
      /\ SavedBy(redoStack') = {}
  BY <1>2, <1>3, PushKeepsStacks DEF DrawnOK
<1>5. Known' \subseteq Known \cup {a}
  BY <1>2, <1>4 DEF Known
<1>6. IsFiniteSet(store \cup {a})
  BY FS_AddElement DEF DrawnOK, StoreTypeOK
<1>7. StoreTypeOK'
  BY <1>1, <1>2, <1>6 DEF DrawnOK, StoreTypeOK
<1>8. IdsBelow(Known', nextId + 1)
  <2>1. DistinctIds({a}) /\ \A b \in {a} : b.id \in Nat /\ nextId <= b.id /\ b.id < nextId + 1
    BY <1>1 DEF DistinctIds
  <2> QED  BY <1>1, <1>5, <2>1, KnownTypes, FreshIdsStayDistinct DEF DrawnOK
<1> QED  BY <1>2, <1>4, <1>7, <1>8 DEF DrawnOK

LEMMA ClearByTypeKeepsDrawn == ASSUME DrawnOK, ClearAnnotationsByType  PROVE DrawnOK'
<1>1. /\ store' \subseteq store /\ nextId' = nextId /\ dirty' \in BOOLEAN
      /\ UNCHANGED stackVars
  BY DEF ClearAnnotationsByType, ClearByType
<1>2. Known' \subseteq Known
  BY <1>1 DEF Known, SavedBy, stackVars
<1> QED  BY <1>1, <1>2, ShrinkKeepsStore, SubsetKeepsIds DEF DrawnOK, stackVars

LEMMA IdleKeepsDrawn ==
  ASSUME DrawnOK, UNCHANGED <<store, nextId, stackVars>>, dirty' \in BOOLEAN
  PROVE  DrawnOK'
<1>1. Known' = Known
  BY DEF Known, SavedBy, stackVars
<1> QED  BY <1>1 DEF DrawnOK, StoreTypeOK, stackVars

-----------------------------------------------------------------------------
(* The initial states and the whole next-state relation.                    *)

\* The annotations that load adds to the empty store.
LEMMA LoadedAnnotations ==
  ASSUME NEW S \in SavedSets(MaxLoaded)
  PROVE  S \subseteq Annotation /\ IsFiniteSet(S) /\ DistinctIds(S)
<1> PICK n \in 0..MaxLoaded : \E k \in [1..n -> Kinds] :
        S = {[id |-> i, kind |-> k[i], mark |-> i] : i \in 1..n}
  BY DEF SavedSets
<1>1. PICK k \in [1..n -> Kinds] :
        S = {[id |-> i, kind |-> k[i], mark |-> i] : i \in 1..n}
  OBVIOUS
<1>2. n \in Nat
  BY BoundsAssumption
<1> DEFINE f == [i \in 1..n |-> [id |-> i, kind |-> k[i], mark |-> i]]
<1>3. f \in Surjection(1..n, S)
  BY <1>1 DEF Surjection
<1>4. IsFiniteSet(S)
  BY <1>2, <1>3, FS_Interval, FS_Surjection
<1>5. S \subseteq Annotation
  BY <1>1, <1>2 DEF Annotation
<1>6. DistinctIds(S)
  BY <1>1 DEF DistinctIds
<1> QED  BY <1>4, <1>5, <1>6

LEMMA InitDrawn == Init => DrawnOK /\ ModeTypeOK
<1> SUFFICES ASSUME Init  PROVE DrawnOK /\ ModeTypeOK
  OBVIOUS
<1>1. PICK loaded \in SavedSets(MaxLoaded) :
        InitStore(loaded) /\ presses = Cardinality(loaded)
  BY DEF Init
<1>2. loaded \subseteq Annotation /\ IsFiniteSet(loaded) /\ DistinctIds(loaded)
  BY LoadedAnnotations
<1>3. /\ store \in SUBSET Annotation /\ IsFiniteSet(store)
      /\ Cardinality(loaded) \in Nat /\ nextId = 1 + Cardinality(loaded)
      /\ \A c \in store : 1 <= c.id /\ c.id < 1 + Cardinality(loaded)
      /\ DistinctIds(store)
  BY <1>1, <1>2, CopiesAreFresh DEF InitStore
<1>4. StoreTypeOK
  BY <1>1, <1>3 DEF InitStore, StoreTypeOK
<1>5. StackOK(<<>>) /\ SavedBy(<<>>) = {}
  BY DEF StackOK, SavedBy
<1>6. StackOK(undoStack) /\ StackOK(redoStack) /\ Known = store
  BY <1>5 DEF Init, Known
<1>7. DrawnOK
  BY <1>3, <1>4, <1>6 DEF DrawnOK, IdsBelow
<1>8. ModeTypeOK
  <2>1. presses \in Nat
    BY <1>1, <1>3
  <2>2. stroke \in [mark : Nat, points : 0..2]
    BY DEF Init
  <2> QED  BY <2>1, <2>2 DEF Init, ModeTypeOK, Tools
<1> QED  BY <1>7, <1>8

LEMMA NextKeepsDrawn ==
  ASSUME DrawnOK, ModeTypeOK, [Next]_vars  PROVE DrawnOK' /\ ModeTypeOK'
<1> USE DEF modeVars, inputVars
<1>1. CASE Undo
  BY <1>1, UndoKeepsDrawn DEF Undo, ModeTypeOK
<1>2. CASE Redo
  BY <1>2, RedoKeepsDrawn DEF Redo, ModeTypeOK
<1>3. CASE ClearAnnotations
  BY <1>3, ClearKeepsDrawn DEF ClearAnnotations, ModeTypeOK
<1>4. CASE ClearAnnotationsByType
  BY <1>4, ClearByTypeKeepsDrawn DEF ClearAnnotationsByType, ModeTypeOK
<1>5. CASE ToggleDrawMode
  <2>1. DrawnOK'
    BY <1>5, IdleKeepsDrawn DEF ToggleDrawMode, storeVars, DrawnOK, StoreTypeOK
  <2>2. ModeTypeOK'
    BY <1>5 DEF ToggleDrawMode, ModeTypeOK
  <2> QED  BY <2>1, <2>2
<1>6. CASE MoveBrush
  <2>1. DrawnOK'
    BY <1>6, IdleKeepsDrawn DEF MoveBrush
  <2>2. stroke' \in [mark : Nat, points : 0..2]
    BY <1>6 DEF MoveBrush, ModeTypeOK
  <2>3. ModeTypeOK'
    BY <1>6, <2>2 DEF MoveBrush, ModeTypeOK
  <2> QED  BY <2>1, <2>3
<1>7. ASSUME NEW p \in Pointers, PointerEvent(p)  PROVE DrawnOK' /\ ModeTypeOK'
  <2>1. /\ ButtonDown(p) => held' \subseteq Pointers
        /\ ButtonUp(p) => held' \subseteq Pointers
        /\ PressOnCanvas(p) => presses' \in Nat /\ held' \subseteq Pointers
    BY DEF ButtonDown, ButtonUp, PressOnCanvas, ModeTypeOK
  <2>2. CASE PressOnToolbar(p)
    <3>1. DrawnOK'
      BY <2>2, IdleKeepsDrawn DEF PressOnToolbar, storeVars, DrawnOK, StoreTypeOK
    <3>2. ModeTypeOK'
      BY <2>1, <2>2 DEF PressOnToolbar, ModeTypeOK
    <3> QED  BY <3>1, <3>2
  <2>3. CASE PressOutsideDrawMode(p)
    <3>1. DrawnOK'
      BY <2>3, IdleKeepsDrawn DEF PressOutsideDrawMode, storeVars, DrawnOK, StoreTypeOK
    <3>2. ModeTypeOK'
      BY <2>1, <2>3 DEF PressOutsideDrawMode, ModeTypeOK
    <3> QED  BY <3>1, <3>2
  <2>4. CASE PressBrush(p)
    <3>1. DrawnOK'
      BY <2>4, IdleKeepsDrawn DEF PressBrush, storeVars, DrawnOK, StoreTypeOK
    <3>2. ModeTypeOK'
      BY <2>1, <2>4 DEF PressBrush, ModeTypeOK
    <3> QED  BY <3>1, <3>2
  <2>5. CASE PressArrow(p)
    <3>1. DrawnOK'
      BY <2>5, IdleKeepsDrawn DEF PressArrow, storeVars, DrawnOK, StoreTypeOK
    <3>2. ModeTypeOK'
      BY <2>1, <2>5 DEF PressArrow, ModeTypeOK
    <3> QED  BY <3>1, <3>2
  <2>6. CASE PressEraser(p)
    <3>1. ASSUME UNCHANGED <<storeVars, stackVars>>  PROVE DrawnOK'
      BY <3>1, IdleKeepsDrawn DEF storeVars, DrawnOK, StoreTypeOK
    <3>2. ASSUME NEW a \in store, Push("remove", {a}), RemoveAnnotations({a})
          PROVE  DrawnOK'
      BY <3>2, EraseKeepsDrawn
    <3>3. DrawnOK'
      BY <2>6, <3>1, <3>2 DEF PressEraser
    <3>4. ModeTypeOK'
      BY <2>1, <2>6 DEF PressEraser, ModeTypeOK
    <3> QED  BY <3>3, <3>4
  <2>7. CASE PressNote(p)
    <3>1. DrawnOK'
      BY <2>7, IdleKeepsDrawn DEF PressNote, storeVars, DrawnOK, StoreTypeOK
    <3>2. ModeTypeOK'
      BY <2>1, <2>7 DEF PressNote, ModeTypeOK
    <3> QED  BY <3>1, <3>2
  <2>8. CASE ReleaseBrush(p)
    <3>1. stroke.mark \in Nat /\ "stroke" \in Kinds
      BY DEF ModeTypeOK, Kinds
    <3>2. ASSUME UNCHANGED <<storeVars, stackVars>>  PROVE DrawnOK'
      BY <3>2, IdleKeepsDrawn DEF storeVars, DrawnOK, StoreTypeOK
    <3>3. ASSUME AddDrawing("stroke", stroke.mark)  PROVE DrawnOK'
      BY <3>1, <3>3, AddDrawingKeepsDrawn
    <3>4. DrawnOK'
      BY <2>8, <3>2, <3>3 DEF ReleaseBrush
    <3>5. ModeTypeOK'
      BY <2>1, <2>8 DEF ReleaseBrush, ModeTypeOK
    <3> QED  BY <3>4, <3>5
  <2>9. CASE ReleaseArrow(p)
    <3>1. arrowFrom \in Nat /\ "arrow" \in Kinds
      BY DEF ModeTypeOK, Kinds
    <3>2. DrawnOK'
      BY <2>9, <3>1, AddDrawingKeepsDrawn DEF ReleaseArrow
    <3>3. ModeTypeOK'
      BY <2>1, <2>9 DEF ReleaseArrow, ModeTypeOK
    <3> QED  BY <3>2, <3>3
  <2>10. CASE ReleaseIdle(p)
    <3>1. DrawnOK'
      BY <2>10, IdleKeepsDrawn DEF ReleaseIdle, storeVars, DrawnOK, StoreTypeOK
    <3>2. ModeTypeOK'
      BY <2>1, <2>10 DEF ReleaseIdle, ModeTypeOK
    <3> QED  BY <3>1, <3>2
  <2> QED  BY <1>7, <2>2, <2>3, <2>4, <2>5, <2>6, <2>7, <2>8, <2>9, <2>10 DEF PointerEvent
<1>8. CASE UNCHANGED vars
  <2>1. DrawnOK'
    BY <1>8, IdleKeepsDrawn DEF vars, stackVars, DrawnOK, StoreTypeOK
  <2>2. ModeTypeOK'
    BY <1>8 DEF vars, ModeTypeOK
  <2> QED  BY <2>1, <2>2
<1> QED  BY <1>1, <1>2, <1>3, <1>4, <1>5, <1>6, <1>7, <1>8 DEF Next

THEOREM DrawnInvariant == Spec => [](DrawnOK /\ ModeTypeOK)
<1>1. Init => DrawnOK /\ ModeTypeOK
  BY InitDrawn
<1>2. (DrawnOK /\ ModeTypeOK) /\ [Next]_vars => (DrawnOK /\ ModeTypeOK)'
  BY NextKeepsDrawn
<1> QED  BY <1>1, <1>2, PTL DEF Spec

\* In every reachable state the variables have their types, every add or
\* remove command saves exactly one annotation and every clear finitely many.
THEOREM TypeCorrect == Spec => []TypeOK
<1>1. DrawnOK /\ ModeTypeOK => TypeOK
  BY InvariantParts
<1> QED  BY <1>1, DrawnInvariant, PTL

\* In every reachable state an id in the store or in a command, be it done or
\* undone, stands for one drawing and is not handed out again.
THEOREM IdsAreUnambiguous == Spec => []IdNamesOneDrawing
<1>1. DrawnOK /\ ModeTypeOK => IdNamesOneDrawing
  BY InvariantParts
<1> QED  BY <1>1, DrawnInvariant, PTL

-----------------------------------------------------------------------------
(***************************************************************************)
(* The limit of the history.  Push alone looks at it, and only at the undo *)
(* stack; what keeps the sum bounded is that push also empties the redo    *)
(* stack and that undo and redo move one command across.                   *)
(***************************************************************************)

LEMMA PushKeepsBound ==
  ASSUME DrawnOK, HistoryBounded, NEW op, NEW S, Push(op, S),
         [op |-> op, saved |-> S] \in Command,
         CommandOK([op |-> op, saved |-> S])
  PROVE  HistoryBounded'
<1>1. Len(undoStack) \in Nat /\ Len(redoStack) \in Nat
  BY DEF DrawnOK, StackOK
<1>2. /\ Len(redoStack') = 0
      /\ Len(undoStack') = IF Len(undoStack) >= MaxHistory
                             THEN Len(undoStack) ELSE Len(undoStack) + 1
  BY PushKeepsStacks DEF DrawnOK
<1> QED  BY <1>1, <1>2, HistoryAssumption DEF HistoryBounded

\* The three steps that push, and what each pushes.
PushStep ==
  \/ ClearAnnotations
  \/ \E p \in Pointers : PressEraser(p) \/ ReleaseBrush(p) \/ ReleaseArrow(p)

LEMMA PushSteps ==
  ASSUME DrawnOK, ModeTypeOK, PushStep, stackVars' # stackVars
  PROVE  \/ Push("clear", store) /\ ClearAll
         \/ \E a \in store : Push("remove", {a}) /\ RemoveAnnotations({a})
         \/ \E kind \in Kinds, mark \in Nat : AddDrawing(kind, mark)
BY DEF PushStep, ClearAnnotations, PressEraser, ReleaseBrush, ReleaseArrow,
       ModeTypeOK, Kinds, stackVars

LEMMA PushedCommandOK ==
  ASSUME DrawnOK
  PROVE  /\ [op |-> "clear", saved |-> store] \in Command
         /\ CommandOK([op |-> "clear", saved |-> store])
         /\ \A a \in Annotation, op \in {"add", "remove"} :
              /\ [op |-> op, saved |-> {a}] \in Command
              /\ CommandOK([op |-> op, saved |-> {a}])
BY FS_Singleton DEF DrawnOK, StoreTypeOK, Command, CommandOK

\* Every other step leaves the stacks alone or moves one command across.
LEMMA OtherSteps ==
  ASSUME [Next]_vars, ~Undo, ~Redo, ~PushStep  PROVE UNCHANGED stackVars
BY DEF Next, PushStep, PointerEvent, ClearAnnotationsByType, ToggleDrawMode,
       MoveBrush, PressOnToolbar, PressOutsideDrawMode, PressBrush, PressArrow,
       PressNote, ReleaseIdle, vars, stackVars

LEMMA BoundStep ==
  ASSUME DrawnOK, ModeTypeOK, HistoryBounded, [Next]_vars  PROVE HistoryBounded'
<1>1. CASE Undo
  <2>1. Len(undoStack') = Len(undoStack) - 1
    BY <1>1, PoppedStack DEF Undo, DrawnOK
  <2>2. Len(redoStack') = Len(redoStack) + 1
    BY <1>1, PoppedStack, AppendedStack DEF Undo, DrawnOK
  <2>3. Len(undoStack) \in Nat /\ Len(redoStack) \in Nat
    BY DEF DrawnOK, StackOK
  <2> QED  BY <2>1, <2>2, <2>3, HistoryAssumption DEF HistoryBounded
<1>2. CASE Redo
  <2>1. Len(redoStack') = Len(redoStack) - 1
    BY <1>2, PoppedStack DEF Redo, DrawnOK
  <2>2. Len(undoStack') = Len(undoStack) + 1
    BY <1>2, PoppedStack, AppendedStack DEF Redo, DrawnOK
  <2>3. Len(undoStack) \in Nat /\ Len(redoStack) \in Nat
    BY DEF DrawnOK, StackOK
  <2> QED  BY <2>1, <2>2, <2>3, HistoryAssumption DEF HistoryBounded
<1>3. ASSUME PushStep, stackVars' # stackVars  PROVE HistoryBounded'
  <2>1. ASSUME Push("clear", store)  PROVE HistoryBounded'
    BY <2>1, PushKeepsBound, PushedCommandOK
  <2>2. ASSUME NEW a \in store, Push("remove", {a})  PROVE HistoryBounded'
    <3>1. a \in Annotation
      BY DEF DrawnOK, StoreTypeOK
    <3> QED  BY <2>2, <3>1, PushKeepsBound, PushedCommandOK
  <2>3. ASSUME NEW kind \in Kinds, NEW mark \in Nat, AddDrawing(kind, mark)
        PROVE  HistoryBounded'
    <3> DEFINE a == [id |-> nextId, kind |-> kind, mark |-> mark]
    <3>1. a \in Annotation /\ Push("add", {a})
      BY <2>3 DEF DrawnOK, StoreTypeOK, Annotation, AddDrawing
    <3> HIDE DEF a
    <3> QED  BY <3>1, PushKeepsBound, PushedCommandOK
  <2> QED  BY <1>3, <2>1, <2>2, <2>3, PushSteps
<1>4. CASE UNCHANGED stackVars
  BY <1>4 DEF stackVars, HistoryBounded
<1> QED  BY <1>1, <1>2, <1>3, <1>4, OtherSteps

\* In every reachable state the two stacks together hold at most
\* MAX_STACK_SIZE commands.
THEOREM HistoryIsBounded == Spec => []HistoryBounded
<1>1. Init => HistoryBounded
  BY HistoryAssumption DEF Init, HistoryBounded
<1>2. DrawnOK /\ ModeTypeOK /\ HistoryBounded /\ [Next]_vars => HistoryBounded'
  BY BoundStep
<1> QED  BY <1>1, <1>2, DrawnInvariant, PTL DEF Spec

-----------------------------------------------------------------------------
(* What undo, redo and a new command do to the picture.                      *)

\* Removing by id takes out nothing but the annotations that were saved.
LEMMA NamedAreSaved ==
  ASSUME DrawnOK, NEW S \in SUBSET Known  PROVE Named(S) \subseteq S
BY DEF DrawnOK, IdsBelow, DistinctIds, Known, Named

UndoStep == Undo => store \ store' \subseteq Top(undoStack).saved
RedoStep == Redo /\ Top(redoStack).op # "clear"
              => store \ store' \subseteq Top(redoStack).saved

LEMMA OwnStep == ASSUME DrawnOK  PROVE UndoStep /\ RedoStep
<1>1. ASSUME Undo  PROVE store \ store' \subseteq Top(undoStack).saved
  <2>1. Top(undoStack).saved \in SUBSET Known
    BY <1>1, PoppedStack DEF Undo, DrawnOK, Known
  <2>2. Named(Top(undoStack).saved) \subseteq Top(undoStack).saved
    BY <2>1, NamedAreSaved
  <2> QED  BY <1>1, <2>2 DEF Undo, Revert, RemoveAnnotations, AddCopies
<1>2. ASSUME Redo, Top(redoStack).op # "clear"
      PROVE  store \ store' \subseteq Top(redoStack).saved
  <2>1. Top(redoStack).saved \in SUBSET Known /\ Top(redoStack) \in Command
    BY <1>2, PoppedStack DEF Redo, DrawnOK, Known
  <2>2. Named(Top(redoStack).saved) \subseteq Top(redoStack).saved
    BY <2>1, NamedAreSaved
  <2>3. Top(redoStack).op \in {"add", "remove"}
    BY <1>2, <2>1 DEF Command
  <2>4. AddCopies(Top(redoStack).saved) \/ RemoveAnnotations(Top(redoStack).saved)
    BY <1>2, <2>3 DEF Redo, Execute
  <2> QED  BY <2>2, <2>4 DEF RemoveAnnotations, AddCopies
<1> QED  BY <1>1, <1>2 DEF UndoStep, RedoStep

\* Undoing or redoing one annotation's command takes no other drawing away,
\* however many times ids have been handed out anew since it was pushed.
THEOREM UndoIsSelective == Spec => UndoTakesOnlyItsOwn
<1>1. DrawnOK /\ ModeTypeOK /\ [Next]_vars =>
        [/\ Undo => store \ store' \subseteq Top(undoStack).saved
         /\ Redo /\ Top(redoStack).op # "clear"
              => store \ store' \subseteq Top(redoStack).saved]_vars
  BY OwnStep DEF UndoStep, RedoStep
<1> QED  BY <1>1, DrawnInvariant, PTL DEF Spec, UndoTakesOnlyItsOwn

\* The last command that push left on the undo stack.
LEMMA PushedIsTop ==
  ASSUME StackOK(undoStack), NEW op, NEW S, Push(op, S),
         [op |-> op, saved |-> S] \in Command
  PROVE  Top(undoStack') = [op |-> op, saved |-> S]
<1> DEFINE m == IF Len(undoStack) >= MaxHistory THEN 2 ELSE 1
           kept == SubSeq(undoStack, m, Len(undoStack))
           c == [op |-> op, saved |-> S]
<1>1. m \in {1, 2} /\ m <= Len(undoStack) + 1
  BY HistoryAssumption DEF StackOK
<1>2. kept \in Seq(Command)
  BY <1>1, CutStack DEF StackOK
<1>3. undoStack' = Append(kept, c)
  BY DEF Push, Pushed
<1> HIDE DEF kept, c
<1>4. Append(kept, c)[Len(Append(kept, c))] = c
  BY <1>2 DEF c
<1> QED  BY <1>3, <1>4 DEF Top, c

UndoableStep ==
  undoStack' # undoStack /\ redoStack' = <<>> /\ ~Redo
    => PictureReverting(store', Top(undoStack')) = Picture(store)

LEMMA UndoableNext ==
  ASSUME DrawnOK, ModeTypeOK, [Next]_vars  PROVE UndoableStep
<1> SUFFICES ASSUME undoStack' # undoStack, redoStack' = <<>>, ~Redo
             PROVE  PictureReverting(store', Top(undoStack')) = Picture(store)
  BY DEF UndoableStep
<1>1. ~Undo
  <2> SUFFICES ASSUME Undo  PROVE FALSE
    OBVIOUS
  <2>1. Len(redoStack') = Len(redoStack) + 1 /\ Len(redoStack) \in Nat
    BY PoppedStack, AppendedStack DEF Undo, DrawnOK, StackOK
  <2> QED  BY <2>1
<1>2. PushStep /\ stackVars' # stackVars
  BY <1>1, OtherSteps DEF stackVars
<1>3. ASSUME Push("clear", store), ClearAll
      PROVE  PictureReverting(store', Top(undoStack')) = Picture(store)
  <2>1. Top(undoStack') = [op |-> "clear", saved |-> store]
    BY <1>3, PushedIsTop, PushedCommandOK DEF DrawnOK
  <2>2. store' \cup store = store
    BY <1>3 DEF ClearAll
  <2> QED  BY <2>1, <2>2 DEF PictureReverting, Picture
<1>4. ASSUME NEW a \in store, Push("remove", {a}), RemoveAnnotations({a})
      PROVE  PictureReverting(store', Top(undoStack')) = Picture(store)
  <2>1. a \in Annotation
    BY DEF DrawnOK, StoreTypeOK
  <2>2. Top(undoStack') = [op |-> "remove", saved |-> {a}]
    BY <1>4, <2>1, PushedIsTop, PushedCommandOK DEF DrawnOK
  <2>3. Named({a}) \subseteq {a}
    BY NamedAreSaved DEF Known
  <2>4. store' \cup {a} = store
    BY <1>4, <2>3 DEF RemoveAnnotations
  <2> QED  BY <2>2, <2>4 DEF PictureReverting, Picture
<1>5. ASSUME NEW kind \in Kinds, NEW mark \in Nat, AddDrawing(kind, mark)
      PROVE  PictureReverting(store', Top(undoStack')) = Picture(store)
  <2> DEFINE a == [id |-> nextId, kind |-> kind, mark |-> mark]
  <2>1. a \in Annotation /\ Push("add", {a}) /\ store' = store \cup {a}
    BY <1>5 DEF DrawnOK, StoreTypeOK, Annotation, AddDrawing, AddAnnotation
  <2>2. a \notin store
    <3>1. \A b \in store : b.id \in Nat /\ b.id < nextId
      BY KnownTypes DEF DrawnOK, IdsBelow, Known
    <3> QED  BY <3>1
  <2> HIDE DEF a
  <2>3. Top(undoStack') = [op |-> "add", saved |-> {a}]
    BY <2>1, PushedIsTop, PushedCommandOK DEF DrawnOK
  <2>4. store' \ {a} = store
    BY <2>1, <2>2
  <2> QED  BY <2>3, <2>4 DEF PictureReverting, Picture
<1> QED  BY <1>2, <1>3, <1>4, <1>5, PushSteps

\* Whenever a command is pushed, undoing it at once would restore the picture.
THEOREM NewCommandsAreUndoable == Spec => NewCommandUndoable
<1>1. DrawnOK /\ ModeTypeOK /\ [Next]_vars =>
        [undoStack' # undoStack /\ redoStack' = <<>> /\ ~Redo
           => PictureReverting(store', Top(undoStack')) = Picture(store)]_vars
  BY UndoableNext DEF UndoableStep
<1> QED  BY <1>1, DrawnInvariant, PTL DEF Spec, NewCommandUndoable

-----------------------------------------------------------------------------
(***************************************************************************)
(* Gestures.  With one pointing device no press, be it on the canvas or on *)
(* the toolbar, comes between a drawing's press and its release.           *)
(***************************************************************************)

OnePointer == \A p, q \in Pointers : p = q

LEMMA GestureStep ==
  ASSUME OnePointer, ModeTypeOK, GestureIntact, [Next]_vars
  PROVE  GestureIntact'
<1> USE DEF modeVars, inputVars
<1>1. ASSUME NEW p \in Pointers, held # {}  PROVE p \in held
  BY <1>1 DEF OnePointer, ModeTypeOK
<1>2. CASE Undo \/ Redo \/ ClearAnnotations \/ ClearAnnotationsByType
  BY <1>2 DEF Undo, Redo, ClearAnnotations, ClearAnnotationsByType, GestureIntact
<1>3. CASE ToggleDrawMode
  BY <1>3 DEF ToggleDrawMode, GestureIntact
<1>4. CASE MoveBrush
  <2>1. /\ stroke' = [stroke EXCEPT !.points = IF @ = 0 THEN 1 ELSE 2]
        /\ UNCHANGED <<active, tool, drawing, arrowFrom, held, presses>>
    BY <1>4 DEF MoveBrush
  <2>2. stroke'.mark = stroke.mark /\ stroke'.points > 0
    BY <2>1 DEF ModeTypeOK
  <2> QED  BY <2>1, <2>2 DEF GestureIntact
<1>5. ASSUME NEW p \in Pointers, PointerEvent(p)  PROVE GestureIntact'
  <2>1. CASE PressOnToolbar(p) \/ PressOutsideDrawMode(p) \/ PressNote(p) \/ PressEraser(p)
    <3>1. p \notin held /\ drawing' = drawing
      BY <2>1 DEF PressOnToolbar, PressOutsideDrawMode, PressNote, PressEraser,
                  PressOnCanvas, ButtonDown
    <3>2. ~drawing'
      BY <1>1, <3>1 DEF GestureIntact
    <3> QED  BY <3>2 DEF GestureIntact
  <2>2. CASE PressBrush(p)
    <3>1. stroke'.mark = presses' /\ stroke'.points = 1 /\ tool' = "brush"
      BY <2>2 DEF PressBrush
    <3>2. active' /\ held' # {}
      BY <2>2 DEF PressBrush, PressOnCanvas, ButtonDown
    <3> QED  BY <3>1, <3>2 DEF GestureIntact
  <2>3. CASE PressArrow(p)
    BY <2>3 DEF PressArrow, PressOnCanvas, ButtonDown, GestureIntact
  <2>4. CASE ReleaseBrush(p) \/ ReleaseArrow(p)
    BY <2>4 DEF ReleaseBrush, ReleaseArrow, GestureIntact
  <2>5. CASE ReleaseIdle(p)
    BY <2>5 DEF ReleaseIdle, GestureIntact
  <2> QED  BY <1>5, <2>1, <2>2, <2>3, <2>4, <2>5 DEF PointerEvent
<1>6. CASE UNCHANGED vars
  BY <1>6 DEF vars, GestureIntact
<1> QED  BY <1>2, <1>3, <1>4, <1>5, <1>6 DEF Next

\* With one pointing device a drawing in progress belongs to the press that
\* is still held, in the draw mode and with the tool it was begun with.
THEOREM GesturesStayIntact == OnePointer /\ Spec => []GestureIntact
<1>1. Init => GestureIntact
  BY DEF Init, GestureIntact
<1>2. OnePointer /\ DrawnOK /\ ModeTypeOK /\ GestureIntact /\ [Next]_vars => GestureIntact'
  BY GestureStep
<1>3. OnePointer => []OnePointer
  BY DEF OnePointer, PTL
<1> QED  BY <1>1, <1>2, <1>3, DrawnInvariant, PTL DEF Spec

-----------------------------------------------------------------------------
(***************************************************************************)
(* The two stacks implement a timeline with a cursor.  Undo and redo move  *)
(* one command across the cursor and leave the timeline as it is; push     *)
(* drops the oldest command just when the timeline's rule says so, which   *)
(* needs the bound on the history.                                         *)
(***************************************************************************)

Joined(u, r) == u \o Reversed(r)

LEMMA JoinedElements ==
  ASSUME NEW u \in Seq(Command), NEW r \in Seq(Command)
  PROVE  /\ Joined(u, r) \in Seq(Command)
         /\ Len(Joined(u, r)) = Len(u) + Len(r)
         /\ \A i \in 1..(Len(u) + Len(r)) :
              Joined(u, r)[i] = IF i <= Len(u) THEN u[i] ELSE r[Len(u) + Len(r) + 1 - i]
<1> DEFINE v == Reversed(r)
<1>1. /\ Len(u) \in Nat /\ Len(r) \in Nat /\ DOMAIN r = 1..Len(r)
      /\ \A i \in 1..Len(r) : r[i] \in Command
  OBVIOUS
<1>2. v = [i \in 1..Len(r) |-> r[Len(r) + 1 - i]]
  BY <1>1 DEF Reversed
<1>3. \A i \in 1..Len(r) : Len(r) + 1 - i \in 1..Len(r)
  BY <1>1
<1>4. v \in Seq(Command) /\ Len(v) = Len(r)
  <2>1. v \in [1..Len(r) -> Command]
    BY <1>1, <1>2, <1>3
  <2> HIDE DEF v
  <2> QED  BY <1>1, <2>1, SeqDef, LenProperties
<1>5. \A i \in 1..Len(r) : v[i] = r[Len(r) + 1 - i]
  BY <1>2
<1> HIDE DEF v
<1>6. Joined(u, r) = u \o v
  BY DEF Joined, v
<1>7. /\ u \o v \in Seq(Command) /\ Len(u \o v) = Len(u) + Len(v)
      /\ \A i \in 1..(Len(u) + Len(v)) :
           (u \o v)[i] = IF i <= Len(u) THEN u[i] ELSE v[i - Len(u)]
  BY <1>4, ConcatProperties
<1>8. \A i \in 1..(Len(u) + Len(r)) :
        ~(i <= Len(u)) => v[i - Len(u)] = r[Len(u) + Len(r) + 1 - i]
  <2> SUFFICES ASSUME NEW i \in 1..(Len(u) + Len(r)), ~(i <= Len(u))
               PROVE  v[i - Len(u)] = r[Len(u) + Len(r) + 1 - i]
    OBVIOUS
  <2>1. i - Len(u) \in 1..Len(r) /\ Len(r) + 1 - (i - Len(u)) = Len(u) + Len(r) + 1 - i
    BY <1>1
  <2> QED  BY <1>5, <2>1
<1> QED  BY <1>4, <1>6, <1>7, <1>8

\* Taking the last command of u to the end of r leaves the timeline alone.
LEMMA MoveAcross ==
  ASSUME NEW u \in Seq(Command), NEW r \in Seq(Command), u # <<>>
  PROVE  Joined(Popped(u), Append(r, Top(u))) = Joined(u, r)
<1> DEFINE w == Popped(u)
           c == Top(u)
           q == Append(r, c)
<1>1. Len(u) \in Nat \ {0} /\ Len(r) \in Nat /\ c = u[Len(u)] /\ c \in Command
  BY DEF Top
<1>2. /\ w \in Seq(Command) /\ Len(w) = Len(u) - 1
      /\ \A i \in 1..(Len(u) - 1) : w[i] = u[i]
  BY PoppedSeq
<1>3. /\ q \in Seq(Command) /\ Len(q) = Len(r) + 1
      /\ \A i \in 1..Len(r) : q[i] = r[i]
      /\ q[Len(r) + 1] = c
  BY <1>1
<1> HIDE DEF w, c, q
<1> DEFINE n == Len(u) + Len(r)
<1>4. Len(w) + Len(q) = n /\ n \in Nat
  BY <1>1, <1>2, <1>3
<1>5. /\ Joined(w, q) \in Seq(Command) /\ Len(Joined(w, q)) = n
      /\ \A i \in 1..n : Joined(w, q)[i] = IF i <= Len(w) THEN w[i] ELSE q[n + 1 - i]
  <2>1. /\ Joined(w, q) \in Seq(Command) /\ Len(Joined(w, q)) = Len(w) + Len(q)
        /\ \A i \in 1..(Len(w) + Len(q)) :
             Joined(w, q)[i] = IF i <= Len(w) THEN w[i] ELSE q[Len(w) + Len(q) + 1 - i]
    BY <1>2, <1>3, JoinedElements
  <2> HIDE DEF n
  <2> QED  BY <1>4, <2>1
<1>6. /\ Joined(u, r) \in Seq(Command) /\ Len(Joined(u, r)) = n
      /\ \A i \in 1..n : Joined(u, r)[i] = IF i <= Len(u) THEN u[i] ELSE r[n + 1 - i]
  BY JoinedElements
<1>7. ASSUME NEW i \in 1..n  PROVE Joined(w, q)[i] = Joined(u, r)[i]
  <2>1. CASE i <= Len(w)
    BY <1>1, <1>2, <1>5, <1>6, <2>1
  <2>2. CASE i = Len(u)
    <3>1. Joined(w, q)[i] = q[Len(r) + 1]
      BY <1>1, <1>2, <1>5, <2>2
    <3> QED  BY <1>1, <1>3, <1>6, <2>2, <3>1
  <2>3. CASE i > Len(u)
    <3>1. n + 1 - i \in 1..Len(r)
      BY <1>1, <2>3
    <3>2. ~(i <= Len(w)) /\ ~(i <= Len(u))
      BY <1>1, <1>2, <2>3
    <3> HIDE DEF n
    <3>3. Joined(w, q)[i] = q[n + 1 - i] /\ Joined(u, r)[i] = r[n + 1 - i]
      BY <1>5, <1>6, <3>2
    <3> QED  BY <1>3, <3>1, <3>3
  <2> QED  BY <1>1, <1>2, <2>1, <2>2, <2>3
<1> HIDE DEF n
<1>8. Joined(w, q) = Joined(u, r)
  BY <1>4, <1>5, <1>6, <1>7, SeqEqual
<1> QED  BY <1>8 DEF w, c, q

LEMMA CutSeq ==
  ASSUME NEW s \in Seq(Command), NEW n \in Nat, n <= Len(s),
         NEW d \in {0, 1}, d <= n
  PROVE  /\ SubSeq(s, 1 + d, n) \in Seq(Command)
         /\ Len(SubSeq(s, 1 + d, n)) = n - d
         /\ \A i \in 1..(n - d) : SubSeq(s, 1 + d, n)[i] = s[i + d]
<1>1. Len(s) \in Nat /\ \A i \in 1..Len(s) : s[i] \in Command
  BY ElementOfSeq
<1>2. CASE d = 0
  BY <1>1, <1>2
<1>3. CASE d = 1
  BY <1>1, <1>3
<1> QED  BY <1>2, <1>3

\* Push is what the timeline does with a new command.
LEMMA PushIsDo ==
  ASSUME StackOK(undoStack), StackOK(redoStack), HistoryBounded,
         NEW op, NEW S, Push(op, S), [op |-> op, saved |-> S] \in Command
  PROVE  Timeline!Do
<1> DEFINE u == undoStack
           drop == IF Len(u) = MaxHistory THEN 1 ELSE 0
           kept == SubSeq(u, 1 + drop, Len(u))
           c == [op |-> op, saved |-> S]
           tl == Joined(undoStack, redoStack)
<1>1. /\ u \in Seq(Command) /\ redoStack \in Seq(Command)
      /\ Len(u) \in Nat /\ Len(redoStack) \in Nat
  BY DEF StackOK
<1>2. Len(u) <= MaxHistory /\ (Len(u) >= MaxHistory <=> Len(u) = MaxHistory)
  BY <1>1, HistoryAssumption DEF HistoryBounded
<1>3. undoStack' = Append(kept, c) /\ redoStack' = <<>>
  <2>1. (IF Len(u) >= MaxHistory THEN 2 ELSE 1) = 1 + drop
    BY <1>2
  <2>2. undoStack' = Append(SubSeq(u, IF Len(u) >= MaxHistory THEN 2 ELSE 1, Len(u)), c)
    BY DEF Push, Pushed
  <2> QED  BY <2>1, <2>2 DEF Push
<1>drop. drop \in {0, 1} /\ drop <= Len(u)
  BY <1>1, HistoryAssumption
<1> HIDE DEF drop
<1>4. /\ kept \in Seq(Command) /\ Len(kept) = Len(u) - drop
      /\ \A i \in 1..(Len(u) - drop) : kept[i] = u[i + drop]
  BY <1>1, <1>drop, CutSeq
<1>5. SubSeq(tl, 1 + drop, Len(u)) = kept
  <2>1. /\ tl \in Seq(Command) /\ Len(tl) = Len(u) + Len(redoStack)
        /\ \A i \in 1..Len(u) : tl[i] = u[i]
    <3>1. /\ tl \in Seq(Command) /\ Len(tl) = Len(u) + Len(redoStack)
          /\ \A i \in 1..(Len(u) + Len(redoStack)) :
               tl[i] = IF i <= Len(u) THEN u[i] ELSE redoStack[Len(u) + Len(redoStack) + 1 - i]
      BY <1>1, JoinedElements
    <3> HIDE DEF tl
    <3> QED  BY <1>1, <3>1
  <2> HIDE DEF tl
  <2>2. /\ SubSeq(tl, 1 + drop, Len(u)) \in Seq(Command)
        /\ Len(SubSeq(tl, 1 + drop, Len(u))) = Len(u) - drop
        /\ \A i \in 1..(Len(u) - drop) :
             SubSeq(tl, 1 + drop, Len(u))[i] = tl[i + drop]
    <3>1. Len(u) <= Len(tl)
      BY <1>1, <2>1
    <3> QED  BY <1>1, <1>drop, <2>1, <3>1, CutSeq
  <2>3. \A i \in 1..(Len(u) - drop) : tl[i + drop] = u[i + drop]
    BY <1>1, <1>drop, <2>1
  <2> QED  BY <1>4, <2>2, <2>3, SeqEqual
<1> HIDE DEF kept, c
<1>6. c \in Command
  BY DEF c
<1>7. /\ Append(kept, c) \in Seq(Command)
      /\ Len(Append(kept, c)) = Len(kept) + 1
      /\ SubSeq(Append(kept, c), 1, Len(kept)) = kept
  <2>1. /\ Append(kept, c) \in Seq(Command)
        /\ Len(Append(kept, c)) = Len(kept) + 1 /\ Len(kept) \in Nat
        /\ \A i \in 1..Len(kept) : Append(kept, c)[i] = kept[i]
    BY <1>4, <1>6
  <2>2. /\ SubSeq(Append(kept, c), 1, Len(kept)) \in Seq(Command)
        /\ Len(SubSeq(Append(kept, c), 1, Len(kept))) = Len(kept)
        /\ \A i \in 1..Len(kept) :
             SubSeq(Append(kept, c), 1, Len(kept))[i] = Append(kept, c)[i]
    BY <2>1
  <2> QED  BY <1>4, <2>1, <2>2, SeqEqual
<1>8. Joined(Append(kept, c), <<>>) = Append(kept, c)
  <2>1. Reversed(<<>>) = <<>>
    BY DEF Reversed
  <2> QED  BY <1>7, <2>1, ConcatEmptySeq DEF Joined
<1>9. (undoStack \o Reversed(redoStack))' = Append(kept, c)
  BY <1>3, <1>8 DEF Joined, Reversed
<1>10. Len(undoStack') = Len(kept) + 1
  BY <1>3, <1>7
<1>11. /\ Len((undoStack \o Reversed(redoStack))') = Len(kept) + 1
       /\ SubSeq((undoStack \o Reversed(redoStack))', 1, Len(kept)) = kept
  BY <1>7, <1>9
<1> QED  BY <1>5, <1>10, <1>11 DEF Timeline!Do, Joined, drop

LEMMA TimelineStep ==
  ASSUME DrawnOK, ModeTypeOK, HistoryBounded, [Next]_vars
  PROVE  [Timeline!Next]_<<undoStack \o Reversed(redoStack), Len(undoStack)>>
<1>1. /\ undoStack \in Seq(Command) /\ redoStack \in Seq(Command)
      /\ Len(undoStack) \in Nat /\ Len(redoStack) \in Nat
  BY DEF DrawnOK, StackOK
<1>2. ASSUME Undo  PROVE Timeline!Undo
  <2>1. Joined(Popped(undoStack), Append(redoStack, Top(undoStack)))
          = Joined(undoStack, redoStack)
    BY <1>1, <1>2, MoveAcross DEF Undo
  <2>2. (undoStack \o Reversed(redoStack))' = undoStack \o Reversed(redoStack)
    BY <1>2, <2>1 DEF Undo, Joined, Reversed
  <2>3. Len(undoStack') = Len(undoStack) - 1 /\ Len(undoStack) > 0
    BY <1>1, <1>2, PoppedSeq DEF Undo
  <2> QED  BY <2>2, <2>3 DEF Timeline!Undo
<1>3. ASSUME Redo  PROVE Timeline!Redo
  <2> DEFINE u == Append(undoStack, Top(redoStack))
             r == Popped(redoStack)
  <2>1. r \in Seq(Command) /\ Top(redoStack) \in Command
    BY <1>3, PoppedStack DEF Redo, DrawnOK, StackOK
  <2>2. u \in Seq(Command) /\ u # <<>> /\ Len(u) = Len(undoStack) + 1 /\ Top(u) = Top(redoStack)
    BY <1>1, <2>1 DEF Top
  <2>3. Popped(u) = undoStack
    <3>0. \A i \in 1..Len(undoStack) : u[i] = undoStack[i]
      BY <1>1, <2>1
    <3> HIDE DEF u
    <3>1. /\ Popped(u) \in Seq(Command) /\ Len(Popped(u)) = Len(undoStack)
          /\ \A i \in 1..Len(undoStack) : Popped(u)[i] = undoStack[i]
      <4>1. /\ Popped(u) \in Seq(Command) /\ Len(Popped(u)) = Len(u) - 1
            /\ \A i \in 1..(Len(u) - 1) : Popped(u)[i] = u[i]
        BY <2>2, PoppedSeq
      <4>2. Len(u) - 1 = Len(undoStack)
        BY <1>1, <2>2
      <4> QED  BY <3>0, <4>1, <4>2
    <3> QED  BY <1>1, <3>1, SeqEqual
  <2>4. Append(r, Top(redoStack)) = redoStack
    <3>0. /\ Len(r) = Len(redoStack) - 1 /\ Len(redoStack) > 0
          /\ \A i \in 1..(Len(redoStack) - 1) : r[i] = redoStack[i]
          /\ Top(redoStack) = redoStack[Len(redoStack)]
      BY <1>1, <1>3, PoppedSeq DEF Redo, Top
    <3> HIDE DEF r
    <3>1. /\ Append(r, Top(redoStack)) \in Seq(Command)
          /\ Len(Append(r, Top(redoStack))) = Len(redoStack)
          /\ \A i \in 1..Len(redoStack) : Append(r, Top(redoStack))[i] = redoStack[i]
      BY <1>1, <2>1, <3>0
    <3> QED  BY <1>1, <3>1, SeqEqual
  <2>5. Joined(undoStack, redoStack) = Joined(u, r)
    <3> HIDE DEF u, r
    <3> QED  BY <2>1, <2>2, <2>3, <2>4, MoveAcross
  <2>6. (undoStack \o Reversed(redoStack))' = undoStack \o Reversed(redoStack)
    BY <1>3, <2>5 DEF Redo, Joined, Reversed
  <2>7. Len(undoStack') = Len(undoStack) + 1
    BY <1>3, <2>2 DEF Redo
  <2>8. Len(redoStack) > 0 /\ Len(undoStack \o Reversed(redoStack)) = Len(undoStack) + Len(redoStack)
    BY <1>1, <1>3, JoinedElements DEF Redo, Joined
  <2> QED  BY <1>1, <2>6, <2>7, <2>8 DEF Timeline!Redo
<1>4. ASSUME PushStep, stackVars' # stackVars  PROVE Timeline!Do
  <2>1. ASSUME Push("clear", store)  PROVE Timeline!Do
    BY <2>1, PushIsDo, PushedCommandOK DEF DrawnOK
  <2>2. ASSUME NEW a \in store, Push("remove", {a})  PROVE Timeline!Do
    <3>1. a \in Annotation
      BY DEF DrawnOK, StoreTypeOK
    <3> QED  BY <2>2, <3>1, PushIsDo, PushedCommandOK DEF DrawnOK
  <2>3. ASSUME NEW kind \in Kinds, NEW mark \in Nat, AddDrawing(kind, mark)
        PROVE  Timeline!Do
    <3> DEFINE a == [id |-> nextId, kind |-> kind, mark |-> mark]
    <3>1. a \in Annotation /\ Push("add", {a})
      BY <2>3 DEF DrawnOK, StoreTypeOK, Annotation, AddDrawing
    <3> HIDE DEF a
    <3> QED  BY <3>1, PushIsDo, PushedCommandOK DEF DrawnOK
  <2> QED  BY <1>4, <2>1, <2>2, <2>3, PushSteps
<1>5. CASE UNCHANGED stackVars
  BY <1>5 DEF stackVars, Reversed
<1> QED  BY <1>2, <1>3, <1>4, <1>5, OtherSteps DEF Timeline!Next

\* The undo and redo stacks implement a timeline of at most MAX_STACK_SIZE
\* commands with a cursor in it.
THEOREM StacksAreATimeline == Spec => TimelineSpec
<1>1. Init => Timeline!Init
  BY DEF Init, Timeline!Init, Reversed
<1>2. DrawnOK /\ ModeTypeOK /\ HistoryBounded /\ [Next]_vars
        => [Timeline!Next]_<<undoStack \o Reversed(redoStack), Len(undoStack)>>
  BY TimelineStep
<1> QED  BY <1>1, <1>2, DrawnInvariant, HistoryIsBounded, PTL
         DEF Spec, TimelineSpec, Timeline!Spec

-----------------------------------------------------------------------------
(***************************************************************************)
(* The windows the layout lists and the views that hide them.              *)
(***************************************************************************)

LEMMA TablesAreViews ==
  ASSUME NEW names \in SUBSET Views, NEW f \in [names -> SUBSET Classes]
  PROVE  f \in ViewTable
BY DEF ViewTable

LEMMA ViewsAreTables ==
  ASSUME NEW f \in ViewTable
  PROVE  DOMAIN f \subseteq Views /\ f \in [DOMAIN f -> SUBSET Classes]
<1> PICK names \in SUBSET Views : f \in [names -> SUBSET Classes]
  BY DEF ViewTable
<1> QED  OBVIOUS

LEMMA RestoredTyped ==
  ASSUME NEW f \in ViewTable  PROVE Restored(f) \in ViewTable
<1> DEFINE names == {n \in DOMAIN f : f[n] # {}}
<1>1. names \in SUBSET Views /\ \A n \in names : f[n] \in SUBSET Classes
  BY ViewsAreTables
<1>2. Restored(f) \in [names -> SUBSET Classes]
  BY <1>1 DEF Restored
<1> QED  BY <1>1, <1>2, TablesAreViews

LEMMA ListedClasses == {ClassOf[w] : w \in Listed} \in SUBSET Classes
BY ClassAssumption DEF Listed

LEMMA SaveTyped ==
  ASSUME saved \in SavedViews, NEW table \in ViewTable,
         NEW name \in Views \cup {All}, ScheduleSave(table, name)
  PROVE  saved' \in SavedViews
BY DEF ScheduleSave, SavedViews

\* The two calls into the layout keep the types of the list and of the file.
LEMMA LayoutCallsTyped ==
  ASSUME ListTypeOK, NEW w \in Windows, CreatedTiling(w) \/ RemovedTiling(w)
  PROVE  entries' \in [Windows -> Nat] /\ saved' \in SavedViews
<1>1. CASE layout = "canvas"
  <2>1. saved' \in SavedViews
    BY <1>1, SaveTyped DEF ListTypeOK, CreatedTiling, RemovedTiling
  <2> QED  BY <1>1, <2>1 DEF ListTypeOK, CreatedTiling, RemovedTiling
<1>2. CASE layout # "canvas"
  BY <1>2 DEF ListTypeOK, CreatedTiling, RemovedTiling
<1> QED  BY <1>1, <1>2

LEMMA ListTypeStep == ASSUME ListTypeOK, [ListNext]_listVars  PROVE ListTypeOK'
<1> USE DEF ListTypeOK, viewVars
<1>1. ASSUME NEW w \in Windows, Map(w)  PROVE ListTypeOK'
  <2>1. entries' \in [Windows -> Nat] /\ saved' \in SavedViews
    BY <1>1, LayoutCallsTyped DEF Map
  <2> QED  BY <1>1, <2>1 DEF Map
<1>2. ASSUME NEW w \in Windows, Unmap(w)  PROVE ListTypeOK'
  <2>1. entries' \in [Windows -> Nat] /\ saved' \in SavedViews
    BY <1>2, LayoutCallsTyped DEF Unmap
  <2> QED  BY <1>2, <2>1 DEF Unmap
<1>3. ASSUME NEW w \in Windows, Destroy(w)  PROVE ListTypeOK'
  BY <1>3 DEF Destroy
<1>4. ASSUME NEW w \in Windows, ToggleFloating(w)  PROVE ListTypeOK'
  <2>1. entries' \in [Windows -> Nat] /\ saved' \in SavedViews
    BY <1>4, LayoutCallsTyped DEF ToggleFloating
  <2> QED  BY <1>4, <2>1 DEF ToggleFloating
<1>5. ASSUME NEW w \in Windows, MoveToWorkspace(w)  PROVE ListTypeOK'
  <2>1. saved' \in SavedViews
    BY <1>5, SaveTyped DEF MoveToWorkspace
  <2> QED  BY <1>5, <2>1 DEF MoveToWorkspace
<1>6. ASSUME NEW w \in Windows, Focus(w)  PROVE ListTypeOK'
  BY <1>6 DEF Focus
<1>7. ASSUME NEW name \in Views, CreateView(name)  PROVE ListTypeOK'
  <2>1. DOMAIN views \cup {name} \in SUBSET Views
    BY ViewsAreTables
  <2>2. views' \in [DOMAIN views \cup {name} -> SUBSET Classes]
    BY <1>7, ViewsAreTables, ListedClasses DEF CreateView
  <2>3. views' \in ViewTable
    BY <2>1, <2>2, TablesAreViews
  <2>4. saved' \in SavedViews
    BY <1>7, <2>3, SaveTyped DEF CreateView
  <2> QED  BY <1>7, <2>3, <2>4 DEF CreateView
<1>8. ASSUME NEW name \in Views \cup {All}, SwitchView(name)  PROVE ListTypeOK'
  <2>1. saved' \in SavedViews
    BY <1>8, SaveTyped DEF SwitchView
  <2>2. hidden' \subseteq Windows /\ focused' \in Windows \cup {NoWindow}
    BY <1>8 DEF SwitchView, Listed
  <2> QED  BY <1>8, <2>1, <2>2 DEF SwitchView
<1>9. CASE SaveOnly
  BY <1>9, SaveTyped DEF SaveOnly
<1>10. CASE LeaveCanvas
  <2>1. saved' \in SavedViews
    BY <1>10, SaveTyped DEF LeaveCanvas
  <2>2. switches' \in 0..MaxSwitches
    BY <1>10, SwitchesAssumption DEF LeaveCanvas
  <2> QED  BY <1>10, <2>1, <2>2 DEF LeaveCanvas
<1>11. CASE EnterCanvas
  <2>1. views' \in ViewTable /\ activeView' \in Views \cup {All}
    BY <1>11, RestoredTyped DEF EnterCanvas, SavedViews
  <2>2. saved' \in SavedViews
    BY <1>11, <2>1, SaveTyped DEF EnterCanvas
  <2>3. switches' \in 0..MaxSwitches
    BY <1>11, SwitchesAssumption DEF EnterCanvas
  <2> QED  BY <1>11, <2>1, <2>2, <2>3 DEF EnterCanvas, Tiled
<1>12. CASE UNCHANGED listVars
  BY <1>12 DEF listVars
<1> QED  BY <1>1, <1>2, <1>3, <1>4, <1>5, <1>6, <1>7, <1>8, <1>9,
            <1>10, <1>11, <1>12 DEF ListNext

\* The variables keep their types; the file holds a table of views whatever
\* was saved and reloaded.
THEOREM ListTypeCorrect == ListSpec => []ListTypeOK
<1>1. ASSUME ListInit  PROVE ListTypeOK
  <2>1. views \in ViewTable /\ activeView \in Views \cup {All}
    BY <1>1, RestoredTyped DEF ListInit, SavedViews
  <2> QED  BY <1>1, <2>1, SwitchesAssumption DEF ListInit, ListTypeOK
<1>2. ListTypeOK /\ [ListNext]_listVars => ListTypeOK'
  BY ListTypeStep
<1> QED  BY <1>1, <1>2, PTL DEF ListSpec

-----------------------------------------------------------------------------
(***************************************************************************)
(* The list.  That another layout finds no entries is what makes the list  *)
(* right again, for windows other than the strays, when the canvas is      *)
(* enabled, so the two facts are one induction.                            *)
(***************************************************************************)

ListOK == ListKeepsTheTiled /\ ListIsTheCanvases

LEMMA ListStep ==
  ASSUME ListTypeOK, ListOK, [ListNext]_listVars  PROVE ListOK'
<1> USE DEF ListOK, ListKeepsTheTiled, ListIsTheCanvases, Listed, Tiled, ListTypeOK
<1>1. ASSUME NEW w \in Windows, Map(w)  PROVE ListOK'
  BY <1>1 DEF Map, CreatedTiling
<1>2. ASSUME NEW w \in Windows, Unmap(w)  PROVE ListOK'
  BY <1>2 DEF Unmap, RemovedTiling
<1>3. ASSUME NEW w \in Windows, Destroy(w)  PROVE ListOK'
  BY <1>3 DEF Destroy
<1>4. ASSUME NEW w \in Windows, ToggleFloating(w)  PROVE ListOK'
  <2>1. w \in mapped
    BY <1>4 DEF ToggleFloating, Reachable
  <2>2. CASE layout = "canvas"
    BY <1>4, <2>1, <2>2 DEF ToggleFloating, CreatedTiling, RemovedTiling
  <2>3. CASE layout # "canvas"
    BY <1>4, <2>3 DEF ToggleFloating, CreatedTiling, RemovedTiling
  <2> QED  BY <2>2, <2>3
<1>5. ASSUME NEW w \in Windows, MoveToWorkspace(w)  PROVE ListOK'
  BY <1>5 DEF MoveToWorkspace
<1>6. ASSUME NEW w \in Windows, Focus(w)  PROVE ListOK'
  BY <1>6 DEF Focus
<1>7. CASE SaveOnly
  BY <1>7 DEF SaveOnly
<1>8. ASSUME NEW name \in Views, CreateView(name)  PROVE ListOK'
  BY <1>8 DEF CreateView
<1>9. ASSUME NEW name \in Views \cup {All}, SwitchView(name)  PROVE ListOK'
  BY <1>9 DEF SwitchView
<1>10. CASE LeaveCanvas
  BY <1>10 DEF LeaveCanvas
<1>11. CASE EnterCanvas
  BY <1>11 DEF EnterCanvas
<1>12. CASE UNCHANGED listVars
  BY <1>12 DEF listVars, viewVars
<1> QED  BY <1>1, <1>2, <1>3, <1>4, <1>5, <1>6, <1>7, <1>8, <1>9, <1>10, <1>11,
            <1>12 DEF ListNext

LEMMA ListInvariant == ListSpec => []ListOK
<1>1. ListInit => ListOK
  BY DEF ListInit, ListOK, ListKeepsTheTiled, ListIsTheCanvases, Listed, Tiled
<1>2. ListTypeOK /\ ListOK /\ [ListNext]_listVars => ListOK'
  BY ListStep
<1> QED  BY <1>1, <1>2, ListTypeCorrect, PTL DEF ListSpec

\* m_windows names each tiled window exactly once and no other window, but for
\* windows an enabling of the canvas found tiled already.
THEOREM TheListKeepsTheTiled == ListSpec => []ListKeepsTheTiled
BY ListInvariant, PTL DEF ListOK

\* Under another layout the list is empty.
THEOREM TheListIsTheCanvases == ListSpec => []ListIsTheCanvases
BY ListInvariant, PTL DEF ListOK

LEMMA FilterStep ==
  ASSUME ListTypeOK, ListOK, NEW name, SwitchView(name), layout = "canvas",
         NEW w \in Tiled \ strays
  PROVE  w \in hidden' <=> ~InView(w, name)
<1>1. w \in Listed
  BY DEF ListOK, ListKeepsTheTiled, Listed, Tiled, ListTypeOK
<1> QED  BY <1>1 DEF SwitchView

\* Switching to a view decides for every tiled window, and only by its class.
THEOREM ViewsAreFilters == ListSpec => ViewsFilter
<1>1. ListTypeOK /\ ListOK /\ [ListNext]_listVars =>
        [\A name \in Views \cup {All} : SwitchView(name) /\ layout = "canvas" =>
           \A w \in Tiled \ strays : w \in hidden' <=> ~InView(w, name)]_listVars
  BY FilterStep
<1> QED  BY <1>1, ListTypeCorrect, ListInvariant, PTL DEF ListSpec, ViewsFilter
=============================================================================
