------------------------ MODULE CanvasDragging_proofs ------------------------
(***************************************************************************)
(* Proofs about the two modules that move windows: CanvasFrames, for every *)
(* set of windows, places and sizes and every number of frames and         *)
(* commands, and CanvasSnap, for every set of boxes, view, gap and number  *)
(* of other windows and of passes.                                         *)
(***************************************************************************)
EXTENDS CanvasFrames, CanvasSnap, SequenceTheorems, FiniteSetTheorems,
        WellFoundedInduction, TLAPS

-----------------------------------------------------------------------------
(* The active frame.                                                        *)

IsFrame(f) == f = [id |-> f.id, place |-> f.place, windows |-> f.windows]

\* frames is a sequence of frames; of what is in a frame nothing is said.
FramesOK == \E S : frames \in Seq(S) /\ \A f \in S : IsFrame(f)

\* A frame changed in place, but for its id, leaves the ids where they are.
LEMMA ExceptKeepsIds ==
  ASSUME FramesOK, NEW i \in DOMAIN frames, NEW f, IsFrame(f),
         f.id = frames[i].id, frames' = [frames EXCEPT ![i] = f]
  PROVE  /\ FramesOK'
         /\ DOMAIN frames' = DOMAIN frames
         /\ \A j \in DOMAIN frames : frames'[j].id = frames[j].id
         /\ frames' = <<>> <=> frames = <<>>
<1>1. PICK S : frames \in Seq(S) /\ \A g \in S : IsFrame(g)
  BY DEF FramesOK
<1> DEFINE T == S \cup {f}
<1>2. frames' \in Seq(T) /\ \A g \in T : IsFrame(g)
  BY <1>1
<1>3. DOMAIN frames' = DOMAIN frames
      /\ \A j \in DOMAIN frames : frames'[j].id = frames[j].id
  BY <1>1
<1>4. frames # <<>> /\ frames' # <<>>
  BY <1>1, <1>2, <1>3
<1>5. FramesOK'
  BY <1>2 DEF FramesOK
<1> QED  BY <1>3, <1>4, <1>5

LEMMA ExceptWindows ==
  ASSUME NEW f, IsFrame(f), NEW list
  PROVE  [f EXCEPT !.windows = list] = [id |-> f.id, place |-> f.place, windows |-> list]
<1> DEFINE id == f.id
           place == f.place
           windows == f.windows
<1>1. f = [id |-> id, place |-> place, windows |-> windows]
  BY DEF IsFrame
<1> HIDE DEF id, place, windows
<1>2. [f EXCEPT !.windows = list] = [id |-> id, place |-> place, windows |-> list]
  BY <1>1
<1> QED  BY <1>2 DEF id, place

LEMMA ExceptPlace ==
  ASSUME NEW f, IsFrame(f), NEW place
  PROVE  [f EXCEPT !.place = place] = [id |-> f.id, place |-> place, windows |-> f.windows]
<1> DEFINE id == f.id
           old == f.place
           windows == f.windows
<1>1. f = [id |-> id, place |-> old, windows |-> windows]
  BY DEF IsFrame
<1> HIDE DEF id, old, windows
<1>2. [f EXCEPT !.place = place] = [id |-> id, place |-> place, windows |-> windows]
  BY <1>1
<1> QED  BY <1>2 DEF id, windows

LEMMA AssignKeepsIds ==
  ASSUME FramesOK, NEW i \in DOMAIN frames, NEW w, NEW boxes,
         AssignWindow(i, w, boxes)
  PROVE  /\ FramesOK'
         /\ DOMAIN frames' = DOMAIN frames
         /\ \A j \in DOMAIN frames : frames'[j].id = frames[j].id
         /\ frames' = <<>> <=> frames = <<>>
<1> DEFINE list == Append(Kept(frames[i].windows, Windows \ {w}), w)
           f == [id |-> frames[i].id, place |-> frames[i].place, windows |-> list]
<1>1. IsFrame(frames[i])
  <2> PICK S : frames \in Seq(S) /\ \A g \in S : IsFrame(g)
    BY DEF FramesOK
  <2> QED  OBVIOUS
<1>2. frames' = [frames EXCEPT ![i].windows = list]
  BY DEF AssignWindow
<1> HIDE DEF list
<1>3. frames' = [frames EXCEPT ![i] = f]
  <2>1. [frames[i] EXCEPT !.windows = list] = f
    BY <1>1, ExceptWindows
  <2>2. frames' = [frames EXCEPT ![i] = [frames[i] EXCEPT !.windows = list]]
    BY <1>2
  <2> QED  BY <2>1, <2>2
<1>4. IsFrame(f) /\ f.id = frames[i].id
  BY DEF IsFrame
<1> QED  BY <1>3, <1>4, ExceptKeepsIds

LEMMA FramesAreASeq ==
  ASSUME FramesOK
  PROVE  /\ Len(frames) \in Nat /\ DOMAIN frames = 1..Len(frames)
         /\ frames # <<>> => Len(frames) \in DOMAIN frames
         /\ \A i \in DOMAIN frames : IsFrame(frames[i])
<1>1. PICK S : frames \in Seq(S) /\ \A f \in S : IsFrame(f)
  BY DEF FramesOK
<1> QED  BY <1>1

\* A frame dropped into becomes the active one.
LEMMA DropKeepsActive ==
  ASSUME FramesOK, ActiveFrameExists, NEW w, NEW b, AssignIfInside(w, b)
  PROVE  FramesOK' /\ ActiveFrameExists'
<1> DEFINE inside == FramesAt(Centre(b))
<1>1. PICK i \in inside : AssignWindow(i, w, [box EXCEPT ![w] = b]) /\ activeId' = frames[i].id
  BY DEF AssignIfInside
<1>2. i \in DOMAIN frames
  BY DEF FramesAt
<1>3. FramesOK' /\ DOMAIN frames' = DOMAIN frames /\ frames'[i].id = frames[i].id
      /\ frames' # <<>>
  <2>1. frames # <<>>
    BY <1>2, FramesAreASeq
  <2> QED  BY <1>1, <1>2, <2>1, AssignKeepsIds
<1> QED  BY <1>1, <1>2, <1>3 DEF ActiveFrameExists

\* So does the frame that was made last when the active one is deleted.
LEMMA DeleteKeepsActive ==
  ASSUME FramesOK, ActiveFrameExists, DeleteFrame
  PROVE  FramesOK' /\ ActiveFrameExists'
<1>1. PICK S : frames \in Seq(S) /\ \A f \in S : IsFrame(f)
  BY DEF FramesOK
<1>2. Len(frames) \in Nat \ {0} /\ DOMAIN frames = 1..Len(frames)
  BY <1>1 DEF DeleteFrame
<1>3. Active \in DOMAIN frames /\ frames[Active].id = activeId
  BY <1>2 DEF ActiveFrameExists, Active, DeleteFrame
<1>4. frames' \in Seq(S) /\ Len(frames') = Len(frames) - 1
  BY <1>1, <1>2 DEF DeleteFrame, Without
<1>5. activeId' = IF frames' = <<>> THEN 0 ELSE frames'[Len(frames')].id
  BY <1>3 DEF DeleteFrame
<1>6. frames' # <<>> => Len(frames') \in DOMAIN frames'
  BY <1>4
<1> QED  BY <1>1, <1>4, <1>5, <1>6 DEF FramesOK, ActiveFrameExists

LEMMA ActiveStep ==
  ASSUME FramesOK, ActiveFrameExists, [Next]_vars
  PROVE  FramesOK' /\ ActiveFrameExists'
<1>1. CASE UNCHANGED frameVars
  BY <1>1 DEF FramesOK, ActiveFrameExists, frameVars
<1>2. CASE CreateFrame
  <2>1. PICK S : frames \in Seq(S) /\ \A f \in S : IsFrame(f)
    BY DEF FramesOK
  <2>2. PICK place \in FramePlaces :
          frames' = Append(frames, [id |-> nextId, place |-> place, windows |-> <<>>])
    BY <1>2 DEF CreateFrame
  <2> DEFINE f == [id |-> nextId, place |-> place, windows |-> <<>>]
             T == S \cup {f}
  <2>3. frames \in Seq(T) /\ f \in T /\ \A g \in T : IsFrame(g)
    BY <2>1 DEF IsFrame
  <2> HIDE DEF T
  <2>4. /\ frames' \in Seq(T)
        /\ Len(frames) + 1 \in DOMAIN frames'
        /\ frames'[Len(frames) + 1] = f
    BY <2>2, <2>3
  <2>5. frames' # <<>>
    BY <2>4
  <2>6. activeId' = frames'[Len(frames) + 1].id
    BY <1>2, <2>4 DEF CreateFrame
  <2> QED  BY <2>3, <2>4, <2>5, <2>6 DEF FramesOK, ActiveFrameExists
<1>3. CASE DeleteFrame
  BY <1>3, DeleteKeepsActive
<1>4. CASE MoveFrame
  <2>1. PICK i \in DOMAIN frames, place \in FramePlaces :
          frames' = [frames EXCEPT ![i].place = place]
    BY <1>4 DEF MoveFrame
  <2> DEFINE f == [id |-> frames[i].id, place |-> place, windows |-> frames[i].windows]
  <2>2. [frames[i] EXCEPT !.place = place] = f
    BY FramesAreASeq, ExceptPlace
  <2>3. frames' = [frames EXCEPT ![i] = f] /\ IsFrame(f) /\ f.id = frames[i].id
    BY <2>1, <2>2 DEF IsFrame
  <2>4. FramesOK' /\ DOMAIN frames' = DOMAIN frames
        /\ (\A j \in DOMAIN frames : frames'[j].id = frames[j].id)
        /\ (frames' = <<>> <=> frames = <<>>)
    BY <2>3, ExceptKeepsIds
  <2>5. UNCHANGED activeId
    BY <1>4 DEF MoveFrame
  <2> QED  BY <2>4, <2>5 DEF ActiveFrameExists
<1>5. ASSUME NEW w \in Windows, AssignFocused(w)
      PROVE  FramesOK' /\ ActiveFrameExists'
  <2>1. Active \in DOMAIN frames
    BY <1>5, FramesAreASeq DEF ActiveFrameExists, Active, AssignFocused
  <2>2. AssignWindow(Active, w, box) /\ UNCHANGED activeId
    BY <1>5 DEF AssignFocused
  <2>3. FramesOK' /\ DOMAIN frames' = DOMAIN frames
        /\ (\A j \in DOMAIN frames : frames'[j].id = frames[j].id)
        /\ (frames' = <<>> <=> frames = <<>>)
    BY <2>1, <2>2, AssignKeepsIds
  <2> QED  BY <2>2, <2>3 DEF ActiveFrameExists
<1>6. ASSUME NEW w \in Windows, NEW b, AssignIfInside(w, b)
      PROVE  FramesOK' /\ ActiveFrameExists'
  BY <1>6, DropKeepsActive
<1>7. ASSUME NEW w \in Windows, Destroy(w)
      PROVE  FramesOK' /\ ActiveFrameExists'
  <2> DEFINE f(i) == [frames[i] EXCEPT !.windows =
                        Kept(frames[i].windows, Windows \ {w})]
  <2>1. frames' = [i \in DOMAIN frames |-> f(i)] /\ UNCHANGED activeId
    BY <1>7 DEF Destroy
  <2>2. ASSUME NEW i \in DOMAIN frames  PROVE IsFrame(f(i)) /\ f(i).id = frames[i].id
    <3> DEFINE list == Kept(frames[i].windows, Windows \ {w})
    <3> HIDE DEF list
    <3>1. [frames[i] EXCEPT !.windows = list]
            = [id |-> frames[i].id, place |-> frames[i].place, windows |-> list]
      BY <2>2, FramesAreASeq, ExceptWindows
    <3>2. /\ IsFrame([frames[i] EXCEPT !.windows = list])
          /\ [frames[i] EXCEPT !.windows = list].id = frames[i].id
      BY <3>1 DEF IsFrame
    <3> QED  BY <3>2 DEF list
  <2> HIDE DEF f
  <2>3. DOMAIN frames' = DOMAIN frames
        /\ \A i \in DOMAIN frames : IsFrame(frames'[i]) /\ frames'[i].id = frames[i].id
    BY <2>1, <2>2
  <2> DEFINE T == {f(i) : i \in DOMAIN frames}
  <2>4. Len(frames) \in Nat /\ DOMAIN frames = 1..Len(frames)
    BY FramesAreASeq
  <2>5. frames' \in Seq(T) /\ (frames' = <<>> <=> frames = <<>>)
    <3>1. frames' \in [1..Len(frames) -> T]
      BY <2>1, <2>4
    <3>2. frames' \in Seq(T) /\ Len(frames') = Len(frames)
      BY <3>1, <2>4, IsASeq
    <3>3. frames = <<>> <=> Len(frames) = 0
      BY <2>4, FramesAreASeq
    <3> QED  BY <3>2, <3>3, <2>4
  <2>6. \A g \in T : IsFrame(g)
    BY <2>2
  <2>7. FramesOK'
    BY <2>5, <2>6 DEF FramesOK
  <2> QED  BY <2>1, <2>3, <2>5, <2>7 DEF ActiveFrameExists
<1>8. ASSUME Drop  PROVE FramesOK' /\ ActiveFrameExists'
  <2>1. CASE UNCHANGED frameVars
    BY <2>1, <1>1
  <2>2. CASE AssignIfInside(drag.window, box[drag.window])
    BY <2>2, DropKeepsActive
  <2> QED  BY <1>8, <2>1, <2>2 DEF Drop, StayOutside
<1> QED  BY <1>1, <1>2, <1>3, <1>4, <1>5, <1>6, <1>7, <1>8
     DEF Next, vars, BeginFrameDrag, EndFrameDrag, BeginDrag, DragTo, EndDrag,
         Map, StayOutside, Unmap, Adjust, Undo, Redo

\* While there are frames one of them is active.
THEOREM AFrameIsActive == Spec => []ActiveFrameExists
<1>1. Init => FramesOK /\ ActiveFrameExists
  <2> SUFFICES ASSUME Init  PROVE FramesOK /\ ActiveFrameExists
    OBVIOUS
  <2>1. frames = <<>> /\ activeId = 0
    BY DEF Init
  <2>2. frames \in Seq({})
    BY <2>1
  <2> QED  BY <2>1, <2>2 DEF FramesOK, ActiveFrameExists
<1>2. FramesOK /\ ActiveFrameExists /\ [Next]_vars => FramesOK' /\ ActiveFrameExists'
  BY ActiveStep
<1> QED  BY <1>1, <1>2, PTL DEF Spec

-----------------------------------------------------------------------------
(* Drags.                                                                   *)

LEMMA DragStep ==
  ASSUME DraggedIsMapped, [Next]_vars  PROVE DraggedIsMapped'
<1>1. ASSUME NEW w \in Windows, Unmap(w)  PROVE DraggedIsMapped'
  BY <1>1 DEF Unmap, Drop, DraggedIsMapped
<1>2. ASSUME NEW w \in Windows, BeginDrag(w)  PROVE DraggedIsMapped'
  BY <1>2 DEF BeginDrag, DraggedIsMapped
<1>3. CASE EndDrag
  BY <1>3 DEF EndDrag, Drop, DraggedIsMapped
<1>4. CASE mapped \subseteq mapped' /\ UNCHANGED drag
  BY <1>4 DEF DraggedIsMapped
<1> QED  BY <1>1, <1>2, <1>3, <1>4
     DEF Next, vars, CreateFrame, DeleteFrame, BeginFrameDrag, MoveFrame,
         EndFrameDrag, DragTo, Undo, Redo, Map, Destroy, Adjust, AssignFocused

\* No drag outlives its window.
THEOREM DragsEndWithTheirWindow == Spec => []DraggedIsMapped
<1>1. Init => DraggedIsMapped
  BY DEF Init, DraggedIsMapped
<1>2. DraggedIsMapped /\ [Next]_vars => DraggedIsMapped'
  BY DragStep
<1> QED  BY <1>1, <1>2, PTL DEF Spec

\* getActiveFrame finds a frame while there is one, and the window of a drag
\* is there, whenever frames and windows come and go.
THEOREM NothingIsLeftDangling == Spec => []NothingDangles
<1>1. ActiveFrameExists /\ DraggedIsMapped => NothingDangles
  BY DEF NothingDangles
<1> QED  BY <1>1, AFrameIsActive, DragsEndWithTheirWindow, PTL

-----------------------------------------------------------------------------
(* Undoing a drag.                                                          *)

IsBox(b) == b = [x |-> b.x, y |-> b.y, w |-> b.w, h |-> b.h]
AreBoxes(f) == f = [w \in Windows |-> f[w]] /\ \A w \in Windows : IsBox(f[w])
IsCommand(c) ==
  /\ c = [window |-> c.window, resize |-> c.resize, old |-> c.old, new |-> c.new]
  /\ IsBox(c.old) /\ IsBox(c.new)

BoxesOK ==
  /\ AreBoxes(box)
  /\ drag # NoDrag => drag.window \in Windows /\ IsBox(drag.start)

StacksOK ==
  \E S : /\ undoStack \in Seq(S) /\ redoStack \in Seq(S)
         /\ \A c \in S : IsCommand(c)

\* While a drag is the last thing done, its command is on top.
LastDragOnTop ==
  lastDrag # NoDrag =>
    /\ undoStack # <<>> /\ lastDrag.window \in Windows
    /\ LET command == undoStack[Len(undoStack)]
       IN /\ command.window = lastDrag.window
          /\ command.resize = (lastDrag.mode \in Corners)
          /\ command.old = lastDrag.start

LEMMA MovedLiteral ==
  ASSUME NEW x, NEW y, NEW w, NEW h, NEW place
  PROVE  MovedTo([x |-> x, y |-> y, w |-> w, h |-> h], place)
           = [x |-> place.x, y |-> place.y, w |-> w, h |-> h]
<1> DEFINE b == [x |-> x, y |-> y, w |-> w, h |-> h]
           c == [b EXCEPT !.x = place.x]
<1>1. [b EXCEPT !.x = place.x, !.y = place.y] = [c EXCEPT !.y = place.y]
  OBVIOUS
<1>2. c = [x |-> place.x, y |-> y, w |-> w, h |-> h]
  OBVIOUS
<1> HIDE DEF c
<1>3. [c EXCEPT !.y = place.y] = [x |-> place.x, y |-> place.y, w |-> w, h |-> h]
  BY <1>2
<1> QED  BY <1>1, <1>3 DEF MovedTo

\* A box that is moved is a box, and is where it was moved.
LEMMA MovedIsBox ==
  ASSUME NEW b, IsBox(b), NEW place
  PROVE  IsBox(MovedTo(b, place)) /\ PlaceOf(MovedTo(b, place)) = PlaceOf(place)
<1> DEFINE x == b.x
           y == b.y
           w == b.w
           h == b.h
<1>1. b = [x |-> x, y |-> y, w |-> w, h |-> h]
  BY DEF IsBox
<1> HIDE DEF x, y, w, h
<1>2. MovedTo(b, place) = MovedTo([x |-> x, y |-> y, w |-> w, h |-> h], place)
  BY <1>1
<1>3. MovedTo(b, place) = [x |-> place.x, y |-> place.y, w |-> w, h |-> h]
  BY <1>2, MovedLiteral
<1> QED  BY <1>3 DEF IsBox, PlaceOf

LEMMA NewBoxes ==
  ASSUME NEW b, NEW corner, NEW request, NEW place, NEW size
  PROVE  IsBox(Resized(b, corner, request)) /\ IsBox(At(place, size))
BY DEF IsBox, Resized, At

LEMMA TileIsBox ==
  ASSUME NEW f, NEW i, NEW n  PROVE IsBox(Tile(f, i, n))
BY DEF IsBox, Tile

LEMMA ExceptBox ==
  ASSUME NEW boxes, AreBoxes(boxes), NEW w, NEW b, IsBox(b)
  PROVE  AreBoxes([boxes EXCEPT ![w] = b])
<1> DEFINE new == [boxes EXCEPT ![w] = b]
<1>1. new = [v \in Windows |-> IF v = w THEN b ELSE boxes[v]]
  BY DEF AreBoxes
<1> HIDE DEF new
<1>2. \A v \in Windows : new[v] = IF v = w THEN b ELSE boxes[v]
  BY <1>1
<1>3. new = [v \in Windows |-> new[v]]
  BY <1>1
<1>4. AreBoxes(new)
  BY <1>2, <1>3 DEF AreBoxes
<1> QED  BY <1>4 DEF new

LEMMA AssignedBoxes ==
  ASSUME NEW boxes, AreBoxes(boxes), NEW i, NEW w, AssignWindow(i, w, boxes)
  PROVE  AreBoxes(box')
<1> DEFINE list == Append(Kept(frames[i].windows, Windows \ {w}), w)
           f == frames[i]
           live == mapped \cup {w}
<1>1. box' = Retiled(f, list, boxes, live)
  BY DEF AssignWindow
<1> HIDE DEF list, f, live
<1>2. AreBoxes(Retiled(f, list, boxes, live))
  <2> DEFINE shown == Kept(list, live)
             last(v) == CHOOSE k \in DOMAIN shown :
                          shown[k] = v /\ \A j \in DOMAIN shown : shown[j] = v => j <= k
             new == [v \in Windows |-> IF \E k \in DOMAIN shown : shown[k] = v
                                       THEN Tile(f, last(v), Len(shown)) ELSE boxes[v]]
  <2>1. Retiled(f, list, boxes, live) = new
    BY DEF Retiled
  <2> HIDE DEF shown, last
  <2>2. ASSUME NEW v \in Windows  PROVE IsBox(new[v])
    <3>1. IsBox(Tile(f, last(v), Len(shown))) /\ IsBox(boxes[v])
      BY TileIsBox DEF AreBoxes
    <3> QED  BY <3>1
  <2> QED  BY <2>1, <2>2 DEF AreBoxes
<1> QED  BY <1>1, <1>2

\* The box of one window is changed.
LEMMA OneBox ==
  ASSUME AreBoxes(box), NEW w, NEW b, IsBox(b), box' = [box EXCEPT ![w] = b]
  PROVE  AreBoxes(box')
BY ExceptBox

\* A window is put where it was dropped or created, in a frame or outside.
LEMMA PlacedBoxes ==
  ASSUME AreBoxes(box), NEW w, NEW b, IsBox(b), NEW boxes,
         \A other \in boxes : IsBox(other),
         AssignIfInside(w, b) \/ StayOutside(w, b, boxes)
  PROVE  AreBoxes(box')
<1>1. CASE AssignIfInside(w, b)
  <2>1. PICK i : AssignWindow(i, w, [box EXCEPT ![w] = b])
    BY <1>1 DEF AssignIfInside
  <2>2. AreBoxes([box EXCEPT ![w] = b])
    BY ExceptBox
  <2> QED  BY <2>1, <2>2, AssignedBoxes
<1>2. CASE StayOutside(w, b, boxes)
  <2>1. PICK other \in boxes : box' = [box EXCEPT ![w] = other]
    BY <1>2 DEF StayOutside
  <2> QED  BY <2>1, OneBox
<1> QED  BY <1>1, <1>2

LEMMA SettledBoxes ==
  ASSUME NEW w, NEW b, IsBox(b), NEW other \in Settled(w, b)
  PROVE  IsBox(other)
BY MovedIsBox DEF Settled

\* What the end of a drag leaves behind.
LEMMA DropStep ==
  ASSUME BoxesOK, StacksOK, drag # NoDrag, Drop
  PROVE  BoxesOK' /\ StacksOK' /\ LastDragOnTop'
<1> DEFINE w == drag.window
<1>1. w \in Windows /\ IsBox(drag.start) /\ AreBoxes(box) /\ IsBox(box[w])
  BY DEF BoxesOK, AreBoxes
<1>2. /\ AssignIfInside(w, box[w]) \/ StayOutside(w, box[w], Settled(w, box[w]))
      /\ Record(w)
      /\ drag' = NoDrag /\ lastDrag' = IF Changed(w) THEN drag ELSE NoDrag
  BY DEF Drop
<1>3. AreBoxes(box')
  <2>1. \A other \in Settled(w, box[w]) : IsBox(other)
    BY <1>1, SettledBoxes
  <2> QED  BY <1>1, <1>2, <2>1, PlacedBoxes
<1>4. BoxesOK'
  BY <1>2, <1>3 DEF BoxesOK, AreBoxes, IsBox
<1>5. IsBox(box'[w])
  BY <1>1, <1>3 DEF AreBoxes
<1> HIDE DEF w
<1> DEFINE command == [window |-> w, resize |-> drag.mode \in Corners,
                       old |-> drag.start, new |-> box'[w]]
<1>6. ASSUME Changed(w)  PROVE StacksOK' /\ LastDragOnTop'
  <2>1. Push(command)
    BY <1>2, <1>6 DEF Record
  <2>2. IsCommand(command)
    BY <1>1, <1>5 DEF IsCommand, w
  <2>3. lastDrag' = drag
    BY <1>2, <1>6
  <2>4. command.window = drag.window /\ command.resize = (drag.mode \in Corners)
        /\ command.old = drag.start
    BY DEF w
  <2> HIDE DEF command
  <2>5. PICK S : /\ undoStack \in Seq(S) /\ redoStack \in Seq(S)
                 /\ \A c \in S : IsCommand(c)
    BY DEF StacksOK
  <2> DEFINE kept == IF Len(undoStack) >= MaxHistory THEN Tail(undoStack) ELSE undoStack
             T == S \cup {command}
  <2>6. kept \in Seq(T)
    <3>1. Len(undoStack) >= MaxHistory => undoStack # <<>>
      BY <2>5, BoundAssumption
    <3> QED  BY <2>5, <3>1
  <2>7. undoStack' = Append(kept, command) /\ redoStack' = <<>>
    BY <2>1 DEF Push
  <2>8. undoStack' \in Seq(T) /\ redoStack' \in Seq(T)
    BY <2>6, <2>7
  <2>9. \A c \in T : IsCommand(c)
    BY <2>2, <2>5
  <2> HIDE DEF kept, T
  <2>10. undoStack' # <<>> /\ undoStack'[Len(undoStack')] = command
    BY <2>6, <2>7, <2>8
  <2>11. StacksOK'
    BY <2>8, <2>9 DEF StacksOK, IsCommand, IsBox
  <2>12. LastDragOnTop'
    BY <1>1, <2>3, <2>4, <2>10 DEF LastDragOnTop, w
  <2> QED  BY <2>11, <2>12
<1>7. ASSUME ~Changed(w)  PROVE StacksOK' /\ LastDragOnTop'
  BY <1>2, <1>7 DEF Record, stackVars, StacksOK, IsCommand, IsBox, LastDragOnTop, w
<1> QED  BY <1>4, <1>6, <1>7

UndoOK == BoxesOK /\ StacksOK /\ LastDragOnTop

\* A step that is not the end of a drag and leaves the stacks alone.
LEMMA CalmStep ==
  ASSUME UndoOK, AreBoxes(box'), UNCHANGED <<drag, stackVars>>, lastDrag' = NoDrag
  PROVE  UndoOK'
BY DEF UndoOK, BoxesOK, AreBoxes, StacksOK, IsCommand, IsBox, LastDragOnTop, stackVars

\* Resizing, moving or fitting one window.
LEMMA AdjustedBoxes ==
  ASSUME AreBoxes(box), NEW w \in Windows, NEW b, IsBox(b),
         NEW place, NEW corner, NEW request, NEW size,
         \/ box' = [box EXCEPT ![w] = MovedTo(@, place)]
         \/ box' = [box EXCEPT ![w] = Resized(b, corner, request)]
         \/ box' = [box EXCEPT ![w] = Resized(@, corner, request)]
         \/ box' = [box EXCEPT ![w] = At(place, size)]
  PROVE  AreBoxes(box')
<1>1. IsBox(box[w]) /\ w \in DOMAIN box
  BY DEF AreBoxes
<1>2. /\ IsBox(MovedTo(box[w], place)) /\ IsBox(Resized(b, corner, request))
      /\ IsBox(Resized(box[w], corner, request)) /\ IsBox(At(place, size))
  BY <1>1, MovedIsBox, NewBoxes
<1>3. PICK other : IsBox(other) /\ box' = [box EXCEPT ![w] = other]
  BY <1>1, <1>2
<1> QED  BY <1>3, OneBox

LEMMA DeleteFrameBoxes ==
  ASSUME AreBoxes(box), DeleteFrame  PROVE AreBoxes(box')
<1> DEFINE parked(w) == w \in mapped /\ \E k \in DOMAIN frames[Active].windows :
                                       frames[Active].windows[k] = w
           new == [w \in Windows |-> IF parked(w) THEN MovedTo(box[w], Parked) ELSE box[w]]
<1>1. box' = new
  BY DEF DeleteFrame
<1> HIDE DEF parked
<1>2. ASSUME NEW w \in Windows  PROVE IsBox(new[w])
  <2>1. IsBox(box[w]) /\ IsBox(MovedTo(box[w], Parked))
    BY MovedIsBox DEF AreBoxes
  <2> QED  BY <2>1
<1>3. AreBoxes(new)
  BY <1>2 DEF AreBoxes
<1> QED  BY <1>1, <1>3

\* Undo and redo put boxes where commands say, and move the command across.
LEMMA PutBoxes ==
  ASSUME AreBoxes(box), NEW command, NEW b, IsBox(b), box' = PutAt(command, b)
  PROVE  AreBoxes(box')
<1>1. CASE command.window \in Windows
  <2> DEFINE w == command.window
  <2>1. IsBox(box[w]) /\ w \in DOMAIN box /\ IsBox(MovedTo(box[w], b))
    BY <1>1, MovedIsBox DEF AreBoxes
  <2>2. PICK other : IsBox(other) /\ box' \in {box, [box EXCEPT ![w] = other]}
    BY <2>1 DEF PutAt
  <2> QED  BY <2>2, OneBox
<1>2. CASE command.window \notin Windows
  BY <1>2 DEF PutAt, AreBoxes
<1> QED  BY <1>1, <1>2

LEMMA UndoStep == ASSUME UndoOK, Undo  PROVE UndoOK'
<1> DEFINE command == undoStack[Len(undoStack)]
<1>1. PICK S : /\ undoStack \in Seq(S) /\ redoStack \in Seq(S)
               /\ \A c \in S : IsCommand(c)
  BY DEF UndoOK, StacksOK
<1>2. Len(undoStack) \in DOMAIN undoStack /\ command \in S
  BY <1>1 DEF Undo
<1>3. undoStack' \in Seq(S) /\ redoStack' \in Seq(S)
  BY <1>1, <1>2 DEF Undo
<1>4. StacksOK'
  BY <1>1, <1>3 DEF StacksOK, IsCommand, IsBox
<1>5. AreBoxes(box')
  <2>1. IsBox(command.old) /\ box' = PutAt(command, command.old)
    BY <1>1, <1>2 DEF IsCommand, Undo
  <2>2. AreBoxes(box)
    BY DEF UndoOK, BoxesOK
  <2> QED  BY <2>1, <2>2, PutBoxes
<1> QED  BY <1>4, <1>5 DEF UndoOK, BoxesOK, AreBoxes, IsBox, LastDragOnTop, Undo

LEMMA RedoStep == ASSUME UndoOK, Redo  PROVE UndoOK'
<1> DEFINE command == redoStack[Len(redoStack)]
<1>1. PICK S : /\ undoStack \in Seq(S) /\ redoStack \in Seq(S)
               /\ \A c \in S : IsCommand(c)
  BY DEF UndoOK, StacksOK
<1>2. Len(redoStack) \in DOMAIN redoStack /\ command \in S
  BY <1>1 DEF Redo
<1>3. undoStack' \in Seq(S) /\ redoStack' \in Seq(S)
  BY <1>1, <1>2 DEF Redo
<1>4. StacksOK'
  BY <1>1, <1>3 DEF StacksOK, IsCommand, IsBox
<1>5. AreBoxes(box')
  <2>1. IsBox(command.new) /\ box' = PutAt(command, command.new)
    BY <1>1, <1>2 DEF IsCommand, Redo
  <2>2. AreBoxes(box)
    BY DEF UndoOK, BoxesOK
  <2> QED  BY <2>1, <2>2, PutBoxes
<1> QED  BY <1>4, <1>5 DEF UndoOK, BoxesOK, AreBoxes, IsBox, LastDragOnTop, Redo

\* The commands of a window that is destroyed forget it and nothing else.
LEMMA ForgottenCommand ==
  ASSUME NEW c, IsCommand(c)
  PROVE  IsCommand([c EXCEPT !.window = NoWindow])
<1> DEFINE held == c.window
           resize == c.resize
           old == c.old
           new == c.new
<1>1. c = [window |-> held, resize |-> resize, old |-> old, new |-> new]
      /\ IsBox(old) /\ IsBox(new)
  BY DEF IsCommand
<1> HIDE DEF held, resize, old, new
<1>2. [c EXCEPT !.window = NoWindow]
        = [window |-> NoWindow, resize |-> resize, old |-> old, new |-> new]
  BY <1>1
<1> QED  BY <1>1, <1>2 DEF IsCommand

LEMMA DestroyStep ==
  ASSUME UndoOK, NEW w \in Windows, Destroy(w)  PROVE UndoOK'
<1> DEFINE forget(stack) == [k \in DOMAIN stack |->
        IF stack[k].window = w THEN [stack[k] EXCEPT !.window = NoWindow] ELSE stack[k]]
<1>1. PICK S : /\ undoStack \in Seq(S) /\ redoStack \in Seq(S)
               /\ \A c \in S : IsCommand(c)
  BY DEF UndoOK, StacksOK
<1> DEFINE T == S \cup {[c EXCEPT !.window = NoWindow] : c \in S}
<1>2. \A c \in T : IsCommand(c)
  BY <1>1, ForgottenCommand
<1>3. ASSUME NEW stack \in Seq(S)  PROVE forget(stack) \in Seq(T)
  <2>1. DOMAIN stack = 1..Len(stack) /\ Len(stack) \in Nat
        /\ \A k \in DOMAIN stack : stack[k] \in S
    BY <1>3
  <2>2. \A k \in DOMAIN stack : forget(stack)[k] \in T
    BY <2>1
  <2>3. forget(stack) = [k \in 1..Len(stack) |-> forget(stack)[k]]
    BY <2>1
  <2> HIDE DEF forget, T
  <2> QED  BY <2>1, <2>2, <2>3, IsASeq
<1>4. undoStack' = forget(undoStack) /\ redoStack' = forget(redoStack)
  BY DEF Destroy
<1> HIDE DEF forget, T
<1>5. undoStack' \in Seq(T) /\ redoStack' \in Seq(T)
  BY <1>1, <1>3, <1>4
<1>6. StacksOK'
  BY <1>2, <1>5 DEF StacksOK, IsCommand, IsBox
<1> QED  BY <1>6 DEF UndoOK, BoxesOK, AreBoxes, IsBox, LastDragOnTop, Destroy

LEMMA UndoNext == ASSUME UndoOK, [Next]_vars  PROVE UndoOK'
<1>1. ASSUME CreateFrame \/ BeginFrameDrag \/ MoveFrame \/ EndFrameDrag
      PROVE  UndoOK'
  BY <1>1, CalmStep DEF UndoOK, BoxesOK, AreBoxes, IsBox, CreateFrame,
     BeginFrameDrag, MoveFrame, EndFrameDrag, frameVars
<1>2. ASSUME DeleteFrame  PROVE UndoOK'
  BY <1>2, DeleteFrameBoxes, CalmStep DEF UndoOK, BoxesOK, DeleteFrame
<1>3. ASSUME DragTo  PROVE UndoOK'
  <2>1. AreBoxes(box) /\ drag.window \in Windows /\ IsBox(drag.start)
    BY <1>3 DEF UndoOK, BoxesOK, DragTo
  <2>2. AreBoxes(box')
    BY <1>3, <2>1, AdjustedBoxes DEF DragTo
  <2> QED  BY <1>3, <2>2, CalmStep DEF DragTo
<1>4. ASSUME EndDrag  PROVE UndoOK'
  BY <1>4, DropStep DEF UndoOK, EndDrag
<1>5. ASSUME NEW w \in Windows, Map(w)  PROVE UndoOK'
  <2>1. PICK place, size :
          LET b == At(place, size)
          IN StayOutside(w, b, {b}) \/ AssignIfInside(w, b)
    BY <1>5 DEF Map
  <2> DEFINE b == At(place, size)
  <2>2. IsBox(b) /\ AreBoxes(box)
    BY NewBoxes DEF UndoOK, BoxesOK
  <2>3. StayOutside(w, b, {b}) \/ AssignIfInside(w, b)
    BY <2>1
  <2> HIDE DEF b
  <2>4. \A other \in {b} : IsBox(other)
    BY <2>2
  <2>5. AreBoxes(box')
    BY <2>2, <2>3, <2>4, PlacedBoxes
  <2> QED  BY <1>5, <2>5, CalmStep DEF Map
<1>6. ASSUME NEW w \in Windows, Unmap(w)  PROVE UndoOK'
  <2>1. CASE drag.window = w /\ Drop
    <3>1. drag # NoDrag
      BY <2>1, WindowAssumption DEF NoDrag
    <3> QED  BY <2>1, <3>1, DropStep DEF UndoOK
  <2>2. CASE UNCHANGED <<box, frameVars, drag, stackVars>> /\ lastDrag' = NoDrag
    BY <2>2, CalmStep DEF UndoOK, BoxesOK, AreBoxes, IsBox
  <2> QED  BY <1>6, <2>1, <2>2 DEF Unmap
<1>7. ASSUME NEW w \in Windows, Adjust(w)  PROVE UndoOK'
  <2>1. AreBoxes(box)
    BY DEF UndoOK, BoxesOK
  <2>2. AreBoxes(box')
    <3>1. CASE \E place \in Places : box' = [box EXCEPT ![w] = MovedTo(@, place)]
      BY <2>1, <3>1, NewBoxes, AdjustedBoxes
    <3>2. CASE \E request \in Requests :
                 box' = [box EXCEPT ![w] = Resized(@, "bottomright", request)]
      BY <2>1, <3>2, NewBoxes, AdjustedBoxes
    <3>3. CASE \E place \in Places, size \in Sizes :
                 box' = [box EXCEPT ![w] = At(place, size)]
      BY <2>1, <3>3, NewBoxes, AdjustedBoxes
    <3> QED  BY <1>7, <3>1, <3>2, <3>3 DEF Adjust
  <2> QED  BY <1>7, <2>2, CalmStep DEF Adjust
<1>8. ASSUME NEW w \in Windows, AssignFocused(w)  PROVE UndoOK'
  <2>1. AreBoxes(box')
    BY <1>8, AssignedBoxes DEF AssignFocused, UndoOK, BoxesOK
  <2> QED  BY <1>8, <2>1, CalmStep DEF AssignFocused
<1>9. ASSUME NEW w \in Windows, BeginDrag(w)  PROVE UndoOK'
  <2>1. PICK mode \in Corners \cup {"move"} :
          drag' = [window |-> w, mode |-> mode, start |-> box[w]]
    BY <1>9 DEF BeginDrag
  <2>2. AreBoxes(box) /\ IsBox(box[w])
    BY DEF UndoOK, BoxesOK, AreBoxes
  <2>3. drag'.window = w /\ drag'.start = box[w]
    BY <2>1
  <2>4. BoxesOK'
    BY <1>9, <2>2, <2>3 DEF BeginDrag, BoxesOK, AreBoxes, IsBox
  <2> QED  BY <1>9, <2>4 DEF BeginDrag, UndoOK, StacksOK, IsCommand, IsBox,
              LastDragOnTop, stackVars
<1>10. ASSUME UNCHANGED vars  PROVE UndoOK'
  BY <1>10 DEF vars, UndoOK, BoxesOK, AreBoxes, IsBox, StacksOK, IsCommand,
     LastDragOnTop, stackVars
<1> QED  BY <1>1, <1>2, <1>3, <1>4, <1>5, <1>6, <1>7, <1>8, <1>9, <1>10,
            UndoStep, RedoStep, DestroyStep DEF Next

LEMMA UndoInvariant == Spec => []UndoOK
<1>1. Init => UndoOK
  <2> SUFFICES ASSUME Init  PROVE UndoOK
    OBVIOUS
  <2>1. IsBox(At(Parked, MinSize))
    BY NewBoxes
  <2>2. AreBoxes(box)
    BY <2>1 DEF Init, AreBoxes
  <2>3. undoStack \in Seq({}) /\ redoStack \in Seq({})
    BY DEF Init
  <2>4. StacksOK
    BY <2>3 DEF StacksOK
  <2> QED  BY <2>2, <2>4 DEF Init, UndoOK, BoxesOK, LastDragOnTop
<1> QED  BY <1>1, UndoNext, PTL DEF Spec

\* An undo that follows the end of a drag takes the window back to where the
\* drag began, and a resize is taken back in size, whatever was created, tiled,
\* moved or undone while the drag went on.
THEOREM UndoTakesBack == Spec => UndoTakesBackTheDrag
<1>1. UndoOK =>
        [Undo /\ lastDrag # NoDrag =>
           LET b == box'[lastDrag.window]
           IN IF lastDrag.mode \in Corners THEN b = lastDrag.start
              ELSE PlaceOf(b) = PlaceOf(lastDrag.start)]_vars
  <2> SUFFICES ASSUME UndoOK, Undo, lastDrag # NoDrag
               PROVE  IF lastDrag.mode \in Corners
                      THEN box'[lastDrag.window] = lastDrag.start
                      ELSE PlaceOf(box'[lastDrag.window]) = PlaceOf(lastDrag.start)
    OBVIOUS
  <2> DEFINE command == undoStack[Len(undoStack)]
             w == lastDrag.window
             start == lastDrag.start
  <2>1. /\ w \in Windows /\ command.window = w
        /\ command.resize = (lastDrag.mode \in Corners) /\ command.old = start
    BY DEF UndoOK, LastDragOnTop
  <2>2. w \in DOMAIN box /\ IsBox(box[w])
    BY <2>1 DEF UndoOK, BoxesOK, AreBoxes
  <2>3. box' = PutAt(command, start)
    BY <2>1 DEF Undo
  <2> HIDE DEF command, w, start
  <2>4. box'[w] = IF command.resize THEN start ELSE MovedTo(box[w], start)
    BY <2>1, <2>2, <2>3, WindowAssumption DEF PutAt
  <2>5. PlaceOf(MovedTo(box[w], start)) = PlaceOf(start)
    BY <2>2, MovedIsBox
  <2> QED  BY <2>1, <2>4, <2>5 DEF w, start
<1> QED  BY <1>1, UndoInvariant, PTL DEF UndoTakesBackTheDrag

-----------------------------------------------------------------------------
(* Counting, and recursion: the loops are recursive functions.              *)

LEMMA LeastNumber ==
  ASSUME NEW B \in SUBSET Nat, B # {}
  PROVE  \E k \in B : \A j \in B : k <= j
<1> DEFINE X == {0..k : k \in B}
<1>1. X \subseteq FiniteSubsetsOf(Nat) /\ X # {}
  <2>1. ASSUME NEW k \in B  PROVE IsFiniteSet(0..k) /\ 0..k \in SUBSET Nat
    <3>1. 0 \in Int /\ k \in Int
      OBVIOUS
    <3> QED  BY <3>1, FS_Interval
  <2> QED  BY <2>1 DEF FiniteSubsetsOf
<1>2. IsWellFoundedOn(StrictSubsetOrdering(Nat), FiniteSubsetsOf(Nat))
  BY FS_StrictSubsetOrderingWellFounded
<1> HIDE DEF X
<1>3. PICK x \in X : \A y \in X : <<y, x>> \notin StrictSubsetOrdering(Nat)
  BY <1>1, <1>2, WFMin
<1>4. PICK k \in B : x = 0..k
  BY DEF X
<1>5. ASSUME NEW j \in B, j < k  PROVE FALSE
  <2>1. 0..j \in X
    BY DEF X
  <2>2. 0..j \subseteq 0..k /\ 0..j # 0..k /\ 0..k \in SUBSET Nat /\ 0..j \in SUBSET Nat
    <3>1. k \in 0..k /\ k \notin 0..j
      BY <1>5
    <3> QED  BY <1>5, <3>1
  <2>3. <<0..j, x>> \in StrictSubsetOrdering(Nat)
    BY <1>4, <2>2 DEF StrictSubsetOrdering
  <2> QED  BY <1>3, <2>1, <2>3
<1>6. \A j \in B : k <= j
  BY <1>5
<1> QED  BY <1>6

\* Induction, for a set of numbers.
LEMMA CountingUp ==
  ASSUME NEW N \in Nat, NEW P, 0 \in P, \A k \in 0..N : k \in P /\ k < N => k + 1 \in P
  PROVE  0..N \subseteq P
<1> DEFINE B == (0..N) \ P
<1> SUFFICES ASSUME B # {}  PROVE FALSE
  OBVIOUS
<1>1. B \in SUBSET Nat
  OBVIOUS
<1> HIDE DEF B
<1>2. PICK k \in B : \A j \in B : k <= j
  BY <1>1, LeastNumber
<1>3. k \in 0..N /\ k \notin P
  BY DEF B
<1>4. k - 1 \in 0..N /\ k - 1 < N /\ k - 1 \notin B
  BY <1>1, <1>2, <1>3
<1> QED  BY <1>3, <1>4 DEF B

\* Each of N steps G leads from S into S.
LeadsOn(G, N, S) == \A t \in S, i \in 1..N : G[<<t, i>>] \in S

IsWalk(g, G, N, S, s0) ==
  /\ g \in [0..N -> S] /\ g[0] = s0
  /\ \A i \in 1..N : g[i] = G[<<g[i - 1], i>>]

\* A walk of N steps from s0 exists, if each step leads somewhere.
LEMMA WalkExists ==
  ASSUME NEW N \in Nat, NEW S, NEW s0 \in S, NEW G, LeadsOn(G, N, S)
  PROVE  \E g : IsWalk(g, G, N, S, s0)
<1> DEFINE P == {n \in 0..N : \E g \in [0..n -> S] :
                   g[0] = s0 /\ \A i \in 1..n : g[i] = G[<<g[i - 1], i>>]}
<1>1. 0 \in P
  <2> DEFINE g == [i \in 0..0 |-> s0]
  <2>1. g \in [0..0 -> S] /\ g[0] = s0 /\ \A i \in 1..0 : g[i] = G[<<g[i - 1], i>>]
    OBVIOUS
  <2> HIDE DEF g
  <2> QED  BY <2>1
<1>2. ASSUME NEW n \in 0..N, n \in P, n < N  PROVE n + 1 \in P
  <2>1. PICK g \in [0..n -> S] : g[0] = s0 /\ \A i \in 1..n : g[i] = G[<<g[i - 1], i>>]
    BY <1>2
  <2> DEFINE h == [i \in 0..(n + 1) |-> IF i = n + 1 THEN G[<<g[n], n + 1>>] ELSE g[i]]
  <2>2. g[n] \in S /\ n + 1 \in 1..N /\ G[<<g[n], n + 1>>] \in S
    BY <1>2 DEF LeadsOn
  <2>3. h \in [0..(n + 1) -> S] /\ h[0] = s0
    BY <2>1, <2>2
  <2>4. h[n + 1] = G[<<g[n], n + 1>>] /\ \A i \in 0..n : h[i] = g[i]
    BY <1>2
  <2> HIDE DEF h
  <2>5. ASSUME NEW i \in 1..(n + 1)  PROVE h[i] = G[<<h[i - 1], i>>]
    <3>1. CASE i = n + 1
      <4>1. i - 1 = n /\ n \in 0..n
        BY <3>1
      <4> QED  BY <2>4, <3>1, <4>1
    <3>2. CASE i # n + 1
      <4>1. i \in 1..n /\ i \in 0..n /\ i - 1 \in 0..n
        BY <3>2
      <4> QED  BY <2>1, <2>4, <4>1
    <3> QED  BY <3>1, <3>2
  <2> QED  BY <1>2, <2>3, <2>5
<1> HIDE DEF P
<1>3. N \in P
  BY <1>1, <1>2, CountingUp
<1> QED  BY <1>3 DEF P, IsWalk

-----------------------------------------------------------------------------
(* The lists of the frames.                                                 *)

Distinct(list) == \A i, j \in 1..Len(list) : list[i] = list[j] => i = j
Members(list) == {list[i] : i \in 1..Len(list)}

\* f is what Kept(list, S) would be of the first n windows of the list.
KeptOf(f, list, S, n) ==
  /\ Len(f) <= n
  /\ Members(f) = {list[i] : i \in 1..n} \cap S
  /\ Len(f) = n => \A i \in 1..n : f[i] = list[i]
  /\ Distinct(list) => Distinct(f)

LEMMA KeptNext ==
  ASSUME NEW T, NEW list \in Seq(T), NEW S, NEW n \in Nat, n < Len(list),
         NEW f \in Seq(T), KeptOf(f, list, S, n),
         NEW g, g = IF list[n + 1] \in S THEN Append(f, list[n + 1]) ELSE f
  PROVE  g \in Seq(T) /\ KeptOf(g, list, S, n + 1)
<1> DEFINE x == list[n + 1]
           N == Len(f)
<1>1. x \in T /\ N \in Nat /\ N <= n /\ n + 1 \in 1..(n + 1)
      /\ \A i \in 1..(n + 1) : i \in 1..n \/ i = n + 1
  BY DEF KeptOf
<1>2. Members(f) = {list[i] : i \in 1..n} \cap S
      /\ (N = n => \A i \in 1..n : f[i] = list[i]) /\ (Distinct(list) => Distinct(f))
  BY DEF KeptOf
<1>3. \A i \in 1..n : i \in 1..(n + 1)
  BY <1>1
<1> HIDE DEF x, N
<1>4. {list[i] : i \in 1..(n + 1)} = {list[i] : i \in 1..n} \cup {x}
  BY <1>1, <1>3 DEF x
<1>5. CASE x \in S
  <2>1. g \in Seq(T) /\ Len(g) = N + 1 /\ g[N + 1] = x /\ \A i \in 1..N : g[i] = f[i]
    BY <1>1, <1>5 DEF x, N
  <2>2. \A i \in 1..(N + 1) : i \in 1..N \/ i = N + 1
    BY <1>1
  <2>3. N + 1 \in 1..(N + 1) /\ \A i \in 1..N : i \in 1..(N + 1)
    BY <1>1
  <2>4. Members(f) = {f[i] : i \in 1..N} /\ Members(g) = {g[i] : i \in 1..(N + 1)}
    BY <2>1 DEF Members, N
  <2>5. Members(g) = Members(f) \cup {x}
    BY <2>1, <2>2, <2>3, <2>4
  <2>6. Members(g) = {list[i] : i \in 1..(n + 1)} \cap S
    BY <1>2, <1>4, <1>5, <2>5
  <2>7. ASSUME Distinct(list)  PROVE Distinct(g)
    <3>1. ASSUME NEW i \in 1..N  PROVE f[i] # x
      <4>1. PICK j \in 1..n : f[i] = list[j]
        BY <1>2, <2>4
      <4>2. j \in 1..Len(list) /\ n + 1 \in 1..Len(list) /\ j # n + 1
        <5>1. Len(list) \in Nat
          OBVIOUS
        <5> QED  BY <5>1
      <4> QED  BY <2>7, <4>1, <4>2 DEF Distinct, x
    <3>2. \A i, j \in 1..N : f[i] = f[j] => i = j
      BY <1>2, <2>7 DEF Distinct, N
    <3> QED  BY <2>1, <2>2, <3>1, <3>2 DEF Distinct
  <2>8. ASSUME N + 1 = n + 1  PROVE \A i \in 1..(n + 1) : g[i] = list[i]
    <3>1. N = n
      BY <1>1, <2>8
    <3> QED  BY <1>1, <1>2, <2>1, <3>1 DEF x
  <2>9. N + 1 <= n + 1
    BY <1>1
  <2> QED  BY <2>1, <2>6, <2>7, <2>8, <2>9 DEF KeptOf
<1>6. CASE x \notin S
  <2>1. g = f
    BY <1>6 DEF x
  <2>2. Len(g) <= n + 1 /\ Len(g) # n + 1
    BY <1>1, <2>1 DEF N
  <2>3. Members(g) = {list[i] : i \in 1..(n + 1)} \cap S
    BY <1>2, <1>4, <1>6, <2>1
  <2> QED  BY <1>2, <2>1, <2>2, <2>3 DEF KeptOf
<1> QED  BY <1>5, <1>6

\* Kept leaves the windows of S, none of them twice that was not there twice,
\* and leaves a list alone that it does not make shorter.
LEMMA KeptFacts ==
  ASSUME NEW T, NEW list \in Seq(T), NEW S
  PROVE  /\ Kept(list, S) \in Seq(T)
         /\ Members(Kept(list, S)) = Members(list) \cap S
         /\ Len(Kept(list, S)) >= Len(list) => Kept(list, S) = list
         /\ Distinct(list) => Distinct(Kept(list, S))
<1> DEFINE N == Len(list)
           Recurs(f) == f = [k \in 0..N |->
                               IF k = 0 THEN <<>>
                               ELSE IF list[k] \in S THEN Append(f[k - 1], list[k]) ELSE f[k - 1]]
           G == [p \in Seq(T) \X (1..N) |->
                   IF list[p[2]] \in S THEN Append(p[1], list[p[2]]) ELSE p[1]]
<1>1. N \in Nat /\ \A i \in 1..N : list[i] \in T
  OBVIOUS
<1>2. /\ \A t \in Seq(T), i \in 1..N :
           G[<<t, i>>] = IF list[i] \in S THEN Append(t, list[i]) ELSE t
  OBVIOUS
<1>3. Kept(list, S) = (CHOOSE f : Recurs(f))[N]
  BY DEF Kept
<1> HIDE DEF N, G, Recurs
<1>4. LeadsOn(G, N, Seq(T))
  <2> SUFFICES ASSUME NEW t \in Seq(T), NEW i \in 1..N  PROVE G[<<t, i>>] \in Seq(T)
    BY DEF LeadsOn
  <2>1. list[i] \in T
    BY <1>1
  <2>2. Append(t, list[i]) \in Seq(T)
    BY <2>1
  <2> QED  BY <1>2, <2>2
<1>5. <<>> \in Seq(T)
  OBVIOUS
<1>6. PICK g : IsWalk(g, G, N, Seq(T), <<>>)
  BY <1>1, <1>4, <1>5, WalkExists
<1>7. /\ g \in [0..N -> Seq(T)] /\ g[0] = <<>>
      /\ \A i \in 1..N : g[i] = G[<<g[i - 1], i>>]
  BY <1>6 DEF IsWalk
<1>8. \A i \in 1..N : i - 1 \in 0..N /\ i \in 0..N /\ i # 0
  BY <1>1
<1>9. \A i \in 1..N : g[i] = IF list[i] \in S THEN Append(g[i - 1], list[i]) ELSE g[i - 1]
  BY <1>2, <1>7, <1>8
<1>10. \A i \in 0..N : i = 0 \/ i \in 1..N
  BY <1>1
<1>11. Recurs(g)
  BY <1>7, <1>9, <1>10 DEF Recurs
<1> DEFINE f == CHOOSE h : Recurs(h)
<1>12. Recurs(f)
  BY <1>11
<1> HIDE DEF f
<1>13. f[0] = <<>> /\ \A i \in 1..N :
         f[i] = IF list[i] \in S THEN Append(f[i - 1], list[i]) ELSE f[i - 1]
  <2>1. f = [k \in 0..N |->
               IF k = 0 THEN <<>>
               ELSE IF list[k] \in S THEN Append(f[k - 1], list[k]) ELSE f[k - 1]]
    BY <1>12 DEF Recurs
  <2>2. 0 \in 0..N
    BY <1>1
  <2>3. f[0] = <<>>
    BY <2>1, <2>2
  <2>4. ASSUME NEW i \in 1..N
        PROVE  f[i] = IF list[i] \in S THEN Append(f[i - 1], list[i]) ELSE f[i - 1]
    BY <1>8, <2>1
  <2> QED  BY <2>3, <2>4
<1> DEFINE P == {n \in 0..N : f[n] \in Seq(T) /\ KeptOf(f[n], list, S, n)}
<1>14. 0 \in P
  <2>1. 0 \in 0..N /\ KeptOf(<<>>, list, S, 0)
    BY <1>1 DEF KeptOf, Members, Distinct
  <2> QED  BY <1>5, <1>13, <2>1
<1>15. \A n \in 0..N : n \in P /\ n < N => n + 1 \in P
  <2> SUFFICES ASSUME NEW n \in 0..N, n \in P, n < N  PROVE n + 1 \in P
    OBVIOUS
  <2>1. n + 1 \in 1..N /\ (n + 1) - 1 = n /\ n + 1 \in 0..N /\ n \in Nat
    BY <1>1
  <2>2. f[n + 1] = IF list[n + 1] \in S THEN Append(f[n], list[n + 1]) ELSE f[n]
    BY <1>13, <2>1
  <2>3. f[n] \in Seq(T) /\ KeptOf(f[n], list, S, n) /\ n < Len(list)
    BY DEF N
  <2>4. f[n + 1] \in Seq(T) /\ KeptOf(f[n + 1], list, S, n + 1)
    BY <2>1, <2>2, <2>3, KeptNext
  <2> QED  BY <2>1, <2>4
<1> HIDE DEF P
<1>16. N \in P
  <2>1. 0..N \subseteq P
    BY <1>1, <1>14, <1>15, CountingUp
  <2>2. N \in 0..N
    BY <1>1
  <2> QED  BY <2>1, <2>2
<1> DEFINE kept == f[N]
<1>17. kept \in Seq(T) /\ KeptOf(kept, list, S, N)
  BY <1>16 DEF P
<1>18. Kept(list, S) = kept
  BY <1>3 DEF f
<1> HIDE DEF kept
<1>19. ASSUME Len(kept) >= N  PROVE kept = list
  <2>1. Len(kept) = N /\ \A i \in 1..N : kept[i] = list[i]
    BY <1>1, <1>17, <1>19 DEF KeptOf
  <2> QED  BY <1>17, <2>1 DEF N
<1> QED  BY <1>17, <1>18, <1>19 DEF KeptOf, Members, N

-----------------------------------------------------------------------------
(* The tiles of a frame.                                                    *)

Cols(n) == CHOOSE c \in 1..n : c * c >= n /\ (c - 1) * (c - 1) < n
Rows(n) == (n + Cols(n) - 1) \div Cols(n)
Column(i, n) ==
  IF n = 3 THEN IF i = 1 THEN 0 ELSE 1 ELSE (i - 1) % Cols(n)
Row(i, n) ==
  IF n = 3 THEN IF i = 3 THEN 1 ELSE 0 ELSE (i - 1) \div Cols(n)

LEMMA Euclid ==
  ASSUME NEW a \in Nat, NEW b \in Nat \ {0}
  PROVE  \E q \in Nat, m \in 0..(b - 1) : q = a \div b /\ m = a % b /\ a = b * q + m
<1>1. a \div b \in Nat /\ a % b \in 0..(b - 1)
  OBVIOUS
<1>2. PICK q \in Nat, m \in 0..(b - 1) : q = a \div b /\ m = a % b
  BY <1>1
<1>3. a = b * q + m
  BY <1>2, SMTT(60)
<1> QED  BY <1>2, <1>3

LEMMA Products ==
  ASSUME NEW a \in Nat, NEW b \in Nat, NEW c \in Nat, a <= b
  PROVE  a * c \in Nat /\ a * c <= b * c
<1> DEFINE d == b - a
<1>1. d \in Nat /\ b = a + d
  OBVIOUS
<1> HIDE DEF d
<1>2. d * c \in Nat /\ a * c \in Nat
  BY <1>1
<1>3. (a + d) * c = a * c + d * c
  BY <1>1
<1>4. b * c = a * c + d * c
  BY <1>1, <1>3
<1> QED  BY <1>2, <1>4

\* The least c with n cells or more in its square is at most n.
LEMMA ColsFacts ==
  ASSUME NEW n \in Nat \ {0}
  PROVE  /\ Cols(n) \in 1..n
         /\ Cols(n) * Cols(n) >= n /\ (Cols(n) - 1) * (Cols(n) - 1) < n
<1> DEFINE B == {c \in Nat : c * c >= n}
<1>1. B \in SUBSET Nat /\ n \in B
  BY Products
<1> HIDE DEF B
<1>2. PICK c \in B : \A j \in B : c <= j
  BY <1>1, LeastNumber
<1>3. c \in Nat /\ c * c >= n /\ c <= n
  BY <1>1, <1>2 DEF B
<1>4. c # 0
  BY <1>3
<1>5. (c - 1) * (c - 1) < n
  <2>1. c - 1 \in Nat /\ c - 1 \notin B
    BY <1>2, <1>3, <1>4
  <2> QED  BY <2>1, Products DEF B
<1>6. \E d \in 1..n : d * d >= n /\ (d - 1) * (d - 1) < n
  BY <1>3, <1>4, <1>5
<1> QED  BY <1>6 DEF Cols

\* The rows hold n cells, and none of them is empty.
LEMMA RowsFacts ==
  ASSUME NEW n \in Nat \ {0}
  PROVE  Rows(n) \in 1..Cols(n) /\ n <= Rows(n) * Cols(n)
<1> DEFINE c == Cols(n)
           r == Rows(n)
<1>1. c \in Nat \ {0} /\ c * c >= n
  BY ColsFacts
<1>2. r = (n + c - 1) \div c /\ n + c - 1 \in Nat
  BY <1>1 DEF Rows
<1> HIDE DEF c, r
<1>3. r \in Nat /\ c * r <= n + c - 1 /\ n + c - 1 <= c * r + (c - 1)
  <2>1. PICK m \in 0..(c - 1) : r \in Nat /\ n + c - 1 = c * r + m
    <3>1. PICK a \in Nat : a = n + c - 1
      BY <1>2
    <3>2. PICK q \in Nat, m \in 0..(c - 1) : q = a \div c /\ a = c * q + m
      BY <1>1, <3>1, Euclid
    <3> QED  BY <1>2, <3>1, <3>2
  <2>2. c * r \in Int
    BY <1>1, <2>1
  <2> QED  BY <1>1, <2>1, <2>2
<1>4. n <= c * r /\ c * r = r * c
  BY <1>1, <1>3
<1>5. r # 0
  BY <1>1, <1>4
<1>6. r <= c
  <2> SUFFICES ASSUME r >= c + 1  PROVE FALSE
    BY <1>1, <1>3
  <2>1. (c + 1) * c <= r * c
    BY <1>1, <1>3, Products
  <2>2. (c + 1) * c = c * c + c /\ c * c \in Nat
    BY <1>1
  <2> QED  BY <1>1, <1>3, <1>4, <2>1, <2>2
<1> QED  BY <1>1, <1>3, <1>4, <1>5, <1>6 DEF c, r

LEMMA CellBounds ==
  ASSUME NEW n \in Nat \ {0}, NEW i \in 1..n
  PROVE  /\ Column(i, n) \in 0..(Cols(n) - 1) /\ Row(i, n) \in 0..(Rows(n) - 1)
<1>1. CASE n = 3
  <2>1. Cols(3) \in 1..3 /\ Cols(3) * Cols(3) >= 3
    <3>1. 3 \in Nat \ {0}
      OBVIOUS
    <3> QED  BY <3>1, ColsFacts
  <2>2. Cols(3) \in {1, 2, 3} /\ Cols(3) # 1
    BY <2>1
  <2>3. Rows(3) \in Nat /\ 3 <= Rows(3) * Cols(3) /\ (Cols(3) - 1) * (Cols(3) - 1) < 3
    BY RowsFacts, ColsFacts, <2>1
  <2>4. Cols(3) = 2
    BY <2>2, <2>3
  <2>5. Rows(3) >= 2
    BY <2>3, <2>4
  <2> QED  BY <1>1, <2>3, <2>4, <2>5 DEF Column, Row
<1>2. CASE n # 3
  <2> DEFINE c == Cols(n)
             r == Rows(n)
  <2>1. c \in Nat \ {0} /\ r \in Nat \ {0} /\ n <= r * c /\ i - 1 \in Nat
    <3>1. c \in 1..n /\ r \in 1..c /\ n <= r * c
      BY ColsFacts, RowsFacts
    <3> HIDE DEF c, r
    <3> QED  BY <3>1
  <2> HIDE DEF c, r
  <2>2. PICK q \in Nat, m \in 0..(c - 1) :
          q = (i - 1) \div c /\ m = (i - 1) % c /\ i - 1 = c * q + m
    BY <2>1, Euclid
  <2>3. q * c < n
    <3>1. c * q \in Nat /\ c * q = q * c
      BY <2>1, <2>2
    <3> QED  BY <2>1, <2>2, <3>1
  <2>4. q < r
    <3> SUFFICES ASSUME r <= q  PROVE FALSE
      BY <2>1, <2>2
    <3>1. r * c <= q * c
      BY <2>1, <2>2, Products
    <3> QED  BY <2>1, <2>2, <2>3, <3>1
  <2>5. Column(i, n) = m /\ Row(i, n) = q
    BY <1>2, <2>2 DEF Column, Row, c
  <2> QED  BY <2>1, <2>2, <2>4, <2>5 DEF c, r
<1> QED  BY <1>1, <1>2

LEMMA CellsDiffer ==
  ASSUME NEW n \in Nat \ {0}, NEW i \in 1..n, NEW k \in 1..n, i # k
  PROVE  /\ Column(i, n) # Column(k, n) \/ Row(i, n) # Row(k, n)
         /\ n = 3 /\ 1 \in {i, k} => Column(i, n) # Column(k, n)
<1>1. CASE n = 3
  BY <1>1 DEF Column, Row
<1>2. CASE n # 3
  <2> DEFINE c == Cols(n)
  <2>1. c \in Nat \ {0} /\ i - 1 \in Nat /\ k - 1 \in Nat
    BY ColsFacts
  <2> HIDE DEF c
  <2>2. ASSUME NEW l \in 1..n, l - 1 \in Nat
        PROVE  \E q \in Nat, m \in Nat :
                 l - 1 = c * q + m /\ Row(l, n) = q /\ Column(l, n) = m
    <3>1. PICK q \in Nat, m \in 0..(c - 1) :
            q = (l - 1) \div c /\ m = (l - 1) % c /\ l - 1 = c * q + m
      BY <2>1, <2>2, Euclid
    <3>2. Row(l, n) = q /\ Column(l, n) = m
      BY <1>2, <3>1 DEF Column, Row, c
    <3>3. m \in Nat
      BY <2>1
    <3> QED  BY <3>1, <3>2, <3>3
  <2>3. /\ i - 1 = c * Row(i, n) + Column(i, n)
        /\ k - 1 = c * Row(k, n) + Column(k, n)
    BY <2>1, <2>2
  <2>4. i - 1 # k - 1
    OBVIOUS
  <2> QED  BY <1>2, <2>3, <2>4
<1> QED  BY <1>1, <1>2

\* Slots of a length that is cut in c are within it, and begin where those
\* before them have ended.
LEMMA Slots ==
  ASSUME NEW W \in Nat, NEW c \in Nat \ {0}, NEW k \in 0..(c - 1)
  PROVE  LET w == W \div c
         IN /\ w \in Nat /\ k * w \in Nat /\ k * w + w <= W
            /\ \A l \in 0..(c - 1) : k < l => k * w + w <= l * w
<1> DEFINE w == W \div c
<1>1. w \in Nat /\ c * w <= W
  <2>1. PICK q \in Nat, m \in 0..(c - 1) : q = W \div c /\ W = c * q + m
    BY Euclid
  <2>2. c * q \in Int
    BY <2>1
  <2> QED  BY <2>1, <2>2
<1> HIDE DEF w
<1>2. k * w \in Nat /\ (k + 1) * w = k * w + w
  BY <1>1
<1>3. (k + 1) * w <= c * w
  BY <1>1, Products
<1>4. ASSUME NEW l \in 0..(c - 1), k < l  PROVE k * w + w <= l * w
  <2>1. (k + 1) * w <= l * w
    BY <1>1, <1>4, Products
  <2> QED  BY <1>2, <2>1
<1>5. k * w + w <= W
  <2>1. c * w \in Int /\ k * w + w \in Int
    BY <1>1, <1>2
  <2> QED  BY <1>1, <1>2, <1>3, <2>1
<1> QED  BY <1>1, <1>2, <1>4, <1>5 DEF w

LEMMA TileCell ==
  ASSUME NEW f, NEW i, NEW n
  PROVE  /\ Tile(f, i, n).x = f.place.x + Column(i, n) * (FrameSize.w \div Cols(n))
         /\ Tile(f, i, n).y = f.place.y + Row(i, n) * (FrameSize.h \div Rows(n))
         /\ Tile(f, i, n).w = FrameSize.w \div Cols(n)
         /\ Tile(f, i, n).h = IF n = 3 /\ i = 1 THEN FrameSize.h
                              ELSE FrameSize.h \div Rows(n)
BY DEF Tile, Column, Row, Cols, Rows

LEMMA FrameSizes ==
  FrameSize.w \in Nat \ {0} /\ FrameSize.h \in Nat \ {0}
BY SizeAssumption DEF Size

LEMMA CellCounts ==
  ASSUME NEW n \in Nat \ {0}
  PROVE  Cols(n) \in Nat \ {0} /\ Rows(n) \in Nat \ {0}
<1>1. Cols(n) \in 1..n /\ Rows(n) \in 1..Cols(n)
  BY ColsFacts, RowsFacts
<1> QED  BY <1>1

\* A tile is in its frame.
LEMMA TileInside ==
  ASSUME NEW f, f.place \in Place, NEW n \in Nat \ {0}, NEW i \in 1..n
  PROVE  Inside(Tile(f, i, n), FrameBox(f))
<1> DEFINE t == Tile(f, i, n)
           w == FrameSize.w \div Cols(n)
           h == FrameSize.h \div Rows(n)
           p == Column(i, n) * w
           q == Row(i, n) * h
           X == f.place.x
           Y == f.place.y
<1>1. /\ t.x = X + p /\ t.y = Y + q /\ t.w = w
      /\ t.h = IF n = 3 /\ i = 1 THEN FrameSize.h ELSE h
  BY TileCell
<1>2. Cols(n) \in Nat \ {0} /\ Rows(n) \in Nat \ {0}
  BY CellCounts
<1>3. X \in Int /\ Y \in Int
  BY DEF Place
<1>4. Column(i, n) \in 0..(Cols(n) - 1) /\ Row(i, n) \in 0..(Rows(n) - 1)
  BY CellBounds
<1>5. w \in Nat /\ p \in Nat /\ p + w <= FrameSize.w
  BY <1>2, <1>4, FrameSizes, Slots
<1>6. h \in Nat /\ q \in Nat /\ q + h <= FrameSize.h
  BY <1>2, <1>4, FrameSizes, Slots
<1>7. n = 3 /\ i = 1 => q = 0
  BY <1>6 DEF Row
<1>8. FrameBox(f).x = X /\ FrameBox(f).y = Y
      /\ FrameBox(f).w = FrameSize.w /\ FrameBox(f).h = FrameSize.h
  BY DEF FrameBox, At
<1>9. FrameSize.h \in Nat /\ FrameSize.w \in Nat
  BY FrameSizes
<1> HIDE DEF t, w, h, p, q, X, Y
<1>10. X <= X + p /\ X + p + w <= X + FrameSize.w /\ Y <= Y + q
  BY <1>3, <1>5, <1>6, <1>9
<1>11. Y + q + t.h <= Y + FrameSize.h
  BY <1>1, <1>3, <1>6, <1>7, <1>9
<1> QED  BY <1>1, <1>8, <1>10, <1>11 DEF Inside, t

\* Two tiles of a frame are not over one another.
LEMMA TilesApart ==
  ASSUME NEW f, f.place \in Place, NEW n \in Nat \ {0},
         NEW i \in 1..n, NEW k \in 1..n, i # k
  PROVE  ~Overlaps(Tile(f, i, n), Tile(f, k, n))
<1> DEFINE t(j) == Tile(f, j, n)
           w == FrameSize.w \div Cols(n)
           h == FrameSize.h \div Rows(n)
           X == f.place.x
           Y == f.place.y
<1>1. ASSUME NEW j \in 1..n
      PROVE  /\ t(j).x = X + Column(j, n) * w /\ t(j).y = Y + Row(j, n) * h
             /\ t(j).w = w /\ (~(n = 3 /\ j = 1) => t(j).h = h)
  BY TileCell
<1>2. Cols(n) \in Nat \ {0} /\ Rows(n) \in Nat \ {0}
  BY CellCounts
<1>3. X \in Int /\ Y \in Int
  BY DEF Place
<1>4. ASSUME NEW j \in 1..n
      PROVE  Column(j, n) \in 0..(Cols(n) - 1) /\ Row(j, n) \in 0..(Rows(n) - 1)
  BY CellBounds
<1>5. ASSUME NEW j \in 1..n, NEW l \in 1..n, Column(j, n) < Column(l, n)
      PROVE  ~Overlaps(t(j), t(l)) /\ ~Overlaps(t(l), t(j))
  <2> DEFINE p == Column(j, n) * w
             q == Column(l, n) * w
  <2>1. w \in Nat /\ p \in Nat /\ q \in Nat /\ p + w <= q
    BY <1>2, <1>4, <1>5, FrameSizes, Slots
  <2>2. t(j).x = X + p /\ t(j).w = w /\ t(l).x = X + q
    BY <1>1
  <2> HIDE DEF p, q, w, X, t
  <2>3. t(j).x + t(j).w <= t(l).x /\ t(j).x + t(j).w \in Int /\ t(l).x \in Int
    BY <1>3, <2>1, <2>2
  <2> QED  BY <2>3 DEF Overlaps
<1>6. ASSUME NEW j \in 1..n, NEW l \in 1..n, Row(j, n) < Row(l, n), ~(n = 3 /\ j = 1)
      PROVE  ~Overlaps(t(j), t(l)) /\ ~Overlaps(t(l), t(j))
  <2> DEFINE p == Row(j, n) * h
             q == Row(l, n) * h
  <2>1. h \in Nat /\ p \in Nat /\ q \in Nat /\ p + h <= q
    BY <1>2, <1>4, <1>6, FrameSizes, Slots
  <2>2. t(j).y = Y + p /\ t(j).h = h /\ t(l).y = Y + q
    BY <1>1, <1>6
  <2> HIDE DEF p, q, h, Y, t
  <2>3. t(j).y + t(j).h <= t(l).y /\ t(j).y + t(j).h \in Int /\ t(l).y \in Int
    BY <1>3, <2>1, <2>2
  <2> QED  BY <2>3 DEF Overlaps
<1>7. CASE Column(i, n) # Column(k, n)
  <2>1. Column(i, n) < Column(k, n) \/ Column(k, n) < Column(i, n)
    BY <1>2, <1>4, <1>7
  <2> QED  BY <1>5, <2>1
<1>8. CASE Column(i, n) = Column(k, n)
  <2>1. Row(i, n) < Row(k, n) \/ Row(k, n) < Row(i, n)
    BY <1>2, <1>4, <1>8, CellsDiffer
  <2>2. ~(n = 3 /\ i = 1) /\ ~(n = 3 /\ k = 1)
    BY <1>8, CellsDiffer
  <2> QED  BY <1>6, <2>1, <2>2
<1> QED  BY <1>7, <1>8

\* One tile is all of its frame.
LEMMA TileAlone ==
  ASSUME NEW f, f.place \in Place  PROVE Tile(f, 1, 1) = FrameBox(f)
<1>1. Cols(1) = 1
  <2>1. 1 \in Nat \ {0}
    OBVIOUS
  <2> QED  BY <2>1, ColsFacts
<1>2. Rows(1) = 1
  <2>1. 1 \in Nat \ {0}
    OBVIOUS
  <2>2. Rows(1) \in 1..Cols(1)
    BY <2>1, RowsFacts
  <2> QED  BY <1>1, <2>2
<1>3. Column(1, 1) = 0 /\ Row(1, 1) = 0
  BY <1>1 DEF Column, Row
<1>4. FrameSize.w \div 1 = FrameSize.w /\ FrameSize.h \div 1 = FrameSize.h
  BY FrameSizes
<1> DEFINE t == Tile(f, 1, 1)
           b == FrameBox(f)
<1>5. f.place.x \in Int /\ f.place.y \in Int
  BY DEF Place
<1>6. t.x = f.place.x + 0 /\ t.y = f.place.y + 0 /\ t.w = FrameSize.w /\ t.h = FrameSize.h
  <2>1. 0 * FrameSize.w = 0 /\ 0 * FrameSize.h = 0
    BY FrameSizes
  <2> QED  BY <1>1, <1>2, <1>3, <1>4, <2>1, TileCell
<1>7. t = [x |-> t.x, y |-> t.y, w |-> t.w, h |-> t.h]
  BY TileIsBox DEF IsBox
<1>8. b = [x |-> f.place.x, y |-> f.place.y, w |-> FrameSize.w, h |-> FrameSize.h]
  BY DEF FrameBox, At
<1>9. f.place.x + 0 = f.place.x /\ f.place.y + 0 = f.place.y
  BY <1>5
<1> HIDE DEF t, b
<1>10. t = b
  BY <1>6, <1>7, <1>8, <1>9
<1> QED  BY <1>10 DEF t, b

\* What retile does to the live windows of a list without duplicates.
LEMMA RetiledTiles ==
  ASSUME NEW f, f.place \in Place, NEW list \in Seq(Windows), Distinct(list),
         NEW boxes, NEW live, NEW v \in Members(list) \cap live
  PROVE  LET new == Retiled(f, list, boxes, live)
             tiled == Members(list) \cap live
         IN /\ Inside(new[v], FrameBox(f))
            /\ tiled = {v} => new[v] = FrameBox(f)
            /\ \A w \in tiled \ {v} : ~Overlaps(new[v], new[w])
<1> DEFINE shown == Kept(list, live)
           n == Len(shown)
           tiled == Members(list) \cap live
           last(w) == CHOOSE k \in DOMAIN shown :
                        shown[k] = w /\ \A j \in DOMAIN shown : shown[j] = w => j <= k
           new == [w \in Windows |-> IF \E k \in DOMAIN shown : shown[k] = w
                                     THEN Tile(f, last(w), n) ELSE boxes[w]]
<1>1. Retiled(f, list, boxes, live) = new
  BY DEF Retiled
<1>2. shown \in Seq(Windows) /\ Members(shown) = tiled /\ Distinct(shown)
  BY KeptFacts
<1> HIDE DEF shown
<1>3. n \in Nat /\ DOMAIN shown = 1..n /\ \A k \in 1..n : shown[k] \in Windows
  BY <1>2
<1>4. ASSUME NEW w \in tiled
      PROVE  \E k \in 1..n : shown[k] = w /\ new[w] = Tile(f, k, n)
  <2>1. PICK k \in 1..n : shown[k] = w
    BY <1>2, <1>4 DEF Members
  <2>2. \A j \in 1..n : shown[j] = w => j = k
    BY <1>2, <2>1 DEF Distinct
  <2>3. last(w) = k
    BY <1>3, <2>1, <2>2
  <2>4. w \in Windows
    BY <1>3, <2>1
  <2> HIDE DEF last
  <2>5. new[w] = Tile(f, k, n)
    BY <1>3, <2>1, <2>3, <2>4
  <2> QED  BY <2>1, <2>5
<1>5. PICK k \in 1..n : shown[k] = v /\ new[v] = Tile(f, k, n)
  BY <1>4
<1>6. n \in Nat \ {0}
  BY <1>3, <1>5
<1>7. Inside(new[v], FrameBox(f))
  BY <1>5, <1>6, TileInside
<1>8. ASSUME tiled = {v}  PROVE new[v] = FrameBox(f)
  <2>1. \A j \in 1..n : shown[j] = v
    BY <1>2, <1>8 DEF Members
  <2>2. 1 \in 1..n /\ n \in 1..n
    BY <1>6
  <2>3. n = 1 /\ k = 1
    BY <1>2, <1>5, <2>1, <2>2 DEF Distinct
  <2> QED  BY <1>5, <2>3, TileAlone
<1>9. ASSUME NEW w \in tiled \ {v}  PROVE ~Overlaps(new[v], new[w])
  <2>1. PICK l \in 1..n : shown[l] = w /\ new[w] = Tile(f, l, n)
    BY <1>4, <1>9
  <2>2. k # l
    BY <1>5, <1>9, <2>1
  <2> QED  BY <1>5, <1>6, <2>1, <2>2, TilesApart
<1> HIDE DEF new
<1> QED  BY <1>1, <1>7, <1>8, <1>9

(***************************************************************************)
(* No window is twice on the list of a frame, and no two frames have an id *)
(* in common.                                                              *)
(***************************************************************************)
ListsOK ==
  /\ frames \in Seq(Frame) /\ nextId \in 1..(MaxFrames + 1)
  /\ \A i \in DOMAIN frames : frames[i].id < nextId /\ Distinct(frames[i].windows)
  /\ \A i, j \in DOMAIN frames : frames[i].id = frames[j].id => i = j

LEMMA FrameFields ==
  ASSUME ListsOK
  PROVE  /\ Len(frames) \in Nat /\ DOMAIN frames = 1..Len(frames)
         /\ \A i \in DOMAIN frames :
              /\ frames[i].id \in 1..MaxFrames /\ frames[i].place \in Place
              /\ frames[i].windows \in Seq(Windows) /\ Distinct(frames[i].windows)
              /\ IsFrame(frames[i])
<1>1. frames \in Seq(Frame)
  BY DEF ListsOK
<1>2. Len(frames) \in Nat /\ DOMAIN frames = 1..Len(frames)
      /\ \A i \in DOMAIN frames : frames[i] \in Frame
  BY <1>1
<1>3. \A f \in Frame : /\ f.id \in 1..MaxFrames /\ f.place \in Place
                       /\ f.windows \in Seq(Windows) /\ IsFrame(f)
  BY DEF Frame, IsFrame
<1> QED  BY <1>2, <1>3 DEF ListsOK

LEMMA ChangedFrame ==
  ASSUME ListsOK, NEW i \in DOMAIN frames, NEW f \in Frame,
         f.id = frames[i].id, Distinct(f.windows),
         frames' = [frames EXCEPT ![i] = f], UNCHANGED nextId
  PROVE  ListsOK' /\ DOMAIN frames' = DOMAIN frames
<1>1. /\ frames' \in Seq(Frame) /\ DOMAIN frames' = DOMAIN frames
      /\ \A j \in DOMAIN frames : frames'[j] = IF j = i THEN f ELSE frames[j]
  BY DEF ListsOK
<1>2. \A j \in DOMAIN frames : frames'[j].id = frames[j].id /\ Distinct(frames'[j].windows)
  BY <1>1 DEF ListsOK
<1>3. DOMAIN frames' = DOMAIN frames
  BY <1>1
<1>4. \A j \in DOMAIN frames' : frames'[j].id < nextId' /\ Distinct(frames'[j].windows)
  BY <1>2, <1>3 DEF ListsOK
<1>5. \A j, k \in DOMAIN frames' : frames'[j].id = frames'[k].id => j = k
  BY <1>2, <1>3 DEF ListsOK
<1>6. frames' \in Seq(Frame) /\ nextId' \in 1..(MaxFrames + 1)
  BY <1>1 DEF ListsOK
<1> QED  BY <1>3, <1>4, <1>5, <1>6 DEF ListsOK, Distinct

\* What assignWindow makes of the list, and of the frame.
LEMMA AssignedList ==
  ASSUME NEW list \in Seq(Windows), Distinct(list), NEW w \in Windows
  PROVE  LET new == Append(Kept(list, Windows \ {w}), w)
         IN new \in Seq(Windows) /\ Distinct(new)
<1> DEFINE kept == Kept(list, Windows \ {w})
           new == Append(kept, w)
<1>1. kept \in Seq(Windows) /\ Distinct(kept) /\ w \notin Members(kept)
  BY KeptFacts
<1> HIDE DEF kept
<1>2. /\ new \in Seq(Windows) /\ Len(kept) \in Nat /\ Len(new) = Len(kept) + 1
      /\ new[Len(kept) + 1] = w /\ \A i \in 1..Len(kept) : new[i] = kept[i]
  BY <1>1
<1>3. \A i \in 1..Len(kept) : kept[i] # w
  BY <1>1 DEF Members
<1>4. \A i \in 1..(Len(kept) + 1) : i \in 1..Len(kept) \/ i = Len(kept) + 1
  BY <1>2
<1>5. Distinct(new)
  BY <1>1, <1>2, <1>3, <1>4 DEF Distinct
<1> QED  BY <1>2, <1>5 DEF kept

LEMMA AssignedFrame ==
  ASSUME ListsOK, NEW i \in DOMAIN frames, NEW w \in Windows, NEW boxes,
         AssignWindow(i, w, boxes), UNCHANGED nextId
  PROVE  \E f \in Frame :
           /\ f.id = frames[i].id /\ f.place = frames[i].place /\ Distinct(f.windows)
           /\ frames' = [frames EXCEPT ![i] = f]
           /\ mapped' = mapped \cup {w} =>
                box' = Retiled(frames[i], f.windows, boxes, mapped')
<1> DEFINE list == Append(Kept(frames[i].windows, Windows \ {w}), w)
           f == [id |-> frames[i].id, place |-> frames[i].place, windows |-> list]
<1>1. frames' = [frames EXCEPT ![i].windows = list]
      /\ box' = Retiled(frames[i], list, boxes, mapped \cup {w})
  BY DEF AssignWindow
<1>2. list \in Seq(Windows) /\ Distinct(list)
  BY FrameFields, AssignedList
<1> HIDE DEF list
<1>3. [frames[i] EXCEPT !.windows = list] = f
  BY FrameFields, ExceptWindows
<1>4. frames' = [frames EXCEPT ![i] = f]
  <2>1. frames' = [frames EXCEPT ![i] = [frames[i] EXCEPT !.windows = list]]
    BY <1>1
  <2> QED  BY <1>3, <2>1
<1>5. f \in Frame
  BY <1>2, FrameFields DEF Frame
<1>6. f.id = frames[i].id /\ f.place = frames[i].place /\ f.windows = list
  OBVIOUS
<1> HIDE DEF f
<1>7. ASSUME mapped' = mapped \cup {w}
      PROVE  box' = Retiled(frames[i], f.windows, boxes, mapped')
  BY <1>1, <1>6, <1>7
<1> QED  BY <1>2, <1>4, <1>5, <1>6, <1>7

LEMMA ListsStep ==
  ASSUME ListsOK, FramesOK, ActiveFrameExists, BoxesOK, [Next]_vars
  PROVE  ListsOK'
<1>1. CASE UNCHANGED frameVars
  BY <1>1 DEF ListsOK, Distinct, frameVars
<1>2. CASE CreateFrame
  <2>1. PICK place \in FramePlaces :
          frames' = Append(frames, [id |-> nextId, place |-> place, windows |-> <<>>])
    BY <1>2 DEF CreateFrame
  <2> DEFINE f == [id |-> nextId, place |-> place, windows |-> <<>>]
             N == Len(frames)
  <2>2. nextId \in 1..MaxFrames /\ nextId' = nextId + 1 /\ nextId' \in 1..(MaxFrames + 1)
    BY <1>2, BoundAssumption DEF ListsOK, CreateFrame
  <2>3. f \in Frame
    <3>1. place \in Place /\ <<>> \in Seq(Windows)
      BY PlaceAssumption
    <3> QED  BY <2>2, <3>1 DEF Frame
  <2>4. f.id = nextId /\ Distinct(f.windows)
    BY DEF Distinct
  <2> HIDE DEF f
  <2>5. frames \in Seq(Frame) /\ N \in Nat /\ DOMAIN frames = 1..N
    BY FrameFields DEF ListsOK
  <2>6. /\ frames' \in Seq(Frame) /\ DOMAIN frames' = 1..(N + 1) /\ frames'[N + 1] = f
        /\ \A i \in 1..N : frames'[i] = frames[i]
    BY <2>1, <2>3, <2>5 DEF f
  <2> HIDE DEF N
  <2>7. \A i \in 1..(N + 1) : i \in 1..N \/ i = N + 1
    BY <2>5
  <2>8. \A i \in 1..N : frames[i].id < nextId /\ frames[i].id \in Nat /\ Distinct(frames[i].windows)
    BY <2>5, FrameFields DEF ListsOK
  <2>9. \A i \in 1..(N + 1) : frames'[i].id < nextId' /\ Distinct(frames'[i].windows)
    BY <2>2, <2>4, <2>6, <2>7, <2>8
  <2>10. \A i, j \in 1..(N + 1) : frames'[i].id = frames'[j].id => i = j
    <3>1. \A i \in 1..N : frames'[i].id # frames'[N + 1].id
      BY <2>2, <2>4, <2>6, <2>8
    <3>2. \A i, j \in 1..N : frames'[i].id = frames'[j].id => i = j
      BY <2>5, <2>6 DEF ListsOK
    <3> QED  BY <2>7, <3>1, <3>2
  <2> QED  BY <2>2, <2>6, <2>9, <2>10 DEF ListsOK, Distinct
<1>3. CASE DeleteFrame
  <2> DEFINE a == Active
             N == Len(frames)
             at(j) == IF j < a THEN j ELSE j + 1
  <2>1. N \in Nat \ {0} /\ DOMAIN frames = 1..N /\ frames \in Seq(Frame)
    BY <1>3, FrameFields DEF DeleteFrame, ListsOK
  <2>2. a \in 1..N
    BY <1>3, <2>1 DEF ActiveFrameExists, Active, DeleteFrame
  <2>3. frames' = [j \in 1..(N - 1) |-> frames[at(j)]] /\ UNCHANGED nextId
    BY <1>3 DEF DeleteFrame, Without
  <2> HIDE DEF a, N
  <2>4. \A j \in 1..(N - 1) : at(j) \in 1..N
    BY <2>1, <2>2
  <2>5. \A j, k \in 1..(N - 1) : at(j) = at(k) => j = k
    BY <2>1, <2>2
  <2> HIDE DEF at
  <2>6. N - 1 \in Nat /\ \A j \in 1..(N - 1) : frames[at(j)] \in Frame
    BY <2>1, <2>4
  <2>7. frames' \in Seq(Frame) /\ DOMAIN frames' = 1..(N - 1)
    BY <2>3, <2>6, IsASeq
  <2>8. \A j \in 1..(N - 1) : frames'[j] = frames[at(j)]
    BY <2>3
  <2>9. \A i \in 1..N : frames[i].id < nextId /\ Distinct(frames[i].windows)
    BY <2>1 DEF ListsOK
  <2>10. \A i, j \in 1..N : frames[i].id = frames[j].id => i = j
    BY <2>1 DEF ListsOK
  <2>11. \A j \in 1..(N - 1) : frames'[j].id < nextId' /\ Distinct(frames'[j].windows)
    BY <2>3, <2>4, <2>8, <2>9
  <2>12. \A j, k \in 1..(N - 1) : frames'[j].id = frames'[k].id => j = k
    BY <2>4, <2>5, <2>8, <2>10
  <2>13. nextId' \in 1..(MaxFrames + 1)
    BY <2>3 DEF ListsOK
  <2> QED  BY <2>7, <2>11, <2>12, <2>13 DEF ListsOK, Distinct
<1>4. CASE MoveFrame
  <2>1. PICK i \in DOMAIN frames, place \in FramePlaces :
          frames' = [frames EXCEPT ![i].place = place]
    BY <1>4 DEF MoveFrame
  <2> DEFINE f == [id |-> frames[i].id, place |-> place, windows |-> frames[i].windows]
  <2>2. [frames[i] EXCEPT !.place = place] = f
    BY FramesAreASeq, ExceptPlace
  <2>3. frames' = [frames EXCEPT ![i] = f]
    BY <2>1, <2>2
  <2>4. f \in Frame /\ f.id = frames[i].id /\ Distinct(f.windows)
    BY FrameFields, PlaceAssumption DEF Frame
  <2> HIDE DEF f
  <2>5. UNCHANGED nextId
    BY <1>4 DEF MoveFrame
  <2> QED  BY <2>3, <2>4, <2>5, ChangedFrame
<1>5. ASSUME NEW w \in Windows, NEW i \in DOMAIN frames, NEW boxes,
             AssignWindow(i, w, boxes), UNCHANGED nextId
      PROVE  ListsOK'
  BY <1>5, AssignedFrame, ChangedFrame
<1>6. ASSUME NEW w \in Windows, AssignFocused(w)  PROVE ListsOK'
  <2>1. Active \in DOMAIN frames
    BY <1>6, FramesAreASeq DEF ActiveFrameExists, Active, AssignFocused
  <2> QED  BY <1>5, <1>6, <2>1 DEF AssignFocused
<1>7. ASSUME NEW w \in Windows, NEW b, AssignIfInside(w, b)  PROVE ListsOK'
  <2>1. PICK i \in FramesAt(Centre(b)) : AssignWindow(i, w, [box EXCEPT ![w] = b])
    BY <1>7 DEF AssignIfInside
  <2>2. i \in DOMAIN frames /\ UNCHANGED nextId
    BY <1>7 DEF FramesAt, AssignIfInside
  <2> QED  BY <1>5, <2>1, <2>2
<1>8. ASSUME NEW w \in Windows, Destroy(w)  PROVE ListsOK'
  <2> DEFINE list(i) == Kept(frames[i].windows, Windows \ {w})
             f(i) == [frames[i] EXCEPT !.windows = list(i)]
  <2>1. frames' = [i \in DOMAIN frames |-> f(i)] /\ UNCHANGED nextId
    BY <1>8 DEF Destroy
  <2>2. ASSUME NEW i \in DOMAIN frames
        PROVE  f(i) \in Frame /\ f(i).id = frames[i].id /\ f(i).windows = list(i)
               /\ Distinct(list(i))
    <3>1. list(i) \in Seq(Windows) /\ Distinct(list(i))
      BY <2>2, FrameFields, KeptFacts
    <3> HIDE DEF list
    <3>2. f(i) = [id |-> frames[i].id, place |-> frames[i].place, windows |-> list(i)]
      BY <2>2, FrameFields, ExceptWindows
    <3> HIDE DEF f
    <3>3. f(i) \in Frame
      BY <2>2, <3>1, <3>2, FrameFields DEF Frame
    <3> QED  BY <3>1, <3>2, <3>3
  <2> HIDE DEF f, list
  <2>3. DOMAIN frames' = DOMAIN frames /\ frames' \in Seq(Frame)
    <3>1. frames' \in [1..Len(frames) -> Frame] /\ Len(frames) \in Nat
      BY <2>1, <2>2, FrameFields
    <3> QED  BY <2>1, <3>1, IsASeq
  <2>4. \A i \in DOMAIN frames : frames'[i].id = frames[i].id /\ Distinct(frames'[i].windows)
    BY <2>1, <2>2
  <2>5. \A i \in DOMAIN frames' : frames'[i].id < nextId' /\ Distinct(frames'[i].windows)
    BY <2>1, <2>3, <2>4 DEF ListsOK
  <2>6. \A i, j \in DOMAIN frames' : frames'[i].id = frames'[j].id => i = j
    BY <2>3, <2>4 DEF ListsOK
  <2>7. nextId' \in 1..(MaxFrames + 1)
    BY <2>1 DEF ListsOK
  <2> QED  BY <2>3, <2>5, <2>6, <2>7 DEF ListsOK, Distinct
<1>9. ASSUME Drop, drag # NoDrag  PROVE ListsOK'
  <2>1. CASE UNCHANGED frameVars
    BY <2>1, <1>1
  <2>2. CASE AssignIfInside(drag.window, box[drag.window])
    BY <1>7, <1>9, <2>2 DEF BoxesOK
  <2> QED  BY <1>9, <2>1, <2>2 DEF Drop, StayOutside
<1>10. ASSUME NEW w \in Windows, Unmap(w)  PROVE ListsOK'
  <2>1. CASE drag.window = w /\ Drop
    <3>1. drag # NoDrag
      BY <2>1, WindowAssumption DEF NoDrag
    <3> QED  BY <1>9, <2>1, <3>1
  <2>2. CASE UNCHANGED frameVars
    BY <2>2, <1>1
  <2> QED  BY <1>10, <2>1, <2>2 DEF Unmap
<1>11. ASSUME NEW w \in Windows, Map(w)  PROVE ListsOK'
  BY <1>1, <1>7, <1>11 DEF Map, StayOutside
<1> QED  BY <1>1, <1>2, <1>3, <1>4, <1>6, <1>8, <1>9, <1>10, <1>11
     DEF Next, vars, BeginFrameDrag, EndFrameDrag, BeginDrag, DragTo, EndDrag,
         Adjust, Undo, Redo

\* What AssignedAreTiled asks of a step, for the frame f that was frame i.
Assigned(i, f) ==
  /\ f.id = frames[i].id
  /\ f.windows # frames[i].windows
  /\ Len(frames[i].windows) <= Len(f.windows)
  /\ mapped \subseteq mapped'

TilesOf(f) == {w \in mapped' : \E k \in DOMAIN f.windows : f.windows[k] = w}

LEMMA AssignTiles ==
  ASSUME ListsOK, NEW a \in DOMAIN frames, NEW boxes, NEW f \in Frame,
         f.id = frames[a].id, f.place = frames[a].place, Distinct(f.windows),
         frames' = [frames EXCEPT ![a] = f],
         box' = Retiled(frames[a], f.windows, boxes, mapped'),
         NEW i \in DOMAIN frames, NEW j \in DOMAIN frames', Assigned(i, frames'[j]),
         NEW v \in TilesOf(frames'[j])
  PROVE  LET g == frames'[j]
         IN /\ Inside(box'[v], FrameBox(g))
            /\ TilesOf(g) = {v} => box'[v] = FrameBox(g)
            /\ \A u \in TilesOf(g) \ {v} : ~Overlaps(box'[v], box'[u])
<1>1. DOMAIN frames' = DOMAIN frames
      /\ \A k \in DOMAIN frames : frames'[k] = IF k = a THEN f ELSE frames[k]
  OBVIOUS
<1>2. frames'[j].id = frames[j].id
  BY <1>1
<1>3. i = j
  BY <1>1, <1>2 DEF ListsOK, Assigned
<1>4. j = a /\ frames'[j] = f
  BY <1>1, <1>3 DEF Assigned
<1>5. f.windows \in Seq(Windows) /\ f.place \in Place
  BY DEF Frame
<1>6. TilesOf(f) = Members(f.windows) \cap mapped'
  <2>1. DOMAIN f.windows = 1..Len(f.windows)
    BY <1>5
  <2> QED  BY <2>1 DEF TilesOf, Members
<1>7. FrameBox(frames[a]) = FrameBox(f) /\ frames[a].place \in Place
  BY <1>5 DEF FrameBox
<1>8. v \in Members(f.windows) \cap mapped'
  BY <1>4, <1>6
<1>9. /\ Inside(box'[v], FrameBox(f))
      /\ Members(f.windows) \cap mapped' = {v} => box'[v] = FrameBox(f)
      /\ \A u \in (Members(f.windows) \cap mapped') \ {v} : ~Overlaps(box'[v], box'[u])
  BY <1>5, <1>7, <1>8, RetiledTiles
<1> QED  BY <1>4, <1>6, <1>9

\* Only a window that joins a frame makes a list longer, or changes one that
\* stays as long.
LEMMA OnlyAssigned ==
  ASSUME ListsOK, FramesOK, ActiveFrameExists, BoxesOK, DraggedIsMapped, Next,
         NEW i \in DOMAIN frames, NEW j \in DOMAIN frames', Assigned(i, frames'[j])
  PROVE  \E a \in DOMAIN frames, w \in Windows : \E boxes :
           AssignWindow(a, w, boxes) /\ UNCHANGED nextId /\ mapped' = mapped \cup {w}
<1> DEFINE Goal == \E a \in DOMAIN frames, w \in Windows : \E boxes :
                     AssignWindow(a, w, boxes) /\ UNCHANGED nextId /\ mapped' = mapped \cup {w}
<1> SUFFICES Goal
  OBVIOUS
<1>1. ASSUME NEW k \in DOMAIN frames, frames'[j].id = frames[k].id,
             frames'[j].windows = frames[k].windows
      PROVE  FALSE
  BY <1>1 DEF ListsOK, Assigned
<1> HIDE DEF Goal
<1>2. CASE UNCHANGED frames
  BY <1>1, <1>2
<1>3. CASE CreateFrame
  <2>1. PICK place \in FramePlaces :
          frames' = Append(frames, [id |-> nextId, place |-> place, windows |-> <<>>])
    BY <1>3 DEF CreateFrame
  <2> DEFINE f == [id |-> nextId, place |-> place, windows |-> <<>>]
             N == Len(frames)
  <2>2. frames \in Seq(Frame) /\ N \in Nat /\ DOMAIN frames = 1..N
    BY FrameFields DEF ListsOK
  <2>3. f.id = nextId
    OBVIOUS
  <2>4. nextId \in 1..MaxFrames /\ <<>> \in Seq(Windows) /\ place \in Place
    BY <1>3, PlaceAssumption, BoundAssumption DEF ListsOK, CreateFrame
  <2>5. f \in Frame
    BY <2>4 DEF Frame
  <2> HIDE DEF f
  <2>6. /\ DOMAIN frames' = 1..(N + 1) /\ frames'[N + 1] = f
        /\ \A k \in 1..N : frames'[k] = frames[k]
    BY <2>1, <2>2, <2>5 DEF f
  <2> HIDE DEF N
  <2>7. j = N + 1
    <3>1. j \in 1..N \/ j = N + 1
      BY <2>2, <2>6
    <3> QED  BY <1>1, <2>2, <2>6, <3>1
  <2>8. frames[i].id < nextId /\ frames[i].id \in Nat
    BY FrameFields DEF ListsOK
  <2> QED  BY <2>3, <2>4, <2>6, <2>7, <2>8 DEF Assigned
<1>4. CASE DeleteFrame
  <2> DEFINE a == Active
             N == Len(frames)
  <2>1. N \in Nat \ {0} /\ DOMAIN frames = 1..N
    BY <1>4, FrameFields DEF DeleteFrame, ListsOK
  <2>2. a \in 1..N
    BY <1>4, <2>1 DEF ActiveFrameExists, Active, DeleteFrame
  <2>3. frames' = [k \in 1..(N - 1) |-> frames[IF k < a THEN k ELSE k + 1]]
    BY <1>4 DEF DeleteFrame, Without
  <2> HIDE DEF a, N
  <2>4. PICK k \in 1..N : frames'[j] = frames[k]
    BY <2>1, <2>2, <2>3
  <2> QED  BY <1>1, <2>1, <2>4
<1>5. CASE MoveFrame
  <2>1. PICK k \in DOMAIN frames, place \in FramePlaces :
          frames' = [frames EXCEPT ![k].place = place]
    BY <1>5 DEF MoveFrame
  <2> DEFINE f == [id |-> frames[k].id, place |-> place, windows |-> frames[k].windows]
  <2>2. [frames[k] EXCEPT !.place = place] = f
    BY FramesAreASeq, ExceptPlace
  <2>3. frames' = [frames EXCEPT ![k] = f]
    BY <2>1, <2>2
  <2>4. f.id = frames[k].id /\ f.windows = frames[k].windows
    OBVIOUS
  <2> HIDE DEF f
  <2>5. j \in DOMAIN frames /\ frames'[j] = IF j = k THEN f ELSE frames[j]
    BY <2>3
  <2> QED  BY <1>1, <2>4, <2>5
<1>6. ASSUME NEW w \in Windows, Destroy(w)  PROVE FALSE
  <2> DEFINE list == Kept(frames[j].windows, Windows \ {w})
             f == [frames[j] EXCEPT !.windows = list]
  <2>1. j \in DOMAIN frames /\ frames'[j] = f
    BY <1>6 DEF Destroy
  <2>2. frames[j].windows \in Seq(Windows)
    BY <2>1, FrameFields
  <2>3. Len(list) >= Len(frames[j].windows) => list = frames[j].windows
    BY <2>2, KeptFacts
  <2>4. list \in Seq(Windows)
    BY <2>2, KeptFacts
  <2> HIDE DEF list
  <2>5. f = [id |-> frames[j].id, place |-> frames[j].place, windows |-> list]
    BY <2>1, FrameFields, ExceptWindows
  <2> HIDE DEF f
  <2>6. f.id = frames[j].id /\ f.windows = list
    BY <2>5
  <2>7. i = j
    BY <2>1, <2>6 DEF ListsOK, Assigned
  <2>8. Len(list) >= Len(frames[j].windows)
    BY <2>1, <2>2, <2>4, <2>6, <2>7 DEF Assigned
  <2> QED  BY <2>1, <2>3, <2>6, <2>7, <2>8 DEF Assigned
<1>7. ASSUME NEW w \in Windows, AssignFocused(w)  PROVE Goal
  <2>1. Active \in DOMAIN frames
    BY <1>7, FramesAreASeq DEF ActiveFrameExists, Active, AssignFocused
  <2>2. mapped' = mapped \cup {w}
    BY <1>7 DEF AssignFocused
  <2> QED  BY <1>7, <2>1, <2>2 DEF AssignFocused, Goal
<1>8. ASSUME NEW w \in Windows, NEW b, AssignIfInside(w, b), mapped' = mapped \cup {w}
      PROVE  Goal
  <2>1. PICK a \in FramesAt(Centre(b)) : AssignWindow(a, w, [box EXCEPT ![w] = b])
    BY <1>8 DEF AssignIfInside
  <2>2. a \in DOMAIN frames /\ UNCHANGED nextId
    BY <1>8 DEF FramesAt, AssignIfInside
  <2> QED  BY <1>8, <2>1, <2>2 DEF Goal
<1>9. ASSUME NEW w \in Windows, Map(w)  PROVE Goal
  <2>1. UNCHANGED frames \/ \E b : AssignIfInside(w, b)
    BY <1>9 DEF Map, StayOutside, frameVars
  <2> QED  BY <1>2, <1>8, <1>9, <2>1 DEF Map
<1>10. CASE EndDrag
  <2> DEFINE w == drag.window
  <2>1. w \in Windows /\ mapped' = mapped \cup {w}
    BY <1>10 DEF EndDrag, BoxesOK, DraggedIsMapped
  <2>2. UNCHANGED frames \/ AssignIfInside(w, box[w])
    BY <1>10 DEF EndDrag, Drop, StayOutside, frameVars
  <2> QED  BY <1>2, <1>8, <2>1, <2>2
<1>11. ASSUME NEW w \in Windows, Unmap(w)  PROVE FALSE
  BY <1>11 DEF Unmap, Assigned
<1> QED  BY <1>2, <1>3, <1>4, <1>5, <1>6, <1>7, <1>9, <1>10, <1>11
     DEF Next, frameVars, BeginFrameDrag, EndFrameDrag, BeginDrag, DragTo, Adjust, Undo, Redo

LEMMA ListsInvariant == Spec => [](ListsOK /\ FramesOK /\ ActiveFrameExists)
<1>1. Init => ListsOK /\ FramesOK /\ ActiveFrameExists
  <2> SUFFICES ASSUME Init  PROVE ListsOK /\ FramesOK /\ ActiveFrameExists
    OBVIOUS
  <2>1. frames = <<>> /\ activeId = 0 /\ nextId = 1
    BY DEF Init
  <2>2. frames \in Seq(Frame) /\ frames \in Seq({}) /\ DOMAIN frames = {}
    BY <2>1
  <2>3. nextId \in 1..(MaxFrames + 1)
    BY <2>1, BoundAssumption
  <2> QED  BY <2>1, <2>2, <2>3 DEF ListsOK, FramesOK, ActiveFrameExists
<1>2. UndoOK => BoxesOK
  BY DEF UndoOK
<1>3. ListsOK /\ FramesOK /\ ActiveFrameExists /\ BoxesOK /\ [Next]_vars
        => (ListsOK /\ FramesOK /\ ActiveFrameExists)'
  BY ListsStep, ActiveStep
<1> QED  BY <1>1, <1>2, <1>3, UndoInvariant, PTL DEF Spec

\* A window that joins a frame, dropped into it, created in it or sent to it by
\* key, leaves its windows tiled: in the frame, none over another, and one
\* alone over all of it, for any number of windows and any size of the monitor.
THEOREM JoinedFramesAreTiled == Spec => AssignedAreTiled
<1> DEFINE Tiled(i, j) ==
      LET f == frames'[j]
          tiled == {w \in mapped' : \E k \in DOMAIN f.windows : f.windows[k] = w}
      IN /\ f.id = frames[i].id
         /\ f.windows # frames[i].windows
         /\ Len(frames[i].windows) <= Len(f.windows)
         /\ mapped \subseteq mapped'
         => \A v \in tiled :
              /\ Inside(box'[v], FrameBox(f))
              /\ tiled = {v} => box'[v] = FrameBox(f)
              /\ \A w \in tiled \ {v} : ~Overlaps(box'[v], box'[w])
<1>1. ASSUME ListsOK, FramesOK, ActiveFrameExists, UndoOK, DraggedIsMapped, Next,
             NEW i \in DOMAIN frames, NEW j \in DOMAIN frames'
      PROVE  Tiled(i, j)
  <2> SUFFICES ASSUME Assigned(i, frames'[j]), NEW v \in TilesOf(frames'[j])
               PROVE  /\ Inside(box'[v], FrameBox(frames'[j]))
                      /\ TilesOf(frames'[j]) = {v} => box'[v] = FrameBox(frames'[j])
                      /\ \A w \in TilesOf(frames'[j]) \ {v} : ~Overlaps(box'[v], box'[w])
    BY DEF Assigned, TilesOf
  <2>1. PICK a \in DOMAIN frames, w \in Windows : \E boxes :
          AssignWindow(a, w, boxes) /\ UNCHANGED nextId /\ mapped' = mapped \cup {w}
    BY <1>1, OnlyAssigned DEF UndoOK
  <2> PICK boxes :
        AssignWindow(a, w, boxes) /\ UNCHANGED nextId /\ mapped' = mapped \cup {w}
    BY <2>1
  <2>2. PICK f \in Frame :
          /\ f.id = frames[a].id /\ f.place = frames[a].place /\ Distinct(f.windows)
          /\ frames' = [frames EXCEPT ![a] = f]
          /\ box' = Retiled(frames[a], f.windows, boxes, mapped')
    BY <1>1, <2>1, AssignedFrame
  <2> QED  BY <1>1, <2>2, AssignTiles
<1>2. ListsOK /\ FramesOK /\ ActiveFrameExists /\ UndoOK /\ DraggedIsMapped /\ [Next]_vars
        => [\A i \in DOMAIN frames, j \in DOMAIN frames' : Tiled(i, j)]_vars
  BY <1>1
<1> QED  BY <1>2, ListsInvariant, UndoInvariant, DragsEndWithTheirWindow, PTL
     DEF Spec, AssignedAreTiled

-----------------------------------------------------------------------------
(* Types.                                                                   *)

\* The unit is small enough for a tile to every window: as many windows as
\* there are tile the monitor without one that is nothing wide or high.
Roomy ==
  /\ IsFiniteSet(Windows)
  /\ Cardinality(Windows) <= FrameSize.w * FrameSize.w
  /\ Cardinality(Windows) <= FrameSize.h * FrameSize.h

LEMMA DistinctLength ==
  ASSUME IsFiniteSet(Windows), NEW list \in Seq(Windows), Distinct(list)
  PROVE  Len(list) <= Cardinality(Windows)
<1>1. Len(list) \in Nat /\ list \in [1..Len(list) -> Windows]
  OBVIOUS
<1>2. list \in Injection(1..Len(list), Windows)
  BY <1>1 DEF Distinct, Injection, IsInjective
<1>3. Cardinality(1..Len(list)) = Len(list)
  <2>1. 1 \in Int /\ Len(list) \in Int
    BY <1>1
  <2>2. Cardinality(1..Len(list)) = IF 1 > Len(list) THEN 0 ELSE Len(list) - 1 + 1
    BY <2>1, FS_Interval
  <2> QED  BY <1>1, <2>2
<1> QED  BY <1>2, <1>3, FS_Injection

LEMMA RootBound ==
  ASSUME NEW c \in Nat \ {0}, NEW W \in Nat, (c - 1) * (c - 1) < W * W
  PROVE  c <= W
<1> SUFFICES ASSUME W <= c - 1  PROVE FALSE
  OBVIOUS
<1>1. PICK d \in Nat : d = c - 1
  OBVIOUS
<1>2. W <= d /\ d * d < W * W
  BY <1>1
<1>3. W * W <= d * W /\ W * d <= d * d /\ d * W = W * d
  BY <1>2, Products
<1>4. W * W \in Int /\ d * W \in Int /\ d * d \in Int
  OBVIOUS
<1> QED  BY <1>2, <1>3, <1>4

LEMMA SlotNotEmpty ==
  ASSUME NEW W \in Nat, NEW c \in Nat \ {0}, c <= W
  PROVE  W \div c \in Nat \ {0}
<1>1. PICK q \in Nat, m \in 0..(c - 1) : q = W \div c /\ W = c * q + m
  BY Euclid
<1>2. q # 0
  BY <1>1
<1> QED  BY <1>1, <1>2

LEMMA RoomyTile ==
  ASSUME Roomy, NEW f, f.place \in Place, NEW n \in Nat \ {0}, NEW i \in 1..n,
         n <= Cardinality(Windows)
  PROVE  Tile(f, i, n) \in Box
<1> DEFINE c == Cols(n)
           r == Rows(n)
           W == FrameSize.w
           H == FrameSize.h
           t == Tile(f, i, n)
<1>1. c \in Nat \ {0} /\ r \in Nat \ {0} /\ r <= c /\ (c - 1) * (c - 1) < n
  <2>1. r \in 1..c
    BY RowsFacts
  <2> QED  BY <2>1, CellCounts, ColsFacts
<1>2. W \in Nat \ {0} /\ H \in Nat \ {0}
  BY FrameSizes
<1>3. Cardinality(Windows) \in Nat /\ Cardinality(Windows) <= W * W
      /\ Cardinality(Windows) <= H * H
  BY FS_CardinalityType DEF Roomy
<1> HIDE DEF c, r, W, H
<1>4. c <= W /\ r <= H
  <2>1. PICK s \in Int : s = (c - 1) * (c - 1)
    BY <1>1
  <2>2. W * W \in Int /\ H * H \in Int
    BY <1>2
  <2>3. s < W * W /\ s < H * H
    BY <1>1, <1>3, <2>1, <2>2
  <2>4. c <= W /\ c <= H
    BY <1>1, <1>2, <2>1, <2>3, RootBound
  <2> QED  BY <1>1, <1>2, <2>4
<1>5. W \div c \in Nat \ {0} /\ H \div r \in Nat \ {0}
  BY <1>1, <1>2, <1>4, SlotNotEmpty
<1>6. Column(i, n) \in Nat /\ Row(i, n) \in Nat
  BY CellBounds, <1>1 DEF c, r
<1>7. Column(i, n) * (W \div c) \in Nat /\ Row(i, n) * (H \div r) \in Nat
  BY <1>5, <1>6
<1>8. t.x \in Int /\ t.y \in Int /\ t.w \in Nat \ {0} /\ t.h \in Nat \ {0}
  <2>1. f.place.x \in Int /\ f.place.y \in Int
    BY DEF Place
  <2>2. /\ t.x = f.place.x + Column(i, n) * (W \div c)
        /\ t.y = f.place.y + Row(i, n) * (H \div r)
        /\ t.w = W \div c /\ t.h \in {H, H \div r}
    BY TileCell DEF c, r, W, H
  <2> QED  BY <1>2, <1>5, <1>7, <2>1, <2>2
<1>9. t = [x |-> t.x, y |-> t.y, w |-> t.w, h |-> t.h]
  BY TileIsBox DEF IsBox
<1> HIDE DEF t
<1>10. t \in Box
  BY <1>8, <1>9 DEF Box
<1> QED  BY <1>10 DEF t

LEMMA RetiledBoxes ==
  ASSUME Roomy, NEW f, f.place \in Place, NEW list \in Seq(Windows), Distinct(list),
         NEW boxes \in [Windows -> Box], NEW live
  PROVE  Retiled(f, list, boxes, live) \in [Windows -> Box]
<1> DEFINE shown == Kept(list, live)
           n == Len(shown)
           last(w) == CHOOSE k \in DOMAIN shown :
                        shown[k] = w /\ \A j \in DOMAIN shown : shown[j] = w => j <= k
           new == [w \in Windows |-> IF \E k \in DOMAIN shown : shown[k] = w
                                     THEN Tile(f, last(w), n) ELSE boxes[w]]
<1>1. Retiled(f, list, boxes, live) = new
  BY DEF Retiled
<1>2. shown \in Seq(Windows) /\ Distinct(shown)
  BY KeptFacts
<1> HIDE DEF shown
<1>3. n \in Nat /\ DOMAIN shown = 1..n /\ n <= Cardinality(Windows)
  BY <1>2, DistinctLength DEF Roomy
<1>4. ASSUME NEW w \in Windows  PROVE new[w] \in Box
  <2>1. ASSUME NEW k \in 1..n, shown[k] = w  PROVE Tile(f, last(w), n) \in Box
    <3>1. \A j \in 1..n : shown[j] = w => j = k
      BY <1>2, <2>1 DEF Distinct
    <3>2. last(w) = k
      BY <1>3, <2>1, <3>1
    <3> HIDE DEF last
    <3>3. n \in Nat \ {0}
      BY <1>3
    <3> QED  BY <1>3, <3>2, <3>3, RoomyTile
  <2> HIDE DEF last
  <2> QED  BY <1>3, <2>1
<1> HIDE DEF last
<1>5. new \in [Windows -> Box]
  BY <1>4
<1> HIDE DEF new
<1> QED  BY <1>1, <1>5

BoxesInPlace == box \in [Windows -> Box]

DragsInPlace ==
  drag \in Drag /\ lastDrag \in Drag /\ frameDrag \in 0..MaxFrames

StacksInPlace ==
  /\ undoStack \in Seq(Command) /\ redoStack \in Seq(Command)
  /\ Len(undoStack) + Len(redoStack) <= MaxHistory

CountsInPlace ==
  /\ mapped \subseteq Windows
  /\ inputs \in 0..MaxInputs /\ activeId \in 0..MaxFrames

InPlace == BoxesInPlace /\ DragsInPlace /\ StacksInPlace /\ CountsInPlace

LEMMA BoxFields ==
  ASSUME NEW b \in Box
  PROVE  /\ b.x \in Int /\ b.y \in Int /\ b.w \in Nat \ {0} /\ b.h \in Nat \ {0}
         /\ b = [x |-> b.x, y |-> b.y, w |-> b.w, h |-> b.h]
BY DEF Box

LEMMA MovedInPlace ==
  ASSUME NEW b \in Box, NEW place, place.x \in Int, place.y \in Int
  PROVE  MovedTo(b, place) \in Box
<1> DEFINE w == b.w
           h == b.h
<1>1. b = [x |-> b.x, y |-> b.y, w |-> w, h |-> h]
      /\ w \in Nat \ {0} /\ h \in Nat \ {0}
  BY BoxFields
<1>2. MovedTo(b, place) = [x |-> place.x, y |-> place.y, w |-> w, h |-> h]
  <2> DEFINE x == b.x
             y == b.y
  <2>1. b = [x |-> x, y |-> y, w |-> w, h |-> h]
    BY <1>1
  <2> HIDE DEF x, y, w, h
  <2>2. MovedTo(b, place) = MovedTo([x |-> x, y |-> y, w |-> w, h |-> h], place)
    BY <2>1
  <2> QED  BY <2>2, MovedLiteral
<1> HIDE DEF w, h
<1> QED  BY <1>1, <1>2 DEF Box

LEMMA AtInPlace ==
  ASSUME NEW place \in Place, NEW size \in Size  PROVE At(place, size) \in Box
BY DEF Place, Size, At, Box

LEMMA ResizedInPlace ==
  ASSUME NEW b \in Box, NEW request \in Requests, NEW corner
  PROVE  Resized(b, corner, request) \in Box
<1> DEFINE w == Larger(request.w, MinSize.w)
           h == Larger(request.h, MinSize.h)
<1>1. request.w \in Int /\ request.h \in Int
      /\ MinSize.w \in Nat \ {0} /\ MinSize.h \in Nat \ {0}
  BY SizeAssumption DEF Size
<1>2. w \in Nat \ {0} /\ h \in Nat \ {0}
  BY <1>1 DEF Larger
<1>3. b.x \in Int /\ b.y \in Int /\ b.w \in Int /\ b.h \in Int
  BY BoxFields
<1>4. Resized(b, corner, request) =
        [x |-> IF corner \in {"topleft", "bottomleft"} THEN b.x + b.w - w ELSE b.x,
         y |-> IF corner \in {"topleft", "topright"} THEN b.y + b.h - h ELSE b.y,
         w |-> w, h |-> h]
  BY DEF Resized
<1> HIDE DEF w, h
<1> QED  BY <1>2, <1>3, <1>4 DEF Box

LEMMA SettledInPlace ==
  ASSUME NEW b \in Box, NEW w, NEW other \in Settled(w, b)  PROVE other \in Box
<1>1. \A place \in Places : place.x \in Int /\ place.y \in Int
  BY PlaceAssumption DEF Place
<1> QED  BY <1>1, MovedInPlace DEF Settled

\* A window joins a frame, or is put in a box.
LEMMA AssignInPlace ==
  ASSUME Roomy, ListsOK, NEW i \in DOMAIN frames, NEW w \in Windows,
         NEW boxes \in [Windows -> Box], AssignWindow(i, w, boxes)
  PROVE  BoxesInPlace'
<1> DEFINE list == Append(Kept(frames[i].windows, Windows \ {w}), w)
           f == frames[i]
           live == mapped \cup {w}
<1>1. box' = Retiled(f, list, boxes, live)
  BY DEF AssignWindow
<1>2. list \in Seq(Windows) /\ Distinct(list) /\ f.place \in Place
  BY FrameFields, AssignedList
<1> HIDE DEF list, f, live
<1> QED  BY <1>1, <1>2, RetiledBoxes DEF BoxesInPlace

LEMMA PutInPlace ==
  ASSUME Roomy, ListsOK, BoxesInPlace, NEW w \in Windows, NEW b \in Box, NEW boxes,
         boxes \subseteq Box, AssignIfInside(w, b) \/ StayOutside(w, b, boxes)
  PROVE  BoxesInPlace'
<1>1. CASE AssignIfInside(w, b)
  <2>1. PICK i \in FramesAt(Centre(b)) : AssignWindow(i, w, [box EXCEPT ![w] = b])
    BY <1>1 DEF AssignIfInside
  <2>2. i \in DOMAIN frames /\ [box EXCEPT ![w] = b] \in [Windows -> Box]
    BY DEF FramesAt, BoxesInPlace
  <2> QED  BY <2>1, <2>2, AssignInPlace
<1>2. CASE StayOutside(w, b, boxes)
  BY <1>2 DEF StayOutside, BoxesInPlace
<1> QED  BY <1>1, <1>2

\* The id of the frame joined is one of those made.
LEMMA ActiveInPlace ==
  ASSUME ListsOK, activeId \in 0..MaxFrames, NEW w, NEW b, NEW boxes,
         AssignIfInside(w, b) \/ StayOutside(w, b, boxes)
  PROVE  activeId' \in 0..MaxFrames
<1>1. CASE AssignIfInside(w, b)
  <2>1. PICK i \in FramesAt(Centre(b)) : activeId' = frames[i].id
    BY <1>1 DEF AssignIfInside
  <2>2. i \in DOMAIN frames
    BY DEF FramesAt
  <2>3. frames[i].id \in 1..MaxFrames
    BY <2>2, FrameFields
  <2> QED  BY <2>1, <2>3
<1>2. CASE StayOutside(w, b, boxes)
  BY <1>2 DEF StayOutside, frameVars
<1> QED  BY <1>1, <1>2

LEMMA DragFields ==
  ASSUME NEW d \in Drag, d # NoDrag
  PROVE  d.window \in Windows /\ d.start \in Box /\ d.mode \in Corners \cup {"move"}
BY DEF Drag

LEMMA DropInPlace ==
  ASSUME Roomy, ListsOK, BoxesInPlace, DragsInPlace, StacksInPlace,
         activeId \in 0..MaxFrames, drag # NoDrag, Drop
  PROVE  /\ BoxesInPlace' /\ StacksInPlace' /\ activeId' \in 0..MaxFrames
         /\ drag' \in Drag /\ lastDrag' \in Drag
<1> DEFINE w == drag.window
<1>1. w \in Windows /\ drag.start \in Box
  BY DragFields DEF DragsInPlace
<1>2. box[w] \in Box
  BY <1>1 DEF BoxesInPlace
<1>3. /\ AssignIfInside(w, box[w]) \/ StayOutside(w, box[w], Settled(w, box[w]))
      /\ Record(w)
      /\ drag' = NoDrag /\ lastDrag' = IF Changed(w) THEN drag ELSE NoDrag
  BY DEF Drop
<1>4. Settled(w, box[w]) \subseteq Box
  BY <1>2, SettledInPlace
<1> HIDE DEF w
<1>5. BoxesInPlace' /\ activeId' \in 0..MaxFrames
  BY <1>1, <1>2, <1>3, <1>4, PutInPlace, ActiveInPlace
<1>6. drag' \in Drag /\ lastDrag' \in Drag
  BY <1>3 DEF Drag, DragsInPlace
<1>7. StacksInPlace'
  <2> DEFINE command == [window |-> w, resize |-> drag.mode \in Corners,
                         old |-> drag.start, new |-> box'[w]]
  <2>1. CASE Changed(w)
    <3>1. Push(command)
      BY <1>3, <2>1 DEF Record
    <3>2. box'[w] \in Box
      BY <1>1, <1>5 DEF BoxesInPlace
    <3>3. (drag.mode \in Corners) \in BOOLEAN
      OBVIOUS
    <3>4. command \in Command
      BY <1>1, <3>2, <3>3 DEF Command
    <3> HIDE DEF command
    <3> DEFINE kept == IF Len(undoStack) >= MaxHistory THEN Tail(undoStack) ELSE undoStack
    <3>5. undoStack' = Append(kept, command) /\ redoStack' = <<>>
      BY <3>1 DEF Push
    <3>6. undoStack \in Seq(Command) /\ Len(undoStack) \in Nat /\ redoStack \in Seq(Command)
          /\ Len(redoStack) \in Nat /\ Len(undoStack) <= MaxHistory
      BY BoundAssumption DEF StacksInPlace
    <3>7. kept \in Seq(Command) /\ Len(kept) <= MaxHistory - 1
      BY <3>6, BoundAssumption
    <3> HIDE DEF kept
    <3> QED  BY <3>4, <3>5, <3>7, BoundAssumption DEF StacksInPlace
  <2>2. CASE ~Changed(w)
    BY <1>3, <2>2 DEF Record, stackVars, StacksInPlace
  <2> QED  BY <2>1, <2>2
<1> QED  BY <1>5, <1>6, <1>7

LEMMA PutBackInPlace ==
  ASSUME BoxesInPlace, NEW command \in Command, NEW b \in Box, box' = PutAt(command, b)
  PROVE  BoxesInPlace'
<1>1. CASE command.window = NoWindow
  BY <1>1 DEF PutAt, BoxesInPlace
<1>2. CASE command.window # NoWindow
  <2> DEFINE w == command.window
             new == IF command.resize THEN b ELSE MovedTo(box[w], b)
  <2>1. w \in Windows
    BY <1>2 DEF Command
  <2>2. box[w] \in Box /\ b.x \in Int /\ b.y \in Int
    BY <2>1, BoxFields DEF BoxesInPlace
  <2>3. new \in Box
    BY <2>2, MovedInPlace
  <2>4. box' = [box EXCEPT ![w] = new]
    BY <1>2, <2>1 DEF PutAt, BoxesInPlace
  <2> HIDE DEF w, new
  <2> QED  BY <2>3, <2>4 DEF BoxesInPlace
<1> QED  BY <1>1, <1>2

\* The top of one stack, taken from it, and put on the other.
LEMMA TopMoves ==
  ASSUME NEW s \in Seq(Command), NEW t \in Seq(Command), s # <<>>
  PROVE  LET top == s[Len(s)]
             rest == SubSeq(s, 1, Len(s) - 1)
         IN /\ top \in Command /\ top.old \in Box /\ top.new \in Box
            /\ rest \in Seq(Command) /\ Append(t, top) \in Seq(Command)
            /\ Len(rest) + Len(Append(t, top)) = Len(s) + Len(t)
<1> DEFINE N == Len(s)
           rest == SubSeq(s, 1, N - 1)
           top == s[N]
           other == Append(t, top)
<1>1. top \in Command /\ N \in Nat \ {0} /\ Len(t) \in Nat
      /\ \A i \in 1..N : s[i] \in Command
  OBVIOUS
<1> HIDE DEF N
<1>2. \A c \in Command : c.old \in Box /\ c.new \in Box
  BY DEF Command
<1>3. rest \in Seq(Command) /\ Len(rest) = N - 1
  <2>1. 1 \in Int /\ N - 1 \in Int /\ \A i \in 1..(N - 1) : s[i] \in Command
    BY <1>1
  <2>2. rest \in Seq(Command)
        /\ Len(rest) = IF 1 <= N - 1 THEN N - 1 - 1 + 1 ELSE 0
    BY <2>1, SubSeqProperties
  <2> QED  BY <1>1, <2>2
<1>4. other \in Seq(Command) /\ Len(other) = Len(t) + 1
  BY <1>1
<1>5. Len(rest) + Len(other) = N + Len(t)
  BY <1>1, <1>3, <1>4
<1> QED  BY <1>1, <1>2, <1>3, <1>4, <1>5 DEF N

LEMMA InPlaceStep ==
  ASSUME Roomy, ListsOK, FramesOK, ActiveFrameExists, ListsOK', InPlace, [Next]_vars
  PROVE  InPlace'
<1> USE DEF InPlace
<1> DEFINE Counts == /\ mapped' \subseteq Windows
                     /\ inputs' \in 0..MaxInputs /\ activeId' \in 0..MaxFrames
           SameBoxes == UNCHANGED box
           SameStacks == UNCHANGED stackVars
           SameDrag == UNCHANGED <<drag, frameDrag>> /\ lastDrag' = NoDrag
<1>1. SameStacks => StacksInPlace'
  BY DEF StacksInPlace, stackVars
<1>2. SameBoxes => BoxesInPlace'
  BY DEF BoxesInPlace
<1>3. SameDrag => DragsInPlace'
  BY DEF DragsInPlace, Drag
<1>4. UNCHANGED <<mapped, inputs, activeId>> => CountsInPlace'
  BY DEF CountsInPlace
<1>5. Input => inputs' \in 0..MaxInputs
  BY BoundAssumption DEF Input, CountsInPlace
<1>6. NoDrag \in Drag /\ \A place \in Places : place.x \in Int /\ place.y \in Int
  BY PlaceAssumption DEF Drag, Place
<1> HIDE DEF Counts, SameBoxes, SameStacks, SameDrag
<1>7. CASE CreateFrame
  <2>1. activeId' \in 0..MaxFrames
    BY <1>7, BoundAssumption DEF CreateFrame, ListsOK
  <2> QED  BY <1>1, <1>2, <1>3, <1>7, <2>1
       DEF CreateFrame, CountsInPlace, SameBoxes, SameStacks, SameDrag
<1>8. CASE DeleteFrame
  <2>1. activeId' \in 0..MaxFrames
    <3>1. frames' # <<>> => frames'[Len(frames')].id \in 1..MaxFrames
      <4>1. frames' \in Seq(Frame)
        BY DEF ListsOK
      <4>2. ASSUME frames' # <<>>  PROVE frames'[Len(frames')] \in Frame
        BY <4>1, <4>2
      <4> QED  BY <4>2 DEF Frame
    <3> QED  BY <1>8, <3>1, BoundAssumption DEF DeleteFrame, CountsInPlace
  <2>2. BoxesInPlace'
    <3>1. \A w \in Windows : box[w] \in Box /\ MovedTo(box[w], Parked) \in Box
      BY PlaceAssumption, MovedInPlace DEF BoxesInPlace, Place
    <3> DEFINE park(w) == w \in mapped /\ \E k \in DOMAIN frames[Active].windows :
                                            frames[Active].windows[k] = w
    <3>2. box' = [w \in Windows |-> IF park(w) THEN MovedTo(box[w], Parked) ELSE box[w]]
      BY <1>8 DEF DeleteFrame
    <3> HIDE DEF park
    <3> QED  BY <3>1, <3>2 DEF BoxesInPlace
  <2> QED  BY <1>1, <1>3, <1>8, <2>1, <2>2
       DEF DeleteFrame, CountsInPlace, SameStacks, SameDrag
<1>9. CASE BeginFrameDrag
  <2>1. frameDrag' \in 0..MaxFrames
    <3>1. Active \in DOMAIN frames
      BY <1>9, FramesAreASeq DEF ActiveFrameExists, Active, BeginFrameDrag
    <3> QED  BY <1>9, <3>1, FrameFields DEF BeginFrameDrag
  <2> QED  BY <1>1, <1>2, <1>4, <1>6, <1>9, <2>1
       DEF BeginFrameDrag, DragsInPlace, SameBoxes, SameStacks, frameVars
<1>10. CASE MoveFrame
  BY <1>1, <1>2, <1>3, <1>4, <1>10 DEF MoveFrame, SameBoxes, SameStacks, SameDrag
<1>11. CASE EndFrameDrag
  BY <1>1, <1>2, <1>4, <1>6, <1>11, BoundAssumption
     DEF EndFrameDrag, DragsInPlace, SameBoxes, SameStacks, frameVars
<1>12. CASE DragTo
  <2> DEFINE w == drag.window
  <2>1. w \in Windows /\ drag.start \in Box
    BY <1>12, DragFields DEF DragTo, DragsInPlace
  <2>2. box[w] \in Box
    BY <2>1 DEF BoxesInPlace
  <2>3. PICK b \in Box : box' = [box EXCEPT ![w] = b]
    <3>1. \A place \in Places : MovedTo(box[w], place) \in Box
      BY <1>6, <2>2, MovedInPlace
    <3>2. \A request \in Requests : Resized(drag.start, drag.mode, request) \in Box
      BY <2>1, ResizedInPlace
    <3>3. w \in DOMAIN box
      BY <2>1 DEF BoxesInPlace
    <3> QED  BY <1>12, <3>1, <3>2, <3>3 DEF DragTo
  <2>4. BoxesInPlace'
    BY <2>3 DEF BoxesInPlace
  <2> QED  BY <1>1, <1>3, <1>4, <1>12, <2>4 DEF DragTo, SameStacks, SameDrag, frameVars
<1>13. CASE EndDrag
  <2>1. /\ BoxesInPlace' /\ StacksInPlace' /\ activeId' \in 0..MaxFrames
        /\ drag' \in Drag /\ lastDrag' \in Drag
    BY <1>13, DropInPlace DEF EndDrag, CountsInPlace
  <2> QED  BY <1>13, <2>1 DEF EndDrag, CountsInPlace, DragsInPlace
<1>14. CASE Undo
  <2>1. /\ undoStack \in Seq(Command) /\ redoStack \in Seq(Command) /\ undoStack # <<>>
        /\ Len(undoStack) \in Nat /\ Len(redoStack) \in Nat
    BY <1>14 DEF Undo, StacksInPlace
  <2> DEFINE top == undoStack[Len(undoStack)]
             rest == SubSeq(undoStack, 1, Len(undoStack) - 1)
             other == Append(redoStack, top)
  <2>2. /\ top \in Command /\ top.old \in Box
        /\ rest \in Seq(Command) /\ other \in Seq(Command)
        /\ Len(rest) + Len(other) = Len(undoStack) + Len(redoStack)
    BY <2>1, TopMoves
  <2>3. box' = PutAt(top, top.old) /\ undoStack' = rest /\ redoStack' = other
    BY <1>14 DEF Undo
  <2> HIDE DEF top, rest, other
  <2>4. Len(rest) + Len(other) <= MaxHistory
    BY <2>2 DEF StacksInPlace
  <2>5. StacksInPlace'
    BY <2>2, <2>3, <2>4 DEF StacksInPlace
  <2>6. BoxesInPlace'
    BY <2>2, <2>3, PutBackInPlace
  <2> QED  BY <1>3, <1>4, <1>14, <2>5, <2>6 DEF Undo, SameDrag, frameVars
<1>15. CASE Redo
  <2>1. /\ undoStack \in Seq(Command) /\ redoStack \in Seq(Command) /\ redoStack # <<>>
        /\ Len(undoStack) \in Nat /\ Len(redoStack) \in Nat
    BY <1>15 DEF Redo, StacksInPlace
  <2> DEFINE top == redoStack[Len(redoStack)]
             rest == SubSeq(redoStack, 1, Len(redoStack) - 1)
             other == Append(undoStack, top)
  <2>2. /\ top \in Command /\ top.new \in Box
        /\ rest \in Seq(Command) /\ other \in Seq(Command)
        /\ Len(rest) + Len(other) = Len(redoStack) + Len(undoStack)
    BY <2>1, TopMoves
  <2>3. box' = PutAt(top, top.new) /\ redoStack' = rest /\ undoStack' = other
    BY <1>15 DEF Redo
  <2>4. Len(other) \in Nat /\ Len(rest) \in Nat
    BY <2>2
  <2> HIDE DEF top, rest, other
  <2>5. Len(other) + Len(rest) <= MaxHistory
    BY <2>1, <2>2, <2>4 DEF StacksInPlace
  <2>6. StacksInPlace'
    BY <2>2, <2>3, <2>5 DEF StacksInPlace
  <2>7. BoxesInPlace'
    BY <2>2, <2>3, PutBackInPlace
  <2> QED  BY <1>3, <1>4, <1>15, <2>6, <2>7 DEF Redo, SameDrag, frameVars
<1>16. ASSUME NEW w \in Windows, Map(w)  PROVE InPlace'
  <2>1. PICK place \in Places, size \in Sizes :
          StayOutside(w, At(place, size), {At(place, size)})
            \/ AssignIfInside(w, At(place, size))
    BY <1>16 DEF Map
  <2> DEFINE b == At(place, size)
  <2>2. b \in Box
    BY PlaceAssumption, SizeAssumption, AtInPlace
  <2> HIDE DEF b
  <2>3. StayOutside(w, b, {b}) \/ AssignIfInside(w, b)
    BY <2>1 DEF b
  <2>4. {b} \subseteq Box
    BY <2>2
  <2>5. BoxesInPlace' /\ activeId' \in 0..MaxFrames
    BY <2>2, <2>3, <2>4, PutInPlace, ActiveInPlace DEF CountsInPlace
  <2>6. Input /\ mapped' = mapped \cup {w} /\ SameStacks /\ SameDrag
    BY <1>16 DEF Map, SameStacks, SameDrag
  <2>7. CountsInPlace'
    BY <1>5, <2>5, <2>6 DEF CountsInPlace
  <2> QED  BY <1>1, <1>3, <2>5, <2>6, <2>7
<1>17. ASSUME NEW w \in Windows, Unmap(w)  PROVE InPlace'
  <2>1. CASE drag.window = w /\ Drop
    <3>1. drag # NoDrag
      BY <2>1, WindowAssumption DEF NoDrag
    <3>2. /\ BoxesInPlace' /\ StacksInPlace' /\ activeId' \in 0..MaxFrames
          /\ drag' \in Drag /\ lastDrag' \in Drag
      BY <2>1, <3>1, DropInPlace DEF CountsInPlace
    <3> QED  BY <1>17, <3>2 DEF Unmap, CountsInPlace, DragsInPlace
  <2>2. CASE UNCHANGED <<box, frameVars, drag, stackVars>> /\ lastDrag' = NoDrag
    BY <1>1, <1>2, <1>3, <1>17, <2>2
       DEF Unmap, CountsInPlace, SameBoxes, SameStacks, SameDrag, frameVars
  <2> QED  BY <1>17, <2>1, <2>2 DEF Unmap
<1>18. ASSUME NEW w \in Windows, Destroy(w)  PROVE InPlace'
  <2> DEFINE forget(stack) == [k \in DOMAIN stack |->
        IF stack[k].window = w THEN [stack[k] EXCEPT !.window = NoWindow] ELSE stack[k]]
  <2>1. undoStack' = forget(undoStack) /\ redoStack' = forget(redoStack)
    BY <1>18 DEF Destroy
  <2>2. \A s \in Seq(Command) : forget(s) \in Seq(Command) /\ Len(forget(s)) = Len(s)
    <3> SUFFICES ASSUME NEW s \in Seq(Command)
                 PROVE  forget(s) \in Seq(Command) /\ Len(forget(s)) = Len(s)
      OBVIOUS
    <3>1. \A c \in Command : [c EXCEPT !.window = NoWindow] \in Command
      BY DEF Command
    <3>2. Len(s) \in Nat /\ DOMAIN s = 1..Len(s) /\ \A k \in DOMAIN s : s[k] \in Command
      OBVIOUS
    <3>3. \A k \in DOMAIN s : forget(s)[k] \in Command
      BY <3>1, <3>2
    <3>4. forget(s) = [k \in 1..Len(s) |-> forget(s)[k]]
      BY <3>2
    <3> HIDE DEF forget
    <3> QED  BY <3>2, <3>3, <3>4, IsASeq
  <2> HIDE DEF forget
  <2>3. StacksInPlace'
    BY <2>1, <2>2 DEF StacksInPlace
  <2> QED  BY <1>2, <1>3, <1>4, <1>18, <2>3 DEF Destroy, SameBoxes, SameDrag
<1>19. ASSUME NEW w \in Windows, Adjust(w)  PROVE InPlace'
  <2>1. box[w] \in Box /\ w \in DOMAIN box
    BY DEF BoxesInPlace
  <2>2. PICK b \in Box : box' = [box EXCEPT ![w] = b]
    <3>1. \A place \in Places : MovedTo(box[w], place) \in Box
      BY <1>6, <2>1, MovedInPlace
    <3>2. \A request \in Requests : Resized(box[w], "bottomright", request) \in Box
      BY <2>1, ResizedInPlace
    <3>3. \A place \in Places, size \in Sizes : At(place, size) \in Box
      BY PlaceAssumption, SizeAssumption, AtInPlace
    <3> QED  BY <1>19, <2>1, <3>1, <3>2, <3>3 DEF Adjust
  <2>3. BoxesInPlace'
    BY <2>2 DEF BoxesInPlace
  <2>4. CountsInPlace'
    BY <1>5, <1>19 DEF Adjust, CountsInPlace, frameVars
  <2> QED  BY <1>1, <1>3, <1>19, <2>3, <2>4 DEF Adjust, SameStacks, SameDrag
<1>20. ASSUME NEW w \in Windows, AssignFocused(w)  PROVE InPlace'
  <2>1. Active \in DOMAIN frames
    BY <1>20, FramesAreASeq DEF ActiveFrameExists, Active, AssignFocused
  <2>2. BoxesInPlace'
    BY <1>20, <2>1, AssignInPlace DEF AssignFocused, BoxesInPlace
  <2>3. CountsInPlace'
    BY <1>5, <1>20 DEF AssignFocused, CountsInPlace
  <2> QED  BY <1>1, <1>3, <1>20, <2>2, <2>3 DEF AssignFocused, SameStacks, SameDrag
<1>21. ASSUME NEW w \in Windows, BeginDrag(w)  PROVE InPlace'
  <2>1. PICK mode \in Corners \cup {"move"} :
          drag' = [window |-> w, mode |-> mode, start |-> box[w]]
    BY <1>21 DEF BeginDrag
  <2>2. box[w] \in Box
    BY DEF BoxesInPlace
  <2>3. drag' \in Drag
    BY <2>1, <2>2 DEF Drag
  <2>4. CountsInPlace'
    BY <1>5, <1>21 DEF BeginDrag, CountsInPlace, frameVars
  <2>5. DragsInPlace'
    BY <1>6, <1>21, <2>3 DEF BeginDrag, DragsInPlace
  <2> QED  BY <1>1, <1>2, <1>21, <2>4, <2>5 DEF BeginDrag, SameBoxes, SameStacks
<1>22. CASE UNCHANGED vars
  BY <1>1, <1>2, <1>4, <1>22 DEF vars, SameBoxes, SameStacks, DragsInPlace, frameVars
<1> QED  BY <1>7, <1>8, <1>9, <1>10, <1>11, <1>12, <1>13, <1>14, <1>15, <1>16,
            <1>17, <1>18, <1>19, <1>20, <1>21, <1>22 DEF Next

\* The variables keep their types, the boxes above all: however windows are
\* dragged, resized, tiled, parked and put back, none is nothing wide or high,
\* and the two stacks never hold more than MAX_STACK_SIZE commands together.
THEOREM FramesTypeCorrect ==
  ASSUME Roomy
  PROVE  Spec => []TypeOK
<1>1. Init => InPlace
  <2> SUFFICES ASSUME Init  PROVE InPlace
    OBVIOUS
  <2>1. BoxesInPlace
    BY PlaceAssumption, SizeAssumption, AtInPlace DEF Init, BoxesInPlace
  <2>2. DragsInPlace
    BY BoundAssumption DEF Init, DragsInPlace, Drag
  <2>3. StacksInPlace
    BY BoundAssumption DEF Init, StacksInPlace
  <2>4. CountsInPlace
    BY BoundAssumption DEF Init, CountsInPlace
  <2> QED  BY <2>1, <2>2, <2>3, <2>4 DEF InPlace
<1>2. ListsOK /\ FramesOK /\ ActiveFrameExists /\ ListsOK' /\ InPlace /\ [Next]_vars
        => InPlace'
  BY InPlaceStep
<1>3. ListsOK /\ InPlace => TypeOK
  BY DEF ListsOK, InPlace, BoxesInPlace, DragsInPlace, StacksInPlace, CountsInPlace, TypeOK
<1> QED  BY <1>1, <1>2, <1>3, ListsInvariant, PTL DEF Spec

-----------------------------------------------------------------------------
(***************************************************************************)
(* CanvasSnap: the loop of resolveOverlap.                                 *)
(***************************************************************************)

LEMMA PushedIsABox ==
  ASSUME NEW b \in Box, NEW o \in Box  PROVE Pushed(b, o) \in Box
BY SnapAssumption DEF Pushed, Box

LEMMA InViewIsABox ==
  ASSUME NEW b \in Box  PROVE InView(b) \in Box
<1>1. \A n, low, high \in Int : Clamp(n, low, high) \in Int /\ Larger(low, high) \in Int
  BY DEF Clamp, Larger
<1>2. /\ View.x + View.w - b.w \in Int /\ View.y + View.h - b.h \in Int
      /\ View.x \in Int /\ View.y \in Int /\ b.x \in Int /\ b.y \in Int
  BY BoxAssumption DEF Box
<1>3. /\ Clamp(b.x, View.x, Larger(View.x, View.x + View.w - b.w)) \in Int
      /\ Clamp(b.y, View.y, Larger(View.y, View.y + View.h - b.h)) \in Int
  BY <1>1, <1>2
<1> QED  BY <1>3 DEF InView, Box

\* The shortest of the four pushes, the gap included, leaves the gap.
LEMMA PushedIsApart ==
  ASSUME NEW b \in Box, NEW o \in Box  PROVE Apart(Pushed(b, o), o, Gap)
BY SnapAssumption DEF Pushed, Box, Apart

LEMMA InViewIsInView ==
  ASSUME NEW b \in Box
  PROVE  LET v == InView(b)
         IN /\ View.x <= v.x /\ View.y <= v.y
            /\ v.w <= View.w => v.x + v.w <= View.x + View.w
            /\ v.h <= View.h => v.y + v.h <= View.y + View.h
BY BoxAssumption DEF InView, Box, Clamp, Larger

LEMMA SnapTypeStep == ASSUME SnapTypeOK, [SnapNext]_snapVars  PROVE SnapTypeOK'
<1> USE SnapAssumption DEF SnapTypeOK
<1>1. CASE Compare
  <2>1. others[next] \in Box /\ next' \in 1..(Len(others) + 1)
    BY <1>1 DEF Compare
  <2>2. window' \in Box
    BY <1>1, <2>1, PushedIsABox DEF Compare
  <2> QED  BY <1>1, <2>1, <2>2 DEF Compare
<1>2. CASE EndPass
  <2>1. CASE anyOverlap /\ iter + 1 < MaxIterations
    <3>1. iter' \in 0..(MaxIterations - 1)
      BY <1>2, <2>1 DEF EndPass
    <3>2. next' \in 1..(Len(others') + 1)
      BY <1>2, <2>1 DEF EndPass
    <3>3. UNCHANGED <<caller, others, window, pc>> /\ anyOverlap' = FALSE
      BY <1>2, <2>1 DEF EndPass
    <3> QED  BY <3>1, <3>2, <3>3
  <2>2. CASE ~(anyOverlap /\ iter + 1 < MaxIterations)
    BY <1>2, <2>2 DEF EndPass
  <2> QED  BY <2>1, <2>2
<1>3. CASE Return
  BY <1>3, InViewIsABox DEF Return
<1>4. CASE UNCHANGED snapVars
  BY <1>4 DEF snapVars
<1> QED  BY <1>1, <1>2, <1>3, <1>4 DEF SnapNext

\* The variables keep their types: no push takes a window off the canvas'
\* coordinates, and no more than MaxIterations passes are made.
THEOREM SnapTypeCorrect == SnapSpec => []SnapTypeOK
<1>1. ASSUME SnapInit  PROVE SnapTypeOK
  <2>1. others \in Seq(Box)
    BY <1>1, SnapAssumption, BoxAssumption DEF SnapInit
  <2>2. window \in Box
    BY <1>1, BoxAssumption, InViewIsABox DEF SnapInit
  <2>3. 0 \in 0..(MaxIterations - 1) /\ 1 \in 1..(Len(others) + 1)
    BY <2>1, SnapAssumption
  <2> QED  BY <1>1, <2>1, <2>2, <2>3 DEF SnapInit, SnapTypeOK
<1>2. SnapTypeOK /\ [SnapNext]_snapVars => SnapTypeOK'
  BY SnapTypeStep
<1> QED  BY <1>1, <1>2, PTL DEF SnapSpec

(***************************************************************************)
(* The loop invariant: while a pass has pushed nothing, the window is over *)
(* none of those compared in it; out of the loop, all have been compared.  *)
(***************************************************************************)
ScanOK ==
  /\ (pc # "done" \/ caller = "drop") /\ ~anyOverlap =>
       \A i \in 1..(next - 1) : ~Overlaps(window, others[i])
  /\ pc # "scan" => next > Len(others)

LEMMA ScanStep == ASSUME SnapTypeOK, ScanOK, [SnapNext]_snapVars  PROVE ScanOK'
<1> USE DEF SnapTypeOK, ScanOK
<1>1. CASE Compare
  <2>1. CASE Overlaps(window, others[next])
    BY <1>1, <2>1 DEF Compare
  <2>2. CASE ~Overlaps(window, others[next])
    <3>1. ASSUME ~anyOverlap', NEW i \in 1..(next' - 1)
          PROVE  ~Overlaps(window', others'[i])
      <4>1. CASE i = next
        BY <1>1, <2>2, <4>1 DEF Compare
      <4>2. CASE i # next
        BY <1>1, <2>2, <3>1, <4>2 DEF Compare
      <4> QED  BY <4>1, <4>2
    <3> QED  BY <1>1, <2>2, <3>1 DEF Compare
  <2> QED  BY <2>1, <2>2
<1>2. CASE EndPass
  BY <1>2 DEF EndPass
<1>3. CASE Return
  BY <1>3 DEF Return
<1>4. CASE UNCHANGED snapVars
  BY <1>4 DEF snapVars
<1> QED  BY <1>1, <1>2, <1>3, <1>4 DEF SnapNext

\* A dropped window that the last pass did not push is over no other window.
THEOREM SettledWindowsAreFree == SnapSpec => []SettledIsFree
<1>1. SnapInit => ScanOK
  BY DEF SnapInit, ScanOK
<1>2. SnapTypeOK /\ ScanOK /\ [SnapNext]_snapVars => ScanOK'
  BY ScanStep
<1>3. SnapTypeOK /\ ScanOK => SettledIsFree
  BY DEF SnapTypeOK, ScanOK, SettledIsFree, Free
<1> QED  BY <1>1, <1>2, <1>3, SnapTypeCorrect, PTL DEF SnapSpec

\* Every push takes the window off the other and leaves the gap.
THEOREM EveryPushLeavesTheGap == SnapSpec => PushesLeaveGap
<1>1. SnapTypeOK /\ [SnapNext]_snapVars =>
        [pc = "scan" /\ window' # window => Apart(window', others[next], Gap)]_snapVars
  BY PushedIsApart DEF SnapTypeOK, SnapNext, Compare, EndPass, Return
<1> QED  BY <1>1, SnapTypeCorrect, PTL DEF SnapSpec, PushesLeaveGap

\* A created window is in view at the end, or begins where the view does.
THEOREM CreatedWindowsAreInView == SnapSpec => []CreatedIsInView
<1>1. SnapInit => CreatedIsInView
  BY DEF SnapInit, CreatedIsInView
<1>2. ASSUME SnapTypeOK, CreatedIsInView, [SnapNext]_snapVars  PROVE CreatedIsInView'
  <2>1. CASE Return
    BY <1>2, <2>1, InViewIsInView DEF SnapTypeOK, Return, CreatedIsInView
  <2>2. CASE Compare \/ EndPass
    BY <1>2, <2>2 DEF SnapTypeOK, Compare, EndPass, CreatedIsInView
  <2>3. CASE UNCHANGED snapVars
    BY <1>2, <2>3 DEF snapVars, CreatedIsInView
  <2> QED  BY <1>2, <2>1, <2>2, <2>3 DEF SnapNext
<1> QED  BY <1>1, <1>2, SnapTypeCorrect, PTL DEF SnapSpec
=============================================================================
