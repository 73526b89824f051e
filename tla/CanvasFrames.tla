----------------------------- MODULE CanvasFrames -----------------------------
(***************************************************************************)
(* Where the tiled windows of the canvas are: created at the pointer,      *)
(* dragged and resized with the mouse, moved with the keyboard, tiled in   *)
(* frames (CCanvasFrame, CCanvasFrameManager), parked when their frame is  *)
(* deleted, and put back by undo.                                          *)
(*                                                                         *)
(* A frame has one tab: addTab has no caller, so the commands that switch  *)
(* tabs do nothing.  Where resolveOverlap takes a window that is over      *)
(* another is CanvasSnap's; here it is any of Places.  Only the commands   *)
(* for windows are on the undo stack (CanvasDrawing has the others).       *)
(* References to a window that is destroyed expire; its name then stands   *)
(* for a window yet to come.                                               *)
(***************************************************************************)
EXTENDS CanvasGeometry, Sequences

CONSTANTS
  Windows,     \* windows
  Places,      \* positions on the canvas, of windows and of the pointer
  Sizes,       \* sizes of windows that are created or fitted
  Requests,    \* sizes that resizing asks for, before they are clamped
  Corners,     \* corners that windows are resized by
  MinSize,     \* MIN_WINDOW_WIDTH, MIN_WINDOW_HEIGHT
  FrameSize,   \* the size of the monitor, and so of a frame
  FramePlaces, \* positions of frames
  Parked,      \* PARK_POS
  MaxFrames,   \* bound on the frames made
  MaxHistory,  \* MAX_STACK_SIZE
  MaxInputs    \* bound on the windows mapped, dragged, adjusted and assigned

Place == [x : Int, y : Int]
Size == [w : Nat \ {0}, h : Nat \ {0}]

NoWindow == "none"
ASSUME WindowAssumption == NoWindow \notin Windows
ASSUME PlaceAssumption ==
  Places \subseteq Place /\ FramePlaces \subseteq Place /\ Parked \in Place
ASSUME SizeAssumption ==
  /\ Sizes \subseteq Size /\ Sizes # {}
  /\ MinSize \in Size /\ FrameSize \in Size
  /\ Requests \subseteq [w : Int, h : Int]
ASSUME CornerAssumption ==
  Corners \subseteq {"topleft", "topright", "bottomleft", "bottomright"}
ASSUME BoundAssumption ==
  MaxFrames \in Nat /\ MaxInputs \in Nat /\ MaxHistory \in Nat \ {0}

VARIABLES
  mapped,     \* windows with m_isMapped
  box,        \* m_position and m_size of each window
  frames,     \* m_frames: id, position, and the windows of the tab
  nextId,     \* m_nextId
  activeId,   \* m_activeId, 0 for none
  drag,       \* m_currentlyDraggedWindow, m_dragMode and where the drag began
  frameDrag,  \* m_draggingFrameId, 0 unless m_isDraggingFrame
  undoStack,  \* m_undoStack
  redoStack,  \* m_redoStack
  inputs,     \* how many of them there have been
  lastDrag    \* history: the drag that ended with the last step, if it moved the window

frameVars == <<frames, nextId, activeId>>
stackVars == <<undoStack, redoStack>>
vars == <<mapped, box, frameVars, drag, frameDrag, stackVars,
          inputs, lastDrag>>

NoDrag == [window |-> NoWindow, mode |-> "none"]

PlaceOf(b) == [x |-> b.x, y |-> b.y]
At(place, size) == [x |-> place.x, y |-> place.y, w |-> size.w, h |-> size.h]
MovedTo(b, place) == [b EXCEPT !.x = place.x, !.y = place.y]
FrameBox(f) == At(f.place, FrameSize)

Input == inputs < MaxInputs /\ inputs' = inputs + 1

-----------------------------------------------------------------------------
(* Frames.                                                                  *)

\* What is left of the list when what is not in S is taken off it.
Kept(list, S) ==
  LET kept[k \in 0..Len(list)] ==
        IF k = 0 THEN <<>>
        ELSE IF list[k] \in S THEN Append(kept[k - 1], list[k]) ELSE kept[k - 1]
  IN kept[Len(list)]

\* computeTileLayout: the i-th of n tiles.  Three are a master and a stack,
\* any other number is a grid, of which one and two are cases.
Tile(f, i, n) ==
  LET cols == CHOOSE c \in 1..n : c * c >= n /\ (c - 1) * (c - 1) < n
      rows == (n + cols - 1) \div cols
      w == FrameSize.w \div cols
      h == FrameSize.h \div rows
      master == n = 3 /\ i = 1
      column == IF n = 3 THEN IF master THEN 0 ELSE 1 ELSE (i - 1) % cols
      row == IF n = 3 THEN IF i = 3 THEN 1 ELSE 0 ELSE (i - 1) \div cols
  IN [x |-> f.place.x + column * w, y |-> f.place.y + row * h,
      w |-> w, h |-> IF master THEN FrameSize.h ELSE h]

\* The boxes after retile: the windows of the list
\* that are live, that is mapped, are tiled.
Retiled(f, list, boxes, live) ==
  LET shown == Kept(list, live)
      last(w) == CHOOSE k \in DOMAIN shown :
                   shown[k] = w /\ \A j \in DOMAIN shown : shown[j] = w => j <= k
  IN [w \in Windows |-> IF \E k \in DOMAIN shown : shown[k] = w
                        THEN Tile(f, last(w), Len(shown)) ELSE boxes[w]]

\* Fault: the window is not taken off the list first.
AssignWindow_Twice(i, w, boxes) ==
  LET list == Append(frames[i].windows, w)
  IN /\ frames' = [frames EXCEPT ![i].windows = list]
     /\ box' = Retiled(frames[i], list, boxes, mapped \cup {w})

\* assignWindow, of a window that is mapped or about to be.  Other frames keep it
\* on their lists.
AssignWindow(i, w, boxes) ==
  LET list == Append(Kept(frames[i].windows, Windows \ {w}), w)
  IN /\ frames' = [frames EXCEPT ![i].windows = list]
     /\ box' = Retiled(frames[i], list, boxes, mapped \cup {w})

\* The doubled coordinates of the centre of b.
Centre(b) == [x |-> 2 * b.x + b.w, y |-> 2 * b.y + b.h]

\* The frames that have the doubled point p, borders included.
FramesAt(p) ==
  {i \in DOMAIN frames :
     LET b == FrameBox(frames[i])
     IN /\ 2 * b.x <= p.x /\ p.x <= 2 * (b.x + b.w)
        /\ 2 * b.y <= p.y /\ p.y <= 2 * (b.y + b.h)}

\* assignWindowIfInsideFrame, when it returns true: w has the box b, whose
\* centre is in a frame.
AssignIfInside(w, b) ==
  /\ \E i \in FramesAt(Centre(b)) :
       /\ \A j \in FramesAt(Centre(b)) : i <= j
       /\ AssignWindow(i, w, [box EXCEPT ![w] = b])
       /\ activeId' = frames[i].id
  /\ UNCHANGED nextId

\* When it returns false and the window goes to one of the boxes.
StayOutside(w, b, boxes) ==
  /\ FramesAt(Centre(b)) = {}
  /\ \E other \in boxes : box' = [box EXCEPT ![w] = other]
  /\ UNCHANGED frameVars

\* activeFrame
Active == LET ids == {i \in DOMAIN frames : frames[i].id = activeId}
          IN IF ids = {} THEN Len(frames) ELSE CHOOSE i \in ids : TRUE

CreateFrame ==
  /\ nextId <= MaxFrames
  /\ \E place \in FramePlaces :
       frames' = Append(frames, [id |-> nextId, place |-> place, windows |-> <<>>])
  /\ nextId' = nextId + 1 /\ activeId' = nextId
  /\ lastDrag' = NoDrag
  /\ UNCHANGED <<mapped, box, drag, frameDrag, stackVars, inputs>>

Without(i) == [j \in 1..(Len(frames) - 1) |-> frames[IF j < i THEN j ELSE j + 1]]

\* deleteFrame of the active frame.  Its windows are parked out of sight, and a
\* drag of the frame goes on without it.
DeleteFrame ==
  /\ frames # <<>>
  /\ frames' = Without(Active)
  /\ activeId' = IF frames[Active].id # activeId THEN activeId
                 ELSE IF frames' = <<>> THEN 0 ELSE frames'[Len(frames')].id
  /\ box' = [w \in Windows |->
               IF w \in mapped /\ \E k \in DOMAIN frames[Active].windows :
                                    frames[Active].windows[k] = w
               THEN MovedTo(box[w], Parked) ELSE box[w]]
  /\ lastDrag' = NoDrag
  /\ UNCHANGED <<mapped, nextId, drag, frameDrag, stackVars, inputs>>

\* assignFocusedWindow
AssignFocused(w) ==
  /\ w \in mapped /\ frames # <<>>
  /\ AssignWindow(Active, w, box)
  /\ Input /\ lastDrag' = NoDrag
  /\ UNCHANGED <<mapped, nextId, activeId, drag, frameDrag, stackVars>>

BeginFrameDrag ==
  /\ frames # <<>>
  /\ frameDrag' = frames[Active].id
  /\ lastDrag' = NoDrag
  /\ UNCHANGED <<mapped, box, frameVars, drag, stackVars, inputs>>

\* updateFrameDrag: the windows stay where they are.
MoveFrame ==
  /\ \E i \in DOMAIN frames, place \in FramePlaces :
       /\ frames[i].id = frameDrag
       /\ frames' = [frames EXCEPT ![i].place = place]
  /\ lastDrag' = NoDrag
  /\ UNCHANGED <<mapped, box, nextId, activeId, drag, frameDrag, stackVars, inputs>>

EndFrameDrag ==
  /\ frameDrag # 0
  /\ frameDrag' = 0
  /\ lastDrag' = NoDrag
  /\ UNCHANGED <<mapped, box, frameVars, drag, stackVars, inputs>>

-----------------------------------------------------------------------------
(* Dragging windows.                                                        *)

\* changeMouseBindMode and onBeginDragWindow, over the window w.
BeginDrag(w) ==
  /\ drag = NoDrag /\ w \in mapped
  /\ \E mode \in Corners \cup {"move"} :
       drag' = [window |-> w, mode |-> mode, start |-> box[w]]
  /\ Input /\ lastDrag' = NoDrag
  /\ UNCHANGED <<mapped, box, frameVars, frameDrag, stackVars>>

\* Fault: the size is not clamped.
Resized_NotClamped(b, corner, request) ==
  [x |-> IF corner \in {"topleft", "bottomleft"} THEN b.x + b.w - request.w ELSE b.x,
   y |-> IF corner \in {"topleft", "topright"} THEN b.y + b.h - request.h ELSE b.y,
   w |-> request.w, h |-> request.h]

\* The box b with the corner dragged; the corner opposite stays.
Resized(b, corner, request) ==
  LET w == Larger(request.w, MinSize.w)
      h == Larger(request.h, MinSize.h)
  IN [x |-> IF corner \in {"topleft", "bottomleft"} THEN b.x + b.w - w ELSE b.x,
      y |-> IF corner \in {"topleft", "topright"} THEN b.y + b.h - h ELSE b.y,
      w |-> w, h |-> h]

\* onMouseMove, unless a frame is being dragged.
DragTo ==
  /\ frameDrag = 0 /\ drag # NoDrag
  /\ \/ /\ drag.mode = "move"
        /\ \E place \in Places :
             box' = [box EXCEPT ![drag.window] = MovedTo(@, place)]
     \/ /\ drag.mode \in Corners
        /\ \E request \in Requests :
             box' = [box EXCEPT ![drag.window] =
                       Resized(drag.start, drag.mode, request)]
  /\ lastDrag' = NoDrag
  /\ UNCHANGED <<mapped, frameVars, drag, frameDrag, stackVars, inputs>>

\* Where resolveOverlap may take the window.
Settled(w, b) ==
  IF \E other \in mapped \ {w} : Overlaps(b, box[other])
  THEN {MovedTo(b, place) : place \in Places} ELSE {b}

Push(command) ==
  /\ undoStack' = Append(IF Len(undoStack) >= MaxHistory THEN Tail(undoStack)
                         ELSE undoStack, command)
  /\ redoStack' = <<>>

\* Fault: a resize is recorded only when it moves the window.
Record_OnlyMoves(w) ==
  IF PlaceOf(box'[w]) # PlaceOf(drag.start)
  THEN Push([window |-> w, resize |-> drag.mode \in Corners,
             old |-> drag.start, new |-> box'[w]])
  ELSE UNCHANGED stackVars

\* Whether the drag, at its end, has changed what it was to change.
Changed(w) == IF drag.mode \in Corners THEN box'[w] # drag.start
              ELSE PlaceOf(box'[w]) # PlaceOf(drag.start)

Record(w) ==
  IF Changed(w)
  THEN Push([window |-> w, resize |-> drag.mode \in Corners,
             old |-> drag.start, new |-> box'[w]])
  ELSE UNCHANGED stackVars

\* onEndDragWindow: the window joins the frame it is in, or leaves the windows
\* it is over.
Drop ==
  LET w == drag.window
  IN /\ AssignIfInside(w, box[w]) \/ StayOutside(w, box[w], Settled(w, box[w]))
     /\ Record(w)
     /\ drag' = NoDrag /\ lastDrag' = IF Changed(w) THEN drag ELSE NoDrag

EndDrag ==
  /\ drag # NoDrag
  /\ Drop
  /\ UNCHANGED <<mapped, frameDrag, inputs>>

-----------------------------------------------------------------------------
(* Windows come and go.                                                     *)

\* onWindowCreatedTiling: at the pointer when that is in a frame, and otherwise
\* near it, where there is room.  The window joins the frame its centre is in.
Map(w) ==
  /\ w \notin mapped
  /\ mapped' = mapped \cup {w}
  /\ \E place \in Places, size \in Sizes :
       LET b == At(place, size)
       IN StayOutside(w, b, {b}) \/ AssignIfInside(w, b)
  /\ Input /\ lastDrag' = NoDrag
  /\ UNCHANGED <<drag, frameDrag, stackVars>>

\* Fault: a drag of the window goes on.
Unmap_KeepsDrag(w) ==
  /\ w \in mapped
  /\ mapped' = mapped \ {w}
  /\ lastDrag' = NoDrag
  /\ UNCHANGED <<box, frameVars, drag, frameDrag, stackVars, inputs>>

\* A drag of the window ends while it is still mapped.  Its frame is not tiled
\* anew.
Unmap(w) ==
  /\ w \in mapped
  /\ mapped' = mapped \ {w}
  /\ \/ drag.window = w /\ Drop
     \/ /\ drag.window # w /\ lastDrag' = NoDrag
        /\ UNCHANGED <<box, frameVars, drag, stackVars>>
  /\ UNCHANGED <<frameDrag, inputs>>

Destroy(w) ==
  LET forget(stack) == [k \in DOMAIN stack |->
        IF stack[k].window = w THEN [stack[k] EXCEPT !.window = NoWindow] ELSE stack[k]]
  IN /\ w \notin mapped
     /\ frames' = [i \in DOMAIN frames |-> [frames[i] EXCEPT !.windows =
                     Kept(@, Windows \ {w})]]
     /\ undoStack' = forget(undoStack) /\ redoStack' = forget(redoStack)
     /\ lastDrag' = NoDrag
     /\ UNCHANGED <<mapped, box, nextId, activeId, drag, frameDrag, inputs>>

\* moveActiveWindow, resizeActiveWindow, the two fit messages: not recorded.
Adjust(w) ==
  /\ w \in mapped
  /\ \/ \E place \in Places : box' = [box EXCEPT ![w] = MovedTo(@, place)]
     \/ \E request \in Requests :
          box' = [box EXCEPT ![w] = Resized(@, "bottomright", request)]
     \/ \E place \in Places, size \in Sizes : box' = [box EXCEPT ![w] = At(place, size)]
  /\ Input /\ lastDrag' = NoDrag
  /\ UNCHANGED <<mapped, frameVars, drag, frameDrag, stackVars>>

-----------------------------------------------------------------------------
(* Undo and redo.                                                           *)

\* WindowMoveCommand has positions, WindowResizeCommand sizes too.
PutAt(command, b) ==
  IF command.window = NoWindow THEN box
  ELSE [box EXCEPT ![command.window] = IF command.resize THEN b ELSE MovedTo(@, b)]

Undo ==
  /\ undoStack # <<>>
  /\ LET command == undoStack[Len(undoStack)]
     IN /\ box' = PutAt(command, command.old)
        /\ undoStack' = SubSeq(undoStack, 1, Len(undoStack) - 1)
        /\ redoStack' = Append(redoStack, command)
  /\ lastDrag' = NoDrag
  /\ UNCHANGED <<mapped, frameVars, drag, frameDrag, inputs>>

Redo ==
  /\ redoStack # <<>>
  /\ LET command == redoStack[Len(redoStack)]
     IN /\ box' = PutAt(command, command.new)
        /\ redoStack' = SubSeq(redoStack, 1, Len(redoStack) - 1)
        /\ undoStack' = Append(undoStack, command)
  /\ lastDrag' = NoDrag
  /\ UNCHANGED <<mapped, frameVars, drag, frameDrag, inputs>>

-----------------------------------------------------------------------------
Init ==
  /\ mapped = {} /\ box \in [Windows -> {At(Parked, MinSize)}]
  /\ frames = <<>> /\ nextId = 1 /\ activeId = 0
  /\ drag = NoDrag /\ frameDrag = 0
  /\ undoStack = <<>> /\ redoStack = <<>>
  /\ inputs = 0 /\ lastDrag = NoDrag

Next ==
  \/ CreateFrame \/ DeleteFrame \/ BeginFrameDrag \/ MoveFrame \/ EndFrameDrag
  \/ DragTo \/ EndDrag \/ Undo \/ Redo
  \/ \E w \in Windows :
       Map(w) \/ Unmap(w) \/ Destroy(w) \/ Adjust(w) \/ AssignFocused(w) \/ BeginDrag(w)

Spec == Init /\ [][Next]_vars

-----------------------------------------------------------------------------
(* Properties.                                                              *)

Frame == [id : 1..MaxFrames, place : Place, windows : Seq(Windows)]
Command == [window : Windows \cup {NoWindow}, resize : BOOLEAN, old : Box, new : Box]
Drag == [window : Windows, mode : Corners \cup {"move"}, start : Box] \cup {NoDrag}

TypeOK ==
  /\ mapped \subseteq Windows /\ box \in [Windows -> Box]
  /\ frames \in Seq(Frame)
  /\ inputs \in 0..MaxInputs
  /\ nextId \in 1..(MaxFrames + 1) /\ activeId \in 0..MaxFrames
  /\ drag \in Drag /\ lastDrag \in Drag
  /\ frameDrag \in 0..MaxFrames
  /\ undoStack \in Seq(Command) /\ redoStack \in Seq(Command)
  /\ Len(undoStack) + Len(redoStack) <= MaxHistory

\* While there are frames one of them is active, through every order of making,
\* deleting and dropping into them; when there is none, none is.
ActiveFrameExists ==
  IF frames = <<>> THEN activeId = 0
  ELSE \E i \in DOMAIN frames : frames[i].id = activeId

\* No drag outlives its window, which may close at any moment.
DraggedIsMapped == drag # NoDrag => drag.window \in mapped

\* Neither the active frame nor the dragged window is one that is gone:
\* getActiveFrame and the drag's handlers may look them up at any moment.
NothingDangles == ActiveFrameExists /\ DraggedIsMapped

\* A window that joins a frame leaves the mapped windows of the frame tiled: in
\* it, none over another, and one alone over all of it.
AssignedAreTiled ==
  [][\A i \in DOMAIN frames, j \in DOMAIN frames' :
       LET f == frames'[j]
           tiled == {w \in mapped' : \E k \in DOMAIN f.windows : f.windows[k] = w}
       IN /\ f.id = frames[i].id
          /\ f.windows # frames[i].windows
          /\ Len(frames[i].windows) <= Len(f.windows)
          /\ mapped \subseteq mapped'
          => \A v \in tiled :
               /\ Inside(box'[v], FrameBox(f))
               /\ tiled = {v} => box'[v] = FrameBox(f)
               /\ \A w \in tiled \ {v} : ~Overlaps(box'[v], box'[w])]_vars

\* Undoing right after a drag that moved the window takes it back to where the
\* drag began, whatever else was done while it was dragged; a resize is taken
\* back in size too.
UndoTakesBackTheDrag ==
  [][Undo /\ lastDrag # NoDrag =>
       LET b == box'[lastDrag.window]
       IN IF lastDrag.mode \in Corners THEN b = lastDrag.start
          ELSE PlaceOf(b) = PlaceOf(lastDrag.start)]_vars
=============================================================================
