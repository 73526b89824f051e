---------------------------- MODULE CanvasDrawing ----------------------------
(***************************************************************************)
(* Drawing on the canvas: the draw mode (CCanvasDrawMode) and its toolbar, *)
(* the annotation store they edit, and the undo and redo stacks            *)
(* (CCanvasUndoRedo) with the three annotation commands (CanvasCommand).   *)
(* The compositor handles one event at a time, so every handler is one     *)
(* atomic action; what interleaves is the order of the user's events, from *)
(* one pointing device or several.  The module starts where the canvas     *)
(* layout has been enabled, with the annotations of the state file loaded. *)
(*                                                                         *)
(* Every press on the canvas is numbered, and a drawing's mark is the      *)
(* press its first point comes from.  The mark 0 is a point no press set:  *)
(* the default-constructed start of an arrow.                              *)
(***************************************************************************)
EXTENDS CanvasAnnotation, Sequences

CONSTANTS
  Pointers,     \* pointing devices, each with a left button
  MaxHistory,   \* MAX_STACK_SIZE
  MaxLoaded,    \* bound on the annotations the state file may hold at start
  MaxPresses,   \* bound on the presses on the canvas
  MaxIds        \* bound on the ids handed out

ASSUME HistoryAssumption == MaxHistory \in Nat \ {0}
ASSUME BoundsAssumption ==
  MaxLoaded \in Nat /\ MaxPresses \in Nat /\ MaxIds \in Nat

VARIABLES
  undoStack,      \* m_undoStack, the latest command last
  redoStack,      \* m_redoStack, the next command to redo last
  active,         \* m_active
  tool,           \* m_tool
  drawing,        \* m_drawing
  awaitingText,   \* m_awaitingText
  stroke,         \* m_currentStroke: its mark and its points, counted up to 2
  arrowFrom,      \* m_currentArrow.start: its mark
  held,           \* the devices whose left button is down
  presses         \* how many presses on the canvas there have been

stackVars == <<undoStack, redoStack>>
modeVars  == <<active, tool, drawing, awaitingText, stroke, arrowFrom>>
inputVars == <<held, presses>>
vars == <<store, nextId, dirty, undoStack, redoStack, active, tool, drawing,
          awaitingText, stroke, arrowFrom, held, presses>>

Tools == {"brush", "eraser", "arrow", "sticky", "text"}

\* AnnotationAddCommand and AnnotationRemoveCommand save the one annotation
\* they are about, AnnotationClearCommand all that were there.
Command == [op : {"add", "remove", "clear"}, saved : SUBSET Annotation]

Top(stack) == stack[Len(stack)]
Popped(stack) == SubSeq(stack, 1, Len(stack) - 1)

-----------------------------------------------------------------------------
(* The commands and the two stacks.                                         *)

Pushed(oldest, op, saved) ==
  Append(SubSeq(undoStack, oldest, Len(undoStack)), [op |-> op, saved |-> saved])

\* Fault: the commands to redo are kept.
Push_KeepsRedo(op, saved) ==
  /\ UNCHANGED redoStack
  /\ undoStack' = Pushed(IF Len(undoStack) >= MaxHistory THEN 2 ELSE 1, op, saved)

\* CCanvasUndoRedo::push
Push(op, saved) ==
  /\ redoStack' = <<>>
  /\ undoStack' = Pushed(IF Len(undoStack) >= MaxHistory THEN 2 ELSE 1, op, saved)

\* ICanvasCommand::execute.  m_id is set by the constructor only: an
\* annotation added again has an id the command does not know.
Execute(command) ==
  CASE command.op = "add"    -> AddCopies(command.saved)
    [] command.op = "remove" -> RemoveAnnotations(command.saved)
    [] command.op = "clear"  -> ClearAll

\* ICanvasCommand::undo
Revert(command) ==
  IF command.op = "add" THEN RemoveAnnotations(command.saved)
                        ELSE AddCopies(command.saved)

Undo ==
  /\ undoStack # <<>>
  /\ nextId + Cardinality(Top(undoStack).saved) <= MaxIds + 1
  /\ undoStack' = Popped(undoStack)
  /\ redoStack' = Append(redoStack, Top(undoStack))
  /\ Revert(Top(undoStack))
  /\ UNCHANGED <<modeVars, inputVars>>

Redo ==
  /\ redoStack # <<>>
  /\ nextId + Cardinality(Top(redoStack).saved) <= MaxIds + 1
  /\ redoStack' = Popped(redoStack)
  /\ undoStack' = Append(undoStack, Top(redoStack))
  /\ Execute(Top(redoStack))
  /\ UNCHANGED <<modeVars, inputVars>>

\* Fault: the command is built after the store is cleared.
ClearAnnotations_SavesNothing ==
  /\ ClearAll
  /\ Push("clear", store')
  /\ UNCHANGED <<modeVars, inputVars>>

\* canvas:clearannotations all
ClearAnnotations ==
  /\ Push("clear", store)
  /\ ClearAll
  /\ UNCHANGED <<modeVars, inputVars>>

\* canvas:clearannotations <type>; kinds is empty for an unknown type.
ClearAnnotationsByType ==
  \E kinds \in {{k} : k \in Kinds} \cup {{}} :
    /\ ClearByType(kinds)
    /\ UNCHANGED <<stackVars, modeVars, inputVars>>

-----------------------------------------------------------------------------
(* The draw mode.                                                           *)

\* Fault: leaving the draw mode forgets to end the drawing.
ToggleDrawMode_KeepsDrawing ==
  /\ active' = ~active
  /\ awaitingText' = (awaitingText /\ ~active)
  /\ UNCHANGED <<storeVars, stackVars, tool, drawing, stroke, arrowFrom, inputVars>>

\* canvas:drawmode
ToggleDrawMode ==
  /\ active' = ~active
  /\ drawing' = (drawing /\ ~active)
  /\ awaitingText' = (awaitingText /\ ~active)
  /\ UNCHANGED <<storeVars, stackVars, tool, stroke, arrowFrom, inputVars>>

ButtonDown(p) == p \notin held /\ held' = held \cup {p}
ButtonUp(p)   == p \in held /\ held' = held \ {p}

\* A press on a toolbar button.  Colours and thickness are not told apart:
\* those buttons change nothing that is modelled here.
PressOnToolbar(p) ==
  /\ active
  /\ ButtonDown(p)
  /\ \/ /\ tool' \in Tools
        /\ awaitingText' = FALSE
     \/ UNCHANGED <<tool, awaitingText>>
  /\ UNCHANGED <<storeVars, stackVars, active, drawing, stroke, arrowFrom, presses>>

\* A press that the draw mode does not see.
PressOutsideDrawMode(p) ==
  /\ ~active
  /\ ButtonDown(p)
  /\ UNCHANGED <<storeVars, stackVars, modeVars, presses>>

PressOnCanvas(p) ==
  /\ active
  /\ presses < MaxPresses
  /\ ButtonDown(p)
  /\ presses' = presses + 1

PressBrush(p) ==
  /\ tool = "brush"
  /\ PressOnCanvas(p)
  /\ stroke' = [mark |-> presses', points |-> 1]
  /\ drawing' = TRUE
  /\ UNCHANGED <<storeVars, stackVars, active, tool, awaitingText, arrowFrom>>

PressArrow(p) ==
  /\ tool = "arrow"
  /\ PressOnCanvas(p)
  /\ arrowFrom' = presses'
  /\ drawing' = TRUE
  /\ UNCHANGED <<storeVars, stackVars, active, tool, awaitingText, stroke>>

\* The first kind with an annotation near the pointer loses the nearest one:
\* any annotation may be it, and the pointer may be near none.
PressEraser(p) ==
  /\ tool = "eraser"
  /\ PressOnCanvas(p)
  /\ \/ UNCHANGED <<storeVars, stackVars>>
     \/ \E a \in store : Push("remove", {a}) /\ RemoveAnnotations({a})
  /\ UNCHANGED modeVars

PressNote(p) ==
  /\ tool \in {"sticky", "text"}
  /\ PressOnCanvas(p)
  /\ awaitingText' = TRUE
  /\ UNCHANGED <<storeVars, stackVars, active, tool, drawing, stroke, arrowFrom>>

\* The drawing ends: it is added, and the command remembers it with its id.
AddDrawing(kind, mark) ==
  /\ nextId <= MaxIds
  /\ AddAnnotation(kind, mark)
  /\ Push("add", {[id |-> nextId, kind |-> kind, mark |-> mark]})

ReleaseBrush(p) ==
  /\ active /\ tool = "brush" /\ drawing
  /\ ButtonUp(p)
  /\ IF stroke.points >= 2 THEN AddDrawing("stroke", stroke.mark)
                           ELSE UNCHANGED <<storeVars, stackVars>>
  /\ drawing' = FALSE
  /\ UNCHANGED <<active, tool, awaitingText, stroke, arrowFrom, presses>>

ReleaseArrow(p) ==
  /\ active /\ tool = "arrow" /\ drawing
  /\ ButtonUp(p)
  /\ AddDrawing("arrow", arrowFrom)
  /\ drawing' = FALSE
  /\ UNCHANGED <<active, tool, awaitingText, stroke, arrowFrom, presses>>

\* Any other release: outside the draw mode, or with nothing being drawn.
ReleaseIdle(p) ==
  /\ ~(active /\ drawing /\ tool \in {"brush", "arrow"})
  /\ ButtonUp(p)
  /\ UNCHANGED <<storeVars, stackVars, modeVars, presses>>

\* handleMouseMove: only the brush collects points.
MoveBrush ==
  /\ active /\ drawing /\ tool = "brush"
  /\ stroke' = [stroke EXCEPT !.points = IF @ = 0 THEN 1 ELSE 2]
  /\ dirty' = TRUE
  /\ UNCHANGED <<store, nextId, stackVars, active, tool, drawing, awaitingText,
                 arrowFrom, inputVars>>

-----------------------------------------------------------------------------
Init ==
  /\ \E loaded \in SavedSets(MaxLoaded) :
       InitStore(loaded) /\ presses = Cardinality(loaded)
  /\ undoStack = <<>> /\ redoStack = <<>>
  /\ active = FALSE /\ tool = "brush"
  /\ drawing = FALSE /\ awaitingText = FALSE
  /\ stroke = [mark |-> 0, points |-> 0] /\ arrowFrom = 0
  /\ held = {}

PointerEvent(p) ==
  \/ PressOnToolbar(p) \/ PressOutsideDrawMode(p)
  \/ PressBrush(p) \/ PressArrow(p) \/ PressEraser(p) \/ PressNote(p)
  \/ ReleaseBrush(p) \/ ReleaseArrow(p) \/ ReleaseIdle(p)

Next ==
  \/ Undo \/ Redo \/ ClearAnnotations \/ ClearAnnotationsByType
  \/ ToggleDrawMode \/ MoveBrush
  \/ \E p \in Pointers : PointerEvent(p)

Spec == Init /\ [][Next]_vars

-----------------------------------------------------------------------------
(* Properties.                                                              *)

CommandOK(c) ==
  /\ IsFiniteSet(c.saved)
  /\ c.op # "clear" => \E a \in c.saved : c.saved = {a}

StackOK(stack) ==
  /\ stack \in Seq(Command)
  /\ \A i \in DOMAIN stack : CommandOK(stack[i])

ModeTypeOK ==
  /\ active \in BOOLEAN /\ drawing \in BOOLEAN /\ awaitingText \in BOOLEAN
  /\ tool \in Tools
  /\ stroke \in [mark : Nat, points : 0..2]
  /\ arrowFrom \in Nat
  /\ held \subseteq Pointers
  /\ presses \in Nat

\* Types.  An add or a remove command saves exactly the annotation it is
\* about: the draw mode copies it before the vectors change.
TypeOK == StoreTypeOK /\ StackOK(undoStack) /\ StackOK(redoStack) /\ ModeTypeOK

SavedBy(stack) == UNION {stack[i].saved : i \in DOMAIN stack}
Known == store \cup SavedBy(undoStack) \cup SavedBy(redoStack)

\* An id names one drawing for ever.  Commands keep ids of annotations that
\* have been erased, cleared and added again under other ids: whatever the
\* history, no id in the store or in a command stands for two drawings, and
\* none is about to be handed out again.
IdNamesOneDrawing ==
  /\ \A a, b \in Known : a.id = b.id => a = b
  /\ \A a \in Known : a.id < nextId

\* Both stacks together hold at most MaxHistory commands, though only push
\* checks the limit: undo and redo only move a command across.
HistoryBounded == Len(undoStack) + Len(redoStack) <= MaxHistory

\* With one pointing device a drawing in progress always belongs to the
\* press that is still held, whatever toolbar clicks and toggles of the draw
\* mode come between press and release.
GestureIntact ==
  drawing =>
    /\ active /\ held # {}
    /\ tool = "brush" => stroke.mark = presses /\ stroke.points > 0
    /\ tool = "arrow" => arrowFrom = presses
    /\ tool \in {"brush", "arrow"}

\* Undoing or redoing one annotation's command never takes another drawing
\* away: a command whose id is no longer in the store does nothing.
UndoTakesOnlyItsOwn ==
  [][/\ Undo => store \ store' \subseteq Top(undoStack).saved
     /\ Redo /\ Top(redoStack).op # "clear"
          => store \ store' \subseteq Top(redoStack).saved]_vars

PictureReverting(S, command) ==
  IF command.op = "add" THEN Picture(S \ command.saved)
                        ELSE Picture(S \cup command.saved)

\* When a command is pushed, undoing it at once would show the picture that
\* was there before: the command was built from the right state, and the
\* change it stands for was made exactly once.
NewCommandUndoable ==
  [][undoStack' # undoStack /\ redoStack' = <<>> /\ ~Redo
       => PictureReverting(store', Top(undoStack')) = Picture(store)]_vars

\* The two stacks are a timeline with a cursor.
Reversed(s) == [i \in DOMAIN s |-> s[Len(s) + 1 - i]]
Timeline == INSTANCE UndoTimeline
              WITH timeline <- undoStack \o Reversed(redoStack),
                   cursor   <- Len(undoStack)
TimelineSpec == Timeline!Spec

-----------------------------------------------------------------------------
(* What the project's documents say of undo and redo.                       *)

\* "Ctrl+Z undoes the last action (... annotation create ...)": once an add
\* command is undone, its drawing is no longer on the canvas.
UndoRemovesDrawing ==
  [][Undo /\ Top(undoStack).op = "add"
       => Picture(Top(undoStack).saved) \cap Picture(store') = {}]_vars
=============================================================================
