--------------------------- MODULE CanvasPersistence ---------------------------
(***************************************************************************)
(* The state file of the canvas (CCanvasPersistence) and the two kinds of  *)
(* state it is to keep across restarts: the annotations, and the size that *)
(* windows of each application class had last; with them, the views.       *)
(*                                                                         *)
(* A change schedules a save.  scheduleSave writes the file at once when   *)
(* the last save is at least DEBOUNCE_MS old, and otherwise does nothing:  *)
(* no later save is set up.  An operation that adds several annotations    *)
(* schedules a save after each of them, so the file gets the state after   *)
(* the first; the loop ends within DEBOUNCE_MS and the others are dropped. *)
(*                                                                         *)
(* The file is written beside the old one and renamed over it, so a crash  *)
(* leaves the old file or the new one, and a crash inside a save is a      *)
(* restart before it.  Positions are left out: load reads them, nothing    *)
(* uses them.                                                              *)
(***************************************************************************)
EXTENDS CanvasAnnotation

CONSTANTS
  Classes,   \* application classes
  Sizes,     \* sizes a window can have
  Views,     \* names of views
  MaxSaved,  \* bound on the annotations in the file at first
  MaxMarks,  \* bound on the drawings made
  MaxIds     \* bound on the ids handed out by one process

ASSUME SizesAssumption == 0 \notin Sizes
ASSUME SavedAssumption == MaxSaved \in Nat

VARIABLES
  windows,   \* m_windows: the size tracked for each class
  defaults,  \* m_appDefaults
  views,     \* CCanvasViews::m_views: which views there are, with classes or not
  recent,    \* the last save is less than DEBOUNCE_MS old
  loaded,    \* g_pCanvasPersistence exists: the canvas was enabled once
  enabled,   \* canvas is the current layout
  cleared,   \* what the last clear command saved, while it can be undone
  file,      \* the state file
  marks      \* how many drawings have been made

memory == <<store, windows, defaults, views>>
vars == <<store, nextId, dirty, windows, defaults, views, recent, loaded,
          enabled, cleared, file, marks>>

Untracked == 0
SizeTable == [Classes -> Sizes \cup {Untracked}]
NoSizes == [c \in Classes |-> Untracked]

ViewTable == [Views -> {"none", "empty", "filled"}]
NoViews == [v \in Views |-> "none"]

\* A missing file loads like an empty one.
File == [windows : SizeTable, defaults : SizeTable, views : ViewTable,
         drawn : SUBSET Annotation]

-----------------------------------------------------------------------------
(* Saving.                                                                  *)

\* saveNow, when the annotations in memory are drawn.
SaveNow(drawn) ==
  /\ file' = [windows |-> windows', defaults |-> defaults', views |-> views',
              drawn |-> drawn]
  /\ recent' = TRUE

ScheduleSave(drawn) ==
  \/ ~loaded /\ UNCHANGED <<file, recent>>
  \/ loaded /\ recent /\ UNCHANGED <<file, recent>>
  \/ loaded /\ ~recent /\ SaveNow(drawn)

\* The annotation that re-adding those of S adds first.
FirstCopy(S) == {a \in Copies(S, nextId) : a.id = nextId}

-----------------------------------------------------------------------------
(* Operations.                                                              *)

Draw ==
  /\ nextId <= MaxIds /\ marks < MaxMarks
  /\ marks' = marks + 1
  /\ \E kind \in Kinds : AddAnnotation(kind, marks')
  /\ UNCHANGED <<windows, defaults, views, loaded, enabled, cleared>>
  /\ ScheduleSave(store')

\* Fault: the removals do not schedule a save.
Erase_NotSaved ==
  /\ \E a \in store : RemoveAnnotations({a})
  /\ UNCHANGED <<windows, defaults, views, loaded, enabled, cleared, marks,
                 file, recent>>

Erase ==
  /\ \E a \in store : RemoveAnnotations({a})
  /\ UNCHANGED <<windows, defaults, views, loaded, enabled, cleared, marks>>
  /\ ScheduleSave(store')

Clear ==
  /\ cleared' = store
  /\ ClearAll
  /\ UNCHANGED <<windows, defaults, views, loaded, enabled, marks>>
  /\ ScheduleSave(store')

\* Undoing the clear command, at once or after what was done since.
UndoClear ==
  /\ cleared # {}
  /\ nextId + Cardinality(cleared) <= MaxIds + 1
  /\ AddCopies(cleared)
  /\ cleared' = {}
  /\ UNCHANGED <<windows, defaults, views, loaded, enabled, marks>>
  /\ ScheduleSave(store \cup FirstCopy(cleared))

\* trackWindow
TrackWindow(class, size) ==
  /\ windows' = [windows EXCEPT ![class] = size]
  /\ defaults' = [defaults EXCEPT ![class] = size]

\* A window is created, removed, resized, fitted, dropped, or put back by an
\* undo: it is tracked, and a save scheduled.
ChangeWindow ==
  /\ loaded
  /\ \E class \in Classes, size \in Sizes : TrackWindow(class, size)
  /\ UNCHANGED <<storeVars, views, loaded, enabled, cleared, marks>>
  /\ ScheduleSave(store)

\* canvas:view create:<name>.  The view gets the classes of the windows there
\* are, and none under another layout.  Views are made anew, never removed.
CreateView ==
  /\ loaded
  /\ \E name \in Views, content \in {"empty", "filled"} :
       views' = [views EXCEPT ![name] = content]
  /\ UNCHANGED <<storeVars, windows, defaults, loaded, enabled, cleared, marks>>
  /\ ScheduleSave(store)

\* CCanvasViews::fromJson makes a view when it reads the first of its classes.
Restored(table) ==
  [v \in Views |-> IF table[v] = "filled" THEN "filled" ELSE "none"]

\* onEnable: tags, views, persistence and the undo stacks are made anew; the
\* annotations are added to those already there.  The new object has not
\* saved yet, so the first annotation added is a save.
LoadFile ==
  /\ nextId + Cardinality(file.drawn) <= MaxIds + 1
  /\ AddCopies(file.drawn)
  /\ IF file.drawn = {} THEN recent' = FALSE /\ UNCHANGED file
                        ELSE SaveNow(store \cup FirstCopy(file.drawn))
  /\ loaded' = TRUE /\ enabled' = TRUE /\ cleared' = {}
  /\ UNCHANGED marks

\* Fault: annotations are loaded before the rest.
Enable_AnnotationsFirst ==
  /\ ~enabled
  /\ AddCopies(file.drawn)
  /\ IF file.drawn = {} THEN recent' = FALSE /\ UNCHANGED file
     ELSE /\ file' = [windows |-> NoSizes, defaults |-> NoSizes,
                      views |-> NoViews,
                      drawn |-> store \cup FirstCopy(file.drawn)]
          /\ recent' = TRUE
  /\ windows' = file.windows /\ defaults' = file.defaults
  /\ views' = Restored(file.views)
  /\ loaded' = TRUE /\ enabled' = TRUE /\ cleared' = {}
  /\ UNCHANGED marks

Enable ==
  /\ ~enabled
  /\ windows' = file.windows /\ defaults' = file.defaults
  /\ views' = Restored(file.views)
  /\ LoadFile

\* onDisable
Disable ==
  /\ enabled
  /\ enabled' = FALSE
  /\ UNCHANGED <<storeVars, windows, defaults, views, loaded, cleared, marks>>
  /\ ScheduleSave(store)

\* DEBOUNCE_MS pass.
Wait ==
  /\ recent
  /\ recent' = FALSE
  /\ UNCHANGED <<storeVars, windows, defaults, views, loaded, enabled, cleared,
                 file, marks>>

\* The compositor ends, orderly or not: neither way does it save.
Restart ==
  /\ loaded
  /\ store' = {} /\ nextId' = 1 /\ dirty' = TRUE
  /\ windows' = NoSizes /\ defaults' = NoSizes /\ views' = NoViews
  /\ cleared' = {}
  /\ loaded' = FALSE /\ enabled' = FALSE /\ recent' = FALSE
  /\ UNCHANGED <<file, marks>>

-----------------------------------------------------------------------------
Init ==
  /\ InitStore({})
  /\ windows = NoSizes /\ defaults = NoSizes /\ views = NoViews /\ cleared = {}
  /\ recent = FALSE /\ loaded = FALSE /\ enabled = FALSE
  /\ \E saved \in SavedSets(MaxSaved) :
       /\ file = [windows |-> NoSizes, defaults |-> NoSizes, views |-> NoViews,
                  drawn |-> saved]
       /\ marks = Cardinality(saved)

Next ==
  \/ Draw \/ Erase \/ Clear \/ UndoClear \/ ChangeWindow \/ CreateView
  \/ Enable \/ Disable \/ Wait \/ Restart

Spec == Init /\ [][Next]_vars

-----------------------------------------------------------------------------
(* Properties.                                                              *)

TypeOK ==
  /\ StoreTypeOK
  /\ windows \in SizeTable /\ defaults \in SizeTable /\ views \in ViewTable
  /\ recent \in BOOLEAN /\ loaded \in BOOLEAN /\ enabled \in BOOLEAN
  /\ cleared \subseteq Annotation /\ IsFiniteSet(cleared)
  /\ file \in File /\ IsFiniteSet(file.drawn)
  /\ marks \in Nat

\* The two tables of sizes never disagree, in memory or in the file, so a new
\* window gets the same size whichever of them it is looked up in.
DefaultsFollowWindows == defaults = windows /\ file.defaults = file.windows

\* A size, or a view with classes, that is in the file is never saved away,
\* though every enabling of the layout begins with empty tables and saves half
\* way through the load: the tables are loaded before the annotations.
FileNeverForgets ==
  [][/\ \A c \in Classes :
          file.windows[c] # Untracked => file'.windows[c] # Untracked
     /\ \A v \in Views : file.views[v] = "filled" => file'.views[v] # "none"]_vars

\* When the last save is old enough, a change of the annotations, the sizes or
\* the views is in the file at once, together with everything that was held
\* back before: all of it, unless several annotations are added in one go.
QuietChangesAreSaved ==
  [][memory' # memory /\ loaded /\ ~recent /\ ~UndoClear /\ ~Enable /\ ~Restart
       => file' = [windows |-> windows', defaults |-> defaults',
                   views |-> views', drawn |-> store']]_vars

-----------------------------------------------------------------------------
(* What the project's documents say of restarts.                            *)

\* "All annotations survive compositor restart": when the last save is not
\* recent and the compositor restarts, the file has every drawing.  The run
\* that refutes it draws nothing: the drawings are those of the file.
AnnotationsSurviveRestart ==
  [][Restart /\ ~recent => Picture(store) \subseteq Picture(file.drawn)]_vars
=============================================================================
