---------------------------- MODULE CanvasWindows ----------------------------
(***************************************************************************)
(* Which windows the canvas layout keeps, and which of them are shown:     *)
(* CCanvasLayout::m_windows with the calls the compositor makes when a     *)
(* window is mapped, unmapped, floated, tiled again or moved to another    *)
(* workspace; CLayoutManager switching between the canvas and another      *)
(* layout; and CCanvasViews, which hides windows.                          *)
(*                                                                         *)
(* m_windows holds weak references.  Only how often it names a window      *)
(* matters here, not in which order.  A window that is not mapped may      *)
(* still exist (it is fading out, or its client maps it again); when it is *)
(* destroyed the references to it expire, and its name stands for a window *)
(* yet to come.  Groups, swallowed windows and the requests by which an    *)
(* X11 window hides or shows itself are left out.                          *)
(***************************************************************************)
EXTENDS Naturals

CONSTANTS
  Windows,     \* windows
  Classes,     \* application classes
  ClassOf,     \* m_initialClass of each window
  Views,       \* names of views
  MaxSwitches  \* bound on the changes of layout

ASSUME ClassAssumption == ClassOf \in [Windows -> Classes]
ASSUME SwitchesAssumption == MaxSwitches \in Nat

All == "all"
NoWindow == "none"
ASSUME ViewAssumption == All \notin Views
ASSUME WindowAssumption == NoWindow \notin Windows

VARIABLES
  layout,      \* the current layout: "canvas", or "dwindle" for any other
  switches,    \* how often the layout has changed
  mapped,      \* windows with m_isMapped
  floating,    \* windows with m_isFloating
  entries,     \* how many references to each window m_windows has
  hidden,      \* windows with m_hidden
  focused,     \* CCompositor::m_lastWindow
  views,       \* m_views: the classes in each view there is
  activeView,  \* m_activeView
  saved,       \* views and activeView as the state file has them
  strays       \* history: tiled windows the canvas found when it was enabled

viewVars == <<views, activeView, saved>>
listVars == <<layout, switches, mapped, floating, entries, hidden, focused,
          views, activeView, saved, strays>>

ViewTable == UNION {[names -> SUBSET Classes] : names \in SUBSET Views}
SavedViews == [views : ViewTable, active : Views \cup {All}]

Listed == {w \in Windows : entries[w] > 0}
Tiled == mapped \ floating

\* The windows a dispatcher can be told to act on: the focused one, and those
\* getWindowByRegex finds, which are not hidden.
Reachable == (mapped \ hidden) \cup (mapped \cap {focused})

-----------------------------------------------------------------------------
(* Windows.                                                                 *)

\* A save is scheduled: the file is written, or the last save is too recent.
ScheduleSave(table, active) == saved' \in {saved, [views |-> table, active |-> active]}

\* onWindowCreatedTiling.  Another layout has a tree of its own.
CreatedTiling(w) ==
  IF layout = "canvas"
  THEN /\ entries' = [entries EXCEPT ![w] = @ + 1]
       /\ ScheduleSave(views, activeView)
  ELSE UNCHANGED <<entries, saved>>

\* onWindowRemovedTiling, which erases every reference.
RemovedTiling(w) ==
  IF layout = "canvas"
  THEN /\ entries' = [entries EXCEPT ![w] = 0]
       /\ ScheduleSave(views, activeView)
  ELSE UNCHANGED <<entries, saved>>

\* A window is mapped; its rules float or tile it, those that size or move it
\* show it, and it may take the focus.
Map(w) ==
  /\ w \notin mapped
  /\ mapped' = mapped \cup {w}
  /\ hidden' \in {hidden, hidden \ {w}}
  /\ \/ floating' = floating \ {w} /\ CreatedTiling(w)
     \/ floating' = floating \cup {w} /\ UNCHANGED <<entries, saved>>
  /\ focused' \in {focused, w}
  /\ UNCHANGED <<layout, switches, views, activeView, strays>>

\* onWindowRemoved does nothing for a floating window.  The focus goes to a
\* candidate, at times a hidden one: the tiled window focused last.
Unmap(w) ==
  /\ w \in mapped
  /\ mapped' = mapped \ {w}
  /\ IF w \in floating THEN UNCHANGED <<entries, saved>> ELSE RemovedTiling(w)
  /\ focused' \in IF focused = w THEN {NoWindow} \cup mapped' ELSE {focused}
  /\ UNCHANGED <<layout, switches, floating, hidden, views, activeView, strays>>

Destroy(w) ==
  /\ w \notin mapped
  /\ floating' = floating \ {w} /\ hidden' = hidden \ {w}
  /\ strays' = strays \ {w}
  /\ entries' = [entries EXCEPT ![w] = 0]
  /\ UNCHANGED <<layout, switches, mapped, focused, viewVars>>

\* Fault: the layout is asked by the new flag, not by its list.
ToggleFloating_AsksFlag(w) ==
  /\ w \in Reachable
  /\ floating' = IF w \in floating THEN floating \ {w} ELSE floating \cup {w}
  /\ IF w \in floating THEN RemovedTiling(w) ELSE CreatedTiling(w)
  /\ UNCHANGED <<layout, switches, mapped, hidden, focused, views,
                 activeView, strays>>

\* togglefloating: the flag is flipped, then changeWindowFloatingMode asks the
\* layout whether the window is tiled.
ToggleFloating(w) ==
  /\ w \in Reachable
  /\ floating' = IF w \in floating THEN floating \ {w} ELSE floating \cup {w}
  /\ IF w \in Listed THEN RemovedTiling(w) ELSE CreatedTiling(w)
  /\ UNCHANGED <<layout, switches, mapped, hidden, focused, views,
                 activeView, strays>>

\* moveWindowToWorkspaceSafe, of a tiled window: removed, then created again.
MoveToWorkspace(w) ==
  /\ w \in Reachable \cap Tiled
  /\ IF layout = "canvas"
     THEN /\ entries' = [entries EXCEPT ![w] = 1]
          /\ ScheduleSave(views, activeView)
     ELSE UNCHANGED <<entries, saved>>
  /\ UNCHANGED <<layout, switches, mapped, floating, hidden, focused,
                 views, activeView, strays>>

\* A client may ask to be activated, which no one checks to be shown.
Focus(w) ==
  /\ w \in mapped
  /\ focused' = w
  /\ UNCHANGED <<layout, switches, mapped, floating, entries, hidden,
                 viewVars, strays>>

-----------------------------------------------------------------------------
(* Views.                                                                   *)

\* The view is emptied before the layout is asked for its windows.
CreateView(name) ==
  /\ views' = [n \in DOMAIN views \cup {name} |->
                 IF n # name THEN views[n]
                 ELSE {ClassOf[w] : w \in IF layout = "canvas" THEN Listed ELSE {}}]
  /\ UNCHANGED <<layout, switches, mapped, floating, entries, hidden, focused, activeView, strays>>
  /\ ScheduleSave(views', activeView)

\* isWindowVisible, when view is the active one.
InView(w, view) ==
  view \in DOMAIN views => ClassOf[w] \in views[view]

\* Fault: windows the view has are not shown again.
SwitchView_OnlyHides(name) ==
  /\ name \in DOMAIN views \cup {All}
  /\ activeView' = name
  /\ IF layout = "canvas"
     THEN LET out == {w \in Listed : ~InView(w, name)}
          IN /\ hidden' = hidden \cup out
             /\ focused' = IF focused \in out THEN NoWindow ELSE focused
     ELSE UNCHANGED <<hidden, focused>>
  /\ UNCHANGED <<layout, switches, mapped, floating, entries, views, strays>>
  /\ ScheduleSave(views, name)

\* canvas:view <name>: switchView, then applyViewVisibility.
SwitchView(name) ==
  /\ name \in DOMAIN views \cup {All}
  /\ activeView' = name
  /\ IF layout = "canvas"
     THEN LET out == {w \in Listed : ~InView(w, name)}
          IN /\ hidden' = (hidden \ Listed) \cup out
             /\ focused' = IF focused \in out THEN NoWindow ELSE focused
     ELSE UNCHANGED <<hidden, focused>>
  /\ UNCHANGED <<layout, switches, mapped, floating, entries, views, strays>>
  /\ ScheduleSave(views, name)

\* canvas:view of a name that is no view, and every other operation of the
\* canvas that saves.
SaveOnly ==
  /\ ScheduleSave(views, activeView)
  /\ UNCHANGED <<layout, switches, mapped, floating, entries, hidden, focused, views, activeView, strays>>

-----------------------------------------------------------------------------
(* Layouts.                                                                 *)

\* fromJson makes a view when it reads the first of its classes.
Restored(table) ==
  [name \in {n \in DOMAIN table : table[n] # {}} |-> table[name]]

\* onDisable
LeaveCanvas ==
  /\ layout = "canvas" /\ switches < MaxSwitches
  /\ layout' = "dwindle" /\ switches' = switches + 1
  /\ entries' = [w \in Windows |-> 0]
  /\ UNCHANGED <<mapped, floating, hidden, focused, views, activeView, strays>>
  /\ ScheduleSave(views, activeView)

\* onEnable: no window is taken over.  The annotations in the file are loaded
\* after the views, and save.
EnterCanvas ==
  /\ layout = "dwindle" /\ switches < MaxSwitches
  /\ layout' = "canvas" /\ switches' = switches + 1
  /\ views' = Restored(saved.views) /\ activeView' = saved.active
  /\ strays' = Tiled
  /\ UNCHANGED <<mapped, floating, entries, hidden, focused>>
  /\ ScheduleSave(views', activeView')

-----------------------------------------------------------------------------
\* The canvas is the configured layout: it is enabled before any window is
\* mapped, with the views of the file.
ListInit ==
  /\ layout = "canvas" /\ switches = 0
  /\ mapped = {} /\ floating = {} /\ hidden = {} /\ strays = {}
  /\ entries = [w \in Windows |-> 0]
  /\ focused = NoWindow
  /\ saved \in SavedViews
  /\ views = Restored(saved.views) /\ activeView = saved.active

ListNext ==
  \/ \E w \in Windows :
       \/ Map(w) \/ Unmap(w) \/ Destroy(w)
       \/ ToggleFloating(w) \/ MoveToWorkspace(w) \/ Focus(w)
  \/ \E name \in Views : CreateView(name)
  \/ \E name \in Views \cup {All} : SwitchView(name)
  \/ SaveOnly \/ LeaveCanvas \/ EnterCanvas

ListSpec == ListInit /\ [][ListNext]_listVars

-----------------------------------------------------------------------------
(* Properties.                                                              *)

ListTypeOK ==
  /\ layout \in {"canvas", "dwindle"} /\ switches \in 0..MaxSwitches
  /\ mapped \subseteq Windows /\ floating \subseteq Windows
  /\ hidden \subseteq Windows
  /\ strays \subseteq Windows
  /\ entries \in [Windows -> Nat]
  /\ focused \in Windows \cup {NoWindow}
  /\ views \in ViewTable /\ activeView \in Views \cup {All}
  /\ saved \in SavedViews

\* The list names every tiled window once and no other, whatever windows are
\* mapped, floated, moved and unmapped, and however often the layout changes:
\* all but the windows the canvas found when it was enabled.
ListKeepsTheTiled ==
  \A w \in Windows \ strays :
    entries[w] = IF layout = "canvas" /\ w \in Tiled THEN 1 ELSE 0

\* Another layout never finds entries the canvas made.
ListIsTheCanvases == layout # "canvas" => Listed = {}

\* Switching to a view on the canvas shows the tiled windows of its classes
\* and hides the other tiled windows, wherever they were when it was made.
ViewsFilter ==
  [][\A name \in Views \cup {All} : SwitchView(name) /\ layout = "canvas" =>
       \A w \in Tiled \ strays : w \in hidden' <=> ~InView(w, name)]_listVars
=============================================================================
