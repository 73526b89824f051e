-------------------------- MODULE MonitorWorkspaces --------------------------
(***************************************************************************)
(* Monitors coming and going, and the workspaces they show.  Every monitor *)
(* that is enabled shows one workspace and may show a special one above    *)
(* it.  A workspace lives as long as a monitor shows it, a window is on it *)
(* or a rule makes it persistent; the compositor's own list is weak.  When *)
(* a monitor goes its workspaces move to another one, when none is left to *)
(* a fallback output, and they come back with the monitor.                 *)
(*                                                                         *)
(* What the handlers change together is the record `desk'.  Positions,     *)
(* mirrors, the history of workspaces and the search for the window to     *)
(* focus after a change are left out: FocusWindow focuses any of them.     *)
(***************************************************************************)
EXTENDS Naturals, SequencesExt, FiniteSetsExt

CONSTANTS
  Monitors,         \* names of outputs that can be plugged in
  Fallback,         \* m_unsafeOutput
  NoMonitor,
  Ids,              \* ids of ordinary workspaces: 1 .. n, enough for any step
  Named,            \* those of them that a step may leave: a bound
  Specials,         \* special workspaces
  NoWorkspace,
  Windows,
  CanPin,           \* windows that float, so that they can be pinned
  BoundTo,          \* monitor of the workspace rule for an id, or NoMonitor
  DefaultFor,       \* workspace of the monitor's default rule, or NoWorkspace
  Persistent,       \* ids with a persistent rule
  HideSpecial,      \* binds:hide_special_on_workspace_change
  DisableLast       \* the configuration may disable the last monitor

Workspaces == Ids \cup Specials
Outputs == Monitors \cup {Fallback}

ASSUME MonitorAssumption ==
  /\ Fallback \notin Monitors /\ NoMonitor \notin Outputs
  /\ Ids \subseteq Nat \ {0} /\ Ids \cap Specials = {}
  /\ NoWorkspace \notin Workspaces
  /\ CanPin \subseteq Windows /\ Persistent \subseteq Ids /\ Named \subseteq Ids
  /\ BoundTo \in [Ids -> Monitors \cup {NoMonitor}]
  /\ DefaultFor \in [Outputs -> Ids \cup {NoWorkspace}]
  /\ {HideSpecial, DisableLast} \subseteq BOOLEAN

VARIABLES
  desk,      \* the fields below
  plugged,   \* outputs in m_realMonitors
  seen,      \* m_seenMonitorWorkspaceMap
  unsafe     \* m_unsafeState

vars == <<desk, plugged, seen, unsafe>>

(* enabled  m_monitors, in its order                                        *)
(* order    m_workspaces, in its order                                      *)
(* home     m_monitor of a workspace;  back  its m_lastMonitor              *)
(* visible  workspaces with m_visible                                       *)
(* active, special  m_activeWorkspace, m_activeSpecialWorkspace of a monitor*)
(* focused  m_lastMonitor                                                   *)
(* on, screen  m_workspace and m_monitor of a window;  pinned  m_pinned     *)
(* torn     history: an open special workspace was moved, or a monitor went *)
(*          dark with one, or with a pinned window                          *)

-----------------------------------------------------------------------------
(* Reading the desk.  Loops over a list are recursive functions.            *)

\* What is left of a list when only the members of S stay.
Kept(list, S) ==
  LET kept[i \in 0 .. Len(list)] ==
        IF i = 0 THEN <<>>
        ELSE IF list[i] \in S THEN Append(kept[i - 1], list[i]) ELSE kept[i - 1]
  IN kept[Len(list)]

Enabled(d) == ToSet(d.enabled)
Existing(d) == ToSet(d.order)
Mapped(d) == {w \in Windows : d.on[w] # NoWorkspace}
WindowsOn(d, s) == {w \in Windows : d.on[w] = s}
OthersThan(d, m) == Kept(d.enabled, Outputs \ {m})

Held(d) == Range(d.active) \cup Range(d.special) \cup Range(d.on) \cup Persistent

\* What nobody holds any more is destroyed and leaves the list.
Collected(d) ==
  LET alive == {s \in Existing(d) : s \in Held(d)}
  IN [d EXCEPT !.order = Kept(@, alive),
               !.home = [s \in Workspaces |-> IF s \in alive THEN @[s] ELSE NoMonitor],
               !.back = [s \in Workspaces |-> IF s \in alive THEN @[s] ELSE NoMonitor],
               !.visible = @ \cap alive]

\* The monitor a rule binds a workspace to, when it is there.
BoundMonitor(d, id) ==
  IF id \in Ids /\ BoundTo[id] \in Enabled(d) THEN BoundTo[id] ELSE NoMonitor

Created(d, s, m) ==
  LET bound == BoundMonitor(d, s)
  IN IF s \in Existing(d) THEN d
     ELSE [d EXCEPT !.order = Append(@, s),
                    !.home[s] = IF bound = NoMonitor THEN m ELSE bound]

\* Ids for a new workspace on m: the lowest is taken.
FreeFor(d, m) == {id \in Ids \ Existing(d) : BoundMonitor(d, id) \in {NoMonitor, m}}
UnboundFor(d, m) == {id \in Ids \ Existing(d) : BoundTo[id] \in {NoMonitor, m}}

-----------------------------------------------------------------------------
(* Showing workspaces.                                                      *)

ClosedSpecial(d, m) ==
  [d EXCEPT !.special[m] = NoWorkspace, !.visible = @ \ {d.special[m]}]

OpenedSpecial(d, m, s) ==
  LET owner == d.home[s]
  IN IF d.special[m] = s THEN d
     ELSE [d EXCEPT
       !.special = [n \in Outputs |->
                      IF n = m THEN s
                      ELSE IF n = owner /\ @[n] = s THEN NoWorkspace ELSE @[n]],
       !.visible = (@ \ {d.special[m]}) \cup {s},
       !.home[s] = m,
       !.screen = [w \in Windows |-> IF d.on[w] = s THEN m ELSE @[w]]]

Changed(d, m, s, internal) ==
  IF s \in Specials THEN OpenedSpecial(d, m, s)
  ELSE IF d.active[m] = s THEN d
  ELSE [d EXCEPT
    !.active[m] = s,
    !.visible = (@ \ {d.active[m]}) \cup {s},
    !.on = [w \in Windows |->
              IF ~internal /\ w \in d.pinned /\ @[w] = d.active[m] /\ @[w] # NoWorkspace
              THEN s ELSE @[w]]]

ChangedToNew(d, m, id) == Changed(Created(d, id, m), m, id, FALSE)

\* Fault: the monitor it leaves goes on showing it.
GapPlugged_Unplugged(d, s, m) == d

\* The monitor shows another workspace of its own, or a new one.
GapPlugged(d, s, m) ==
  LET own == Kept(d.order, {t \in Ids : d.home[t] = m /\ t # s})
  IN IF own # <<>> THEN Changed(d, m, own[1], FALSE)
     ELSE ChangedToNew(d, m, Min(FreeFor(d, m)))

\* A workspace that the focused monitor showed is shown where it goes.
Shown(d, s, m) ==
  [(IF HideSpecial THEN ClosedSpecial(d, m) ELSE d)
     EXCEPT !.focused = m, !.active[m] = s, !.visible = (@ \ {d.active[m]}) \cup {s}]

\* Fault: the windows are not told their new monitor.
Rehomed_WindowsStay(d, s, m, stays) == [d EXCEPT !.home[s] = m]

\* s and its windows are of m, but for the pinned ones, which go to `stays`.
Rehomed(d, s, m, stays) ==
  [d EXCEPT !.torn = @ \/ \E n \in Outputs : d.special[n] = s,
            !.home[s] = m,
            !.on = [w \in Windows |-> IF @[w] = s /\ w \in d.pinned THEN stays ELSE @[w]],
            !.screen = [w \in Windows |->
                          IF d.on[w] = s /\ w \notin d.pinned THEN m ELSE @[w]]]

\* Fault: it is shown where it goes, focused or not.
Taken_AlwaysShown(d, s, old, m) == Shown(Rehomed(d, s, m, d.active[old]), s, m)

\* s goes to m from the monitor old, which shows something else by now.
Taken(d, s, old, m) ==
  IF old = d.focused THEN Shown(Rehomed(d, s, m, d.active[old]), s, m)
  ELSE Rehomed(d, s, m, d.active[old])

\* moveWorkspaceToMonitor
Moved(d, s, m) ==
  LET old == d.home[s]
  IN IF old = m THEN d
     ELSE IF old # NoMonitor /\ d.active[old] = s
          THEN Taken(GapPlugged(d, s, old), s, old, m)
     ELSE Rehomed(d, s, m, s)

\* Each workspace of S moves to m, in their order; its m_lastMonitor is then back.
AllMoved(d, S, m, back) ==
  LET after[i \in 0 .. Len(d.order)] ==
        IF i = 0 THEN d
        ELSE IF d.order[i] \in S
             THEN Moved([after[i - 1] EXCEPT !.back[d.order[i]] = back], d.order[i], m)
             ELSE after[i - 1]
  IN after[Len(d.order)]

-----------------------------------------------------------------------------
(* Monitors coming and going.                                               *)

StartsWith(d, m, id) ==
  [(IF id \in Existing(d) THEN Moved(d, id, m)
    ELSE [d EXCEPT !.order = Append(@, id), !.home[id] = m])
     EXCEPT !.active[m] = id, !.visible = @ \cup {id}, !.back[id] = NoMonitor]

\* setupDefaultWS
WithDefault(d, m) ==
  StartsWith(d, m, IF DefaultFor[m] # NoWorkspace THEN DefaultFor[m]
                   ELSE Min(UnboundFor(d, m)))

\* Fault: only the first monitor gets its workspaces back.
BroughtBack_First(d, m) ==
  IF Len(d.enabled) > 1 THEN d ELSE AllMoved(d, Existing(d), m, NoMonitor)

\* The first monitor gets all of them.
BroughtBack(d, m) ==
  AllMoved(d, {s \in Existing(d) : d.back[s] = m \/ Len(d.enabled) = 1}, m, NoMonitor)

\* Some monitor has the focus, and m shows again what it showed.
SeenAgain(d, m) ==
  [(IF seen[m] \in Existing(d)
    THEN Changed(Moved(d, seen[m], m), m, seen[m], TRUE) ELSE d)
     EXCEPT !.focused = IF d.focused \in Enabled(d) THEN @ ELSE m]

Connected(d, m) ==
  LET AtLeastHere(e) == IF e.focused = NoMonitor THEN [e EXCEPT !.focused = m] ELSE e
      default == WithDefault([d EXCEPT !.enabled = Append(@, m)], m)
  IN SeenAgain(AtLeastHere(Collected(BroughtBack(default, m))), m)

\* What stays of a monitor that shows nothing any more.
Dark(d, m) ==
  [d EXCEPT !.visible = @ \ {d.active[m]}, !.active[m] = NoWorkspace,
            !.enabled = OthersThan(d, m),
            !.torn = \/ @ \/ d.special[m] # NoWorkspace
                     \/ \E w \in d.pinned : d.home[d.on[w]] = m]

\* Fault: workspaces without a monitor are left.
Evacuated_OwnOnly(d, m, backup) ==
  LET here == [d EXCEPT !.focused = backup]
  IN Dark(AllMoved(here, {s \in Existing(d) : d.home[s] = m}, backup, m), m)

\* The cursor is warped to the backup, which is the focused monitor from then
\* on; so it goes on showing what it shows when the workspaces arrive.
Evacuated(d, m, backup) ==
  LET here == [d EXCEPT !.focused = backup]
  IN Dark(AllMoved(here, {s \in Existing(d) : d.home[s] \in {m, NoMonitor}},
                   backup, m), m)

\* onDisconnect: with another monitor, and without one.
Disconnected(d, m) ==
  IF OthersThan(d, m) # <<>> THEN Evacuated(d, m, OthersThan(d, m)[1])
  ELSE Dark([Connected(d, Fallback) EXCEPT !.focused = NoMonitor], m)

\* The output is destroyed, and its monitor with what it held.
Forgotten(d, m) ==
  [d EXCEPT !.active[m] = NoWorkspace, !.special[m] = NoWorkspace,
            !.focused = IF @ = m THEN NoMonitor ELSE @,
            !.home = [s \in Workspaces |-> IF @[s] = m THEN NoMonitor ELSE @[s]],
            !.screen = [w \in Windows |-> IF @[w] = m THEN NoMonitor ELSE @[w]]]

Init ==
  /\ seen = [m \in Outputs |-> NoWorkspace]
  /\ \E m \in Outputs :
       /\ plugged = {m, Fallback} /\ unsafe = (m = Fallback)
       /\ desk = Connected(
            [enabled |-> <<>>, order |-> <<>>,
             home |-> [s \in Workspaces |-> NoMonitor],
             back |-> [s \in Workspaces |-> NoMonitor],
             visible |-> {},
             active |-> [n \in Outputs |-> NoWorkspace],
             special |-> [n \in Outputs |-> NoWorkspace],
             focused |-> NoMonitor,
             on |-> [w \in Windows |-> NoWorkspace],
             screen |-> [w \in Windows |-> NoMonitor],
             pinned |-> {}, torn |-> FALSE], m)

\* A handler has made the desk d: what is not held goes.
Becomes(d) ==
  LET left == Collected(d)
  IN Existing(left) \cap Ids \subseteq Named /\ desk' = left

Plug(m) ==
  /\ m \in Monitors \ plugged
  /\ plugged' = plugged \cup {m}
  /\ \/ Becomes(Connected(desk, m))
     \/ UNCHANGED desk   \* the configuration has it disabled
  /\ UNCHANGED <<seen, unsafe>>

Enable(m) ==
  /\ m \in (Monitors \cap plugged) \ Enabled(desk)
  /\ Becomes(Connected(desk, m))
  /\ UNCHANGED <<plugged, seen, unsafe>>

\* A monitor goes dark; without another one the fallback takes over.
Disconnect(m) ==
  /\ seen' = [seen EXCEPT ![m] = desk.active[m]]
  /\ unsafe' = (unsafe \/ OthersThan(desk, m) = <<>>)

Disable(m) ==
  /\ m \in Monitors \cap Enabled(desk)
  /\ DisableLast \/ OthersThan(desk, m) # <<>>
  /\ Disconnect(m) /\ Becomes(Disconnected(desk, m))
  /\ UNCHANGED plugged

Unplug(m) ==
  /\ m \in Monitors \cap plugged
  /\ plugged' = plugged \ {m}
  /\ IF m \in Enabled(desk)
     THEN Disconnect(m) /\ Becomes(Forgotten(Disconnected(desk, m), m))
     ELSE Becomes(Forgotten(desk, m)) /\ UNCHANGED <<seen, unsafe>>

\* The first frame of a real monitor ends the unsafe state.
LeaveUnsafe ==
  /\ unsafe /\ Enabled(desk) \cap Monitors # {}
  /\ unsafe' = FALSE
  /\ seen' = [seen EXCEPT ![Fallback] = desk.active[Fallback]]
  /\ Becomes(Disconnected(desk, Fallback))
  /\ UNCHANGED plugged

-----------------------------------------------------------------------------
(* The dispatchers: key binds are ignored while the state is unsafe.        *)

\* changeworkspace
ChangedTo(d, s) ==
  LET m == d.focused
      made == Created(d, s, m)
      owner == made.home[s]
      bare(e, n) == IF HideSpecial THEN ClosedSpecial(e, n) ELSE e
  IN IF s = d.active[m] THEN bare(d, m)
     ELSE IF s \in Specials THEN OpenedSpecial(made, m, s)
     ELSE IF owner = NoMonitor THEN made
     ELSE Changed(bare([made EXCEPT !.focused = owner], owner), owner, s, FALSE)

\* Both monitors show each other's workspace.
Swapped(d, a, b) ==
  LET A == d.active[a]
      B == d.active[b]
      Brought(on, screen, from, to, stays, m) ==
        [on |-> [w \in Windows |-> IF on[w] = from /\ w \in d.pinned THEN stays ELSE on[w]],
         screen |-> [w \in Windows |->
                       IF on[w] = from /\ w \notin d.pinned THEN m ELSE screen[w]]]
      first == Brought(d.on, d.screen, A, B, B, b)
      second == Brought(first.on, first.screen, B, A, A, a)
  IN [d EXCEPT !.home[A] = b, !.home[B] = a, !.active[a] = B, !.active[b] = A,
               !.on = second.on, !.screen = second.screen]

\* focusWindow: what is not visible is shown, a special above it is closed.
Focused(d, w) ==
  LET here == IF w \in d.pinned THEN [d EXCEPT !.on[w] = d.active[d.focused]] ELSE d
      s == here.on[w]
      m == here.screen[w]
  IN IF s \notin here.visible
     THEN IF s \in Specials THEN Changed(here, here.focused, s, FALSE)
          ELSE IF m # NoMonitor THEN Changed(here, m, s, FALSE) ELSE here
     ELSE IF m # NoMonitor /\ here.special[m] \notin {s, NoWorkspace} /\ w \notin d.pinned
          THEN ClosedSpecial(here, m) ELSE here

\* moveWindowToWorkspaceSafe, with the closing of a special left empty.
Carried(d, w, s) ==
  LET old == d.on[w]
      gone == [d EXCEPT !.on[w] = s, !.screen[w] = d.home[s]]
  IN IF w \in d.pinned /\ s \in Specials THEN d
     ELSE IF old \in Specials /\ WindowsOn(gone, old) = {} /\ d.home[old] # NoMonitor
          THEN ClosedSpecial(gone, d.home[old]) ELSE gone

Dispatch ==
  /\ ~unsafe /\ desk.focused \in Enabled(desk)
  /\ UNCHANGED <<plugged, seen, unsafe>>

ChangeWorkspace(s) == Dispatch /\ Becomes(ChangedTo(desk, s))

MoveWorkspace(s, m) ==
  /\ Dispatch /\ s \in Existing(desk) /\ m \in Enabled(desk)
  /\ Becomes(Moved(desk, s, m))

FocusOnCurrent(s) ==
  LET m == desk.focused
      owner == desk.home[s]
  IN /\ Dispatch
     /\ IF s \notin Existing(desk) \/ owner = m THEN Becomes(ChangedTo(desk, s))
        ELSE /\ owner # NoMonitor
             /\ IF desk.active[owner] = s THEN Becomes(Swapped(desk, owner, m))
                ELSE Becomes(ChangedTo(Moved(desk, s, m), s))

SwapActive(a, b) ==
  /\ Dispatch /\ {a, b} \subseteq Enabled(desk) /\ a # b
  /\ Becomes(Swapped(desk, a, b))

ToggleSpecial(s) ==
  LET m == desk.focused
  IN /\ Dispatch
     /\ Becomes(IF desk.special[m] = s THEN ClosedSpecial(desk, m)
                ELSE OpenedSpecial(Created(desk, s, m), m, s))

\* The window that was moved to s is shown and focused.
Followed(d, w, s, m, old) ==
  LET open == IF s \in Specials THEN OpenedSpecial(d, m, s)
              ELSE IF old \in Specials THEN ClosedSpecial(d, d.home[old])
              ELSE d
  IN Focused(Changed(open, m, s, FALSE), w)

\* movetoworkspace, and the silent one, after which nothing is shown or focused.
MoveWindow(w, s, silent) ==
  LET made == Created(desk, s, desk.screen[w])
      m == made.home[s]
      old == desk.on[w]
      carried == Carried(made, w, s)
  IN /\ Dispatch /\ w \in Mapped(desk) /\ s # old
     /\ desk.screen[w] \in Enabled(desk) /\ m \in Enabled(desk)
     /\ \/ silent /\ Becomes(carried)
        \/ ~silent /\ Becomes(Followed(
             [carried EXCEPT !.focused = IF s \in Existing(desk) THEN m ELSE @], w, s, m, old))

PinWindow(w) ==
  LET m == desk.screen[w]
      pinned == IF w \in desk.pinned THEN desk.pinned \ {w} ELSE desk.pinned \cup {w}
  IN /\ Dispatch /\ w \in CanPin \cap Mapped(desk) /\ m \in Enabled(desk)
     /\ Becomes([desk EXCEPT !.pinned = pinned, !.on[w] = desk.active[m]])

\* The monitor is entered with the pointer, or with the window last focused on it.
FocusMonitor(m) ==
  LET top == IF desk.special[m] # NoWorkspace THEN desk.special[m] ELSE desk.active[m]
  IN /\ Dispatch /\ m \in Enabled(desk) \ {desk.focused}
     /\ \E d \in {desk} \cup {Focused(desk, w) : w \in WindowsOn(desk, top)} :
          Becomes([d EXCEPT !.focused = m])

FocusWindow(w) ==
  Dispatch /\ w \in Mapped(desk) /\ Becomes(Focused(desk, w))

OpenWindow(w) ==
  LET on(m) == IF desk.special[m] # NoWorkspace THEN desk.special[m] ELSE desk.active[m]
  IN /\ w \notin Mapped(desk)
     /\ \E m \in Enabled(desk) :
          /\ desk.focused \in {m, NoMonitor}
          /\ Becomes([desk EXCEPT !.focused = m, !.on[w] = on(m), !.screen[w] = m])
     /\ UNCHANGED <<plugged, seen, unsafe>>

CloseWindow(w) ==
  LET m == desk.screen[w]
      s == desk.on[w]
      gone == [desk EXCEPT !.on[w] = NoWorkspace, !.screen[w] = NoMonitor,
                           !.pinned = @ \ {w}]
  IN /\ w \in Mapped(desk)
     /\ Becomes(IF s \in Specials /\ WindowsOn(gone, s) = {} /\ m # NoMonitor
                   /\ desk.special[m] = s
                THEN ClosedSpecial(gone, m) ELSE gone)
     /\ UNCHANGED <<plugged, seen, unsafe>>

Next ==
  \/ LeaveUnsafe
  \/ \E m \in Monitors : Plug(m) \/ Unplug(m) \/ Enable(m) \/ Disable(m) \/ FocusMonitor(m)
  \/ \E a, b \in Monitors : SwapActive(a, b)
  \/ \E s \in Named \cup Specials :
       ChangeWorkspace(s) \/ FocusOnCurrent(s) \/ \E m \in Monitors : MoveWorkspace(s, m)
  \/ \E s \in Specials : ToggleSpecial(s)
  \/ \E w \in Windows :
       \/ OpenWindow(w) \/ CloseWindow(w) \/ PinWindow(w) \/ FocusWindow(w)
       \/ \E s \in Named \cup Specials, silent \in BOOLEAN : MoveWindow(w, s, silent)

Spec == Init /\ [][Next]_vars

-----------------------------------------------------------------------------

Desk ==
  [enabled : Seq(Outputs), order : Seq(Workspaces),
   home : [Workspaces -> Outputs \cup {NoMonitor}],
   back : [Workspaces -> Outputs \cup {NoMonitor}],
   visible : SUBSET Workspaces,
   active : [Outputs -> Ids \cup {NoWorkspace}],
   special : [Outputs -> Specials \cup {NoWorkspace}],
   focused : Outputs \cup {NoMonitor},
   on : [Windows -> Workspaces \cup {NoWorkspace}],
   screen : [Windows -> Outputs \cup {NoMonitor}],
   pinned : SUBSET Windows, torn : BOOLEAN]

TypeOK ==
  /\ desk \in Desk /\ desk.visible \subseteq Existing(desk)
  /\ plugged \subseteq Outputs /\ unsafe \in BOOLEAN
  /\ seen \in [Outputs -> Ids \cup {NoWorkspace}]

\* Every monitor shows a workspace that exists and is its own, so none shows
\* another's: moveWorkspaceToMonitor plugs the gap it leaves, and connecting a
\* monitor takes workspaces others show.
EachShowsItsOwn ==
  \A m \in Enabled(desk) :
    desk.active[m] \in Existing(desk) /\ desk.home[desk.active[m]] = m

OnTop == {desk.active[m] : m \in Enabled(desk)} \cup {desk.special[m] : m \in Enabled(desk)}

\* m_visible, which decides what is drawn and focused, says what the monitors
\* show, through every handler that sets the one and the other.
VisibleIsShown == desk.visible = OnTop \ {NoWorkspace}

\* No workspace is left on a monitor that is gone ("avoid lost workspaces on
\* recover"): once frames are drawn again all of them can be reached.
NothingLost ==
  ~unsafe /\ ~desk.torn => \A s \in Existing(desk) : desk.home[s] \in Enabled(desk)

\* A special workspace is open on the monitor it belongs to and on no other:
\* setSpecialWorkspace closes it on its monitor only.
SpecialOnce ==
  \A m \in Enabled(desk) : desk.special[m] # NoWorkspace => desk.home[desk.special[m]] = m

\* m_lastMonitor, which the dispatchers dereference, is a monitor in use; it is
\* null only between the loss of the last one and the next.
FocusConnected == desk.focused \in Enabled(desk) \/ (unsafe /\ desk.focused = NoMonitor)

\* What monitors show is sound, whatever is plugged and unplugged: each shows
\* workspaces of its own, the flags of the workspaces agree, and the focused
\* monitor is there.
DeskSound ==
  /\ TypeOK
  /\ ~desk.torn => EachShowsItsOwn /\ VisibleIsShown /\ SpecialOnce /\ FocusConnected

\* A window is on the monitor of its workspace: m_monitor is written apart from
\* m_workspace, and on other paths.  Pinned windows are not: focusWindow and a
\* swap move them from one workspace to another's monitor.
WindowsFollow ==
  ~desk.torn =>
  \A w \in Mapped(desk) \ desk.pinned : desk.screen[w] = desk.home[desk.on[w]]

Returned == Enabled(desk') \ Enabled(desk)
Gone == Enabled(desk) \ Enabled(desk')

\* A monitor that comes back gets the workspaces with windows that left with
\* it, and shows the one it showed, whatever became of them since.
ReturnsHome ==
  [][\A m \in Returned \ {Fallback} :
       \A s \in {desk.on[w] : w \in Mapped(desk) \ desk.pinned} :
         /\ desk.back[s] = m => desk'.home[s] = m
         /\ seen[m] = s => desk'.active[m] = s]_vars

\* Workspaces that a monitor gets when it comes: those that left with it, the
\* one it showed, and the one a rule starts it with.
Due(m, s) == desk.back[s] = m \/ seen[m] = s \/ DefaultFor[m] = s

\* The other monitors go on showing what they showed when one comes or goes,
\* but for what goes home (and is there, if a window is on it): what the lost
\* monitor showed and held arrives behind what its heir shows, focused or not.
OthersKeepShowing ==
  [][Returned # {} \/ Gone # {} =>
       \A n \in Enabled(desk) \cap Enabled(desk') :
         LET s == desk.active[n]
         IN \/ desk'.active[n] = s
            \/ \E m \in Returned :
                 Due(m, s) /\ (WindowsOn(desk, s) \ desk.pinned # {} => desk'.home[s] = m)]_vars
=============================================================================
