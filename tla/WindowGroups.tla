---------------------------- MODULE WindowGroups -----------------------------
(***************************************************************************)
(* Groups of windows, tiled by the dwindle layout.  The members of a group *)
(* are linked in a ring; one of them is its head, which carries the lock,  *)
(* and one is shown, which has the tile if the group is tiled.  Most loops *)
(* of the code walk a ring until they are back or find the head or the     *)
(* shown member: a ring that is cut or without one of them hangs the       *)
(* compositor.                                                             *)
(*                                                                         *)
(* Every workspace here is the active one of a monitor of its own, so a    *)
(* window in some direction may be on another workspace.  Fullscreen,      *)
(* dragging with the mouse and swallowing are left out.                    *)
(*                                                                         *)
(* Two steps of the code take a group apart.  Swapping the member shown    *)
(* with a window of another workspace leaves the others behind: `torn`     *)
(* keeps the windows of such groups until they are together again.  Moving *)
(* a hidden member, which a dispatcher can name, leaves two members shown  *)
(* or a window with two tiles or with a tile it should not have: `parted`  *)
(* says that it happened, and no step follows.  What the loops and the     *)
(* layout then find hangs on orders of windows that are not kept here.     *)
(***************************************************************************)
EXTENDS DwindleTree

CONSTANTS
  NoWorkspace,      \* the workspace of a window that is not mapped
  SetAlways,        \* windows with the rule "group set always"
  Deny,             \* windows with the rule "group deny"
  LockAlways,       \* windows with the rule "group lock always"
  AutoGroup,        \* group:auto_group
  GroupOnMove,      \* group:group_on_movetoworkspace
  IgnoreGroupLock   \* binds:ignore_group_lock

ASSUME GroupAssumption ==
  /\ SetAlways \subseteq Windows /\ LockAlways \subseteq Windows
  /\ Deny \subseteq Windows
  /\ {AutoGroup, GroupOnMove, IgnoreGroupLock} \subseteq BOOLEAN
  /\ NoWorkspace \notin Workspaces

VARIABLES
  mapped,        \* windows with m_isMapped
  floating,      \* windows with m_isFloating
  hidden,        \* windows with m_hidden
  workspace,     \* m_workspace
  next,          \* m_groupData.pNextWindow
  head,          \* windows with m_groupData.head
  locked,        \* windows with m_groupData.locked
  groupsLocked,  \* m_groupsLocked
  last,          \* m_lastWindow
  tree,          \* m_dwindleNodesData
  pinned,        \* windows with m_pinned
  torn,          \* history: windows of groups that a swap left on two workspaces
  parted         \* history: a hidden member was moved as if it were shown

groups == <<next, head, locked>>
vars == <<mapped, floating, hidden, workspace, next, head, locked, groupsLocked,
          last, tree, pinned, torn, parted>>

\* No step takes a hidden member for one that is shown, but MoveHidden, and
\* nothing follows that one.
Whole == ~parted /\ UNCHANGED parted

-----------------------------------------------------------------------------
(* Rings.                                                                   *)

Grouped == {w \in Windows : next[w] # NoWindow}

\* The members of w's group: what a walk from w passes.
RingIn(nx, w) ==
  LET closed == {S \in SUBSET {v \in Windows : nx[v] # NoWindow} :
                   w \in S /\ \A v \in S : /\ nx[v] \in S
                                           /\ \E u \in S : nx[u] = v}
  IN IF nx[w] \in {NoWindow, w} THEN {w}
     ELSE {v \in Windows : \A S \in closed : v \in S}

Ring(w) == RingIn(next, w)

Alone(w) == next[w] \in {NoWindow, w}

Previous(w) == CHOOSE v \in Windows : next[v] = w

HeadOf(w) == CHOOSE v \in Ring(w) : v \in head

\* The last member of a ring, in the order that begins with its head.
TailIn(nx, hd, w) == CHOOSE v \in RingIn(nx, w) : nx[v] \in hd

TailOf(w) == TailIn(next, head, w)

Current(w) == CHOOSE v \in Ring(w) : v \notin hidden

\* The set S with the membership of v and w exchanged.
Exchanged(S, v, w) ==
  {x \in Windows :
     IF x = v THEN w \in S ELSE IF x = w THEN v \in S ELSE x \in S}

\* Fault: the window before w is not linked to the one after it.
Unlinked_KeepsPrevious(nx, w) == [nx EXCEPT ![w] = NoWindow]

\* nx with w taken out of its ring.
Unlinked(nx, w) ==
  [v \in Windows |-> IF v = w THEN NoWindow
                     ELSE IF nx[v] = w THEN nx[w] ELSE nx[v]]

\* nx with w, which is in no ring, put behind `at`.
Spliced(nx, at, w) ==
  [v \in Windows |-> IF v = at THEN w ELSE IF v = w THEN nx[at] ELSE nx[v]]

\* Fault: what came behind `at` does not come behind the ring.
SplicedRing_Closed(nx, at, first, final) == [nx EXCEPT ![at] = first]

\* nx with a ring, from its head to its tail, put behind `at`.
SplicedRing(nx, at, first, final) ==
  [v \in Windows |-> IF v = at THEN first
                     ELSE IF v = final THEN nx[at] ELSE nx[v]]

\* nx with v and the window after it, w, in each other's places.
Turned(nx, v, w) ==
  [x \in Windows |-> IF x = w THEN v
                     ELSE IF x = v THEN (IF nx[w] = v THEN w ELSE nx[w])
                     ELSE IF nx[x] = v THEN w ELSE nx[x]]

CanBeGroupedInto(w, v) ==
  /\ ~groupsLocked
  /\ HeadOf(v) \notin locked
  /\ w \in Grouped => HeadOf(w) \notin locked
  /\ w \notin Deny

-----------------------------------------------------------------------------
(* onWindowRemoved: a member leaves its group, which keeps the tile and the *)
(* focus; any other window leaves the tree.                                 *)

Heir(w) == IF w \in head THEN next[w] ELSE Previous(w)

Gives(w) == ~Alone(w) /\ w \notin hidden

HeadWithout(w) ==
  IF ~Alone(w) /\ w \in head THEN Exchanged(head, w, next[w]) ELSE head

\* Fault: the lock stays with the window that leaves.
LockedWithout_Stays(w) == locked

LockedWithout(w) ==
  IF ~Alone(w) /\ w \in head THEN Exchanged(locked, w, next[w]) ELSE locked

HiddenWithout(w) ==
  IF Alone(w) THEN hidden
  ELSE IF Gives(w) THEN hidden \ {w, Heir(w)} ELSE hidden \ {w}

\* Fault: the tile of the group goes with the window that leaves.
TreeWithout_TakesTile(w) ==
  IF w \notin floating THEN Removed(tree, w) ELSE tree

TreeWithout(w) ==
  IF Gives(w) THEN Replaced(tree, w, Heir(w))
  ELSE IF Alone(w) /\ w \notin floating THEN Removed(tree, w) ELSE tree

\* applyGroupRules, for a window in no group: it becomes one by itself.
MadeGroup(w) == w \in SetAlways \ Deny

-----------------------------------------------------------------------------
(* Windows come and go.                                                     *)

\* onWindowCreatedAutoGroup: w, floating or not, joins the group of v.
Joins(w, v, floats) ==
  /\ AutoGroup
  /\ v # w /\ v \in Grouped
  /\ CanBeGroupedInto(w, v)
  /\ floats => v \in floating

\* The window a new one may be opened on: the focused one, if it is there.
OpeningOn(ws) ==
  IF last # NoWindow /\ workspace[last] = ws THEN {last}
  ELSE {v \in mapped \ hidden : workspace[v] = ws}

MapAlone(w, ws, floats) ==
  /\ \/ OpeningOn(ws) = {}
     \/ \E v \in OpeningOn(ws) : ~Joins(w, v, floats)
  /\ floating' = IF floats THEN floating \cup {w} ELSE floating \ {w}
  /\ tree' \in IF floats THEN {tree} ELSE Inserted(tree, w, ws)
  /\ IF MadeGroup(w)
     THEN /\ next' = [next EXCEPT ![w] = w]
          /\ head' = head \cup {w}
          /\ locked' = IF w \in LockAlways THEN locked \cup {w}
                                           ELSE locked \ {w}
     ELSE UNCHANGED groups
  /\ last' \in {last, w}
  /\ UNCHANGED <<hidden, torn>>

MapIntoGroup(w, ws, floats) ==
  \E v \in OpeningOn(ws), at \in Windows :
    /\ Joins(w, v, floats)
    /\ at \in {v, TailOf(v)}
    /\ floating' = IF v \in floating THEN floating \cup {w}
                                     ELSE floating \ {w}
    /\ next' = Spliced(next, at, w)
    /\ head' = head \ {w}
    /\ locked' = IF w \in LockAlways THEN locked \cup {HeadOf(v)} ELSE locked
    /\ hidden' = hidden \cup {v}
    /\ tree' = Replaced(tree, v, w)
    /\ last' \in IF last = v THEN {w} ELSE {last, w}
    /\ torn' = IF v \in torn THEN torn \cup {w} ELSE torn

\* A rule may pin a window that floats.
Map(w) ==
  /\ Whole
  /\ w \notin mapped
  /\ mapped' = mapped \cup {w}
  /\ \E ws \in Workspaces, floats \in BOOLEAN :
       /\ workspace' = [workspace EXCEPT ![w] = ws]
       /\ MapAlone(w, ws, floats) \/ MapIntoGroup(w, ws, floats)
       /\ pinned' \in {pinned} \cup {pinned \cup {w} : x \in {floats} \ {FALSE}}
  /\ UNCHANGED groupsLocked

Unplaced(w) == [workspace EXCEPT ![w] = NoWorkspace]

\* listener_unmapWindow.  If the window had the focus, some window that is
\* shown may get it.
Unmap(w) ==
  /\ Whole
  /\ w \in mapped
  /\ mapped' = mapped \ {w}
  /\ next' = Unlinked(next, w)
  /\ head' = HeadWithout(w) \ {w} /\ locked' = LockedWithout(w) \ {w}
  /\ hidden' = HiddenWithout(w)
  /\ floating' = floating \ {w}
  /\ tree' = TreeWithout(w)
  /\ workspace' = Unplaced(w)
  /\ last' \in IF last = w THEN {NoWindow} \cup (mapped' \ hidden') ELSE {last}
  /\ pinned' = pinned \ {w} /\ torn' = torn \ {w}
  /\ UNCHANGED groupsLocked

-----------------------------------------------------------------------------
(* Groups are made and dissolved.                                           *)

CreateGroup ==
  /\ Whole
  /\ last \in Windows \ Deny /\ last \notin Grouped
  /\ next' = [next EXCEPT ![last] = last]
  /\ head' = head \cup {last} /\ locked' = locked \ {last}
  /\ UNCHANGED <<mapped, floating, hidden, workspace, groupsLocked, last,
                 tree, pinned, torn>>

\* A group of one that has to be a group stays one.
DissolveAlone(w) ==
  /\ IF w \in SetAlways THEN UNCHANGED <<next, head>>
     ELSE next' = [next EXCEPT ![w] = NoWindow] /\ head' = head \ {w}
  /\ UNCHANGED <<hidden, locked, tree, torn>>

\* Every member is on its own again, with a tile of its own.  (m_groupsLocked
\* is set meanwhile, so none of them joins another group.)
DissolveRing(w) ==
  LET members == Ring(w)
      again == {v \in members : MadeGroup(v)}
  IN /\ next' = [v \in Windows |-> IF v \in again THEN v
                                   ELSE IF v \in members THEN NoWindow
                                   ELSE next[v]]
     /\ head' = (head \ members) \cup again
     /\ locked' = (locked \ again) \cup (again \cap LockAlways)
     /\ hidden' = hidden \ members
     /\ tree' \in AllInserted(IF w \in floating THEN tree
                              ELSE Removed(tree, w),
                              members \ floating, workspace)
     /\ torn' = torn \ members

DestroyGroup ==
  /\ Whole
  /\ last \in Grouped
  /\ IF next[last] = last THEN DissolveAlone(last) ELSE DissolveRing(last)
  /\ UNCHANGED <<mapped, floating, workspace, groupsLocked, last, pinned>>

ToggleGroup == CreateGroup \/ DestroyGroup

-----------------------------------------------------------------------------
(* Another member is shown, or moved along the group.                       *)

\* setGroupCurrent, and the focus of a window, which is shown for it.
Show(w) ==
  IF w \in hidden
  THEN /\ hidden' = Exchanged(hidden, w, Current(w))
       /\ tree' = Replaced(tree, Current(w), w)
  ELSE UNCHANGED <<hidden, tree>>

\* By its number, the next or the previous one: any other member.
ChangeGroupActive ==
  /\ Whole
  /\ last \in Grouped
  /\ \E w \in Ring(last) \ {last} : Show(w) /\ last' = w
  /\ UNCHANGED <<mapped, floating, workspace, groups, groupsLocked, pinned,
                 torn>>

FocusWindow(w) ==
  /\ Whole
  /\ w \in mapped
  /\ Show(w) /\ last' = w
  /\ UNCHANGED <<mapped, floating, workspace, groups, groupsLocked, pinned,
                 torn>>

\* Forwards past the end and backwards past the beginning only the head moves.
MoveGroupWindow ==
  /\ Whole
  /\ last \in Grouped
  /\ \E back \in BOOLEAN :
       LET wraps == IF back THEN last \in head ELSE next[last] \in head
           other == IF back /\ ~wraps THEN Previous(last) ELSE next[last]
       IN /\ next' = IF wraps THEN next
                     ELSE IF back /\ next[last] # other
                          THEN Turned(next, other, last)
                          ELSE Turned(next, last, other)
          /\ head' = Exchanged(head, last, other)
          /\ locked' = Exchanged(locked, last, other)
  /\ UNCHANGED <<mapped, floating, hidden, workspace, groupsLocked, last,
                 tree, pinned, torn>>

-----------------------------------------------------------------------------
(* Into groups and out of them.                                             *)

LockGroups ==
  /\ Whole
  /\ groupsLocked' = ~groupsLocked
  /\ UNCHANGED <<mapped, floating, hidden, workspace, groups, last, tree,
                 pinned, torn>>

LockActiveGroup ==
  /\ Whole
  /\ last \in Grouped
  /\ locked' = IF HeadOf(last) \in locked THEN locked \ {HeadOf(last)}
                                          ELSE locked \cup {HeadOf(last)}
  /\ UNCHANGED <<mapped, floating, hidden, workspace, next, head,
                 groupsLocked, last, tree, pinned, torn>>

\* Windows that getWindowInDirection may find for the focused one: those shown
\* that float as it does.
InDirection ==
  {v \in (mapped \ hidden) \ {last} : v \in floating <=> last \in floating}

\* moveWindowIntoGroup, for the focused window, which takes the place that v
\* has on the screen.
IntoGroup(v) ==
  LET left == Unlinked(next, last)
  IN \E at \in {v, TailIn(left, HeadWithout(last), v)} :
       /\ next' = Spliced(left, at, last)
       /\ head' = HeadWithout(last) \ {last}
       /\ locked' = LockedWithout(last)
       /\ hidden' = (HiddenWithout(last) \cup {v}) \ {last}
       /\ tree' = Replaced(TreeWithout(last), v, last)
       /\ workspace' = [workspace EXCEPT ![last] = workspace[v]]
       /\ torn' = IF v \in torn THEN torn \cup {last} ELSE torn \ {last}
       /\ UNCHANGED <<mapped, floating, groupsLocked, last, pinned>>

\* Fault: the lock of the group the window is in is not asked for.
MayMoveInto_SourceLock(v) ==
  IgnoreGroupLock \/ (~groupsLocked /\ HeadOf(v) \notin locked)

MayMoveInto(v) ==
  \/ IgnoreGroupLock
  \/ /\ ~groupsLocked
     /\ HeadOf(v) \notin locked
     /\ last \in Grouped => HeadOf(last) \notin locked

MoveIntoGroup ==
  /\ Whole
  /\ last \in Windows \ Deny
  /\ \E v \in InDirection \cap Grouped : MayMoveInto(v) /\ IntoGroup(v)

\* moveWindowOutOfGroup: the focus goes to the window or to the member that was
\* before it, which is shown for it.
OutOfGroup(w) ==
  IF next[w] = w
  THEN DissolveAlone(w) /\ last' = w
       /\ UNCHANGED <<mapped, floating, workspace, groupsLocked, pinned>>
  ELSE \E focused \in {w, Previous(w)} :
         LET shown == IF Gives(w) THEN Heir(w) ELSE Current(w)
             stays == focused # w /\ focused # shown
         IN /\ next' = IF MadeGroup(w)
                       THEN [Unlinked(next, w) EXCEPT ![w] = w]
                       ELSE Unlinked(next, w)
            /\ head' = IF MadeGroup(w) THEN HeadWithout(w) \cup {w}
                                       ELSE HeadWithout(w)
            /\ locked' = IF ~MadeGroup(w) THEN LockedWithout(w)
                         ELSE IF w \in LockAlways
                              THEN LockedWithout(w) \cup {w}
                              ELSE LockedWithout(w) \ {w}
            /\ hidden' = IF stays
                         THEN (HiddenWithout(w) \cup {shown}) \ {focused}
                         ELSE HiddenWithout(w)
            /\ \E T \in IF w \in floating THEN {TreeWithout(w)}
                        ELSE Inserted(TreeWithout(w), w, workspace[w]) :
                 tree' = IF stays THEN Replaced(T, shown, focused) ELSE T
            /\ last' = focused
            /\ torn' = torn \ {w}
            /\ UNCHANGED <<mapped, floating, workspace, groupsLocked,
                           pinned>>

MoveOutOfGroup ==
  /\ Whole
  /\ IgnoreGroupLock \/ ~groupsLocked
  /\ \E w \in Grouped : OutOfGroup(w)

\* moveWindowTo: the tile moves, on its workspace or to that of a monitor next
\* to it, and the whole group with it.
MoveTile(w) ==
  /\ HasTile(tree, w)
  /\ \E ws \in Workspaces :
       /\ workspace' = [v \in Windows |-> IF v \in Ring(w) THEN ws
                                          ELSE workspace[v]]
       /\ tree' \in Inserted(Removed(tree, w), w, ws)
  /\ torn' = torn \ Ring(w)
  /\ UNCHANGED <<mapped, floating, hidden, groups, groupsLocked, last,
                 pinned>>

MoveWindowOrGroup ==
  LET free == IgnoreGroupLock \/ last \notin Grouped
                \/ HeadOf(last) \notin locked
      stuck == last \in SetAlways /\ next[last] = last
  IN /\ Whole
     /\ last \in Windows
     /\ IF ~IgnoreGroupLock /\ groupsLocked THEN MoveTile(last)
        ELSE \/ \E v \in InDirection \cap Grouped :
                  IF IgnoreGroupLock \/ (MayMoveInto(v) /\ last \notin Deny)
                  THEN last \notin Deny /\ IntoGroup(v)
                  ELSE MoveTile(last)
             \/ /\ InDirection \ Grouped # {}
                /\ IF ~free \/ last \notin Grouped \/ stuck
                   THEN MoveTile(last) ELSE OutOfGroup(last)
             \/ last \in Grouped /\ free /\ OutOfGroup(last)
             \/ last \notin Grouped /\ MoveTile(last)

-----------------------------------------------------------------------------
(* Tiles.                                                                   *)

\* Fault: only the member that is shown is told that it floats.
ToggleFloating_ShownOnly(w) ==
  LET c == IF w \in Grouped THEN Current(w) ELSE w
  IN /\ Whole
     /\ w \in mapped
     /\ floating' = IF c \in floating THEN floating \ {c}
                                      ELSE floating \cup {c}
     /\ IF HasTile(tree, c)
        THEN tree' = Removed(tree, c) /\ UNCHANGED <<workspace, torn>>
        ELSE \E ws \in Workspaces :
               /\ workspace' = [v \in Windows |-> IF v \in Ring(w) THEN ws
                                                  ELSE workspace[v]]
               /\ tree' \in Inserted(tree, c, ws)
               /\ torn' = torn \ Ring(w)
     /\ pinned' = pinned \ {c}
     /\ UNCHANGED <<mapped, hidden, groups, groupsLocked, last>>

\* toggleActiveFloating: the member shown gets or loses the tile; a window that
\* is tiled goes to the workspace of the monitor it is over.
ToggleFloating(w) ==
  LET c == IF w \in Grouped THEN Current(w) ELSE w
      flipped == IF c \in floating THEN floating \ Ring(w)
                                   ELSE floating \cup Ring(w)
  IN /\ Whole
     /\ w \in mapped
     /\ floating' = flipped
     /\ IF HasTile(tree, c)
        THEN tree' = Removed(tree, c) /\ UNCHANGED <<workspace, torn>>
        ELSE \E ws \in Workspaces :
               /\ workspace' = [v \in Windows |-> IF v \in Ring(w) THEN ws
                                                  ELSE workspace[v]]
               /\ tree' \in Inserted(tree, c, ws)
               /\ torn' = torn \ Ring(w)
     /\ pinned' = pinned \ {c}
     /\ UNCHANGED <<mapped, hidden, groups, groupsLocked, last>>

Pin(w) ==
  /\ Whole
  /\ w \in mapped \cap floating
  /\ pinned' = IF w \in pinned THEN pinned \ {w} ELSE pinned \cup {w}
  /\ UNCHANGED <<mapped, floating, hidden, workspace, groups, groupsLocked,
                 last, tree, torn>>

\* What getFirstWindow may find: the order of the windows is not kept.
Shown(ws) == {v \in mapped \ hidden : workspace[v] = ws}

\* The windows of ws whose group w joins when it moves there.  The code counts
\* the windows that are pinned, not those that are visible.
Hosts(w, ws) ==
  {v \in Shown(ws) \cap Grouped :
     /\ GroupOnMove
     /\ Cardinality({x \in mapped \cap pinned : workspace[x] = ws}) = 1
     /\ CanBeGroupedInto(w, v)}

WithoutTile(w) == IF w \in floating THEN tree ELSE Removed(tree, w)

\* The group of w, or w, goes behind `at`, and w is shown instead of v: unless
\* v is a member of the group of w, in which they may lose each other.
Merges(w, v, at) ==
  LET merged == IF w \in Grouped
                THEN SplicedRing(next, at, HeadOf(w), TailOf(w))
                ELSE Spliced(next, at, w)
  IN /\ next' = merged
     /\ head' = head \ {IF w \in Grouped THEN HeadOf(w) ELSE w}
     /\ floating' = IF v \in floating THEN floating \cup Ring(w)
                                      ELSE floating \ Ring(w)
     /\ torn' = IF v \in torn THEN torn \cup RingIn(merged, w)
                              ELSE torn \ RingIn(merged, w)
     /\ IF w \in RingIn(merged, v)
        THEN /\ hidden' = (hidden \cup {v}) \ {w}
             /\ tree' = Replaced(WithoutTile(w), v, w)
        ELSE hidden' = hidden /\ tree' = WithoutTile(w)

\* Fault: the members that are hidden stay.
Follow_ShownOnly(w, ws) ==
  /\ workspace' = [workspace EXCEPT ![w] = ws]
  /\ UNCHANGED <<mapped, locked, groupsLocked, pinned>>

\* updateGroupOutputs: the whole group follows w.
Follow(w, ws) ==
  /\ workspace' = [x \in Windows |-> IF x \in RingIn(next', w) THEN ws
                                     ELSE workspace[x]]
  /\ UNCHANGED <<mapped, locked, groupsLocked, pinned>>

\* The focus follows w, unless the move is silent; then it stays, if it was on
\* neither w nor the window that w hides.
FocusAfter(w, before) ==
  last' \in {w} \cup IF last \in before THEN {NoWindow} \cup (mapped \ hidden')
                                        ELSE {last}

\* moveWindowToWorkspaceSafe, for any window that is shown.
MoveToWorkspace(w, ws) ==
  /\ Whole
  /\ w \in mapped \ hidden /\ workspace[w] # ws
  /\ \/ /\ Hosts(w, ws) = {} \/ Hosts(w, ws) # Shown(ws)
        /\ tree' \in IF w \in floating THEN {tree}
                     ELSE Inserted(WithoutTile(w), w, ws)
        /\ torn' = torn \ Ring(w)
        /\ UNCHANGED <<floating, next, head, hidden>>
        /\ FocusAfter(w, {w})
     \/ \E v \in Hosts(w, ws) : \E at \in {v, TailOf(v)} :
          Merges(w, v, at) /\ FocusAfter(w, {v, w})
  /\ Follow(w, ws)

\* The same for a hidden member, which getWindowByRegex finds as well.  It gets
\* a tile of its own or takes that of v, while the member that was shown keeps
\* its tile and is still shown; the focus, if it follows, exchanges the two.
MoveHidden(w, ws) ==
  /\ ~parted
  /\ w \in hidden /\ workspace[w] # ws
  /\ \/ /\ Hosts(w, ws) = {} \/ Hosts(w, ws) # Shown(ws)
        /\ \E T \in IF w \in floating THEN {tree} ELSE Inserted(tree, w, ws) :
             \/ tree' = T /\ UNCHANGED <<hidden, last>>
             \/ /\ tree' = Replaced(T, Current(w), w)
                /\ hidden' = Exchanged(hidden, w, Current(w))
                /\ last' = w
        /\ torn' = torn \ Ring(w) /\ parted' = (w \notin floating)
        /\ UNCHANGED <<floating, next, head>>
     \/ /\ \E v \in Hosts(w, ws) : \E at \in {v, TailOf(v)} :
             Merges(w, v, at) /\ FocusAfter(w, {v})
        /\ parted' = TRUE
  /\ Follow(w, ws)

\* A group that was taken apart is not followed.
Parted == parted /\ UNCHANGED vars

\* The windows that are in two places when x is swapped for y.
Behind(x, y) == IF Alone(x) /\ y \notin torn THEN {} ELSE Ring(x)

\* swapActive.  Of a group only the member shown changes the workspace.
SwapActive ==
  /\ Whole
  /\ last \in Windows /\ HasTile(tree, last)
  /\ \E v \in Windows \ {last} :
       LET apart == tree[TileOf(tree, v)].workspace
                      # tree[TileOf(tree, last)].workspace
       IN /\ HasTile(tree, v)
          /\ tree' = Switched(tree, last, v)
          /\ workspace' = IF apart
                          THEN [workspace EXCEPT ![last] = workspace[v],
                                                 ![v] = workspace[last]]
                          ELSE workspace
          /\ torn' = IF apart
                     THEN torn \cup Behind(last, v) \cup Behind(v, last)
                     ELSE torn
  /\ UNCHANGED <<mapped, floating, hidden, groups, groupsLocked, last, pinned>>

\* layoutmsg swapsplit, and movetoroot below the root.
LayoutMessage ==
  /\ Whole
  /\ last \in Windows /\ HasTile(tree, last)
  /\ LET p == tree[TileOf(tree, last)].parent
     IN /\ p # NoNode
        /\ \/ tree' = SplitSwapped(tree, last)
           \/ /\ tree[p].parent # NoNode
              /\ \E stable \in BOOLEAN :
                   tree' = RootMoved(tree, last, stable)
  /\ UNCHANGED <<mapped, floating, hidden, workspace, groups,
                 groupsLocked, last, pinned, torn>>

Init ==
  /\ mapped = {} /\ floating = {} /\ hidden = {}
  /\ workspace = [w \in Windows |-> NoWorkspace]
  /\ next = [w \in Windows |-> NoWindow] /\ head = {} /\ locked = {}
  /\ groupsLocked = FALSE /\ last = NoWindow
  /\ tree = [n \in {} |-> Tile(NoWindow, NoWorkspace, NoNode)]
  /\ pinned = {} /\ torn = {} /\ parted = FALSE

Next ==
  \/ \E w \in Windows :
       Map(w) \/ Unmap(w) \/ FocusWindow(w) \/ ToggleFloating(w) \/ Pin(w)
  \/ ToggleGroup \/ ChangeGroupActive \/ MoveGroupWindow
  \/ LockGroups \/ LockActiveGroup
  \/ MoveIntoGroup \/ MoveOutOfGroup \/ MoveWindowOrGroup
  \/ \E w \in Windows, ws \in Workspaces :
       MoveToWorkspace(w, ws) \/ MoveHidden(w, ws)
  \/ SwapActive \/ LayoutMessage \/ Parted

Spec == Init /\ [][Next]_vars

-----------------------------------------------------------------------------
(* Properties.                                                              *)

TypeOK ==
  /\ mapped \subseteq Windows /\ floating \subseteq Windows
  /\ hidden \subseteq Windows
  /\ head \subseteq Windows /\ locked \subseteq Windows
  /\ workspace \in [Windows -> Workspaces \cup {NoWorkspace}]
  /\ mapped = {w \in Windows : workspace[w] # NoWorkspace}
  /\ next \in [Windows -> Windows \cup {NoWindow}]
  /\ groupsLocked \in BOOLEAN /\ parted \in BOOLEAN
  /\ pinned \subseteq mapped /\ torn \subseteq mapped
  /\ last \in Windows \cup {NoWindow}
  /\ DOMAIN tree \subseteq NodeIds
  /\ \A n \in DOMAIN tree : tree[n] \in Nodes

\* pNextWindow is a permutation of the grouped windows, so a walk along a group
\* comes back to where it began, whatever was done to the groups.
RingsIntact ==
  \A w \in Grouped :
    /\ next[w] \in Grouped
    /\ \A v \in Grouped : next[v] = next[w] => v = w
    /\ \E v \in Grouped : next[v] = w

\* Every group has one head: getGroupHead and getGroupTail find it.
OneHead == \A w \in Grouped : Cardinality(Ring(w) \cap head) = 1

\* The groups are sound: a walk along one ends, and passes exactly one head.
\* The loops of Window.cpp that look for the head, the tail, the previous or
\* the shown member would not return otherwise.
GroupsSound == ~parted => RingsIntact /\ OneHead

\* Every group shows one member, and no other window is hidden.
OneShown ==
  /\ \A w \in Grouped : Cardinality(Ring(w) \ hidden) = 1
  /\ hidden \subseteq Grouped \cap mapped

\* A window has a tile just when it is mapped, shown and does not float; and
\* then it has one only.
TilesFit ==
  \A w \in Windows :
    Cardinality(TilesOf(tree, w)) =
      IF w \in mapped \ (floating \cup hidden) THEN 1 ELSE 0

\* The nodes of each workspace are one tree, linked both ways.
TreesIntact == Linked(tree) /\ Rooted(tree)

\* The tiling is sound, through every way in and out of a group: each
\* workspace has one tree, and its leaves are the windows that are tiled.
TilingSound == TypeOK /\ (~parted => TreesIntact /\ TilesFit)

\* The members of a group all float or none does.
GroupsAgree ==
  \A w \in Grouped : \A v \in Ring(w) : v \in floating <=> w \in floating

\* A group is on one workspace, and so is its tile, unless it was swapped with
\* a window of another workspace and has not been moved as a whole since.
GroupsTogether ==
  /\ \A w \in Grouped \ torn : \A v \in Ring(w) : workspace[v] = workspace[w]
  /\ \A n \in DOMAIN tree :
       IsTile(tree, n) /\ tree[n].window \notin torn =>
         tree[n].workspace = workspace[tree[n].window]

\* The focus is never left on a window that is hidden or gone.
FocusIsShown == last # NoWindow => last \in mapped \ hidden

\* A group acts as one window: it shows one member, which alone may have the
\* focus, and its members float, and change their workspace, together.
GroupsActAsOne ==
  ~parted => OneShown /\ GroupsAgree /\ GroupsTogether /\ FocusIsShown

\* Nothing joins a locked group, leaves one for another group, or joins any
\* group while all are locked.
LockedKeepOut ==
  [][next' # next => \A v, w \in Windows :
       w \in RingIn(next', v) \ Ring(v) /\ ~IgnoreGroupLock =>
         /\ ~groupsLocked
         /\ \A x \in {v, w} \cap Grouped : HeadOf(x) \notin locked]_vars

\* A group keeps its lock when its members change places or leave, the head
\* among them.
LockStaysWithGroup ==
  [][groups' # groups => \A w \in Grouped \ SetAlways :
       RingIn(next', w) \subseteq Ring(w) /\ next'[w] # NoWindow
         /\ ~LockActiveGroup =>
         (HeadOf(w) \in locked <=>
           \E v \in RingIn(next', w) : v \in head' /\ v \in locked')]_vars
=============================================================================
