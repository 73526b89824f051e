# TLA+ models and proofs of Infinity Land

Infinity Land is a fork of the Hyprland compositor (0.51.1) whose `canvas`
layout replaces workspaces by one infinite plane: windows are placed, dragged,
tiled in frames and tagged on it, and the user draws on it. This directory
holds TLA+ modules that model the canvas and the parts of the compositor it
lives in whose state is hardest to keep right, TLC configurations that check
them on small instances, and theorems about them that the TLAPS proof system
checks. Paths below are relative to the repository.

1. [Inventory](#1-inventory)
2. [Plan](#2-plan)
3. [The modules](#3-the-modules)
4. [What the runs check](#4-what-the-runs-check)
5. [What is proved](#5-what-is-proved)
6. [Where the code and its documents part](#6-where-the-code-and-its-documents-part)
7. [What is not modelled](#7-what-is-not-modelled)

## 1. Inventory

The compositor handles one event at a time on one thread: a key, a pointer
event, a request of a client, a timer, a fence, a frame to draw. So each handler
is one atomic action, and what makes it hard is not data races but **the order
of events**: windows close in the middle of a drag, the draw mode is toggled
between press and release, fences of the GPU fire late, monitors are unplugged
while windows open, clients die with an offer in their hands. Little waits inside
a handler; what outlives one is the state file, written under a debounce and
read by the next process, the waiters and timers of the event loop, the frames
the GPU is still reading for, and every weak reference and flag that one handler
leaves to be found by another.

### The canvas

| Component | State | Operations | What makes it correct |
|---|---|---|---|
| Annotation store (`CanvasAnnotation`) | four vectors (strokes, arrows, notes, texts), one id counter, a dirty flag | add and remove of each kind, clear all, clear by type | an id names one drawing for ever |
| Undo and redo (`CanvasUndoRedo`, `CanvasCommand`) | two stacks of at most 100 commands together | push, undo, redo; commands that add, remove and clear annotations, move and resize windows | the stacks are a bounded timeline; a command that has gone stale takes away nothing of anybody else's |
| Draw mode and toolbar (`CanvasDrawMode`, `CanvasToolbar`) | active flag, tool, half-made stroke or arrow | press, motion, release, toolbar click, toggle | a drawing belongs to the press that is held |
| Persistence (`CanvasPersistence`) | sizes by class in two tables, the time of the last save, the state file | load, debounced save, tracking of windows | what the file has is not lost; what is changed reaches it |
| Window list (`CanvasLayout`) | weak references to tiled windows | created, removed, enable, disable | each tiled window once and nothing else |
| Views (`CanvasViews`) | named sets of classes, the active one | create, switch, save and load | a switch shows and hides by the view |
| Window drags (`CanvasLayout`, `KeybindManager::changeMouseBindMode`) | dragged window, mode, corner, start box | begin, move, end, move and resize by key, fit to monitor | a drag ends with its window; undo takes it back |
| Frames (`CanvasFrame`, `CanvasFrameManager`) | frames with a place and a list of windows, active id, a drag of a frame | create, delete, assign, drag, tile | a frame is active while there is one; what joins is tiled |
| Snapping (`CanvasSnap`) | none between calls; the loop's own | `resolveOverlap`, `computeGridLayout` | the loop ends; what it calls free is free |
| Viewport (`CanvasViewport`) | scale, offset | pan, zoom, centre, fit | the anchor of a zoom stays where it is |
| Overlay cache (`CanvasAnnotation::render`) | a texture, the size it was made for, the dirty flag | render | what is shown is what is stored, where it is |
| Canvas input (`InputManager`) | panning flag, drag mode, held buttons | middle button, wheel, left button, keys | no mode outlives what began it |
| Quick jump (`CanvasQuickJump`) | query, matches, selection | toggle, keys | a key it takes is lost to nobody else |
| Tags (`CanvasTags`) | colour by window address | set; saved and loaded | a tag is its window's |
| Minimap, theme, background | a flag each | toggle, draw | drawing |

How they interact:

* Every operation of the **annotation store** schedules a save in
  **persistence** and marks the **overlay** dirty; `load` fills the store
  through the same operations, so loading schedules saves.
* **Draw mode**, the eraser and the clear dispatcher edit the store and push
  commands; **undo and redo** edit the store through the commands.
* The end of a **drag** calls the **frames** first (join the frame the centre is
  in), then **snapping** (leave the windows it is over), then pushes a command,
  and saves the window's size on the way.
* **Views** hide windows of the **window list**; enabling the layout makes
  views, tags and persistence anew and loads the file again.
* The compositor calls the list when a window is mapped, unmapped, floated,
  tiled or moved, and ends a drag before the window is unmapped.

### The compositor around it

| Component | State | Operations | What makes it correct |
|---|---|---|---|
| Groups (`Window.cpp`, the group dispatchers) | a ring of windows by `pNextWindow`, flags for head, lock and hidden | group, ungroup, cycle, reorder, move in, out and to a workspace, lock, float, swap, close | the ring is whole and has one head; a group acts as one window |
| Dwindle layout (`DwindleLayout.cpp`) | a binary tree of nodes for each workspace | insert, remove, move, swap, messages | one tree per workspace, one leaf per tiled window |
| Monitors and workspaces (`Monitor.cpp`, `Workspace.cpp`, `Compositor.cpp`) | monitors in use, what each shows, where each workspace belongs and came from, visible flags, the focused monitor | plug, unplug, enable, disable, switch, move, swap, special workspaces, pin | no workspace is lost; each monitor shows its own; what left with a monitor returns with it |
| Surfaces and buffers (`protocols/core/Compositor.cpp`, `Buffer.cpp`, `SurfaceState.cpp`, `XDGShell.cpp`, `Subcompositor.cpp`, `Renderer.cpp`) | pending, queued and current states, counted references, release points, fences, frames | attach, commit, fence, role, map, render, GPU done | contents never go back; a buffer returns when, and only when, nobody reads it |
| Keys (`KeybindManager.cpp`, `InputManager.cpp`, `SeatManager.cpp`, `IKeyboard.cpp`) | pressed keys in four places, shadowed, repeating and special binds, submap, keyboard focus | press, release, focus, reload, lock, input method, disabled keyboard | no key sticks; no bind is lost or run twice |
| Clipboard and drag and drop (`DataDevice.cpp`, `SeatManager.cpp`) | selection, offers, the current drag, keyboard, pointer and drag focus, cursor override | set and reset the selection, start, drop, abort and finish a drag, focus, pointer motion | who has the focus, and nobody else, can read the selection; every end of a drag gives back all it took |

They meet in the focus and in the windows: a window that closes leaves its group,
its tile, its monitor's workspace, the keyboard focus and a drag; the canvas is
one more layout to the first, and the quick jump one more taker of keys.

`PROJECT.json` lists all components, also those that are left alone, and under
`hazards` the places where something can go wrong that a test would hardly reach,
with the properties that watch them.

## 2. Plan

In the order of what matters most to a user: what was drawn and where windows
are must not be lost, then the compositor's own state that everything rests on.

| Step | Modules | State |
|---|---|---|
| 1 | `CanvasAnnotation`, `UndoTimeline`, `CanvasDrawing`: the store, the draw mode, undo and redo; the stacks refine the timeline | done, all properties proved |
| 2 | `CanvasPersistence`: the file, the debounce, restarts, changes of layout | done, all properties proved |
| 3 | `CanvasWindows`: the window list and the views | done, all properties proved |
| 4 | `CanvasGeometry`, `CanvasSnap`: the loop of `resolveOverlap` | done, safety proved |
| 5 | `CanvasFrames`: drags, frames, undo of window commands | done, all properties proved |
| 6 | `DwindleTree`, `WindowGroups`: groups, tiles and locks | done, all properties proved |
| 7 | `MonitorWorkspaces`: monitors, workspaces, the focused monitor | done, all properties proved |
| 8 | `SurfaceCommits`: surfaces, buffers, fences, frames | done, all properties proved |
| 9 | `KeyRouting`: keys from the keyboards to binds and clients | done, all properties proved |
| 10 | `DataDevices`: the selection, drag and drop | done, all properties proved |
| 11 | Components still worth having: text input and input methods, session lock, window focus after a close, fullscreen with groups | planned |

Modules are written to be proved about as well as checked: parameters are
constants with named assumptions, each operation is one action, there is no
`RECURSIVE` operator (recursion is by recursive functions and folds), and bounds
that only TLC needs are constants in guards.

## 3. The modules

Definitions whose names are those of functions of the code model those
functions; `PROJECT.json` maps every definition to its lines. A definition
`X_Fault` with the comment "Fault:" is a wrong version of `X`, kept to show
that a property can tell it from the code's: no behaviour of a module uses it.

**`CanvasAnnotation`** is the store: a set of annotations (kind, mark, id), the
id counter and the dirty flag. A *mark* stands for a drawing's content, an *id*
for `id` of the code, so that two annotations with one mark are two copies of
the same drawing. Vectors become a set with an order on ids, in which the clear
command and `load` walk them.

**`CanvasDrawing`** extends it with the draw mode, the toolbar and the two
stacks. The copies that undo and redo make get fresh ids, as in the code. Points
are abstracted to the press they come from, and counted up to two, which is
what the code asks of a stroke. What is near the eraser is any annotation.
`MaxPresses` and `MaxIds` bound the presses and the ids.

**`UndoTimeline`** promises, without two stacks, a timeline of at most
`MaxHistory` commands with a cursor.

**`CanvasPersistence`** has the state file with two tables of sizes, the views
and the drawings; the tables in memory; and `recent`, true while the last save
is younger than `DEBOUNCE_MS`. `scheduleSave` writes at once or not at all.
`LoadFile` calls the store's own operations, so a load may write the file half
way through; `Enable` and `Restart` are whole handlers with the order of the
code. The file is written beside the old one and renamed, so a crash leaves one
or the other and is the same as a restart. `Wait` is the passing of the second.

**`CanvasWindows`** has the layout's list as a count per window, the flags
`m_isMapped`, `m_isFloating` and `m_hidden`, the focus, the views and their copy
in the file, and the current layout. The variable `strays` is a history
variable: the tiled windows an enabling of the canvas found and did not take
over. Its specification is `ListSpec`: the names of this module and of
`CanvasDrawing` are kept apart, so that one module has the proofs about both.

**`CanvasGeometry`** has boxes on an integer grid. **`CanvasSnap`** runs the
loop of `resolveOverlap` one comparison at a time, with the position of the
loop as state, for a window that is dropped or created. Its specification is
`SnapSpec`: the names of this module and of `CanvasFrames` are kept apart, so
that one module has the proofs about both.

**`CanvasFrames`** has the box of every window, the frames with their lists, the
drag of a window and of a frame, and the undo stack with window commands.
Pointer positions are members of `Places`, so motion is a choice; where
`resolveOverlap` takes a window is a choice too (`CanvasSnap` has the loop).
Tiles are computed as the code does, with integer division of the monitor's
size; the loops that take a window off a list and skip unmapped ones are one
recursive function, `Kept`. `lastDrag` is a history variable for the last two properties.

**`DwindleTree`** has the forest of the dwindle layout as a function from nodes
in use to parent, children, window and workspace, with one operator for each
operation of the layout. Where a tile goes depends on the cursor, the focus and
the configuration; so the operators give sets of forests.

**`WindowGroups`** extends it with the windows' flags, `next` (`pNextWindow`),
the heads, the locks, the focus and one action for each dispatcher, for mapping
and for unmapping. Each way of mending a ring (`Unlinked`, `Spliced`,
`SplicedRing`, `Turned`) is an operator named for it. Which window lies in some direction is a
choice. Two ways of taking a group apart have a history variable each. `torn` has
the windows of groups that a swap of tiles left on two workspaces: it moves
the member that is shown only. `parted` says that a dispatcher moved a hidden
member to a workspace as if it were shown (`MoveHidden`; `MoveToWorkspace`
is the same code for a window that is shown). Torn groups are followed through
all later steps; after `parted` no step follows (`Whole`, `Parted`), because
what the code does next depends on orders that are not kept here: which of
two members that are shown, or of two tiles with one window, a loop finds first.

**`MonitorWorkspaces`** keeps in the record `desk` what the handlers change
together, so that each part of a long handler (`Moved`, `Evacuated`, `Connected`,
`Disconnected`) is an operator from a desk to a desk, composed in the order of
the code. Workspaces are counted references in the code: `Collected` is what goes
when nothing holds it, after every handler. The loops over the lists of
monitors and workspaces are recursive functions: `Kept` is what is left of a list,
`AllMoved` moves workspace after workspace, each from the desk the last one left.
`unsafe` is `m_unsafeState`, from
the loss of the last monitor to the first frame of another. `torn` is
a history variable for steps that leave a workspace in two states at once
([section 6](#6-where-the-code-and-its-documents-part)).

**`SurfaceCommits`** has the three states of a surface (attached, queued,
current), the waiters of the event loop, roles and mapping, the count of each
buffer and the frames the GPU works on, each with what it reads and the
references it keeps. `Release` is the whole of `unlock` and `sendRelease`, with
the release points; `Apply` is the application of a queued state with everything
before it. `lent`, `replaced` and `last` are history variables: what the
client may not touch, what it took back itself, and what it committed.

**`KeyRouting`** has the keys held on every keyboard, the record `km` of the
keybind manager, the list of pressed keys that clients are told and what the
focused client believes. `HandleKeybinds` and `OnRelease` are recursive functions
over the binds in their order and over the presses of a key. A key event is one
step: the quick jump, the input method, keybinds and clients, and then the
modifiers, in the order of the code. `config` is what the configuration and the
permissions make of a keyboard: on, heard (`m_allowed`), and whether its keys may run
binds (`m_allowBinds`); one whose binds are off passes its keys on and leaves no record
of them. History variables and fields: `strayed`,
keys whose last release went elsewhere (`Strays`); `away`, the record of the presses was
dropped; and in `km` which binds a press ran, and `slipped`, the binds of the
last release that ran because the modifiers had changed.

**`DataDevices`** has the record `seat` of foci, offers, current selection and
current drag; the operators (`SetPointerFocus`, `UpdateDrag`, `AbortDrag`, ...)
are composed as the functions call each other, among them `Refreshed`, the
simulated mouse motion that ends each drag. What sources and devices were told in
a step is in `seat.heard`. `canvas` says that the canvas pans or draws: it takes the
moves of the pointer, the simulated ones too, and the releases of a button, though not
before the hook of the drag has heard of them (`HookRuns`).

The `MC*` modules give the constants small values; the `*_proofs` modules have
the theorems.

## 4. What the runs check

A run is `tlc -config <run>.cfg <MC module>`. Every passing run explores its
state space to the end. Where a configuration has a CONSTRAINT, a state that
fails it is still checked and only what follows it is not looked into.

| Run | Bounds | States |
|---|---|---|
| `drawing` | one pointer, history of 2, a file with up to 1 drawing, 3 presses, 4 ids | 733,547 |
| `persistence` | one class, two sizes (symmetric), one view, a file with up to 2 drawings, 2 drawings made, 4 ids per process | 2,547,500 |
| `windows` | two windows of different classes, one view, 3 changes of layout | 172,176 |
| `snap` | up to two others among 12 boxes, a view of 5 by 4, gap 1, 3 passes | 21,889 |
| `frames` | three windows (symmetric), two frames in two places, two places for windows, two corners, history of 2, 3 inputs | 921,580 |
| `tiling` | three windows, one of which has to be a group and two are symmetric, two symmetric workspaces, five nodes; not beyond a second pinned window, nor beyond a lock in a state with a torn group | 165,383 |
| `monitors` | two monitors and the fallback, a window that can be pinned, three ids that stay and three more within a step, one special workspace; not beyond a fourth workspace or a torn state | 76,424 |
| `surfaces` | a window and its subsurface, a dmabuf and a buffer in shared memory, one frame in flight; one surface at a time has something attached, one has waiters, three references to the dmabuf | 840,786 |
| `keys` | two keyboards with a key in common, three keys, seven binds, two submaps, one client, two keys held at once, two disturbances, three settings of each keyboard | 918,434 |
| `data` | two clients, two sources (symmetric both), two offers | 441,300 |
| `drawing_undo`, `persistence_restart` | as above or near: one property each, from a document, that the code does not have ([section 6](#6-where-the-code-and-its-documents-part)) | |

**`drawing`.**
`IdNamesOneDrawing`: undoing and redoing give copies fresh ids, so commands go
on naming ids that are gone; none of these ever comes to mean another drawing.
`UndoTakesOnlyItsOwn`: therefore a stale command takes away nothing but what it
saved. `NewCommandUndoable`: a command that has just been pushed would bring the
picture back that was there before, so it was built before the vectors changed
and from the right state. `GestureIntact`: with one pointing device a drawing in
progress belongs to the press that is held, through toggles and toolbar clicks.
`TimelineSpec`: only `push` looks at the limit, yet the two stacks are together
a timeline of at most that many commands.
A history of two is the smallest in which the oldest command is dropped while
another stays; four ids let a drawing be added, undone, redone and undone again
beside a second one; three presses let a drawing begin while commands for two
others exist.

**`persistence`.** `FileNeverForgets`: sizes and views in the file stay there
although every enabling of the layout begins with empty tables and the first
annotation loaded writes the file: the tables are loaded first.
`QuietChangesAreSaved`: a change made when the last save is old
takes everything that was held back with it. Two saved drawings are what it
takes for a load to write half of them; two sizes what it takes for a stale one.

**`windows`.** `ListKeepsTheTiled`: the list names each tiled window once, over
every order of mapping, unmapping, floating, moving and changing the layout,
except for windows that were there when the canvas was enabled. `ViewsFilter`: a
switch decides for every tiled window, whatever was hidden before. The handlers
treat windows one by one; a second window is there for the focus that moves from
one to the other and for a view that has one of them.

**`snap`.** `SettledIsFree`: when the last pass pushed nothing the window is
over no other, although the comparisons of one pass are with different
positions in general. `Terminates`: the loop returns. Two others that leave no room between them make the window
go to and fro, so the bound on passes is reached. `Terminates` needs weak
fairness of the next step of the loop. That is justified because the loop runs
inside one event handler, which nothing suspends. It is **the only fairness
assumed anywhere**: everything else waits for a user, a client or the GPU, of
which the code demands nothing.

**`frames`.** `NothingDangles`: the active id is a frame's while there is
one, through making, deleting and dropping into frames, and a drag ends before
its window is unmapped. `AssignedAreTiled`: when a window joins
a frame, the mapped windows on its list are inside it and over one another
nowhere, and one alone fills it, although the list has windows that are
unmapped or have moved on. `UndoTakesBackTheDrag`: an undo right after a drag
takes the window back to where it began, whatever happened meanwhile. Three
windows are the smallest number with the uneven tiling; the monitor of 6 by 2
divides evenly by the columns and rows of up to three, so that tiles of integers
are the tiles of the code's doubles. Each of the two
places of windows is in one of the two places of frames, so a window can be in
either frame or, while there is one frame, outside. `MaxInputs` bounds how many
windows are mapped, dragged, adjusted or assigned; three of them are, for
instance, mapping two windows and dragging one into the frame of the other, and
undo, redo, motion, frames, unmapping and destruction are not counted.

**`tiling`.** `GroupsSound`: the ring of a group is a permutation and has one
head, so the loops that look for the head, the tail or the shown member return.
The pointers and the flag are mended apart, each time in another way.
`GroupsActAsOne`: one member is shown and may have the focus, all float or
none, and all are on one workspace. `TilingSound`: each workspace has one tree and each window that is shown
and tiled one leaf, although a group's leaf changes its window with every
cycling, closing and moving. `LockedKeepOut` and `LockStaysWithGroup`: the lock,
which is a flag of the head, keeps others out, and goes to the next head when
the head moves or leaves. Three windows are the smallest ring in which a member
has a different neighbour on each side, and leave a group of two and a stranger;
a window that has to be a group makes groups of one. Five nodes are the leaves and
inner nodes of three windows in one tree. The first three properties are about
states before a hidden member is moved as if it were shown, the two about locks
about that step, too. Nodes are names only: the view `UpToNames` has two
states that differ in the names of nodes for one, and leaves a tree with
broken links as it is. So it drops no state that a property or a
step could tell from one that is kept.
Groups that a swap leaves on two workspaces (`torn`) are followed until they are
moved together again or their members leave: a window joins such a group, one
leaves it, it is merged with another, its tile is swapped once more, moved or
removed, and another member is shown, whose workspace is not that of the tile.
Only `GroupsTogether` excepts the windows in `torn`. Whether one of two windows
of a workspace is pinned matters to `Hosts` alone, where two are as good as none;
a torn group that is locked is left to the theorems.

**`monitors`.** `DeskSound`: what monitors show, the visible flags, the owners
of workspaces and the focused monitor agree, although each is assigned in
handlers of its own. `NothingLost`: no workspace is left on a monitor that is
gone. `WindowsFollow`: a window's monitor, which is written apart from its
workspace, is its workspace's. `ReturnsHome`: a monitor that returns gets back
the workspaces that left with it, and shows the one it showed.
`OthersKeepShowing`: the monitors that stay are not disturbed by one that comes
or goes, but for the workspaces that are the newcomer's (`Due`: those that left with
it, the one it showed, the one a rule starts it with). What the one that goes showed
arrives behind what its heir shows, because the warp of the cursor has made the heir
the focused monitor before the first workspace moves. Two monitors and the fallback have all the transitions: the last
one goes, the other comes back first, and a workspace goes to one that has come since.
The rule that binds workspace 2 to one monitor and the one that gives the other
its first workspace make them contend for the lowest free ids.

**`surfaces`.** `CountsSound`: the count of a buffer is the number of states and
frames that refer to it. `NeverGoesBack`: a state whose fence fires late never
brings older contents back, and what was taken away stays away. `NoReleaseLost`:
a buffer nobody refers to was returned to the client, but for the drop named in
section 6. `NotReleasedInUse`: a buffer is returned when no state holds it and
each frame that reads it is over or is known by a release point. The window has
no release points and may wait for two fences, so that they fire in either order;
the subsurface has them, and shares the dmabuf, so that one is held by two
surfaces, a queue and a frame at a time.

**`keys`.** `NoStuckKeys`: what clients were told is pressed is held, whatever
the submap, the shadows, the quick jump or the focus did between the press and
the release. `SeenIsPressed`: the focused client knows just those.
`BindsSound`: a press on record is of a key that is held, and no bind stays shadowed or
repeats without its key. `OncePerPress`:
a release does not run what its press ran. `ShortcutLetGo`: a global
shortcut hears of the release in whatever submap it comes. Three exceptions are
those of the code ([section 6](#6-where-the-code-and-its-documents-part)): a key
pressed on two keyboards under different modifiers (`PressedAlike`), a bind that
a release runs under other modifiers (`slipped`), and a bind before the shortcut
that changes the submap in the same release. A fourth is of keyboards whose binds are off:
the same key on such a keyboard and on another can stick (`KeptBack` in `Strays`), and
a release the binds do not hear lets no shortcut go. The seven binds have between them
the flags that decide about running; the keypad shares the letter
with the board so that a press on one meets a release on the other. A
disturbance is a lock, a drag, an input method, an inhibitor, a lost session, a
reload, or a keyboard turned off, refused or with its binds off; two let one begin and
end, or meet another.

**`data`.** `SelectionKnown` and `OnlyFocusReads`: the client with the keyboard
focus, and no other, can read what was copied last. `DropIsWanted`: a drop is
told to a client that was entered and took what is dragged. `EndIsTold`: the
source of a drag that ends is told so in the same step. `DragLeavesNothing`: however a
drag ends, the cursor and the device that was entered are given back.
`PointerGivenBack`: the pointer, which no client has during a drag, is given as the drag
ends to what is under it then; a canvas that pans or draws keeps it until the next move.
Two offers are the current one and a stale one, of the selection, a drag or both, and
offers are destroyed to make room for more; with two sources one drag, or one selection,
replaces another.

Deadlock is not checked in `snap`, where the loop ends, and in `monitors`, where
the state may be one in which every step would need an id beyond the bound. For each property of a passing
run `PROJECT.json` names a mutant: a wrong version of one definition (the
operators with the comment "Fault:") under which TLC finds the property violated.

## 5. What is proved

Eight modules hold theorems, all proved for every value of the constants that
satisfies the named assumptions.

| Module | Theorems | Argument |
|---|---|---|
| `CanvasDrawing_proofs` | of `CanvasDrawing`: `TypeCorrect`, `IdsAreUnambiguous`, `HistoryIsBounded`, `UndoIsSelective`, `NewCommandsAreUndoable`, `GesturesStayIntact`, `StacksAreATimeline` | `DrawnOK`, below |
| | of `CanvasWindows`: `ListTypeCorrect`, `TheListKeepsTheTiled`, `TheListIsTheCanvases`, `ViewsAreFilters` | `ListOK`: the two statements about the list together |
| `CanvasPersistence_proofs` | `TypeCorrect`, `DefaultsAlwaysFollow`, `TheFileNeverForgets`, `QuietChangesReachTheFile` | `TablesCover`: what the file has, the tables in memory have |
| `CanvasDragging_proofs` | of `CanvasSnap`: `SnapTypeCorrect`, `SettledWindowsAreFree`, `EveryPushLeavesTheGap`, `CreatedWindowsAreInView` | `ScanOK`: in a pass that has pushed nothing yet, the window is off all that it has been compared with |
| | of `CanvasFrames`: `NothingIsLeftDangling`, `UndoTakesBack`, `JoinedFramesAreTiled`, `FramesTypeCorrect` | `FramesOK`: ids survive every change of the frames in place, so the active one is found again; `UndoOK`: the command of the last drag is on top; `ListsOK`: no window is twice on a list; `InPlace`: every box, place and command is one, below |
| `WindowGroups_proofs` | `GroupsStaySound`, `GroupsStayTogether`, `TilingStaysSound`, `LockedGroupsKeepOut`, `LocksStayWithGroups` | `Inv`: closed sets, forests and the windows' flags, below |
| `MonitorWorkspaces_proofs` | `SoundAlways`, `TypeCorrect`, `MonitorsShowTheirOwn`, `WorkspacesReachable`, `WindowsWithTheirWorkspaces`, `MonitorsReturnHome`, `MonitorsKeepShowing` | `Sound`, below |
| `SurfaceCommits_proofs` | `NeverGoesBackHolds`, `CountsSoundHolds`, `NoReleaseLostHolds`, `NotReleasedInUseHolds` | `SInv` and `CInv`, below |
| `KeyRouting_proofs` | `NoKeyIsStuck`, `ClientBelievesRight`, `KeybindsBelieveRight`, `PressRunsOnce`, `ShortcutsAreLetGo` | `IInv`, below |
| `DataDevices_proofs` | `TypesOK`, `FocusKnowsTheSelection`, `OthersCannotRead`, `DragsLeaveNothing`, `DragsGivePointerBack`, `EndsAreTold`, `DropsAreWanted` | `DeviceInv`, `Aimed`, below |

*Drawing.* That an id names one drawing is not inductive as it stands: a step
may add copies under new ids only if the counter is above every id that is known,
and commands on the stacks know ids too. `DrawnOK` says that the store and both
stacks have their types, that all ids known (in the store and in any command,
done or undone) are below the counter, and that they are unambiguous. Each
operation has a lemma that it keeps `DrawnOK`: those that take annotations away
by `SubsetKeepsIds`, those that add copies by `FreshIdsStayDistinct`.
`UndoIsSelective` follows: removing by a saved id can only hit what was saved.
`GesturesStayIntact` assumes `OnePointer`, that there is at most one pointing
device; with two it is false. `StacksAreATimeline`
is the refinement of `UndoTimeline` under the mapping that puts the undo stack
and the reversed redo stack end to end.

*Persistence.* A save writes what the tables have, so the file can only forget
a size or a view if a save happens while the tables lack it. `TablesCover` says
that they do not lack it while the persistence object exists; the steps that
empty them, `Enable` and `Restart`, load them before the first annotation is
added and so before the first save (`TablesGrow`).

*Windows.* The list of another layout has to be empty for the statement about
the tiled windows to survive an enabling of the canvas, and the latter has to
hold for the former to survive a removal: so they are proved together.

*Frames.* `NothingIsLeftDangling` needs no type of what is in a frame, only that
a frame changed in place keeps its id and that the sequence without one element has
the others; and the one action that unmaps a window ends its drag in the same step.
`UndoTakesBack` rests on `UndoOK`: windows
have boxes (records with a place and a size, of which no number is said anything),
the commands on the stacks have two boxes each, and, while the end of a drag is
the last thing that has happened, its command is on top of the undo stack with
the box the drag began with. `DropStep` shows that the end of a drag establishes
it, after the frames and the overlaps have moved the window; `DestroyStep` that
commands which forget their window keep their boxes.

`JoinedFramesAreTiled` has two halves. The grid: `Cols` is the least root
(`ColsFacts`), so that rows times columns hold all tiles and no row begins past the
last (`RowsFacts`); two tiles differ in column or in row (`CellsDiffer`), slots of
a length that is cut in equal parts lie in it one after another (`Slots`), and three
tiles, a master and a stack, are a case of their own. The lists: that one window alone
gets the whole frame, and two windows two tiles, is only true if no window is on a
list twice. `ListsOK` says so, with frames that have ids of their own, below `nextId`;
it is kept since `assignWindow` takes the window off before it puts it on. `KeptFacts`
is the induction about the loop: what is left are the members of the set, none
twice that was not there twice, and a list that does not get shorter is the same,
which tells the step that destroys a window from one that assigns
(`OnlyAssigned`). There is no hypothesis on windows, frames or the monitor.

`FramesTypeCorrect` needs `Roomy`: the square of the monitor's width, and of its height, is
no less than the number of windows. The unit of the canvas can be chosen so, and
the run's instance has it. Without it a column of integers may have no
width, which doubles would have; with it no sequence of drags, resizes,
tilings and undos makes a box that has none (`InPlace`).

*Groups.* The code walks along rings, and how far a walk gets would need
induction over data. `Rings` says the same without walks: a set of windows is
*closed* when it has the successor and a predecessor of each of its members; each
closed set that is not empty has a head (`Headed`), and for each two heads some
closed set has one of them and not the other (`Separated`). A ring is the smallest closed set
around a window (`RingClosed`), so it has exactly one head. That each way of
mending a ring (unlinking a member, splicing in a window or a whole ring, turning
two members, making and dissolving a group) keeps `Rings` is a lemma of its own.
Trees are treated in the same way: children and parents name each other
(`Linked`), every set of nodes that has the parents of its members has a root
(`Grounded`), and there is one root for each workspace (`OneRoot`); `HeldBy` and
`LiesOn` say whose leaves and on which workspace they are. Neither rings nor trees
are inductive without the windows: a group is on one workspace and floats or is
tiled as one, so that the leaf of a group can change its window. Of a torn group
the first of these is false; `Place` is the workspace of a window that is not
in `torn` and none for one that is, and the members of a ring have the same `Place`.
`GroupInv` and `TreeInv` say this until `parted`, and `Inv` is both with the types,
which hold ever after: also what `MoveHidden` leaves has rings of a kind (`HiddenMoves`)
and nodes of their types (`HiddenTyped`). The lock
properties follow from it step by step, `MoveHidden` among the steps: an action whose ring grows lets in only the
window it names (`OnlyTheseJoin`) or nobody (`NoneJoins`), and the lock is passed
to the next head (`LockPassed`) or stays behind with the group
(`LockLeftBehind`). Windows and nodes are assumed to be finite in number.

*Monitors.* A handler takes a desk through a dozen operators, and in the midst of
it the desk is sound in no simple sense: a monitor that is being connected is in
the list and shows nothing, or shows what another one shows still. So there are
three layers. `Agrees` is what survives each operator by itself: whoever shows a
workspace owns it, whoever opens a special one owns it and shows something below,
the visible flags say just what is shown, and windows are with their workspaces. It
speaks of all outputs, enabled or not, and has no owner for the rest of the
workspaces. `Moves`, `Settles` and `Comes` then say what a sequence of moves does
*to* a desk: which workspaces change their monitor (`V`), that a monitor goes on
showing what it showed unless that is one of `V`, and that what windows are on is
not destroyed on the way. These are composed along the loops, whose steps are
counted (`AllMoved` by `WalkExists`, as the loops of the keybinds are). `Tidy` is what holds between
handlers: the enabled monitors are those that show something, and workspaces are on them.
The invariant `Sound` adds the rest of the state (`Attached`): what is enabled is
plugged in, the fallback is enabled just while the state is unsafe, the focused
monitor is enabled or, while only the fallback is, there is none. None of the checked
invariants is inductive without it. A monitor that goes leaves its workspaces to
the first of the others, and these are not lost only if *that* one is in use;
that a monitor that comes owns nothing yet is what `Attached` and `Tidy` say
together, and `NothingLost` needs the unsafe state, in which workspaces may be
nowhere, to end only with the connecting of a monitor, which gives it everything.
TLC checks `Sound` on the instance of the run too.

Two hypotheses are no ASSUME of the module, since they are not true of the
instances that TLC explores or of every configuration. `Endless`, which all theorems
about monitors have: beside any finite set of ids there is one more that no rule
binds to a monitor. Ids are 64-bit numbers in the code and rules are finite in
number; without it a step could need an id and find none, of which the model says
nothing. The instance has three ids more than may stay, enough for a step.
`Orderly`, which the three invariants have, is that no workspace is persistent and
the configuration does not disable the last monitor, as in the run. With a
persistent workspace or a last monitor that is disabled workspaces do stay behind
([section 6](#6-where-the-code-and-its-documents-part)). `MonitorsReturnHome` and
`MonitorsKeepShowing` do not need it, and hold of torn desks also.

*Surfaces.* `NeverGoesBack` is inductive with the part of the types that it
reads; the step that matters is `Apply`, which takes a prefix of the queue: if
anything stays queued its end is the same, and otherwise what is applied was the end.
For the counts `CInv` says of each buffer that its count is the sum of four
numbers: the surfaces that have it attached, that show it, the places in queues,
and the references of frames. A handler works on one surface or one
frame, so it changes the sum by what this one refers to: `StepCounts` and
`FrameCounts` turn the sum over all of them into a difference of one.
`NoReleaseLost` and `ReadersKnown` (a frame that reads a buffer holds a
reference or is known to a release point) are inductive with them, and
`NotReleasedInUse` follows for each step. Surfaces, buffers and frames are assumed to
be finite in number.

*Keys.* Three facts carry the invariant `IInv` beyond the properties themselves.
`KeptBackIsShared`: a key whose last press was kept from the clients, and which they
have for pressed, is held on two keyboards; so a release that the keybinds swallow never
is the last one. For a press that passes the binds by, it takes that a press on record is
of a key that is held (`RecordHeld`). `StrokesSound`: what a press ran waits for no release and has the
modifiers of the press; so a release runs it only under other modifiers, and
then its modifiers are wrong. `FewPresses`: one press is on record for each
keyboard that holds the key and whose keys reach the binds, and one for each time a
keyboard was configured. A repeating bind has its key on record (`RepeatDown`), hence held.
What the loops compute is proved by an induction in which the binds (or
the presses) done so far are counted and what holds after each of them is a set of states
(`HandleLeads`, `ReleaseLeads`); it rests on a least-number lemma from the
well-foundedness of the finite subsets of a set, and on `WalkExists`, that the
recursive function exists. For `ShortcutLetGo` the sets differ from one bind to the next:
before the shortcut's own bind it is still on the list of pressed ones and the loop
has not ended, or a bind before it has changed the submap; behind it, it has run
(`HandleSettles`). The binds are any finite sequence without a bind that both repeats and
waits for the release, which the configuration refuses
(`config/ConfigManager.cpp:2566`); keyboards are finite in number.

*Data devices.* `DeviceInv` says that the values have their types, that every
live offer of a selection is the last one made, for the client with the focus and
of the current source (`SeatOK`), that this client was told of it unless it was
late (`Informed`), the two parts of `DragLeavesNothing`, and that no client has the
pointer during a drag (`Taken`), from which `PointerGivenBack` follows: a button that is
held keeps only a focus that there is. The handlers call
each other several levels deep (a drop ends the drag, which moves the pointer,
which changes a focus, which makes an offer), so there is one lemma for each
function about what it keeps and what it leaves alone, and the proof of a handler
cites those of the functions it calls.
`DropIsWanted` needs one fact more, `Aimed`: while the drag follows the pointer
the device it points to was entered, and who has a live offer of what is
dragged is the client of that device. All other functions tell nobody of a drop
(`Quiet`).

Only model-checked: `Terminates` of `CanvasSnap`, which is liveness. Every other
property of a passing run is a theorem.

The proofs corrected the models in places where the small instances had been too small to
notice: a transparent bind that repeats, a submap left by a release, and a key
on two keyboards under different modifiers need the exceptions of `KeyRouting`;
the mapping of windows in `WindowGroups` no longer depends on `GroupOnMove` being
off. Of the monitors, `DeskSound` had said of a torn desk what is only true of a whole
one, and `OthersKeepShowing` had left out the workspace that a rule starts a
monitor with and had asked of a workspace without windows, which may be destroyed
and made anew elsewhere, to be where it was due.

## 6. Where the code and its documents part

Two runs each check one statement of a document and end with a counterexample.
`PROJECT.json` quotes the statements.

| Run | Statement | What the code does |
|---|---|---|
| `drawing_undo` | undo undoes the creation of an annotation | after undo and redo the annotation has a fresh id which its command does not know, so the next undo removes nothing |
| `persistence_restart` | annotations survive a restart | nothing is drawn (`MaxMarks = 0`): enabling the canvas loads a file of two drawings, which saves the first and debounces the second; the debounce passes, the compositor restarts, and the file has one |

Met while modelling and visible in the modules, without a run of their own.
The canvas (paths under `src/`, plans under `.planning/phases/`):

* With two pointing devices the tool changes between one's press and its
  release, and an arrow goes from a point nobody pressed
  (`canvas/CanvasDrawMode.cpp:23`), against `10-01-PLAN.md:19`: so
  `GesturesStayIntact` assumes one.
* A size changed within a second of a save is dropped, not delayed
  (`canvas/CanvasPersistence.cpp:229`), against `REQUIREMENTS.md:25`.
* A window hidden by a view that leaves the list stays hidden in every view
  (`canvas/CanvasViews.cpp:81`), against `08-02-PLAN.md:121`.
* Between two windows that leave no room the passes run out and a dropped
  window overlaps (`layout/CanvasSnap.cpp:16`), against `REQUIREMENTS.md:22`; and
  one dropped beside another is left as near as it is (`layout/CanvasSnap.cpp:21`),
  against "16px gap enforced" in `README.md:42`.
* Undo of a drag into a frame restores the place and keeps the tile's size
  (`layout/CanvasLayout.cpp:336`), against `11-01-PLAN.md:24`.
* Undo, redo and undo of an erase puts the drawing on the canvas twice
  (`canvas/CanvasCommand.cpp:130`), against `11-01-PLAN.md:25`; clearing one kind
  of annotation is not recorded (`managers/KeybindManager.cpp:3491`), against
  `11-01-PLAN.md:59`.
* A view made on an empty canvas is written and not read back
  (`canvas/CanvasViews.cpp:108`), against `08-02-PLAN.md:24`.
* `isWindowTiled` is false for windows that were tiled before the canvas was
  enabled (`layout/CanvasLayout.cpp:18`), against `layout/IHyprLayout.hpp:70`.
* Moving a frame, or closing one of its windows, does not tile it anew, against
  `README.md:27`; and no frame can have a second tab, `addTab` having no caller,
  against `README.md:26`. A click on the minimap (`README.md:33`) has no code.

Monitors:

* A special workspace that is open stays `m_activeSpecialWorkspace` of its
  monitor when it is moved by `moveworkspacetomonitor` or the monitor goes dark,
  and can then be open on two ("close if open elsewhere", `helpers/Monitor.cpp:1349`).
* The pinned windows of a monitor that goes are put on the workspace that plugs
  the gap on that same monitor, and are lost with it.
* When the last monitor is disabled and another one plugged in, the workspaces
  can stay on the first ("avoid lost workspaces on recover", `helpers/Monitor.cpp:275`).
* A workspace that a rule makes persistent and that plugs the gap on a monitor that
  goes stays on that monitor: the list of those to move is made before it
  (`helpers/Monitor.cpp:416`), and if its rule names no monitor nothing moves it later
  (`Compositor.cpp:3208`).
* `swapActiveWorkspaces` handles a pinned window of the first monitor twice, and
  `focusWindow` puts a pinned window on the focused monitor's workspace without
  changing its monitor. `torn` and the exceptions in `WindowsFollow` stand for these.

Groups:

* Swapping a group with a window of another workspace exchanges the workspaces of
  the two windows that are shown (`layout/DwindleLayout.cpp:912`). The hidden members stay
  where they were; whichever is shown next is on another workspace than the tile it gets.
* `movetoworkspace` and its silent form find a hidden member by address, class or title
  (`managers/KeybindManager.cpp:1419`, `:1482`; `Compositor.cpp:2516`), and
  `moveWindowToWorkspaceSafe` treats it as one that is shown. If it is tiled, it gets a tile
  of its own, while the member that is shown keeps its tile and moves to the workspace with
  the others; the focus, if it follows, then hides that member and gives its tile to
  the one that has one already. If it merges with the group there, two members of the merged
  group are shown. If that group is its own, one that a swap left on two workspaces,
  its ring loses the only head and may be cut in two (`desktop/Window.cpp:1107`), and the
  next `getGroupHead` does not return.
* "Whether using movetoworkspace[silent] will merge the window into the workspace's
  solitary unlocked group" (`config/ConfigDescriptions.hpp:911`): the windows that are
  counted to know if the group is alone are the pinned ones, not the visible ones
  (`Compositor.cpp:2799`), so a group is joined if one window there is pinned, and a
  lone one without a pinned member is not (`Hosts`).

Surfaces:

* `CHLBufferReference::drop` unlocks without a release: a buffer that is
  attached again while it is lent, and then replaced before the commit, is not
  returned (`replaced` in `NoReleaseLost`).
* A state without a buffer overtakes those that wait, so their older viewport or
  scale is applied after its own; one that leaves nothing to show drops them.
* The result of `addWaiter` is not looked at (`protocols/core/Compositor.cpp:164`):
  a state whose waiter failed waits for the next one.
* "Buffer attached before initial commit" (`protocols/XDGShell.cpp:394`) looks at
  the pending state after it was reset: it misses the buffer that was committed,
  and sees one that was attached while a state waited.
* An `xdg_surface` that is destroyed leaves its surface mapped, and a new role is
  mapped by a commit without a buffer, with the contents of the old one.
* A subsurface begins desynchronised. Without explicit sync, or when a fence
  cannot be made, the renderer drops its references at once; the model has fences.

Keys:

* "Require mods to be matching when the key was first pressed"
  (`managers/KeybindManager.cpp:765`) does not hold of submaps and later binds:
  SUPER and 1, then SHIFT, then the release of 1 can run what is bound to the
  release with SUPER and SHIFT.
* A global shortcut pressed without modifiers, then a modifier, then let go: the
  release is not sent, against "ignore mods. Pass, global dispatchers should be
  released immediately once the key is released". A shortcut may also hear of a
  release without a press, and a repeating one begins to repeat when it is let go.
* The quick jump takes presses only, so their releases reach "BUG THIS: key not
  found in m_dPressedKeys".
* A key held on two keyboards under different modifiers is let go with all its presses at
  once, and what the one press ran the release may run for the other
  (`managers/KeybindManager.cpp:765`). A bind that a release runs because the
  modifiers have changed can begin to repeat with the key up.
* A change of submap ends the loop (`managers/KeybindManager.cpp:825`): when a release bind
  that changes the submap comes before a pressed global shortcut of the same key, the
  shortcut is not let go.
* A keyboard with `keybinds = 0` passes its keys to the client past the binds
  (`managers/KeybindManager.cpp:467`), and the list of what clients were told is one for all
  keyboards (`managers/input/InputManager.cpp:1511`). Such a keyboard sends a key that the
  client is told of; another sends it too, and a bind keeps that press back; the first lets
  it go while the other holds it, so the client is not told; the second release is
  kept back as its press was. The key sticks at the client.
* Binds turned off while a key is on record (`managers/input/InputManager.cpp:1121`): its
  release leaves the record, and with it the shadows and a repeat (which the timer
  ends only if the last keyboard's binds are off, `managers/KeybindManager.cpp:204`), until the key
  comes up once more with the binds on. A global shortcut that was pressed is not let go.
  `strayed` has these keys.
* A lost session clears the pressed keys, and neither the repeating nor the
  shadowed binds. A drag, an input method or a keyboard that is off and takes a
  release leaves the key pressed at the client, as do keys let go while there is
  no monitor; `strayed` and `away` record these. A disabled keyboard keeps its modifiers in
  effect; a reload forgets the pressed shortcuts; repeats ignore locks and inhibitors.

Clipboard and drags:

* Finishing an older offer completes whatever drag is current (`crossed`). After
  a drop and before it is finished the drag is still the current one, so the
  pointer leaving its target kills the offer that was dropped. An offer that is destroyed
  tells its source that it is finished.
* A pointer that moves to empty space keeps the drag's focus
  (`managers/SeatManager.cpp:212`), and the drop goes to the last surface.
* The canvas takes moves and releases before anything else of the handlers runs
  (`managers/input/InputManager.cpp:181-190`, `:635-656`). A drag that ends while it pans
  or draws leaves no client with the pointer until the next move, and a button pressed
  before the draw mode and released in it stays in `m_currentlyHeldButtons`, which holds
  the focus where it is.
* The end of a drag gives the pointer to what is under it, though a button be held, and
  a release moves the focus only if `m_focusHeldByButtons` is set (`:677`).
* A source older than version 3 is not told that its drag finished
  (`protocols/core/DataDevice.cpp:219`).
* Aborting a drag does not kill its offers. A client that asks for its device while it has
  the focus is sent no selection until the next focus (`late`).

Read, but not modelled: `TextInput has != 1 locks in enter` can be reached; the
input method relay keeps a stale keyboard focus while there is no input method;
of two text inputs on one surface the second that is disabled leaves the input
method active.

Further places where a test would hardly look, not in the hazard list: the
annotations' texture, drawn for one offset and scale, is not dirtied by panning
(`canvas/CanvasAnnotation.cpp:239`); panning goes on across a change of layout
(`managers/input/InputManager.cpp:636`) and the draw mode takes the left release
(`:652`); a drag whose window expired keeps `m_dragMode`
(`managers/KeybindManager.cpp:2860`); the quick jump's matches
(`canvas/CanvasQuickJump.cpp:130`) and the tags (`canvas/CanvasTags.cpp:11`) name
windows by stale address; the focus candidate after a close may be hidden
(`events/Windows.cpp:816`); a window may be in two frames
(`canvas/CanvasFrame.cpp:82`), and a deleted frame leaves its windows far away
(`canvas/CanvasFrameManager.cpp:35`); the frame scheduler can be turned off in
the middle of a frame (`helpers/MonitorFrameScheduler.cpp:19`).

## 7. What is not modelled

Of the canvas:

* **Drawing** on the screen, the overlay's cache, theme, background and minimap:
  flags and pixels. **Viewport, panning, zooming, tags, grid snapping**:
  arithmetic on doubles with little state; the other modules take canvas
  coordinates as given.
* **Code without a caller**: `submitText` and `cancelText` of the draw mode,
  `addToView`, `removeFromView`, `removeTag`, `removeWindow` of persistence,
  `addTab`, `removeActiveTab` and `unassignWindow` of frames.
* **Malformed or unwritable state files**: `load` catches what the parser throws,
  and no write is checked.
* **Floating windows under a canvas drag**, and a change of layout in the middle
  of one. **Doubles**: coordinates are integers of a unit that may be as small as
  wanted; rounding is not modelled.

Of the modelled parts of the compositor:

* *Groups and tiles*: fullscreen, dragging by mouse and by the group bar,
  swallowing, the largest floating size, `denywindowfromgroup`, the `invade` and
  `barred` rules, split ratios, enabling and disabling of the layout; every
  workspace is the one its monitor shows. What follows when a hidden member was
  moved as if it were shown (`parted`).
* *Monitors*: positions (no two are assumed to overlap, so that the centre of a
  monitor is on no other), mirrors, the history of workspaces, the deferred
  `ensurePersistentWorkspacesPresent`, window rules, commands over the socket while the
  state is unsafe, and which window is focused after a change.
* *Surfaces*: commits refused with an error, frame callbacks, damage, viewport and
  scale, direct scanout, cursor surfaces, layers and X11, screen copies; and that a fence
  fires at last, which is the GPU's to promise.
* *Keys*: `pass` and `sendshortcut`, long presses, binds of several keys, `catchall`,
  binds of the mouse, of switches and of clicks, virtual keyboards, a keyboard that
  is unplugged, the escape from the kill mode, the switch of terminals, plugins.
* *Clipboard and drags*: X11, grabs, touch and tablets, the primary selection, data
  control, surfaces that are destroyed, sources used twice, `follow_mouse=0`, pointer
  constraints, popups of input methods and `m_focusHeldByButtons`, the unsafe state without
  monitors, the session lock, the finishing of a selection's offer.

Left alone: text input, the frame scheduler (its point is timing), session lock,
configuration, the master layout, permissions, plugins and the tools outside the
process. They are unchanged by the fork. The renderer is mostly calls of OpenGL
in an order; the larger part of the remaining code parses, formats or draws and keeps no
state that steps of others depend on. That is also why the map covers a small
share of all lines: the modules follow the code whose state is shared between handlers.
