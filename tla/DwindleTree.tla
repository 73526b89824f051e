----------------------------- MODULE DwindleTree -----------------------------
(***************************************************************************)
(* The trees of the dwindle layout, one for each workspace: a leaf holds a *)
(* window, an inner node splits its box between two children.  Nodes point *)
(* at their parent and at their children, and every operation mends both.  *)
(* Boxes, ratios and directions of splits are left out: they follow from   *)
(* the tree and are recalculated after each operation.                     *)
(*                                                                         *)
(* A forest is a function from the nodes in use to their contents.  Where  *)
(* a new tile goes depends on the cursor, the focus and the configuration; *)
(* the operators give the set of the forests that can come of it.          *)
(***************************************************************************)
EXTENDS Naturals, FiniteSets

CONSTANTS
  Windows,      \* windows
  Workspaces,   \* workspaces
  NodeIds,      \* bound: names for nodes; 2n - 1 are enough for n windows
  NoWindow,     \* no window
  NoNode        \* the null pointer to a node

ASSUME TreeAssumption ==
  /\ NoWindow \notin Windows /\ IsFiniteSet(Windows)
  /\ NoNode \notin NodeIds /\ IsFiniteSet(NodeIds)

Nodes ==
  [parent : NodeIds \cup {NoNode},
   first  : NodeIds \cup {NoNode},
   second : NodeIds \cup {NoNode},
   window : Windows \cup {NoWindow},
   workspace : Workspaces]

Tile(w, ws, p) ==
  [parent |-> p, first |-> NoNode, second |-> NoNode, window |-> w,
   workspace |-> ws]

Split(p, a, b, ws) ==
  [parent |-> p, first |-> a, second |-> b, window |-> NoWindow,
   workspace |-> ws]

IsTile(T, n) == T[n].window # NoWindow

\* The nodes that hold w: getNodeFromWindow finds the one there is.
TilesOf(T, w) == {n \in DOMAIN T : T[n].window = w}

HasTile(T, w) == TilesOf(T, w) # {}

TileOf(T, w) == CHOOSE n \in DOMAIN T : T[n].window = w

TilesOn(T, ws) == {n \in DOMAIN T : IsTile(T, n) /\ T[n].workspace = ws}

\* The node with the children a and b exchanged for one another.
Swapped(node, a, b) ==
  [parent    |-> node.parent,
   first     |-> IF node.first = a THEN b ELSE node.first,
   second    |-> IF node.first # a /\ node.second = a THEN b ELSE node.second,
   window    |-> node.window,
   workspace |-> node.workspace]

Below(node, p) ==
  [parent |-> p, first |-> node.first, second |-> node.second,
   window |-> node.window, workspace |-> node.workspace]

Holding(node, w) ==
  [parent |-> node.parent, first |-> node.first, second |-> node.second,
   window |-> w, workspace |-> node.workspace]

\* The name of a new node, as long as one is left.
Fresh(used) ==
  {n \in NodeIds \ used : n = CHOOSE x \in NodeIds \ used : TRUE}

-----------------------------------------------------------------------------
(* onWindowCreatedTiling.                                                   *)

\* The first tile of a workspace is the root of its tree.
AsRoot(T, w, ws, m) ==
  [n \in DOMAIN T \cup {m} |-> IF n = m THEN Tile(w, ws, NoNode) ELSE T[n]]

\* The tile `at` is split: a new node p takes its place, with it and the new
\* tile m as children.
Beside(T, w, at, inFront, m, p) ==
  [n \in DOMAIN T \cup {m, p} |->
     IF n = m THEN Tile(w, T[at].workspace, p)
     ELSE IF n = p
          THEN IF inFront
               THEN Split(T[at].parent, m, at, T[at].workspace)
               ELSE Split(T[at].parent, at, m, T[at].workspace)
     ELSE IF n = at THEN Below(T[at], p)
     ELSE IF n = T[at].parent THEN Swapped(T[n], at, p)
     ELSE T[n]]

\* w is tiled on ws, beside any other window's tile.
Inserted(T, w, ws) ==
  LET others == {n \in TilesOn(T, ws) : T[n].window # w}
  IN IF others = {} THEN {AsRoot(T, w, ws, m) : m \in Fresh(DOMAIN T)}
     ELSE UNION {{Beside(T, w, at, inFront, m, p) :
                    at \in others, inFront \in BOOLEAN,
                    p \in Fresh(DOMAIN T \cup {m})} : m \in Fresh(DOMAIN T)}

\* Tiles for the windows `tiled`, one after the other; in any order, where the
\* code takes that of the ring.
AllInserted(T, tiled, of) ==
  LET after(s) == UNION {{[forest |-> U, left |-> s.left \ {w}] :
                            U \in Inserted(s.forest, w, of[w])} : w \in s.left}
      stage[k \in 0..Cardinality(tiled)] ==
        IF k = 0 THEN {[forest |-> T, left |-> tiled]}
        ELSE UNION {after(s) : s \in stage[k - 1]}
  IN {s.forest : s \in stage[Cardinality(tiled)]}

-----------------------------------------------------------------------------
(* onWindowRemovedTiling.                                                   *)

Sibling(T, n) ==
  IF T[T[n].parent].first = n THEN T[T[n].parent].second
                              ELSE T[T[n].parent].first

RemovedTile(T, n) ==
  LET p == T[n].parent
      s == Sibling(T, n)
  IN [x \in DOMAIN T \ {n, p} |->
        IF p # NoNode /\ x = s THEN Below(T[x], T[p].parent)
        ELSE IF p # NoNode /\ x = T[p].parent THEN Swapped(T[x], p, s)
        ELSE T[x]]

Removed(T, w) ==
  IF HasTile(T, w) THEN RemovedTile(T, TileOf(T, w)) ELSE T

-----------------------------------------------------------------------------
(* The other operations.                                                    *)

\* replaceWindowDataWith: the tile of `from`, if it has one, holds `to`.
Replaced(T, from, to) ==
  IF HasTile(T, from)
  THEN [T EXCEPT ![TileOf(T, from)] = Holding(T[TileOf(T, from)], to)]
  ELSE T

\* switchWindows: two tiles exchange their windows.
Switched(T, v, w) ==
  LET a == TileOf(T, v)
      b == TileOf(T, w)
  IN [n \in DOMAIN T |-> IF n = a THEN Holding(T[n], w)
                         ELSE IF n = b THEN Holding(T[n], v) ELSE T[n]]

\* swapSplit: the children of a node change places.
SplitSwapped(T, w) ==
  LET p == T[TileOf(T, w)].parent
  IN [n \in DOMAIN T |->
        IF n = p THEN Split(T[n].parent, T[n].second, T[n].first,
                            T[n].workspace)
        ELSE T[n]]

\* The nodes on the way from n to the root: those that are in every set with n
\* that has the parents of its members.
Ancestors(T, n) ==
  LET closed == {S \in SUBSET DOMAIN T :
                   n \in S /\ \A x \in S : T[x].parent # NoNode
                                             => T[x].parent \in S}
  IN {a \in DOMAIN T : \A S \in closed : a \in S}

RootAbove(T, n) == CHOOSE r \in Ancestors(T, n) : T[r].parent = NoNode

\* moveToRoot: the window's tile and the part of the tree on the other side of
\* the root change places; the root's children too, when `stable`.
RootMoved(T, w, stable) ==
  LET n == TileOf(T, w)
      p == T[n].parent
      root == RootAbove(T, n)
      other == IF T[root].first \in Ancestors(T, n)
               THEN T[root].second ELSE T[root].first
      exchanged == Swapped(T[root], other, n)
  IN [x \in DOMAIN T |->
        IF x = p THEN Swapped(T[x], n, other)
        ELSE IF x = root
             THEN IF stable
                  THEN Split(exchanged.parent, exchanged.second,
                             exchanged.first, exchanged.workspace)
                  ELSE exchanged
        ELSE IF x = n THEN Below(T[x], root)
        ELSE IF x = other THEN Below(T[x], p)
        ELSE T[x]]

-----------------------------------------------------------------------------
(* What the layout relies on.                                               *)

\* Parents and children point at each other; a node is a tile, without
\* children, or has two of them, on its own workspace.
Linked(T) ==
  \A n \in DOMAIN T :
    /\ T[n].parent # NoNode =>
         /\ T[n].parent \in DOMAIN T
         /\ n \in {T[T[n].parent].first, T[T[n].parent].second}
    /\ IF IsTile(T, n)
       THEN T[n].first = NoNode /\ T[n].second = NoNode
       ELSE /\ T[n].first \in DOMAIN T /\ T[n].second \in DOMAIN T
            /\ T[n].first # T[n].second
            /\ \A c \in {T[n].first, T[n].second} :
                 T[c].parent = n /\ T[c].workspace = T[n].workspace

\* The tiles of a workspace hang on one root.
Rooted(T) ==
  /\ \A n \in DOMAIN T : \E r \in Ancestors(T, n) : T[r].parent = NoNode
  /\ \A m, n \in DOMAIN T :
       /\ T[m].workspace = T[n].workspace
       /\ T[m].parent = NoNode /\ T[n].parent = NoNode
       => m = n
=============================================================================
