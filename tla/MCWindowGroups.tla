--------------------------- MODULE MCWindowGroups ----------------------------
(* Three windows on two workspaces; one of the windows has to be a group.   *)
EXTENDS WindowGroups, Sequences, TLC

CONSTANTS w1, w2, w3

Symmetric == Permutations({w2, w3}) \cup Permutations(Workspaces)

\* A tree up to the names of its nodes, as long as its links agree: each node
\* is named by the way to it from the root, of at most two steps.
Outline ==
  LET way[k \in 0..3] ==
        [n \in DOMAIN tree |->
           IF k = 0 \/ tree[n].parent = NoNode THEN <<>>
           ELSE Append(way[k - 1][tree[n].parent],
                       tree[tree[n].parent].first = n)]
  IN {<<way[3][n], tree[n].window, tree[n].workspace>> : n \in DOMAIN tree}

\* The nodes' names depend on what was tiled before, and nothing depends on
\* them: states that differ in them only are seen as one.
UpToNames ==
  <<mapped, floating, hidden, workspace, groups, groupsLocked, last, pinned,
    torn, parted, IF Linked(tree) THEN Outline ELSE tree>>

\* One window is pinned at a time, and a group that a swap left on two
\* workspaces is followed while nothing is locked.
Followed ==
  /\ Cardinality(pinned) <= 1
  /\ torn # {} => locked = {} /\ ~groupsLocked
=============================================================================
