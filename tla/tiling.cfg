SPECIFICATION Spec
CONSTANTS
  w1 = w1
  w2 = w2
  w3 = w3
  Windows = {w1, w2, w3}
  Workspaces = {a, b}
  NodeIds = {1, 2, 3, 4, 5}
  NoWindow = NoWindow
  NoNode = NoNode
  NoWorkspace = NoWorkspace
  SetAlways = {w1}
  Deny = {}
  LockAlways = {}
  AutoGroup = TRUE
  GroupOnMove = TRUE
  IgnoreGroupLock = FALSE
VIEW UpToNames
SYMMETRY Symmetric
CONSTRAINT Followed
INVARIANTS
  GroupsSound
  GroupsActAsOne
  TilingSound
PROPERTIES
  LockedKeepOut
  LockStaysWithGroup
