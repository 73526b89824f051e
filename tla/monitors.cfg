SPECIFICATION Spec
CONSTANTS
  a = a
  b = b
  Monitors = {a, b}
  Fallback = fallback
  NoMonitor = NoMonitor
  Ids = {1, 2, 3, 4, 5, 6}
  Named = {1, 2, 3}
  Specials = {magic}
  NoWorkspace = NoWorkspace
  Windows = {w1}
  CanPin = {w1}
  BoundTo <- MCBoundTo
  DefaultFor <- MCDefaultFor
  Persistent = {}
  HideSpecial = FALSE
  DisableLast = FALSE
CONSTRAINTS NotTorn FewWorkspaces
VIEW Unread
CHECK_DEADLOCK FALSE
INVARIANTS
  DeskSound
  NothingLost
  WindowsFollow
PROPERTIES
  ReturnsHome
  OthersKeepShowing
