SPECIFICATION Spec
CONSTANTS
  Clients = {c1, c2}
  NoClient = NoClient
  Sources = {s1, s2}
  NoSource = NoSource
  MaxOffers = 2
VIEW Unread
SYMMETRY Symmetric
INVARIANTS
  DragLeavesNothing
  SelectionKnown
  OnlyFocusReads
PROPERTIES
  DropIsWanted
  EndIsTold
  PointerGivenBack
