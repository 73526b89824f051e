SPECIFICATION Spec
CONSTANTS
  Pointers = {p1}
  MaxHistory = 2
  MaxLoaded = 1
  MaxPresses = 3
  MaxIds = 4
INVARIANTS
  IdNamesOneDrawing
  GestureIntact
PROPERTIES
  UndoTakesOnlyItsOwn
  NewCommandUndoable
  TimelineSpec
