SPECIFICATION Spec
CONSTANTS
  Pointers = {p1, p2}
  MaxHistory = 2
  MaxLoaded = 1
  MaxPresses = 3
  MaxIds = 4
SYMMETRY PointerSymmetry
PROPERTY
  UndoRemovesDrawing
