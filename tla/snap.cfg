SPECIFICATION SnapSpec
CONSTANTS
  Boxes <- PlacedBoxes
  View <- MonitorView
  MaxOthers = 2
  Gap = 1
  MaxIterations = 3
INVARIANTS
  SettledIsFree
PROPERTIES
  Terminates
CHECK_DEADLOCK FALSE
