SPECIFICATION Spec
CONSTANTS
  Windows = {w1, w2, w3}
  Places <- TwoPlaces
  Sizes <- SmallSize
  Requests <- SmallRequests
  Corners = {"topleft", "bottomright"}
  MinSize <- Unit
  FrameSize <- Monitor
  FramePlaces <- TwoFramePlaces
  Parked <- FarAway
  MaxFrames = 2
  MaxHistory = 2
  MaxInputs = 3
SYMMETRY WindowSymmetry
INVARIANTS
  NothingDangles
  TypeOK
PROPERTIES
  AssignedAreTiled
  UndoTakesBackTheDrag
