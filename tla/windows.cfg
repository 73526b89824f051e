SPECIFICATION ListSpec
CONSTANTS
  w1 = w1
  w2 = w2
  c1 = c1
  c2 = c2
  Windows = {w1, w2}
  Classes = {c1, c2}
  ClassOf <- TwoClasses
  Views = {v1}
  MaxSwitches = 3
INVARIANTS
  ListKeepsTheTiled
PROPERTY
  ViewsFilter
