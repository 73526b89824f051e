SPECIFICATION Spec
CONSTANTS
  Classes = {c1}
  Sizes = {s1, s2}
  Views = {v1}
  MaxSaved = 2
  MaxMarks = 2
  MaxIds = 4
SYMMETRY SizeSymmetry
PROPERTIES
  FileNeverForgets
  QuietChangesAreSaved
