SPECIFICATION Spec
CONSTANTS
  Classes = {c1, c2}
  Sizes = {1, 2}
  Views = {v1}
  MaxSaved = 2
  MaxMarks = 0   \* nothing new is drawn: the drawings are those of the file
  MaxIds = 4
SYMMETRY ClassSymmetry
PROPERTIES
  AnnotationsSurviveRestart
