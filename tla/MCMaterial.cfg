\* Two calls, or two tasks, or one of each at once, a detection a call; a trace with its original and versions.
SPECIFICATION MaterialSpec
CONSTANTS
  MaxDrawn = 3
  Callers = {k1, k2}
  MaxMarks = 1
  MaxTraces = 2
  MaxBusy = 2
  No = No
SYMMETRY CallerSymmetry
INVARIANTS
  MaterialTypeOK
  FaceIsOfTheChosen
PROPERTIES
  TracesStand
CHECK_DEADLOCK FALSE
