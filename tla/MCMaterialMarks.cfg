\* Two calls at once, with no worker.
SPECIFICATION MaterialSpec
CONSTANTS
  MaxDrawn = 3
  Callers = {k1, k2}
  MaxMarks = 2
  MaxTraces = 3
  MaxBusy = 2
  No = No
PROPERTIES
  MarksStand
CHECK_DEADLOCK FALSE
