\* Two requests and two tasks; one video and one frame of it.
SPECIFICATION Spec
CONSTANTS
  v1 = v1
  Videos = {v1}
  Frames = {f1}
  VideoOf <- OfTheFirst
  Calls = {k1, k2}
  Tasks = {t1, t2}
  MaxRetry = 1
  Ids = {r1, r2}
  No = No
SYMMETRY Symmetry
INVARIANTS
  BusyIsBeingProcessed
  CopiesAreCounted
  SourceIsRecorded
CHECK_DEADLOCK FALSE
