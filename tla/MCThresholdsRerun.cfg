\* The claim of a rerun, with the same bounds.
SPECIFICATION Spec
CONSTANTS
  MaxPair = 2
  Scores = {2}
  Bands <- AllBands
  Fallback <- Default
  MaxVersions = 2
  Chunk = 1
  Applies = {a1}
  MaxWrites = 4
  NoRow = NoRow
INVARIANTS
  RerunRepairs
CHECK_DEADLOCK FALSE
