\* Two pairs in two chunks, two versions over the default, one apply and one sync.
SPECIFICATION Spec
CONSTANTS
  MaxPair = 2
  Scores = {2}
  Bands <- AllBands
  Fallback <- Default
  MaxVersions = 2
  Chunk = 1
  Applies = {a1}
  MaxWrites = 4
  NoRow = NoRow
INVARIANTS
  FinishedMeansBanded
PROPERTIES
  DecisionsStand
CHECK_DEADLOCK FALSE
