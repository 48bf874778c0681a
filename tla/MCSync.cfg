\* Decisions and an embedding that cannot be matched arrive while syncs run, skip and fail.
SPECIFICATION SyncSpec
CONSTANTS
  MaxDecisions = 2
  Embeddings = {e1}
  Stuck = {e1}
  Tasks = {t1, t2, t3}
  NoTask = NoTask
  MaxPasses = 2
  MaxFails = 1
INVARIANTS SyncTypeOK TakesInWhatItFound
PROPERTIES NoNewerMeansClustered Quiesces
CHECK_DEADLOCK FALSE
