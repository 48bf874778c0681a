\* Two decisions whose ids and commits come in different orders.
SPECIFICATION SyncSpec
CONSTANTS
  MaxDecisions = 2
  Embeddings = {e1}
  Stuck = {e1}
  Tasks = {t1, t2, t3}
  NoTask = NoTask
  MaxPasses = 2
  MaxFails = 1
PROPERTIES SettleMissesNothing
CHECK_DEADLOCK FALSE
