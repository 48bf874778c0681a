\* One pair decided by the matcher and by two reviews or comparisons at once.
SPECIFICATION DecisionsSpec
CONSTANTS
  MaxAnalyses = 2
  MaxSystem = 2
  Types <- FaceTypes
  Levels <- SomeLevels
  NoRow = NoRow
INVARIANTS DecisionsTypeOK DecidingIsLatestSettled DisputesAgree LaterLaudoIsTrue
PROPERTIES PeopleUndoUnlessHalfDecided
CHECK_DEADLOCK FALSE
