\* A pair reviewed, then reviewed again while the matcher changes its mind.
SPECIFICATION DecisionsSpec
CONSTANTS
  MaxAnalyses = 2
  MaxSystem = 2
  Types <- ReviewsOnly
  Levels <- SomeLevels
  NoRow = NoRow

PROPERTIES OnlyPeopleUndo
CHECK_DEADLOCK FALSE
