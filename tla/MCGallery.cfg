\* Two enrolled faces, one photo of one of them replaced; a bulk run may die once.
SPECIFICATION GallerySpec
CONSTANTS
  Known = {k1, k2}
  Questioned = {}
  MaxPhotos = 2
  MaxUploads = 3
  MaxTasks = 1
  MaxBatches = 2
  MaxCrashes = 1
SYMMETRY FaceSymmetry
INVARIANTS
  GalleryTypeOK
  MatchedMeansCompared
PROPERTIES
  ScoredOnce
CHECK_DEADLOCK FALSE
