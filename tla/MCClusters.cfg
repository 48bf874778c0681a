\* Three features whose pairs are confirmed and revoked while runs rewrite the clusters.
SPECIFICATION Spec
CONSTANTS
  Features <- SomeFeatures
  MaxChanges = 4
INVARIANTS
  CitationsResolve
  FreshIsExact
  NestedAfterRun
PROPERTIES
  CitationFollowsAnchor
CHECK_DEADLOCK FALSE
