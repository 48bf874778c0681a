\* Two comparisons of a case; two requests in flight, and an import.
SPECIFICATION Spec
CONSTANTS
  Analyses = {a1, a2}
  Tabs = {k1, k2}
  MaxEdits = 0
  MaxSaves = 2
  MaxVersions = 4
  MaxNumber = 1
  No = No
SYMMETRY Symmetry
INVARIANTS
  SnapshotIsTheDocument
CHECK_DEADLOCK FALSE
