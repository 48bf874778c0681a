\* A reassignment while a draft is being saved.
SPECIFICATION Spec
CONSTANTS
  Users = {u1, u2}
  NoUser = NoUser
  Traces = {t}
  Pairs = {p1}
  TracesOf <- OneForAll
  Proposals <- AnyOfThem
  Calls = {c1}
  NoRow = NoRow
  Comparison = FALSE
  MaxAssignments = 2
  MaxMatches = 0
  MaxSaves = 1
SYMMETRY Symmetry
INVARIANTS DraftsAreTheHolders
CHECK_DEADLOCK FALSE
