\* A comparison: its pairs are listed, and may be added to while it is examined.
SPECIFICATION Spec
CONSTANTS
  Users = {u1, u2, u3}
  NoUser = NoUser
  Traces = {1, 2}
  Pairs = {1, 2}
  TracesOf <- OneOrTwo
  Proposals <- OfTwo
  Calls = {c1, c2}
  NoRow = NoRow
  Comparison = TRUE
  MaxAssignments = 3
  MaxMatches = 0
  MaxSaves = 1
SYMMETRY PeopleSymmetry
INVARIANTS ExaminedPairsSettled
PROPERTIES ImplementsRound
CHECK_DEADLOCK FALSE
