\* A facial review: two pairs come and go as the matcher decides.
SPECIFICATION Spec
CONSTANTS
  Users = {u1, u2, u3}
  NoUser = NoUser
  Traces = {t}
  Pairs = {p1, p2}
  TracesOf <- OneForAll
  Proposals <- AnyOfThem
  Calls = {c1, c2}
  NoRow = NoRow
  Comparison = FALSE
  MaxAssignments = 4
  MaxMatches = 1
  MaxSaves = 1
SYMMETRY Symmetry
INVARIANTS
  OneStepPerPerson
  InconsistenceOnlyOnDispute
CHECK_DEADLOCK FALSE
