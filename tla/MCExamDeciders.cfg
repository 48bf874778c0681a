\* An assignment while the step it reassigns is submitted.
SPECIFICATION Spec
CONSTANTS
  Users = {u1, u2, u3}
  NoUser = NoUser
  Traces = {t}
  Pairs = {p1}
  TracesOf <- OneForAll
  Proposals <- AnyOfThem
  Calls = {c1}
  NoRow = NoRow
  Comparison = FALSE
  MaxAssignments = 4
  MaxMatches = 0
  MaxSaves = 1
SYMMETRY Symmetry
INVARIANTS NobodyDecidesTwice
CHECK_DEADLOCK FALSE
