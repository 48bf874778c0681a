\* A facial review at its report: is every pair settled?
SPECIFICATION Spec
CONSTANTS
  Users = {u1, u2, u3}
  NoUser = NoUser
  Traces = {t}
  Pairs = {p1, p2}
  TracesOf <- OneForAll
  Proposals <- AnyOfThem
  Calls = {c1, c2}
  NoRow = NoRow
  Comparison = FALSE
  MaxAssignments = 3
  MaxMatches = 1
  MaxSaves = 1
SYMMETRY Symmetry
INVARIANTS ReportMeansSettled
CHECK_DEADLOCK FALSE
