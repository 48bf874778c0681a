\* Two registrations of the same cases in opposite orders.
CONSTANTS
  Sessions = {s1, s2}
  Requests = {r1, r2}
  MaxCases = 2
  MaxJoins = 2
  MaxNew = 2
  MaxAttempts = 2
  MaxSequence = 2
  No = No
SPECIFICATION Spec
SYMMETRY Symmetry
INVARIANTS
  NobodyDeadlocks
