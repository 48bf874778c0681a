\* A run interrupted, or seen, between the two layers' transactions.
SPECIFICATION Spec
CONSTANTS
  Features <- SomeFeatures
  MaxChanges = 4
INVARIANTS AlwaysNested
CHECK_DEADLOCK FALSE
