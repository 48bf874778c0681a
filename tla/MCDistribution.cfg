\* Two calls at a time from a pool of two connections, three in all.
SPECIFICATION Spec
CONSTANTS
  Users = {1, 2, 3}
  NoUser = NoUser
  Analyses = {1, 2, 3}
  TypeOf <- MCTypeOf
  Examine <- MCExamine
  Subject <- MCSubject
  Calls = {c1, c2}
  NoCall = NoCall
  PoolSize = 2
  MaxCount = 2
  MaxCalls = 3
INVARIANTS
  OldestHandedOut
  LoadsEvenOut
  OnlyAStarvedPoolStalls
PROPERTIES
  HandedOutOnce
  ImplementsAssignments
CHECK_DEADLOCK FALSE
