CONSTANTS
  MaxAttempts = 3
  Candidates = {"c1", "c2", "c3"}
SPECIFICATION FairSpec
INVARIANTS
  SelectionIsEarned
  EveryStartIsLinked
PROPERTIES
  RetryIsJustified
  KeepsPromise
CHECK_DEADLOCK FALSE
