CONSTANTS
  NumChecks = 2
SPECIFICATION FairSpec
INVARIANTS
  SuccessIsEarned
  VerdictsAreAssessed
  RepliesAreRecorded
PROPERTIES
  DeadlineHolds
  KeepsPromise
CHECK_DEADLOCK FALSE
