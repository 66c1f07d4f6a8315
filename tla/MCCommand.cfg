SPECIFICATION CommandSpec
CONSTANTS
  None = None
  Lower <- MCLower
  Sorting <- MCSorting
  Contents <- MCContents
  Worlds <- MCWorlds
INVARIANTS
  ExitIsAccounted
  ExitAgreesWithRecord
  BundleIsLast
  PinHoldsAcrossSteps
  ResolvedGraphRuns
CHECK_DEADLOCK FALSE
