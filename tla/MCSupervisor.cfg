CONSTANTS
  Timeout = 2
  Unit = 1
  MaxPresses = 2
SPECIFICATION BothFairSpec
INVARIANTS
  ObservationKeepsContract
  ConfirmedIsGone
  InterruptEndsTheRun
  NothingIsLeftRunning
  OvertimeIsBounded
PROPERTIES
  SupervisionEnds
CHECK_DEADLOCK FALSE
