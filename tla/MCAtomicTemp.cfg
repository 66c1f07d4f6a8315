CONSTANTS
  MaxWrites = 1
SPECIFICATION Spec
INVARIANTS
  NothingIsLeftBehind
CHECK_DEADLOCK FALSE
