SPECIFICATION Spec
INVARIANTS
  StopIsRecorded
CHECK_DEADLOCK FALSE
