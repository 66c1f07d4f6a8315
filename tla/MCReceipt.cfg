SPECIFICATION Spec
INVARIANTS
  ReceiptOnlyOfComplete
CHECK_DEADLOCK FALSE
