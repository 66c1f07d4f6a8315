CONSTANTS
  MaxWrites = 3
  Budget = 5
  Lengths = {1, 2, 3}
  MaxLines = 5
  Screens = {1, 2}
  Nodes = {1, 2}
  MaxAttempts = 2
  Beat = 1
  Sparse = 2
  Requests <- MCRequests
  Looks <- MCLooks
  MaxEvents = 1
  MaxTime = 2
  Absent = Absent
  FileNames = {"a.contract", "lock", "checks/run", "skill", "data", "given", "out", "two", "module"}
  Kind <- MCKind
  Folded <- MCFolded
  Contents = {"x", "y"}
  MaxFiles = 6
  Tasks <- MCTasks
  Callers <- MCCallers
  MaxEdits = 1
  NoRun = NoRun
  Runs = {"q", "r", "s"}
  Invocations <- MCInvocations
  MaxReplaced = 2
SPECIFICATION KeepingSpec
INVARIANTS
  AcknowledgedSurvives
  TranscriptIsExact
  TranscriptIgnoresTheScreen
  ScreenTellsTheTruth
  CarriedBytesAreAdmitted
  ReceiptIsOneStory
CHECK_DEADLOCK FALSE
