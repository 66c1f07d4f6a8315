CONSTANTS
  Messages = {"m1", "m2"}
  Calls = {"c1", "c2", "c3"}
  Models = {"x", "y"}
  MaxText = 3
  TextLimit = 2
  MessageLimit = 1
  ModelLimit = 1
  CallLimit = 2
  StepLimit = 2
  Contents = {"old", "new"}
  MaxOperations = 2
  MaxStarts = 2
  Foreign = {"one", "two"}
  MaxChanges = 1
  LogNames = {"a.log", "b.log"}
  FileLimit = 2
  ByteLimit = 3
  ChunkLimit = 2
  LineLimit = 2
  MaxLog = 2
  MaxFrames = 4
  MaxProse = 3
SPECIFICATION SessionSpec
INVARIANTS
  CleanSessionIsWhole
  AcceptedWorkIsSettled
  QuietMirrorIsComplete
  OnlyOwnServerIsEnabled
PROPERTIES
  PrivateStaysPrivate
CHECK_DEADLOCK FALSE
