CONSTANTS
  NumNodes = 3
  Edges <- MCEdges
SPECIFICATION FairSpec
INVARIANTS
  CompleteIsWhole
  NodesRunOnAdmittedWork
PROPERTIES
  KeepsPromise
CHECK_DEADLOCK FALSE
