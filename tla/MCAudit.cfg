SPECIFICATION Spec
CONSTANTS
  MaxChain = 2
  MaxLookups = 3
  MaxFirst = 2
  PerPage = 3
  Names <- MCNames
  Contents <- MCContents
  Worlds <- MCWorlds
  Certificates <- MCCertificates
INVARIANTS
  GateIsEarned
  ReceiptIsWhole
  AuthenticatedIsBound
  HonestDeliveryPasses
  InvalidIsDefinite
  ChainTightens
CHECK_DEADLOCK FALSE
