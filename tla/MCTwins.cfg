SPECIFICATION Spec
CONSTANTS
  MaxChain = 2
  MaxLookups = 3
  MaxFirst = 2
  PerPage = 3
  Names <- MCNames
  Contents <- MCContents
  Worlds <- MCTwins
  Certificates <- MCCertificates
INVARIANT SignedDeliveryIsAccepted
CHECK_DEADLOCK FALSE
