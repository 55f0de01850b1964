CONSTANTS
  Others = {"a", "b"}
  Requests <- AllRequests
  Setups <- ThereOrNot
  Serials = {1, 2, 3, 4, 5, 6, 7, 8, 9}
  Limit <- CredentialsLimit
  Scenarios <- Together
SPECIFICATION FairSpec
INVARIANTS TypeOK CertificateVerifies OneGeneration LatestServed
PROPERTIES Served
CHECK_DEADLOCK FALSE
