CONSTANTS
  N = 1
  Versions = {1, 2, 3, 4, 5, 6, 7, 8}
  Labels = {0, 1}
  Setups <- HostedCopy
  Guests <- AnyGuest
  Schemas = {"operator"}
  Limit <- EditLimit
  Scenarios <- Together
SPECIFICATION Spec
INVARIANT HostedCopiesUpdated
CHECK_DEADLOCK FALSE
