CONSTANTS
  N = 1
  Versions = {1, 2, 3, 4, 5, 6, 7, 8}
  Labels = {0, 1}
  Setups <- OneCopy
  Guests <- AnyGuest
  Schemas = {"operator", "chart"}
  Limit <- CopiesLimit
  Scenarios <- Together
SPECIFICATION FairSpec
INVARIANTS TypeOK SettledCopies StrangersUntouched
PROPERTIES StoredRequestKept CopiesAnswered LabelsApplied
CHECK_DEADLOCK FALSE
