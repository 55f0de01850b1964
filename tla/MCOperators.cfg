CONSTANTS
  Procs = {"p", "q"}
  IDs = {"a", "b"}
  Deployed <- OneOrTwo
  Limit <- OperatorsLimit
  Scenarios <- Together
SPECIFICATION FairSpec
INVARIANTS TypeOK GeneratesWhereWatched RotatedAway
PROPERTIES ObjectServed RotationAnswered
CHECK_DEADLOCK FALSE
