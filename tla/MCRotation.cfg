CONSTANTS
  q1 = q1  q2 = q2  c1 = c1
  QSecs = {q1, q2}
  Configs = {c1}
  Specs = {"s1", "sCopy"}
  NoSpec = "none"
  Kind <- MCKind
  Offers <- OneCopied
  Refs <- MCRefs
  Names <- MCNames
  Garbled = {}
  Workers = 1
  Limit <- RotationLimit
SPECIFICATION FairSpec
PROPERTIES RotationEnds
CHECK_DEADLOCK FALSE
