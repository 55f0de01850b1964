CONSTANTS
  q1 = q1  q2 = q2  c1 = c1
  QSecs = {q1}
  Configs = {c1}
  Specs = {"s1"}
  NoSpec = "none"
  Kind <- MCKind
  Offers <- AnySpec
  Refs <- MCRefs
  Names <- MCNames
  Garbled = {}
  Workers = 1
  Limit <- LivenessLimit
SPECIFICATION FairSpec
PROPERTIES RotationServed
CHECK_DEADLOCK FALSE
