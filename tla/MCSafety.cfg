CONSTANTS
  q1 = q1  q2 = q2  c1 = c1
  QSecs = {q1}
  Configs = {c1}
  Specs = {"s1", "s3"}
  NoSpec = "none"
  Kind <- MCKind
  Offers <- AnySpec
  Refs <- MCRefs
  Names <- MCNames
  Garbled = {}
  Workers = 1
  Limit <- SafetyLimit
SPECIFICATION Spec
INVARIANTS TypeOK NoLostWakeup NoLostEdit
PROPERTIES RotationRegenerates SeenUserSecretKept RotationServiceKept
CHECK_DEADLOCK FALSE
