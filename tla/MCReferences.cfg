CONSTANTS
  q1 = q1  q2 = q2  c1 = c1
  QSecs = {q1, q2}
  Configs = {c1}
  Specs = {"s1", "s3", "sCopy", "sBad"}
  NoSpec = "none"
  Kind <- MCKind
  Offers <- AnySpec
  Refs <- MCRefs
  Names <- MCNames
  Garbled = {c1}
  Workers = 1
  Limit <- ReferencesLimit
SPECIFICATION FairSpec
PROPERTIES SecretCreated
CHECK_DEADLOCK FALSE
