CONSTANTS
  Keys = {1, 2, 3, 4, 5, 6, 7}
  Limit <- SigningLimit
  Variety = 2
SPECIFICATION FairSpec
INVARIANTS TypeOK CertificateUsable RequestAttended
PROPERTIES NothingLost SigningServiceKept CertificateIssued RequestServed CleanedUp
CHECK_DEADLOCK FALSE
