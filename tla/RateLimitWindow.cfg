SPECIFICATION FairSpec
CONSTANTS
  None = None
  Requests = {r1, r2, r3}
  Clients = {c1, c2}
  Limit = 2
  Window = 2
  MaxCount = 3
  MaxFailures = 1
INVARIANTS
  TypeOK
  AdmittedWithinLimit
PROPERTIES
  WindowNeverExtended
  KeyExpiresUnlessLost
CHECK_DEADLOCK FALSE
