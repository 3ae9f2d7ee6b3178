SPECIFICATION FairSpec
CONSTANTS
  None = None
  Requests = {r1, r2}
  Clients = {c1}
  Limit = 1
  Window = 2
  MaxCount = 3
  MaxFailures = 1
PROPERTY KeyExpires
CHECK_DEADLOCK FALSE
