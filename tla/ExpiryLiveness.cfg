SPECIFICATION WorkerSpec
CONSTANTS
  None = None
  Authorizers = {a}
  Capturers = {a}
  Expirers = {e, f}
  Merchants = {m}
  Payers = {x}
  PaymentIDs = {q1, q2}
  Amounts = {1}
  Openings = {2}
  AuthorizationTTL = 1
  ExpiryLimit = 2
  MaxTime = 2
  MaxFailures = 1
PROPERTIES
  CallsEnd
  DueIsExpiredUnlessTwice
CHECK_DEADLOCK FALSE
