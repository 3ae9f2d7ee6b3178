SPECIFICATION Spec
CONSTANTS
  None = None
  Authorizers = {a}
  Capturers = {a, c}
  Expirers = {}
  Merchants = {m}
  Payers = {x}
  PaymentIDs = {q1, q2}
  Amounts = {0, 1}
  Openings = {2}
  AuthorizationTTL = 1
  ExpiryLimit = 2
  MaxTime = 2
INVARIANT
  HeldBalanceBacked
