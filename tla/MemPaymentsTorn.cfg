SPECIFICATION MemSpec
CONSTANTS
  None = None
  Authorizers = {a, c}
  Capturers = {a, c}
  Expirers = {}
  Merchants = {m}
  Payers = {x}
  PaymentIDs = {q1, q2}
  Amounts = {0, 1}
  Openings = {1, 2}
  AuthorizationTTL = 1
  ExpiryLimit = 1
  MaxTime = 2
SYMMETRY Symmetry
INVARIANTS
  MemTypeOK
  NoOverdraft
  NoMoneyCreated
  ReconcilesUnlessTorn
  HoldFollowsUnlessTorn
