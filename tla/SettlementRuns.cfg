SPECIFICATION FairSpec
CONSTANTS
  None = None
  Workers = {w1, w2}
  Recapturer = Recapturer
  PaymentIDs = {p1, p2}
  BatchIDs = {b1, b2, b3, b4}
  ClaimLimit = 1
  WindowLength = 1
  LockTTL = 1
  CaptureLag = 1
  LastCapture = 2
  MaxTime = 3
  MaxReruns = 1
  MaxRecaptures = 1
  MaxCrashes = 1
INVARIANTS
  TypeOK
  SettledOnce
  LinkedToItsBatch
  ClaimsAreUnsettled
  NothingToRecover
PROPERTY SettledUnlessMissed
CHECK_DEADLOCK FALSE
