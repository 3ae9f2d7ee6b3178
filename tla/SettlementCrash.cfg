SPECIFICATION FairSpec
CONSTANTS
  None = None
  Workers = {w1}
  Recapturer = Recapturer
  PaymentIDs = {p1}
  BatchIDs = {b1, b2, b3}
  ClaimLimit = 2
  WindowLength = 2
  LockTTL = 1
  CaptureLag = 0
  MaxReruns = 0
  LastCapture = 3
  MaxTime = 5
  MaxRecaptures = 0
  MaxCrashes = 1
PROPERTY CapturedIsSettled
CHECK_DEADLOCK FALSE
