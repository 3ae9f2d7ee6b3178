SPECIFICATION Spec
CONSTANTS
  None = None
  Requests = {r1, r2}
  Keys = {k1}
  Hashes = {h1, h2}
  BodyRequired = FALSE
  TTL = 1
  MaxTime = 2
  MaxPanics = 1
INVARIANT ReplayIsOriginal
