SPECIFICATION FairSpec
CONSTANTS
  None = None
  Requests = {r1, r2, r3}
  Keys = {k1}
  Hashes = {h1, h2}
  BodyRequired = TRUE
  TTL = 1
  MaxTime = 2
  MaxPanics = 1
INVARIANTS
  TypeOK
  AtMostOneMutation
  ReplayUnlessPanic
  CacheAgreesWithRecord
  ReplayForSameRequest
PROPERTIES
  CompletedIsFinal
  CompletedUnlessLost
  ImplementsOneShot
