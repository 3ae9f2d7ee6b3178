SPECIFICATION FairSpec
CONSTANTS
  None = None
  Workers = {w1, w2}
  Events = {e1, e2, e3}
  BatchSize = 2
  RetryDelay = 1
  MaxTime = 0
  MaxFailures = 1
  MaxAbandons = 1
INVARIANTS
  TypeOK
  PublishedDelivered
  CopiesWithinAttempts
  ClaimExclusive
PROPERTIES
  BacklogDrains
  ImplementsQueue
CHECK_DEADLOCK FALSE
