SPECIFICATION FairSpec
CONSTANTS
  None = None
  Workers = {w1, w2}
  Events = {e1}
  BatchSize = 2
  RetryDelay = 2
  MaxTime = 1
  MaxFailures = 1
  MaxAbandons = 1
PROPERTY EventuallyPublished
CHECK_DEADLOCK FALSE
