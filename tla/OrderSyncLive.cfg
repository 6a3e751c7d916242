SPECIFICATION FairSpec
CONSTANTS
  o1 = o1
  o2 = o2
  k = k
  MaxFaultKinds = 10
  Orders <- OneOrder
  Keys = {k}
  KeyOf <- OneKeyOf
  JobAttempts = 2
  MAX_SYNC_ATTEMPTS = 2
  MaxStalled = 1
  MaxRetries = 0
PROPERTIES
  EveryJobEnds
  EveryOrderSettles
CHECK_DEADLOCK FALSE
