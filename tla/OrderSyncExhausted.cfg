SPECIFICATION Spec
CONSTANTS
  o1 = o1
  o2 = o2
  k = k
  MaxFaultKinds = 10
  Orders <- OneOrder
  Keys = {k}
  KeyOf <- OneKeyOf
  JobAttempts = 2
  MAX_SYNC_ATTEMPTS = 2
  MaxStalled = 0
  MaxRetries = 0
INVARIANTS
  ExhaustedMeansFailed
CHECK_DEADLOCK FALSE
