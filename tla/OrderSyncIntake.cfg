SPECIFICATION EditSpec
CONSTANTS
  o1 = o1
  o2 = o2
  k = k
  e1 = e1
  e2 = e2
  Edits <- TwoEdits
  Original = Original
  MaxFaultKinds = 1
  Orders <- TwoOrders
  Keys = {k}
  KeyOf <- SameKeyOf
  JobAttempts = 1
  MAX_SYNC_ATTEMPTS = 1
  MaxStalled = 0
  MaxRetries = 2
INVARIANTS
  OneOrderPerKey
  ItemsAgree
PROPERTIES
  KeepsLedger
CONSTRAINT OneMatter
CHECK_DEADLOCK FALSE
