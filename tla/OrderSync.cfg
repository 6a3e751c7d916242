SPECIFICATION Spec
CONSTANTS
  o1 = o1
  o2 = o2
  k = k
  MaxFaultKinds = 1
  Orders <- OneOrder
  Keys = {k}
  KeyOf <- OneKeyOf
  JobAttempts = 3
  MAX_SYNC_ATTEMPTS = 3
  MaxStalled = 1
  MaxRetries = 1
INVARIANTS
  SyncedIsLinked
  ConfirmedIsInErp
  AtMostOneErpOrder
  AtMostOneMail
  NeverStranded
PROPERTIES
  LinkNeverLost
CONSTRAINT FewFaults
CHECK_DEADLOCK FALSE
