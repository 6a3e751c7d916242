SPECIFICATION FairSpec
CONSTANTS
  r1 = r1
  r2 = r2
  a1 = a1
  a2 = a2
  k1 = k1
  k2 = k2
  envKey = envKey
  EnvKey = envKey
  Requests <- TwoRequests
  Admins <- NoAdmin
  Keys <- OneKey
  Lifetimes <- Long
  MaxConcurrent = 1
  MaxRetries = 2
  MaxTime = 0
  MaxTokens = 2
  MaxRevoked = 1
  MaxRows = 1
PROPERTIES
  EveryRequestEnds
CHECK_DEADLOCK FALSE
