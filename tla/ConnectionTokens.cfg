SPECIFICATION TokensSpec
CONSTANTS
  r1 = r1
  r2 = r2
  a1 = a1
  a2 = a2
  k1 = k1
  k2 = k2
  envKey = envKey
  EnvKey = envKey
  Requests <- TwoRequests
  Admins <- OneAdmin
  Keys <- OneKey
  Lifetimes <- Long
  MaxConcurrent = 2
  MaxRetries = 1
  MaxTime = 3
  MaxTokens = 2
  MaxRevoked = 1
  MaxRows = 2
CONSTRAINT TokenClaims
VIEW TokensView
INVARIANTS
  NoExpiredToken
  AuthErrorNeedsCause
SYMMETRY RequestSymmetry
CHECK_DEADLOCK FALSE
