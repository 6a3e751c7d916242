SPECIFICATION Spec
CONSTANTS
  r1 = r1
  r2 = r2
  a1 = a1
  a2 = a2
  k1 = k1
  k2 = k2
  envKey = envKey
  EnvKey = envKey
  Requests <- NoRequest
  Admins <- TwoAdmins
  Keys <- TwoKeys
  Lifetimes <- Long
  MaxConcurrent = 1
  MaxRetries = 1
  MaxTime = 1
  MaxTokens = 2
  MaxRevoked = 0
  MaxRows = 3
CONSTRAINT SettingsClaims
VIEW SettingsView
INVARIANTS
  OneActiveRow
  TokenOfItsKey
  EnvNeverReplaces
SYMMETRY AdminSymmetry
CHECK_DEADLOCK FALSE
