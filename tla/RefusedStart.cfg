SPECIFICATION MCSpec
CONSTANTS
  r1 = r1
  r2 = r2
  v0 = v0
  v1 = v1
  h1 = h1
  h2 = h2
  None = None
  Nobody = Nobody
  Requests <- OneRequest
  Values <- TwoValues
  Want <- WantOther
  First = v0
  NPrints = 1
  MaxCrashes = 1
  Identities <- TwoIdentities
  MaxTurns = 0
  MaxDeaths = 0
  MaxRefused = 0
INVARIANT NoExpiryRefusesAStart
CHECK_DEADLOCK FALSE
