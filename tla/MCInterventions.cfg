SPECIFICATION MCSpec
CONSTANTS
  r1 = r1
  r2 = r2
  v0 = v0
  v1 = v1
  h1 = h1
  h2 = h2
  None = None
  Nobody = Nobody
  Requests <- TwoRequests
  Values <- TwoValues
  Want <- WantOther
  First = v0
  NPrints = 1
  MaxCrashes = 0
  Identities <- TwoIdentities
  MaxTurns = 3
  MaxDeaths = 1
  MaxRefused = 1
SYMMETRY Symmetric
INVARIANTS
  IInv
  SupersededPriorLives
  SessionsInv
PROPERTIES
  CloseOutExpiresFirst
  ImplementsBoundedChanges
CHECK_DEADLOCK FALSE
