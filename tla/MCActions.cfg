SPECIFICATION MCSpec
CONSTANTS
  r1 = r1
  r2 = r2
  None = None
  Requests <- MCRequests
  Asks <- MCAsks
  Granted <- MCGranted
  Interval = 2
  MaxTime = 4
  MaxSkew = 2
  MaxRestarts = 1
  MaxAlerts = 2
  MaxTurns = 1
  m1 = m1
  m2 = m2
  Moves <- MCMoves
  MayMove <- MCMayMove
  MaxLosses = 1
  MaxServerRestarts = 1
INVARIANTS
  PauseInv
  TheIntervalIsKept
  TrustIsEarned
PROPERTIES
  LeftAlone
  DisplacedIsNotResumed
  EarnedResumeComes
  EndedPauseIsForgotten
CHECK_DEADLOCK FALSE
