SPECIFICATION MCSpec
CONSTANTS
  c1 = c1
  c2 = c2
  c3 = c3
  s1 = s1
  s2 = s2
  s3 = s3
  p1 = p1
  p2 = p2
  r1 = r1
  r2 = r2
  r3 = r3
  r4 = r4
  None = None
  Callers <- MCCallers
  Prints <- MCPrints
  Scopes <- MCScopes
  Runs <- MCRuns
  PrintOf <- MCPrintOf
  ScopeOf <- MCScopeOf
  MaxEvents = 3
  Limit = 2
  Piece = 2
  MaxPosts = 4
  Depth = 2
  MaxLost = 1
INVARIANTS
  NoLostWakeup
  NothingOutlivesItsTurn
  OneCredentialPerPrint
  StreamInv
  IngressInv
PROPERTIES
  ImplementsMutex
  ParkedIsPolledAgain
  TheEndEndsTheWatch
  PostsMoveOn
CHECK_DEADLOCK FALSE
