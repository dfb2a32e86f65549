SPECIFICATION MCSpec
CONSTANTS
  o1 = o1
  l1 = l1
  r1 = r1
  v0 = v0
  v1 = v1
  End = End
  Reader = Reader
  None = None
  Nobody = Nobody
  NAlerts = 2
  Observations <- OneObservation
  Looks <- OneLook
  MaxFailures = 2
  Requests <- OneRequest
  Values <- TwoValues
  Want <- WantOther
  First = v0
  NPrints = 2
  MaxCrashes = 2
INVARIANTS
  SupervisionInv
  TurnsAreOfOpenPrints
  GivenOnceInOrder
PROPERTIES
  EveryAlertReachesTheAgent
  TheInboxComesFree
  EveryChangeIsSettled
  ImplementsBoundedChanges
CHECK_DEADLOCK FALSE
