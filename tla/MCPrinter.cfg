SPECIFICATION Spec
CONSTANTS
  f = f
  g = g
  Files <- MCFiles
  Tolerance = 1
  Pausing = 1
  MaxTime = 2
  MaxJobs = 2
  MaxPrints = 2
  MaxRuns = 2
  MaxIdleResets = 1
  MaxRefusals = 1
  MaxRestarts = 1
  MaxPushes = 3
  MaxDrops = 1
  MaxProbes = 2
  KeptLines = 1
SYMMETRY MCSymmetry
INVARIANTS OneOpenPrintPerJob ResetsReachTheirPrint 
           PushesInOrder LossIsTold PositionsMoveOn
PROPERTIES NoLivePrintEnded APrintStaysItsJobs
CHECK_DEADLOCK FALSE
