SPECIFICATION WorkerFairSpec
CONSTANTS
  Match = {m1, m2}
  NoMatch = none
  Capacity = 2
  MaxStreams = 1
  MaxAccepted = 3
  MaxFaults = 1
INVARIANTS
  WorkerInv
  GracefulStopSettles
PROPERTIES
  StatusForward
  WorkerProgress
CHECK_DEADLOCK FALSE
