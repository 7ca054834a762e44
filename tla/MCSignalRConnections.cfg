SPECIFICATION ConnSpec
CONSTANTS
  Hubs = {"match", "notify"}
  Callers = {app, hook}
  MaxVisits = 0
  Matches = {}
  MaxReconnectAttempts = 1
  MaxTries = 2
  MaxConns = 3
  MaxSigns = 2
  MaxLosses = 1
SYMMETRY MCSymmetry
INVARIANTS SignedOutIsQuiet FlagHonest
CHECK_DEADLOCK FALSE
