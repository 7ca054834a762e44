SPECIFICATION IngestFairSpec
CONSTANTS
  m1 = m1
  m2 = m2
  NoMessage = NoMessage
  Match <- Two
  Last = 3
  MaxLosses = 2
  MaxRestarts = 1
  MaxDbFaults = 1
INVARIANTS
  IngestInv
  AtLeastOnce
PROPERTIES
  BufferKept
  EndPersisted
CHECK_DEADLOCK FALSE
