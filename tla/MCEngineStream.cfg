SPECIFICATION EngineFairSpec
CONSTANTS
  s1 = s1
  s2 = s2
  Stream <- Calls
  Capacity = 1
  PoolSize = 1
  MaxSteps <- Steps
  Chunk <- Chunks
INVARIANTS
  EngineInv
PROPERTIES
  KeepsPromise
  CallsSettle
CHECK_DEADLOCK FALSE
