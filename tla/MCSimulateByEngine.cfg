SPECIFICATION EngineRunFairSpec
CONSTANTS
  m1 = m1
  m2 = m2
  alice = alice
  User = {alice}
  Match = {m1, m2}
  CreatorOf <- SameCreator
INVARIANTS
  EngineRunInv
PROPERTIES
  EndedStaysEnded
  EngineMatchEnds
CHECK_DEADLOCK FALSE
