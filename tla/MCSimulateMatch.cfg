SPECIFICATION SimulateFairSpec
CONSTANTS
  m1 = m1
  m2 = m2
  alice = alice
  User = {alice}
  NoMatch = none
  MaxStreams = 1
  MaxAccepted = 1
  Match = {m1, m2}
  CreatorOf <- SameCreator
  Capacity = 1
  MaxFaults = 2
INVARIANTS
  SingleOwner
  NoOrphans
PROPERTIES
  LiveMatchEnds
CHECK_DEADLOCK FALSE
