SPECIFICATION StatusFairSpec
CONSTANTS
  s1 = s1
  s2 = s2
  h1 = h1
  Sim = {s1, s2}
  Hook = {h1}
  Watched = {s1}
  QueueSize = 1
  BatchSize = 2
  Reports <- ShortTasks
  Failing = {s1}
  MaxRestarts = 1
INVARIANTS HooksCalled StopSavesQueue
PROPERTIES FileForward SimulationEnds
CHECK_DEADLOCK FALSE
