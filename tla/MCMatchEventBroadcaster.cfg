SPECIFICATION BroadcasterSpec
CONSTANTS
  s1 = s1
  s2 = s2
  Sub <- Two
  MayLeave <- Two
  MaxEvents = 3
  ReplaySize = 1
  ChannelSize = 2
SYMMETRY TwoSymmetry
INVARIANTS
  BroadcasterInv
  NoGap
  UpToDate
CHECK_DEADLOCK FALSE
