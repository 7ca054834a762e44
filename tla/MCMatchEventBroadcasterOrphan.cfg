SPECIFICATION BroadcasterSpec
CONSTANTS
  s1 = s1
  s2 = s2
  Sub <- Two
  MayLeave <- Two
  MaxEvents = 1
  ReplaySize = 1
  ChannelSize = 1
INVARIANT ConnectedIsReached
CHECK_DEADLOCK FALSE
