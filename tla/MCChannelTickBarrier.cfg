CONSTANTS
  Channels = {1, 2}
  Default = 1
  Threads = {t1, t2}
  MaxTicks = 3
  SizeMax = 7
  MaxRequests = 7
  NoChannel = NoChannel
SPECIFICATION Spec
INVARIANT BarrierHolds
CHECK_DEADLOCK FALSE
