CONSTANTS
  Fds = {3, 4, 5}
  MaxConns = 4
  ActiveLimit = 1
  QueueLimit = 1
  UIntSize = 8
  Faults = {}
  None = None
SPECIFICATION Spec
INVARIANTS
  TypeOK
  LimitsHold
  FoundById
PROPERTY ClosedAreRemoved
CHECK_DEADLOCK FALSE
