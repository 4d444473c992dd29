CONSTANTS
  Fds = {3, 4, 5}
  MaxConns = 4
  ActiveLimit = 1
  QueueLimit = 1
  UIntSize = 8
  Faults = {"reuse", "hangup", "throw"}
  None = None
SPECIFICATION Spec
INVARIANTS
  WaitBounded
  ToldPositions
  NotForgotten
CHECK_DEADLOCK FALSE
