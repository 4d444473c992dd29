CONSTANTS
  MaxConns = 2
  MaxPackets = 1
  MaxSends = 1
  MaxPending = 1
  None = None
SPECIFICATION Spec
CONSTRAINT Bounded
CHECK_DEADLOCK FALSE
INVARIANTS
  TypeOK
  SocketKept
  SocketUsable
  WindowTrue
PROPERTY
  LossShown
