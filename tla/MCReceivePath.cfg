CONSTANTS
  Sessions = {s1}
  NetThreads = {n1, n2}
  MaxPackets = 2
  None = None
CONSTRAINT Bounded
SPECIFICATION Spec
INVARIANTS
  TypeOK
  OnlyClosedForAReason
  InOnePlace
  InOrder
PROPERTIES
  Heard
CHECK_DEADLOCK FALSE
