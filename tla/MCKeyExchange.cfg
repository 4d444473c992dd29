CONSTANTS
  NetThreads = {n1, n2}
  Positions = 1
  MaxRefreshes = 2
  MaxTyped = 1
  MaxTold = 1
SPECIFICATION Spec
INVARIANTS
  TypeOK
  PacketsAreRead
PROPERTIES
  KeysAgree
  LoginEnds
  RefreshEnds
CHECK_DEADLOCK FALSE
