CONSTANTS
  Producers = {p1, p2}
  Consumers = {c1, c2}
  MaxSubmits = 2
  Null = Null
SPECIFICATION Spec
INVARIANTS
  TypeOK
  TokenAccounting
  NoLostWakeup
PROPERTY ImplementsFifo
