CONSTANTS
  Sessions = {s1, s2}
  Users = {"Ann", "ann", "Bob"}
  Names = {default, empty, room}
  Objects = {o1, o2, o3}
  Workers = {w1, w2}
  ThreadNet = 2
  Fold <- CaseFold
  Default = default
  Empty = empty
  Main = main
  None = None
SYMMETRY Symmetry
CONSTRAINT Bounded
VIEW Seen
SPECIFICATION Spec
INVARIANTS
  TypeOK
  UniqueNames
  ChannelAgrees
  InListedChannel
  ListsAgree
CHECK_DEADLOCK FALSE
