SPECIFICATION Spec
CONSTANTS
    Threads = {t1, t2}
    UIntSize = 8
    MaxCopies = 3
INVARIANTS FreedUnused
CHECK_DEADLOCK FALSE
