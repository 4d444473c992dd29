SPECIFICATION Spec
CONSTANTS
    MaxLine = 13
    MaxFrame = 13
    Byte = 4
    MaxLines = 3
    Typeable <- Lines
    FirstLines <- Firsts
    ShortLines <- Shorts
INVARIANTS TypeOK SaidIsShown InOrder Told
CHECK_DEADLOCK FALSE
