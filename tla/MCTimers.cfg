SPECIFICATION TimersSpec
CONSTANTS
    MsPerSec = 3
    UsPerMs = 3
    UIntSize = 16
    LoginTimeout = 0
    KeyRefresh = 1
    MinLogin = 1
    MinRefresh = 1
    TickInterval = 2
    Longest = 5
    Steps <- ClockSteps
    MaxClock = 22
INVARIANTS InTime
CHECK_DEADLOCK FALSE
