SPECIFICATION Spec
CONSTANTS
    Interval = 3
    Fallback = 2
    MaxLimit = 7
    MaxDelay = 6
    ClockSteps = 2
    MayReject = TRUE
INVARIANTS
    BeatOncePerInterval
PROPERTIES
    IdleExitAfterLimit
    HeldConnectionKeepsServer
    QuietServerExits
CHECK_DEADLOCK FALSE
