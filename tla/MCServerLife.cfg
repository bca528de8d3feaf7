SPECIFICATION Spec
CONSTANTS
    Requests = {r1, r2}
    Peers = {p1}
    None = None
    Absent = Absent
    Blank = Blank
    MaxBoots = 2
    Faults = TRUE
INVARIANTS
    TypeOK
    OneLoadAtATime
    KeyStays
PROPERTIES
    RetriedAfterFailure
    Answered
    GraceKept
    DisposalEnds
CHECK_DEADLOCK FALSE
