SPECIFICATION Spec
CONSTANTS
    MaxSpawns = 2
    Faults = TRUE
    ChildMayAsk = TRUE
INVARIANTS
    NoStrayChild
PROPERTIES
    FailureIsReported
    HealthyChildKeepsParent
    NoOrphans
    ChildEndIsNoticed
    ImplementsSupervisor
CHECK_DEADLOCK FALSE
