SPECIFICATION Spec
CONSTANTS
    MaxSpawns = 2
    Faults = FALSE
    ChildMayAsk = FALSE
PROPERTY
    ServingChildKeepsParent
CHECK_DEADLOCK FALSE
