CONSTANTS
    e1 = e1
    e2 = e2
    l1 = l1
    l2 = l2
    s1 = s1
    s2 = s2
    f1 = f1
    Editors = {e1, e2}
    Launchers = {l1, l2}
    Servers = {s1}
    Paths = {f1}
    NoFolder = NoFolder
    Nobody = Nobody
SPECIFICATION SessionsSpec
SYMMETRY Symmetry
CHECK_DEADLOCK FALSE
INVARIANTS
    BestAnswer
PROPERTIES
    OpenStaysRegistered
