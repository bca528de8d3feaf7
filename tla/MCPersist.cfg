SPECIFICATION Spec
CONSTANTS
    NumItems = 3
    Kind <- MCKind
    Pieces = {p, q}
    NoItem = NoItem
INVARIANTS
    RedeployKeepsDirs
    LinksAreSound
PROPERTIES
    NothingSavedIsRemoved
