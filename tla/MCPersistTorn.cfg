SPECIFICATION Spec
CONSTANTS
    NumItems = 1
    Kind <- OneDir
    Pieces = {p, q}
    NoItem = NoItem
PROPERTY
    NothingSavedIsEverRemoved
