SPECIFICATION Spec
CONSTANTS
    top = top
    middle = middle
    leaf = leaf
    Cell <- MCCell
    Uses <- MCUses
    Edited <- MCEdited
    Roots <- MCRoots
    MaxTime = 3
    MaxEdits = 1
INVARIANTS
    StaleIsKnown
    LaterChildIsNoticed
PROPERTIES
    OwnLayoutExtracted
CHECK_DEADLOCK FALSE
