SPECIFICATION Spec
CONSTANTS
    a = a
    b = b
    Cells <- MCCells
    OldCells <- MCOldCells
    MaxVersion = 3
    MaxCopies = 2
    MaxFaults = 1
    MaxInterrupts = 1
    MaxCrashes = 1
INVARIANTS
    UnsavedIsFlagged
PROPERTIES
    ReadsOldOrNew
    TermLosesNothing
CHECK_DEADLOCK FALSE
