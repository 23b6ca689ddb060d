SPECIFICATION FairSpec
CONSTANTS
  cell = cell
  parent = parent
  Def = {cell, parent}
  Square = {1, 2}
  Ancestry <- MCAncestry
  Commands = {"edit", "delete", "load", "drc off", "drc on", "undo disable",
              "undo enable", "bypass", "refused", "def read", "drc catchup", "interrupt"}
  MaxCommands = 5
INVARIANTS MarkedIsPending UndoNotLeftOff WorkIsScheduled
PROPERTIES DrcCatchesUp
CHECK_DEADLOCK FALSE
