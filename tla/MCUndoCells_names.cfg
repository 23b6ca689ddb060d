SPECIFICATION CellsSpec
CONSTANTS
  MAXCOMMANDS = 3
  LOWCOMMANDS = 2
  EventId = {1, 2, 3, 4, 5, 6, 7, 8}
  MaxCount = 2
  MaxEvent = 8
  Def = {c1, c2}
  Name = {x1, x2, x3}
  NoDef = NoDef
SYMMETRY Interchangeable
INVARIANTS
  OpenedCellIsKnown
