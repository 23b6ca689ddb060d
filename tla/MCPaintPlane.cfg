SPECIFICATION Spec
CONSTANTS
  Width = 4
  Height = 4
  Uses <- MCUses
  Interrupts <- MCInterrupts
INVARIANTS
  PlaneSound
  MaximalStrips
  UndoRestores
PROPERTIES
  PaintsTheArea
CHECK_DEADLOCK FALSE
