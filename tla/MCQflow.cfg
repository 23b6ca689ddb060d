SPECIFICATION Spec
CONSTANTS
  MaxTime = 3
PROPERTIES BackupStaysUnrouted ErrorBlocks SuccessIsCurrent MagShowsDef
