SPECIFICATION FairSpec
CONSTANTS
  MAXCOMMANDS = 3
  LOWCOMMANDS = 1
  MaxNode = 9
  MaxCount = 2
  MaxDisable = 1
INVARIANTS
  LogWellLinked LoopsStayInLog CommandCount LayoutMatchesLog
  CursorDiscipline CountIsCommandsPlayed
PROPERTIES
  PlayedInOrder RoutinesReturn ImplementsStack
