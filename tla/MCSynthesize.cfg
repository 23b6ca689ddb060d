SPECIFICATION FairSpec
CONSTANTS
  Module = {top, a, b}
  top = top
  a = a
  b = b
  Garbled = garbled
  Sources <- MCSources
  Netlists <- MCNetlists
  MaxFanout = 3
  MaxWeak = 2
  MaxReads = 4
INVARIANTS SinksKept
PROPERTIES NetlistNeverLost CleanLogMeansCurrent FanoutConverged ScriptEnds
