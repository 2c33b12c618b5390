CONSTANTS
  NumTerminals = 2
  MaxProcess = 4
  KernelBlocks = 5
  Word = 7
SPECIFICATION NoCrashSpec
INVARIANTS
  TypeOK
  RunningHasTask
  UserMatches
CHECK_DEADLOCK FALSE
