CONSTANTS
  NumTerminals = 3
  MaxProcess = 6
  KernelBlocks = 8
  Word = 10
SPECIFICATION PreemptedExceptionSpec
INVARIANTS
  UserMatches
CHECK_DEADLOCK FALSE
