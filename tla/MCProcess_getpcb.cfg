CONSTANTS
  NumTerminals = 3
  MaxProcess = 6
  KernelBlocks = 8
  Word = 10
SPECIFICATION OrderlySpec
INVARIANTS
  GetPcbIsCurrent
CHECK_DEADLOCK FALSE
