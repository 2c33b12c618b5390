CONSTANTS
  NumTerminals = 3
  MaxProcess = 6
  KernelBlocks = 8
  Word = 10
SPECIFICATION AnyEndSpec
INVARIANTS
  NoSharedProgram
CHECK_DEADLOCK FALSE
