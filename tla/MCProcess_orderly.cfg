CONSTANTS
  NumTerminals = 2
  MaxProcess = 4
  KernelBlocks = 5
  Word = 7
SPECIFICATION FairOrderlySpec
INVARIANTS
  TableIsPrefix
  Nested
  ActiveIsYoungest
  ParentFramesIntact
  SuspendedIntact
  OrderlyInv
PROPERTIES
  ShellKept
  ImplementsSessions
  EveryTerminalRuns
CHECK_DEADLOCK FALSE
