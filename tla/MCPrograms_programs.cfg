CONSTANTS
  MaxFiles = 5
  NameSize = 3
  BlockSize = 4
  Dentries <- MCDentries
  Inodes <- MCInodes
  Data <- MCData
  Names <- MCNames
  Requests <- MCRequests
  ClientFiles = 2
  Lines <- MCLines
  Free = 1
  BufSize = 3
  Junk = {"NUL", "junk"}
  Counts <- MCCounts
  Wait = 1
SPECIFICATION ProgramsSpec
INVARIANTS
  TypeOK
  ConsoleKept
  ReadsAreContent
  ZeroMeansEnd
  SoleListingInOrder
  CommandParsed
  CatIsExact
  LsListsAll
  GrepFindsLines
  FramesMerged
  SyserrPasses
  FrameKept
PROPERTIES
  DescriptorsKept
  ProgramsEnd
CHECK_DEADLOCK FALSE
