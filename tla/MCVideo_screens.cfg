CONSTANTS
  NumTerminals = 2
  Rows = 2
  Cols = 1
  TabStop = 2
  Blank = "blank"
  NewLine = "nl"
  BackSpace = "bs"
  HorizontalTab = "tab"
  Output = {"a", "nl", "bs", "tab"}
  Stored = {"a"}
  Prompt = "a"
  PageCells = 2
  MaxColumn = 1
SPECIFICATION PlainSpec
INVARIANTS
  TypeOK
  VidmapOwn
  CursorFollowsDisplay
PROPERTIES
  ImplementsScreens
