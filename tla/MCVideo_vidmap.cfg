CONSTANTS
  NumTerminals = 2
  Rows = 2
  Cols = 2
  TabStop = 2
  Blank = "blank"
  NewLine = "nl"
  BackSpace = "bs"
  HorizontalTab = "tab"
  Output = {"a"}
  Stored = {"a"}
  Prompt = "a"
  PageCells = 5
  MaxColumn = 2
SPECIFICATION Spec
INVARIANTS
  VidmapOwn
