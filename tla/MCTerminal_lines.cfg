CONSTANTS
  NumTerminals = 2
  LineSize = 3
  TabWidth = 2
  Chars = {}
  Space = space
  Tab = tab
  NL = newline
  Requests = {2}
SPECIFICATION Spec
INVARIANTS
  TypeOK
  LineIsTyped
  QuietReadGivesLine
  ReadWaitsForEnter
PROPERTIES
  EnterWakesReader
