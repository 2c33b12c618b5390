CONSTANTS
  NumTerminals = 2
  LineSize = 3
  TabWidth = 2
  Chars = {a}
  Space = space
  Tab = tab
  NL = newline
  Requests = {2, 4}
SPECIFICATION Spec
INVARIANTS
  ReadGivesLine
