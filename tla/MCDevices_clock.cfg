CONSTANTS
  NumTerminals = 2
  Readers = {0, 1}
  AnyFirstTick = FALSE
  MaxFrames = 3
  MaxKeys = 1
SPECIFICATION Spec
INVARIANTS
  TypeOK
  InServiceIsHandled
  OneTickPerRead
PROPERTIES
  ReadersServed
