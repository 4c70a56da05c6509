SPECIFICATION FairSpec
CONSTANTS
  Base = 3
  Bodies <- FewBodies
  Hello <- Greeting
  Decodable <- Good
  MaxMsgLen = 2
  ReadSize = 12
  MaxFrames = 3
  MaxEarly = 1
INVARIANTS
  TypeOK
  Aligned
  Prompt
PROPERTIES
  ImplementsChannel
  Delivers
CHECK_DEADLOCK FALSE
