SPECIFICATION FairSpec
CONSTANTS
  s1 = s1
  s2 = s2
  Streams = {s1, s2}
  Items <- LongAndShort
  Depth = 2
INVARIANTS
  TypeOK
  NothingLeftRunning
  AccumulatesOnlyLate
  BookIsExactUnlessShifted
PROPERTIES
  ImplementsContract
  CancelsBlindly
  StreamsEnd
CHECK_DEADLOCK FALSE
