SPECIFICATION Spec
CONSTANTS
  s1 = s1
  s2 = s2
  Streams = {s1}
  Items <- LongAndShort
  Depth = 1
PROPERTY
  NoCancelAfterError
CHECK_DEADLOCK FALSE
