SPECIFICATION Spec
CONSTANTS
  c1 = c1
  c2 = c2
  c3 = c3
  Calls = {c1, c2}
  Method <- CompletedMethod
  Items <- TwoItems
  Updates = 0
  MaxId = 0
  StaleNextId = FALSE
  NoCall = NoCall
  Push = Push
INVARIANTS
  ReturnsStoredData
CHECK_DEADLOCK FALSE
