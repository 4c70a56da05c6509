SPECIFICATION Spec
CONSTANTS
  c1 = c1
  c2 = c2
  c3 = c3
  Calls = {c1, c2, c3}
  Method <- ByIdMethod
  Items <- ByIdItems
  Updates = 1
  MaxId = 3
  StaleNextId = FALSE
  NoCall = NoCall
  Push = Push
INVARIANTS
  TypeOK
  IInv
  AnswerIsOwn
  AnswerIsComplete
  ErrorIsOwn
  IdsAreDistinct
  NoLostWakeup
CHECK_DEADLOCK FALSE
