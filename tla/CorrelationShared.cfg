SPECIFICATION Spec
CONSTANTS
  c1 = c1
  c2 = c2
  c3 = c3
  Calls = {c1, c2, c3}
  Method <- SharedMethod
  Items <- SharedItems
  Updates = 0
  MaxId = 0
  StaleNextId = FALSE
  NoCall = NoCall
  Push = Push
SYMMETRY Alike
INVARIANTS
  SharedAnswerIsOwn
  RegisteredIsAwaited
CHECK_DEADLOCK FALSE
