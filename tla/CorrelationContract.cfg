SPECIFICATION FairSpec
CONSTANTS
  c1 = c1
  c2 = c2
  c3 = c3
  Calls = {c1, c2}
  Method <- ContractMethod
  Items <- ContractItems
  Updates = 1
  MaxId = 2
  StaleNextId = FALSE
  NoCall = NoCall
  Push = Push
PROPERTIES
  ImplementsContract
  EveryCallEnds
CHECK_DEADLOCK FALSE
