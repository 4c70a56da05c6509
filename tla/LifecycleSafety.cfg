SPECIFICATION Spec
CONSTANTS
  u1 = u1
  u2 = u2
  Users = {u1, u2}
  MaxConns = 2
  MaxSends = 2
  Overlap = FALSE
  Python311 = TRUE
  Nobody = Nobody
SYMMETRY Symmetry
INVARIANTS
  TypeOK
  NoStrayLoop
  DropWakesCreate
  NothingLeftOpen
  FlushedBeforeClose
  StaleOnlyAfterFailure
  SentOnce
  SentInOrder
  StartApiFirst
CHECK_DEADLOCK FALSE
