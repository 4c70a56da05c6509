SPECIFICATION FairSpec
CONSTANTS
  u1 = u1
  u2 = u2
  Users = {u1}
  MaxConns = 2
  MaxSends = 0
  Overlap = TRUE
  Python311 = FALSE
  Nobody = Nobody
PROPERTIES
  EofIsCleanedUp
  CallsEnd
CHECK_DEADLOCK FALSE
