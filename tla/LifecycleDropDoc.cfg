SPECIFICATION FairSpec
CONSTANTS
  u1 = u1
  u2 = u2
  Users = {u1}
  MaxConns = 1
  MaxSends = 0
  Overlap = FALSE
  Python311 = FALSE
  Nobody = Nobody
PROPERTY
  DropSetsLost
CHECK_DEADLOCK FALSE
