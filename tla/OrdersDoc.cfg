SPECIFICATION Spec
CONSTANTS
  place = place
  cancel1 = cancel1
  cancel2 = cancel2
  Placer = place
  Cancellers = {cancel1}
  MaxNotices = 2
  NoCall = NoCall
INVARIANT
  CancelReturnsResult
CHECK_DEADLOCK FALSE
