SPECIFICATION FairSpec
CONSTANTS
  place = place
  cancel1 = cancel1
  cancel2 = cancel2
  Placer = place
  Cancellers = {cancel1, cancel2}
  MaxNotices = 2
  NoCall = NoCall
INVARIANTS
  TypeOK
  AnswerIsFresh
  NoLostWakeup
  RegisteredIsAwaited
PROPERTIES
  AnswerIsCurrent
  EveryCallEnds
CHECK_DEADLOCK FALSE
