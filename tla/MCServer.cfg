\* Three requests, each with up to two uses of a pool of two.  The process ends.
CONSTANTS
  Request = {q1, q2, q3}
  PoolSize = 2
  MaxUses = 2
  Outside = Outside
  None = None
SPECIFICATION FairSpec
CHECK_DEADLOCK FALSE
INVARIANTS
  TypeOK
  NoStandstill
  ClosedLast
  SuccessIsClean
PROPERTIES
  StopsOnSignal
  RequestsAnswered
