\* One client pages while two requests of any other kind run; three stamps, so
\* that a late row may stand alone between one it pushes down and one above it.
SPECIFICATION Spec
CONSTANTS
  Requests = {p1, q1, q2}
  Pagers = {p1}
  DefaultLimit = 1
  MaxLimit = 2
  Wants = {0, 2}
  NoRow = NoRow
  MaxTurns = 3
  MaxClock = 2
CONSTRAINT LastStamp
SYMMETRY Symmetry
CHECK_DEADLOCK FALSE
INVARIANTS
  TypeOK
  TrailTellsTruth
  MissesAreLogged
  NothingMissed
