\* Liveness is checked without symmetry.
CONSTANTS
  User = {u1}
  SessionId = {s1, s2}
  Request = {q1, q2}
  None = None
SPECIFICATION FairSpec
PROPERTY
  RequestsAnswered
