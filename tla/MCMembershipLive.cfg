\* Liveness is checked without symmetry, and with links that do not expire.
CONSTANTS
  Org = {o1}
  User = {u1, u2}
  Invitation = {i1}
  Request = {q1, q2}
  Kind = {"owner", "member"}
  None = None
SPECIFICATION FairSpec
CONSTRAINT NothingExpires
PROPERTY
  RequestsAnswered
