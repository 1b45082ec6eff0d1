\* Expected to be violated: see the README.
CONSTANTS
  User = {u1}
  SessionId = {s1, s2, s3}
  Request = {q1, q2}
  None = None
SPECIFICATION Spec
SYMMETRY Symmetry
PROPERTY
  LogoutAllEndsFamilies
