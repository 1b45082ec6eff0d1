\* Expected to be violated: see the README.
CONSTANTS
  Org = {o1}
  User = {u1, u2}
  Invitation = {i1}
  Request = {q1, q2}
  Kind = {"owner", "admin"}
  None = None
SPECIFICATION Spec
SYMMETRY Symmetry
INVARIANT
  LastOwnerStays
