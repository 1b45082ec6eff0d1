\* One organization, two members, two goroutines, and three links: one and what
\* two rotations of it at once would make of it.
CONSTANTS
  Org = {o1}
  User = {u1, u2}
  Invitation = {i1, i2, i3}
  Request = {q1, q2}
  Kind = {"owner", "admin"}
  None = None
SPECIFICATION Spec
CONSTRAINT FewLinks
SYMMETRY Symmetry
INVARIANTS
  TypeOK
  CountStillTrue
  PersonalOrgSealed
  OneActivePerLineage
PROPERTIES
  OwnersLostOnlyByStaleRead
  AdmittedByInvitation
  LinksImplementTokenFamily
