\* Three rows of one user's lineages and two goroutines; at most two tokens expire.
CONSTANTS
  User = {u1}
  SessionId = {s1, s2, s3}
  Request = {q1, q2}
  None = None
SPECIFICATION Spec
CONSTRAINT FewExpire
SYMMETRY Symmetry
INVARIANTS
  TypeOK
  AtMostOneLive
  SingleUse
  LineageIsClosed
  LockDiscipline
PROPERTIES
  DeadStaysDead
  RevocationEndsFamilies
  ImplementsTokenFamily
