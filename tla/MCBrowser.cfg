\* Two tabs, two calls under way, four tokens: two logins and two refreshes, or
\* one login and three refreshes in a row.
CONSTANTS
  Token = {t1, t2, t3, t4}
  Tab = {b1, b2}
  Call = {c1, c2}
  None = None
SPECIFICATION Spec
CONSTRAINT LastToken
SYMMETRY Symmetry
INVARIANTS
  TypeOK
  UndisturbedFamiliesLive
