CONSTANTS
  User = {u1, u2}
  Sid = {s1, s2}
  Token = {t1}
  Req = {r1, r2}
  None = None
  SingleSession = TRUE
  Serial = TRUE
  MaxPw = 60
  MaxUses = 3
SPECIFICATION Spec
SYMMETRY Symmetry
VIEW View
CHECK_DEADLOCK FALSE
INVARIANTS
  OneSessionPerUser
  CredentialRevocation
  UsesBoundedByOverlap
PROPERTIES
  NoResurrection
