CONSTANTS
  User = {u1, u2}
  Role = {admin, user, ops}
  Admin = admin
  Basic = user
  Req = {r1, r2}
  None = None
  MaxRoles = 1
  MaxClaims = 1
SPECIFICATION Spec
INVARIANTS
  OrphansCrossed
  FoundersBoundedByOverlap
PROPERTIES
  RevokedRoleFades
