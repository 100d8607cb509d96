CONSTANTS
  Role = {ops}
  Builtin = {}
  Proc = {p1, p2}
  Instance = {i1}
  Req = {r1, r2}
  None = None
SPECIFICATION Spec
INVARIANTS
  PermissionsFromOneCall
  DeadRoleGrantsNothing
  CacheFollowsMemory
PROPERTIES
  RevocationTakesHold
