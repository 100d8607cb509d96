CONSTANTS
  Instance = {i1}
  Replica = {i1}
  Toggle = {}
  Reloading = FALSE
  Job = {j1, j2}
  Name = {n1, n2}
  Handler = {core, plug}
  PluginHandler = {plug}
  Builtin = {n1}
  Gid = {g1, g2, g3}
  Req = {r1, r2}
  MaxLoose = 0
  None = None
SPECIFICATION Spec
VIEW View
CHECK_DEADLOCK FALSE
INVARIANTS
  ScheduleFollowsRows
  NoOrphanJob
