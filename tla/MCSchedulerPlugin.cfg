CONSTANTS
  Instance = {i1}
  Replica = {i1, i2}
  Toggle = {t1, t2}
  Reloading = TRUE
  Job = {j1}
  Name = {n1}
  Handler = {plug}
  PluginHandler = {plug}
  Builtin = {}
  Gid = {g1}
  Req = {}
  MaxLoose = 0
  None = None
SPECIFICATION Spec
CHECK_DEADLOCK FALSE
PROPERTIES
  DisabledPluginRests
  ServingAgrees
