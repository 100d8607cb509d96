CONSTANTS
  Tab = {t1, t2}
  Call = {1, 2}
  Sid = {1, 2}
  MaxMint = 2
  MaxShared = 1
  None = None
SPECIFICATION MCSpec
CHECK_DEADLOCK FALSE
INVARIANTS
  StoreFromOneLogin
  OneRefresh
  LogoutEndsSession
PROPERTIES
  LiveLoginKept
  ImplementsCallOnce
