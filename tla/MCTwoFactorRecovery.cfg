CONSTANTS
  LoginTab = {l1}
  ProfileTab = {p1}
  MaxSecret = 2
  MaxGen = 2
  Threshold = 1
  MaxFails = 1
  None = None
SPECIFICATION MCSpec
CHECK_DEADLOCK FALSE
PROPERTY
  RecoveryCodesStay
