CONSTANTS
  LoginTab = {l1, l2}
  ProfileTab = {p1, p2}
  MaxSecret = 2
  MaxGen = 2
  Threshold = 1
  MaxFails = 1
  None = None
SPECIFICATION MCSpec
SYMMETRY Symmetry
VIEW View
CHECK_DEADLOCK FALSE
INVARIANTS
  EnabledMeansProven
  RecoveryCodeOnce
  EnabledHasCodes
