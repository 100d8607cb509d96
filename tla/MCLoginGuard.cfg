CONSTANTS
  Req = {r1, r2}
  Captcha = {c1, c2}
  None = None
  CaptchaThreshold = 2
  LockThreshold = 3
  LockFor = 2
  DbErrors = TRUE
  MaxFails = 5
SPECIFICATION Spec
INVARIANTS
  GuessBound
  UnbackedBound
  CaptchaBound
PROPERTIES
  LockIsTemporary
