CONSTANTS
  Server = {i1, i2}
  Slot = {1, 2, 3}
  Due <- MCDue
  JobOf <- MCJobOf
  NoRow = NoRow
  Period = 5
  TTL = 3
  FireDelay = 1
  LockLatency = 1
  RunTime = 1
  Skew = 1
  MaxClock = 13
SPECIFICATION LeaseSpec
SYMMETRY Symmetry
VIEW View
CHECK_DEADLOCK FALSE
INVARIANTS
  RefusedOnlyNearby
PROPERTIES
  ImplementsJobSlots
