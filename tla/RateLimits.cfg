CONSTANTS
  ConnLimit = 2
  UserLimit = 4
  MaxAttempts = 2
  Window = 2
  Pumps = 3
SPECIFICATION Spec
INVARIANTS UserLimitIdle BurstBound
PROPERTIES GetsThrough
