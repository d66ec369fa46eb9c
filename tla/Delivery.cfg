CONSTANTS
  Msgs = {m1, m2}
  Conns = {c1, c2}
  DeviceMaps <- SameOrOwn
  BufCap = 1
  MaxLens = {1, 2}
  DbMayFail = TRUE
  MaxCrashes = 1
SPECIFICATION Spec
INVARIANTS InExactlyOnePlace ReplayInOrder
PROPERTIES ReplayedOnReconnect 
CHECK_DEADLOCK FALSE
