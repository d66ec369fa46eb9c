CONSTANTS
  Conns = {c1, c2, c3}
  Agents = {a1}
  Users = {u1}
  Devices = {d1}
  NoDevice = NoDevice
  None = None
  BufCap = 1
  Statuses = {"busy", "unset"}
  HeartbeatEnabled = FALSE
SPECIFICATION Spec
CONSTRAINTS BeforeStop AgentsSentNothing
SYMMETRY ConnSymmetry
INVARIANTS NoDoubleClose RegistryMatchesOpen PresenceTruth
PROPERTIES OfflineForCause
CHECK_DEADLOCK FALSE
