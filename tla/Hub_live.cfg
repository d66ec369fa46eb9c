CONSTANTS
  Conns = {c1, c2}
  Agents = {a1}
  Users = {}
  Devices = {d1}
  NoDevice = NoDevice
  None = None
  BufCap = 1
  Statuses = {}
  HeartbeatEnabled = TRUE
SPECIFICATION Spec
PROPERTIES SilentAgentIsDropped ClosedIsTornDown StopWaitsOnlyForMonitor
CHECK_DEADLOCK FALSE
