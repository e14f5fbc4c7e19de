CONSTANTS
  None = None
  LinkTimeout = 1
  PingInterval = 1
  LimitMin = 2
  LimitMax = 2
  Clients = {c1}
  ClientLines = {"TX"}
  EventMax = 1
  Reconfigures = TRUE
SPECIFICATION Spec
INVARIANTS HolderKnown
