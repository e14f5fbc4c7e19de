CONSTANTS
  None = None
  LinkTimeout = 1
  PingInterval = 1
  LimitMin = 2
  LimitMax = 2
  Clients = {c1, c2}
  ClientLines = {"TX", "RX"}
  EventMax = 2
  Reconfigures = FALSE
SPECIFICATION FairSpec
INVARIANTS HolderKnown
PROPERTIES DepartureUnkeys
