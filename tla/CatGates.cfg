CONSTANTS
  None = None
  LinkTimeout = 1
  PingInterval = 1
  LimitMin = 2
  LimitMax = 2
  Clients = {c1, c2}
  ClientLines = {"TX", "RX", "TU0", "KY", "FA"}
  EventMax = 1
  Reconfigures = TRUE
SPECIFICATION Spec
SYMMETRY Symmetric
INVARIANTS OptInHasAudio 
PROPERTIES ClientsKeyThroughTheGate OperatorUndisturbed
