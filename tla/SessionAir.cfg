CONSTANTS
  None = None
  LinkTimeout = 1
  PingInterval = 1
  LimitMin = 2
  LimitMax = 2
  ReplyMax = 1
  RawCommands = {"TX", "KY", "PB1", "DAMP", "RX", "FA"}
SPECIFICATION Spec
INVARIANTS TypeOK
PROPERTIES Interlock StopSilences
