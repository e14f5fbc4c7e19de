CONSTANTS
  None = None
  LinkTimeout = 1
  PingInterval = 1
  LimitMin = 2
  LimitMax = 2
  ReplyMax = 1
  RawCommands = {"TU1", "FA"}
SPECIFICATION Spec
INVARIANT StopOffered
