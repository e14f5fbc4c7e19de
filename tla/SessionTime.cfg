CONSTANTS
  None = None
  LinkTimeout = 3
  PingInterval = 1
  LimitMin = 2
  LimitMax = 3
  ReplyMax = 1
  RawCommands = {"RX", "TU0", "FA"}
SPECIFICATION FairSpec
INVARIANTS ClaimLicensed HoldBounded KeepAlive KnowsWhatItKeyed
PROPERTIES OwnerSpec DeadPathNoticed
