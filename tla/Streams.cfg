SPECIFICATION Spec
CONSTANTS
  RingMax = 3
  Rekeys = FALSE
  Numbers = 14
  Sends = 17
  Restarts = 1
  Spread = 2
  Burst = 1
  Batch = 2
  First = 1
  Longest = 4
  Interval = 2
  Deadline = 1
  Requests = 4
  Prompt = 2
  Idle = 3
  Keepalive = 2
  Watchdog = 1
  Refresh = 2
  Slow = 2
  Unread = 2
  Topics = {t1, t2}
  Stations = {s1, s2}
  Calls = {k1, k2}
  Freqs = {0, 1, 2}
  Tolerance = 1
  Capacity = 2
  Latest = 2
  MaxAge = 0
  Heard = 4
  Slots = 2
  Settings = {x}
  Windows = {w1, w2}
  Counted = {n1, n2}
  Waiting = 2
  Servers = {a1, a2}
  Keys = {q1, q2}
  Entered = 2
  Asked = 1
  None = None
INVARIANTS OnlyWhatWasMeant WaitingIsAhead HeardAgain DeliversItsOwn BrokerKnowsWanted FreshestSurvive PublishesWhatIs KeychainFollows
PROPERTIES PlayedInOrder SourcesKeepTheirWord DeadTokenRests
CHECK_DEADLOCK FALSE
