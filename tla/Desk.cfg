SPECIFICATION Spec
CONSTANTS
  Places = {p1, p2}
  Certs = {good, own1, own2}
  Public = {good}
  Most = 2
  Clicks = 1
  Timeout = 2
  Sent = 2
  Keys = {k1, k2}
  Waiting = 2
  Clients = {c1, c2}
  MaxClients = 1
  OutQueue = 1
  Untold = 3
  None = None
SYMMETRY Symmetric
INVARIANTS NeverStranded  EveryEndIsTold
 
CHECK_DEADLOCK FALSE
