SPECIFICATION Spec
CONSTANTS
  Servers = {s1, s2}
  Keys = {k1, k2}
  Entered = 2
  Asked = 1
  None = None
CHECK_DEADLOCK FALSE
INVARIANTS OffForThisSetup
