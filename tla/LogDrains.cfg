CONSTANTS
  Instances = {i1, i2}
  Servers = {w1, w2}
  QsoMax = 1
  MaxEntries = 1
  FaultMax = 1
  None = None
SPECIFICATION FairSpec
PROPERTIES Drains
