CONSTANTS
  Instances = {i1, i2}
  Servers = {w1}
  QsoMax = 2
  MaxEntries = 1
  FaultMax = 2
  None = None
SPECIFICATION Spec
SYMMETRY Symmetric
INVARIANTS TypeOK NothingLost HeldIsForeign
PROPERTIES DiscardStays
