SPECIFICATION FairSpec
CONSTANTS
  Commands = {c1}
  Kernels = {k1}
  Locked = {c1}
  Invalid = {}
  Poison = {c1}
  None = None
  MaxDeliveries = 2
  MaxConflicts = 3
  BatchLimit = 2
  MaxAppends = 0
  MaxFaults = 0
PROPERTIES PoisonIsParked
CHECK_DEADLOCK FALSE
