SPECIFICATION FairSpec
CONSTANTS
  Commands = {c1, c2, c3}
  Kernels = {k1, k2}
  Locked = {c2}
  Invalid = {c3}
  Poison = {}
  None = None
  MaxDeliveries = 2
  MaxConflicts = 2
  BatchLimit = 2
  MaxAppends = 2
  MaxFaults = 1
INVARIANTS ExactlyOnce ContentionLosesNothing
PROPERTIES ImplementsEffectOnce CommandsComplete
CHECK_DEADLOCK FALSE
