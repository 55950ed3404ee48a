SPECIFICATION FairSpec
CONSTANTS
  r1 = r1
  r2 = r2
  b1 = b1
  j1 = j1
  s1 = s1
  i1 = i1
  i2 = i2
  i3 = i3
  i4 = i4
  Runs = {r1, r2, b1, j1}
  Sessions = {s1}
  SessionOf <- SessionTable
  ParentOf <- ParentTable
  Held = {r1}
  Attempts = {b1}
  Contextual = {r1, r2, b1, j1}
  Keys = {i1, i2, i3, i4}
  OwnerOf <- OwnerTable
  Inputs = {i1, i2, i3, i4}
  Collectors = {g1}
  None = None
  Batch = 1
  Workloads <- WorkloadSet
  MaxFaults = 1
INVARIANTS RootsKeepOriginals
PROPERTIES LateBytesRemoved KeptForACause
CHECK_DEADLOCK FALSE
