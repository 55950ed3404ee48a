SPECIFICATION FairProjectionSpec
CONSTANTS
  Runs = {r1, r2}
  Appenders = {a1, a2}
  Projectors = {k1, k2}
  Rebuilder = rebuilder
  EventLimit = 1
  Threshold = 2
  MaxPosition = 2
  MaxFaults = 3
  MaxRecoveries = 1
INVARIANTS ProjectionIsPrefix NoticeOnceUnlessRebuilt
PROPERTIES EventsProjected
CHECK_DEADLOCK FALSE
