SPECIFICATION FairSpec
CONSTANTS
  Rows = {m1, m2}
  Dispatchers = {d1, d2}
  BatchSize = 2
  MaxLapses = 1
  MaxFailures = 2
INVARIANTS DuplicatesExplained LastClaimHolds
PROPERTIES RowsDelivered
CHECK_DEADLOCK FALSE
