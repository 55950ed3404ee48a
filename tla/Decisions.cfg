SPECIFICATION FairSpec
CONSTANTS
  k1 = k1
  k2 = k2
  Runs = {r1}
  Workers = {k1, k2}
  Supports <- AllSupport
  None = None
  MaxAttempts = 2
  MaxEvents = 3
  MaxClock = 1
  MaxErrors = 3
  MaxFaults = 1
INVARIANTS NoLostWakeup
PROPERTIES BlockedStays DecisionsTaken
CHECK_DEADLOCK FALSE
