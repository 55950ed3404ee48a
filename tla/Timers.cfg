SPECIFICATION FairSpec
CONSTANTS
  t1 = t1
  t2 = t2
  t3 = t3
  s1 = s1
  s2 = s2
  Timers = {t1, t2, t3}
  Dispatchers = {d1, d2}
  Streams = {s1, s2}
  StreamOf <- TwoStreams
  Malformed = {t3}
  Nobody = Nobody
  BatchSize = 2
  MaxRollbacks = 2
INVARIANTS NoTimerOutlivesEvent
PROPERTIES ImplementsEffectOnce TimersEnd EventsCommit
CHECK_DEADLOCK FALSE
