SPECIFICATION FairSpec
CONSTANTS
  c1 = c1
  c2 = c2
  Coroutine <- TwoCoroutines
  MaxQueue = 2
INVARIANTS TypeOK LockedIsSuspended NoneForgotten
PROPERTIES ImplementsWakeups
CHECK_DEADLOCK FALSE
