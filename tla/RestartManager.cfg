CONSTANTS
  p1 = p1
  p2 = p2
  t1 = t1
  t2 = t2
  Callers = {p1, p2}
  Timers = {t1, t2}
  Nobody = nobody
  Restart = restart
SPECIFICATION FairSpec
INVARIANTS
  SleepersAreOwed
PROPERTIES
  ReturnsWithRestart
  OwnershipSpec
  OwnershipEnds
  CancelledCallReturns
