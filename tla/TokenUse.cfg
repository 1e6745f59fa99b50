CONSTANTS
  Tokens = {t1}
  Requests = {q1, q2}
  Flushers = {f1, f2}
  Stopper = stopper
  None = none
  MaxUses = 2
  MaxStops = 1
  MaxRestores = 1
  MaxFaults = 1
SPECIFICATION FairSpec
INVARIANTS
  PendingIsScheduled
  NoUseLost
  OldUseNeverReachesCandidate
PROPERTIES
  RecordedUseIsWritten
CHECK_DEADLOCK FALSE
