CONSTANTS
  r1 = r1
  r2 = r2
  genesis = genesis
  d1 = d1
  Restores = {r1, r2}
  Databases = {genesis, d1}
  Genesis = genesis
  CarriedStates = {"RESTORING", "APPLIED"}
  None = none
  Partial = partial
  MaxFaults = 3
SPECIFICATION FairSpec
INVARIANTS
  AcceptedSurvives
  ServedIsAccepted
  AppliedRowIsTruthful
  RefusesOnlyHalfRollback
PROPERTIES
  AtomicSpec
  StartupCompletes
