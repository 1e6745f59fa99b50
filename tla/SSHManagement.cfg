CONSTANTS
  o1 = o1
  o2 = o2
  Operations = {o1, o2}
  Genesis = genesis
  None = none
  MaxCrashes = 1
  MaxFaults = 2
SPECIFICATION FairSpec
INVARIANTS
  HostChangeIsOwned
  OneOperationActive
  SettledHostRunsPolicy
PROPERTIES
  CommitIsProvenInTime
  UnconfirmedIsResolved
