CONSTANTS
  o1 = o1
  o2 = o2
  Operations = {o1, o2}
  Genesis = genesis
  None = none
  MaxCrashes = 0
  MaxFaults = 0
SPECIFICATION Spec
INVARIANTS
  OperationsDoNotShareFences
