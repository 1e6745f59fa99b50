CONSTANTS
  r1 = r1
  genesis = genesis
  d1 = d1
  Restores = {r1}
  Databases = {genesis, d1}
  Genesis = genesis
  CarriedStates = {"RESTORING", "APPLIED"}
  None = none
  Partial = partial
  MaxFaults = 2
SPECIFICATION Spec
INVARIANTS
  RecoverAlwaysReconciles
