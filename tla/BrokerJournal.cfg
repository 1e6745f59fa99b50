CONSTANTS
  Requests <- SomeRequests
  MaxRows = 5
  MaxCrashes = 2
  MaxFaults = 2
  Absent = absent
SPECIFICATION Spec
INVARIANTS
  StagedResultSurvives
  ConfirmedStaysComplete
  StaysReadable
PROPERTIES
  AuthoritySpec
CHECK_DEADLOCK FALSE
