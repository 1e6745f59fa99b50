CONSTANTS
  r1 = r1
  w1 = w1
  Workers = {r1, w1}
  Restorers = {r1}
  App = app
  Nobody = nobody
  MaxGen = 3
  MaxLeaks = 1
SPECIFICATION FairSpec
INVARIANTS
  CountsAreExact
  SwapIsAlone
  OneDatabase
  OperationKeepsItsDatabase
  CandidateIsPrivate
PROPERTIES
  DrainCompletes
CHECK_DEADLOCK FALSE
