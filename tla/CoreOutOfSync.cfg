CONSTANTS
  s1 = s1
  s2 = s2
  a = a
  b = b
  Savers = {s1, s2}
  Tags = {a, b}
  FirstTag = a
  Boot = boot
  Health = health
  Operator = operator
  Admin = admin
  App = app
  Nobody = nobody
  Restart = restart
  Absent = absent
  MaxRequests = 0
  MaxFaults = 0
SPECIFICATION Spec
INVARIANTS
  CoreMatchesCommitted
