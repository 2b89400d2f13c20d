SPECIFICATION Spec
CONSTANTS
  s1 = s1  s2 = s2  a1 = a1  a2 = a2  c1 = c1  c2 = c2  none = none

  Servers <- MCServers
  Apps <- MCApps
  Conns <- MCConns
  MaxStarts = 2
  MaxRequests = 2
  MaxSaves = 2
  OthersFrom = 1
  Null <- none
INVARIANTS
  TypeOK KnowsTheVersion Reachable
PROPERTIES
  EndsForCause Answered
CHECK_DEADLOCK FALSE
