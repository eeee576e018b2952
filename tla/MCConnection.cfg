SPECIFICATION ConnectionFairSpec
CONSTANTS
  None = None
  good = good
  other = other
  bad = bad
  s1 = s1
  s2 = s2
  s3 = s3
  Endpoints <- MCEndpoints
  BadEndpoints <- MCBad
  Sockets <- MCSockets
  MaxErrors = 1
  Null = Null
  Absent = Absent
  NotJson = NotJson
  Rejected = Rejected
  Nan = Nan
  Printed <- MCPrinted
INVARIANTS OneThingPending OneLiveSocket StatusTruthful
PROPERTIES ShownIsCurrent BackoffDoubles Reconnects
CHECK_DEADLOCK FALSE
