SPECIFICATION Spec
CONSTANTS
  None = None
  Ids = {1, 2}
  Entities = {1, 2}
  Sat = 1
  Fold <- MCFold
  Frame <- MCFrame
  Faults <- NoFaults
  TsHalf = 2
  Half = 2
  Lag = 6
  Expiry = 1
  RateWindow = 1
  MaxTrail = 1
  Period = 1
  MaxNow = 1
  MaxSent = 4
  MaxReceived = 3
  Null = Null
  Absent = Absent
  NotJson = NotJson
  Rejected = Rejected
  Nan = Nan
  Coords <- MCCoords
  Printed <- MCPrinted
INVARIANTS FramesReadable
CHECK_DEADLOCK FALSE
