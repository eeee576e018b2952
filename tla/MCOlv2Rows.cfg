SPECIFICATION Spec
CONSTANTS
  None = None
  Ids = {1, 2}
  TracksAt <- MCTracksAt
  Half = 2
  Batch = 2
  Lag = 3
  Expiry = 1
  RateWindow = 1
  MaxTrail = 3
  Period = 3
  MaxNow = 3
  MaxFrames = 4
  MaxReceived = 1
INVARIANTS TrailHasRow
CHECK_DEADLOCK FALSE
