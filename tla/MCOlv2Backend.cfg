SPECIFICATION FairSpec
CONSTANTS
  None = None
  Ids = {1, 2}
  TracksAt <- MCTracksAt
  Half = 2
  Batch = 2
  Lag = 3
  Expiry = 1
  RateWindow = 1
  MaxTrail = 3
  Period = 1
  MaxNow = 1
  MaxFrames = 4
  MaxReceived = 3
INVARIANTS TrailReported SatelliteIsNewest TrailEndsAtRow
PROPERTIES StaleJustified FeedLive
CHECK_DEADLOCK FALSE
