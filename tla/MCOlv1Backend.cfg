SPECIFICATION FairSpec
CONSTANTS
  a = a
  b = b
  None = None
  Ids <- MCIds
  RowsOf <- MCRowsOf
  Half = 2
  Lag = 2
  Expiry = 1
  RateWindow = 1
  MaxTrail = 1
  Period = 1
  MaxNow = 2
  MaxSent = 6
  MaxReceived = 4
INVARIANTS StatsBalanced PublishedIsOneState
PROPERTIES SnapshotFresh RateExact AcceptInOrder StaleJustified FeedLive
CHECK_DEADLOCK FALSE
