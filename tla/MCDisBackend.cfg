SPECIFICATION Spec
CONSTANTS
  None = None
  Ids = {1, 2}
  Entities = {1, 2, 3}
  Sat = 1
  Fold <- MCFold
  Frame <- MCFrameMixed
  Faults <- SomeFaults
  TsHalf = 2
  Half = 2
  Lag = 5
  Expiry = 1
  RateWindow = 1
  MaxTrail = 1
  Period = 1
  MaxNow = 1
  MaxSent = 9
  MaxReceived = 4
VIEW DisView
INVARIANTS NeverStaleInStore SatelliteCarried FoldNamesOwner
PROPERTIES StaleJustified OrderWithinHour
CHECK_DEADLOCK FALSE
