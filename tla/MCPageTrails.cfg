SPECIFICATION Spec
CONSTANTS
  None = None
  Ids <- MCIds
  Categories <- MCCategories
  SatId = 2
  SatKey = SatKey
  TRAIL_CAP = 2
  SERVER_TRAIL_CAP = 3
  PruneAfter = 1
  MAX_OBJECTS = 2
  Hosts <- MCHosts
  OwnHost = "own"
  MaxSeconds = 2
  ListCap = 1
  StaleAfter = 1
  MessagesOf <- MCMessagesOf
  Stored <- MCStored
  Sites <- MCSites
  Patches <- MCPatches
  MaxNow = 4
  LastFrame = 2
  MaxFrames = 3
  MaxActs = 1
INVARIANTS FedOnlyFromPoints
CHECK_DEADLOCK FALSE
