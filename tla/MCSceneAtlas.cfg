SPECIFICATION Spec
CONSTANTS
  None = None
  Ids = {1, 2, 3}
  Categories <- MCCategories
  SatId = 1
  SatKey = SatKey
  TRAIL_CAP = 2
  SERVER_TRAIL_CAP = 2
  PruneAfter = 1
  MAX_OBJECTS = 2
  Places = {0, 3}
  PITCH_LIMIT = 1
  MinDistance = 1
  MaxDistance = 2
  PICK_DRAG_THRESHOLD_PX = 1
  Stacks = 64
  Slices = 96
  Messages <- MCMessages
  Settings <- MCSettings
  MaxSeconds = 2
  DefaultSeconds = 1
  LabelCap = 1
  Sizes = {"wide"}
  Dprs = {1, 4}
  ImageSizes <- MCImageSizes
  GlMax = 1024
  Hidden <- MCHidden
  Projects <- MCProjects
  BodyAt <- MCBodyAt
  WallClock = 9
  ServerClock = 4
  MaxDelay = 1
  MaxNow = 0
  MaxStates = 1
  MaxActs = 0
INVARIANTS AtlasIsPot
CHECK_DEADLOCK FALSE
