SPECIFICATION FairSpec
CONSTANTS
  c1 = c1
  c2 = c2
  Clients <- MCClients
  MaxQueued = 2
  MaxTicks = 3
CHECK_DEADLOCK FALSE
INVARIANTS InFlightPreserved RegistryExact HandedInOrder QueueIsNewest LossIsWarned
PROPERTIES ClosedIsFreed FeedsLive
