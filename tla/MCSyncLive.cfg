CONSTANTS
  p1 = p1
  p2 = p2
  c1 = c1
  NoOwner = NoOwner
  Producers <- MCProducers
  Consumers <- MCConsumers
  SyncCount = 1
  Timed <- OneTimed
  MutexTimed = FALSE
  MaxSends = 2
  MaxUnlocks = 0
  MaxClears = 0
  MaxStops = 1
  MaxCrashes = 1
  MaxStarts = 0
SPECIFICATION FairSpec
PROPERTIES EveryPacketArrives SendReturns WorkerStops
CHECK_DEADLOCK FALSE
