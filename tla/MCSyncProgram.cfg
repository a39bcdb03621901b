CONSTANTS
  p1 = p1
  p2 = p2
  c1 = c1
  NoOwner = NoOwner
  Producers <- MCProducers
  Consumers <- MCConsumers
  SyncCount = 2
  Timed <- MCProducers
  MutexTimed = FALSE
  MaxSends = 2
  MaxUnlocks = 1
  MaxClears = 1
  MaxStops = 1
  MaxCrashes = 1
  MaxStarts = 1
SPECIFICATION Spec
SYMMETRY SenderSymmetry
INVARIANTS MutualExclusion TokenBalance PacketBalance
PROPERTIES AnswerIsTrue ChannelSpec
CHECK_DEADLOCK FALSE
