CONSTANTS
  first = first
  second = second
  client = client
  other = other
  Cameras <- MCCameras
  Clients <- MCClients
  Capacity = 5
  Wrap = 16
  Lens = {2}
  SyncCount = 2
  MaxStarts = 3
  MaxCrashes = 1
  MaxFailures = 1
  MaxSends = 3
  MaxKeys = 1
SPECIFICATION FairSpec
INVARIANTS OneCamera RingSound
PROPERTY SetEndsAll
CHECK_DEADLOCK FALSE
