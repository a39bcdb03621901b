CONSTANTS
  first = first
  second = second
  client = client
  other = other
  Cameras <- MCCameras
  Clients <- OneClient
  Capacity = 5
  Wrap = 16
  Lens = {2}
  SyncCount = 2
  MaxStarts = 4
  MaxCrashes = 1
  MaxFailures = 1
  MaxSends = 3
  MaxKeys = 1
SPECIFICATION Spec
PROPERTY FreshMeansEmpty
CHECK_DEADLOCK FALSE
