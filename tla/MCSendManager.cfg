SPECIFICATION FairSpec
CONSTANTS
  Clients = {"a", "b"}
  Streams = {"s0"}
  NoStream = "no stream"
  SyncCount = 1
  MaxEvents = 4
INVARIANTS OneSender SendsToSubscriber OneWorkerPerClient QuietAtEnd
PROPERTIES SendEnds ShutdownEnds
CHECK_DEADLOCK FALSE
