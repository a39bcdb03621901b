SPECIFICATION FairSpec
CONSTANTS
  Works = {"CHECK_STREAM_0", "CHECK_STREAM_1"}
  MaxQueue = 3
  MaxTicks = 3
  MaxStarts = 2
INVARIANTS WakeUpPending StopLeavesOnlyLate
PROPERTIES QueueDrains DeactivateReturns
CHECK_DEADLOCK FALSE
