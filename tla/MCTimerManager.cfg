\* The program with the one name all its decoders use.
SPECIFICATION TimersFairSpec
CONSTANTS
  d1 = d1
  d2 = d2
  w1 = w1
  Decoders = {d1, d2}
  Works = {w1}
  NameOf <- OneName
  DecodingFps = {25, 30, 60}
  WorkPeriod = 20
  Second = 1000
  MinResolution = 10
  Slots = 2
INVARIANTS ListsHaveTimers SlotsSuffice
PROPERTIES WaitReturns
\* The program ends when a decoder uses a locker that was deleted.
CHECK_DEADLOCK FALSE
