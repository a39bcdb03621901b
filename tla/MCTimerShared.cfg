SPECIFICATION TimersSpec
CONSTANTS
  d1 = d1
  d2 = d2
  w1 = w1
  Decoders = {d1, d2}
  Works = {w1}
  NameOf <- OneName
  DecodingFps = {25, 30, 60}
  WorkPeriod = 20
  Second = 1000
  MinResolution = 10
  Slots = 2
INVARIANT PointersLive
CHECK_DEADLOCK FALSE
