\* Every kind of event once at least, reloads that overlap with checks among
\* them; the stops do not race with starting threads (MCStreamLostStop has those).
CONSTANTS
  Prompt = TRUE
  MaxReloads = 2
  MaxOutages = 2
  MaxByes = 1
  MaxExpiries = 1
  MaxFailures = 1
SPECIFICATION FairSpec
INVARIANTS StoppedAtRest ActiveHasThreads FaultsTakeOverlap
PROPERTIES DeactivateReturns StreamRecovers
CHECK_DEADLOCK FALSE
