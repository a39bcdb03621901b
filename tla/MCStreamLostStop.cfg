\* A stop that races with an opening thread is lost.
CONSTANTS
  Prompt = FALSE
  MaxReloads = 1
  MaxOutages = 0
  MaxByes = 0
  MaxExpiries = 0
  MaxFailures = 0
SPECIFICATION FairSpec
PROPERTY DeactivateReturns
CHECK_DEADLOCK FALSE
