SPECIFICATION WorkerFairSpec
CONSTANTS
  Step = 3
  Lag = 1
  FeedLag = 1
  BackoffBase = 2
  BackoffCap = 3
  RetryAfter = {{2}}
  From = 0
  BackfillMax = 2
  Quiet <- MCQuiet
  Lacking <- MCLacking
  MaxTime = 7
  MaxFaults = 1
INVARIANTS
  LedgerHonest
  TwiceOnlyInFlight
PROPERTIES
  GapsFill
  CatchesUp
