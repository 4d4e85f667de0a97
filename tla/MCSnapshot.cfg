SPECIFICATION Spec
CONSTANTS
  MaxTime = 4
  MaxRev = 3
  Keep <- MCKeep
  Span = 1
  MaxCrashes = 1
  MaxSetBack = 1
INVARIANTS
  LatestResolves
  ReadsWhole
  NotModifiedHonest
