SPECIFICATION FairSpec
CONSTANTS
  Day <- MCDay
  MaxCalls = 3
  MaxQueue = 4
  MaxFaults = 3
INVARIANTS
  OnePaidCall
  ShownUnderItsHeading
PROPERTIES
  PaidCallCached
