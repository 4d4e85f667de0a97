SPECIFICATION FairSpec
CONSTANTS
  Row <- MCRow
  Op <- MCOp
  MaxCalls = 3
  MaxFaults = 2
INVARIANTS
  OpenedIsCurrent
  StuckExactlyMidV4
PROPERTIES
  Implements
  EveryCallAnswered
