SPECIFICATION FairSpec
CONSTANTS
  Id <- MCId
  Source <- MCSource
  Cell <- MCCell
  Record <- MCRecord
  WindowDays = 2
  Retention <- MCRetention
  MaxFaults = 1
INVARIANTS
  DerivedFresh
PROPERTIES
  LossOnlyByPolicy
  RetentionToTheDay
  MarkerHonoured
