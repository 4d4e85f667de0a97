SPECIFICATION FairSpec
CHECK_DEADLOCK FALSE
CONSTANTS
  Source <- MCSource
  Gdelt = "gdelt"
  Stream = "bluesky"
  Available <- MCAvailable
  SavedOff <- MCSavedOff
  MaxClicks = 2
  MaxRx = 0
  MaxBatches = 2
INVARIANTS
  SwitchesSettle
  InOrderOnce
PROPERTIES
  KeepsPolling
