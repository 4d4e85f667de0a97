SPECIFICATION TilesFairSpec
CONSTANTS
  Tile <- MCTile
  View <- MCView
  Outcome <- MCOutcome
  Cap = 2
  Uploads = 1
  Fetches = 2
  QueueBound = 2
PROPERTIES
  BacksOff
  FillsIn
  RequestRevives
