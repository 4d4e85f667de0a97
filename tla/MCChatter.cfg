SPECIFICATION ChatterFairSpec
CONSTANTS
  monitor = monitor
  partisan = partisan
  liveuamap = liveuamap
  other = other
  Channels <- MCChannels
  ClassOfChannel <- MCClassOf
  Firehose = firehose
  Unspecified = unspecified
  WindowSecs = 2
  FirstLimit = 2
  CycleLimit = 1
  MaxTime = 4
  MaxPosts = 3
  MaxFaults = 1
INVARIANTS
  NeverOvercounts
PROPERTIES
  EveryWindowOut
