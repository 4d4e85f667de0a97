SPECIFICATION FairSpec
CHECK_DEADLOCK FALSE
CONSTANTS
  Provider <- MCProvider
  Rank <- MCRank
  Answers <- MCAnswers
  Query <- MCQuery
  MaxTerms = 6
  HitLimit = 2
  MaxSearches = 2
  MaxClears = 1
INVARIANTS
  ListComplete
  HonestEmpty
  PageAgrees
PROPERTIES
  SpinnerClears
