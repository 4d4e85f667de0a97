SPECIFICATION Spec
CONSTANTS
  Hash <- MCHash
  KnownCountries <- MCKnown
  NumericCountries <- MCNumeric
  HighSignal <- MCHighSignal
  Features <- MCFeatures
  IsoNumber <- MCIsoNumber
  WindowHours = 1
  Answers <- MCAnswers
  Models <- MCModels
  Windows <- MCWindows
  WindowDays = 2
  MinBaselineDays = 1
  HaloThreshold = 60
  HaloMaxCells = 2
  MoversLimit = 2
  MaxPointRows = 3
  MaxDetailRows = 6
  MaxSourceLinks = 3
  MaxHeadlineRows = 3
  MaxPlaces = 2
  MaxHeadlines = 2
  MaxNotable = 2
  MaxPolls = 3
  MaxDigests = 1
  ApiPageSize = 2
  StaleAfter = 1
  AllowAcled = FALSE
  AcledPageLimit = 2
  AcledMaxPages = 3
  ExpirySlack = 1
INVARIANTS
  PublicPagesAgree
  AnswerAccounted
  PostsCountOnce
  CountsApart
  NothingWithheldLeaves
  WindowsAgree
  ScoresStayWhole
CHECK_DEADLOCK FALSE
