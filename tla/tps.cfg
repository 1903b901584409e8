SPECIFICATION FairSpec
CONSTANTS
  Limit = 3
  Factors <- MCFactors
  Concurrent = 2
  Others = TRUE
  RequestsFail = TRUE
  Width = 16
  MaxUnread = 2
INVARIANTS
  BatchesCoverSent
  RateSurvives
  AllButOneReceived
  OwnEventsLag
PROPERTIES
  RequestsMadeOnce
  BenchmarkEnds
CHECK_DEADLOCK FALSE
