CONSTANTS
  MaxDocs = 4
  MaxWidth = 3
  MaxN = 90
  Durations = {0, 250, 4999}
  Jobs <- MCJobs
  CommandLines <- MCCommandLines
  Retries <- MCRetries
  Pauses = {0, 1, 4}
  None = None
  Nothing = Nothing
SPECIFICATION EitherScript
INVARIANTS
  TypeOK
  BatchesStayAligned
  EveryDocAnswered
  FasterNeverRanksLower
  LandingMatchesTable
  ReportIsTrue
