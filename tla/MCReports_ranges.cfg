CONSTANTS
  a1 = a1
  Api <- OneApi
  Code <- TwoCodes
  Millis <- TwoTimes
  DayLength = 2
  Lag = 1
  MaxDays = 2
  Limit = 1
  MaxTime = 5
  MaxResponses = 3
  Year = 2
  DayMinutes = 10
SPECIFICATION Growth
INVARIANTS
  EveryResponseCountsOnce
  OutageIsReported
  TimesAgree
  DowntimeIsBounded
  RangeFitsAYear
PROPERTIES
  ReportsSettle
CHECK_DEADLOCK FALSE
