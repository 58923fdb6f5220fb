CONSTANTS
  a1 = a1
  a2 = a2
  Api <- OneApi
  Code <- OneCode
  Millis <- NoTime
  DayLength = 2
  Lag = 1
  MaxDays = 2
  Limit = 2
  MaxTime = 5
  MaxResponses = 3
SPECIFICATION Spec

INVARIANTS
  NewestDayIsShown
