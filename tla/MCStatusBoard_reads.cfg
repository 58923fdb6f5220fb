CONSTANTS
  a1 = a1
  a2 = a2
  Api <- TwoApis
  Code <- OneCode
  Millis <- NoTime
  DayLength = 2
  Lag = 1
  MaxDays = 2
  Limit = 1
  MaxTime = 5
  MaxResponses = 3
SPECIFICATION Spec
SYMMETRY ApiSymmetry
INVARIANTS
  TypeOK
  PagingInv
  BoardTellsTheDay
  OutagesStayVisible
  NoneSkipped
