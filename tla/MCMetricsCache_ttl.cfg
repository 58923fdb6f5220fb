CONSTANTS
  api1 = api1
  s1 = s1
  q1 = q1
  q2 = q2
  Api <- OneApi
  Start <- OneStart
  Req <- TwoReqs
  MaxResponses = 2
  RedisMayFail = TRUE
SPECIFICATION Spec
INVARIANTS
  TypeOK
  IInv
  LongLivedEntriesAreFinal
PROPERTIES
  HistoryIsExact
