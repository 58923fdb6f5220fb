CONSTANTS
  api1 = api1
  s1 = s1
  q1 = q1
  q2 = q2
  Api <- OneApi
  Start <- OneStart
  Req <- TwoReqs
  MaxResponses = 1
  RedisMayFail = FALSE
SPECIFICATION Spec
INVARIANTS
  InvalidationTakesEffect
