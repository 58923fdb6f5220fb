CONSTANTS
  a1 = a1
  a2 = a2
  bad = bad
  r1 = r1
  r2 = r2
  Api <- GoodAndBad
  Undecodable <- OneBad
  Run <- TwoRuns
  Code <- OneCode
SPECIFICATION FairSpec
INVARIANTS
  TypeOK
  SweepComplete
PROPERTIES
  LedgerSpec
  EveryRunSettles
  DrainEnds
