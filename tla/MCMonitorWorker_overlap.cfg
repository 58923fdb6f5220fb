CONSTANTS
  a1 = a1
  a2 = a2
  bad = bad
  r1 = r1
  r2 = r2
  Api <- TwoGood
  Undecodable <- NoneBad
  Run <- TwoRuns
  Code <- OneCode
SYMMETRY OverlapSymmetry
SPECIFICATION Spec
INVARIANTS
  IInv
  AnsweredMeansRecorded
  AtMostOneResponse
PROPERTIES
  OverRunIsQuiet
