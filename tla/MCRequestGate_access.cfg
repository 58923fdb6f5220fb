CONSTANTS
  e1 = e1
  e2 = e2
  b1 = b1
  q1 = q1
  Unknown = Unknown
  Absent = Absent
  Email <- TwoEmails
  Biz <- OneBiz
  Req <- OneReq
  MaxRelations = 2
  Route <- AllRoutes
SYMMETRY EmailSymmetry
SPECIFICATION GateSpec
INVARIANTS
  GateTypeOK
  AccessInv
  ServedHasAccess
  RefusalHasCause
  ApiHasAdmin
