CONSTANTS
  e1 = e1
  e2 = e2
  b1 = b1
  b2 = b2
  q1 = q1
  q2 = q2
  Unknown = Unknown
  Absent = Absent
  Email <- MCEmail
  Biz <- OneBiz
  Req <- TwoReq
  MaxRelations = 2
SYMMETRY RaceSymmetry
SPECIFICATION Spec
INVARIANTS
  TypeOK
  IInv
  AdminInv
  RegisteredHasAccess
  FoundedHasAdmin
  SomebodyIsSuperAdmin
PROPERTIES
  AccessIsKept
