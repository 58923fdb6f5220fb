------------------------- MODULE RequestGateProofs -------------------------
(***************************************************************************)
(* Proofs about RequestGate, for any number of people, businesses and      *)
(* requests of Membership beside the one that is followed.                 *)
(***************************************************************************)
EXTENDS RequestGate, MembershipProofs

\* A step of the requests is one of Membership.
LEMMA RequestsStep == MembershipStep => [Next]_vars /\ UNCHANGED visit
  BY DEF MembershipStep, Next, SignsIn

\* Every step of the gate is one of Membership, or leaves it alone.
LEMMA GateStep == [GateNext]_gateVars => [Next]_vars
  BY RequestsStep
     DEF GateNext, gateVars, Expire, Login, FindLogin, ComparePassword, Arrive,
         FindVisitor, RolesGuard, Unavailable, FetchApiStatus, ListBusinessApis,
         CreateApi, Logout, Answered

\* What a visit can be.
LEMMA VisitShape ==
  ASSUME GateTypeOK
  PROVE  \/ visit = Away
         \/ visit \in [route : DOMAIN Required, by : Holder, biz : BizId,
                       had : Nat,
                       at : {"user", "role", "unauthorized", "forbidden"}]
         \/ visit \in [route : DOMAIN Required, by : Holder, biz : BizId,
                       had : Nat, used : BizId, at : {"handler", "created"}]
         \/ visit \in [route : Excluded, by : Email, at : {"find", "compare"}]
  BY DEF GateTypeOK, Visit

LEMMA Routes ==
  /\ DOMAIN Required = {"view", "create", "logout"}
  /\ Required["view"] = Role
  /\ Required["create"] = {"superAdmin"} /\ Required["logout"] = {}
  /\ Role # {} /\ {"superAdmin"} # {}
  BY DEF Required, Role

\* A visit goes on to a place of its route.
LEMMA StepVisit ==
  ASSUME GateTypeOK, NEW at, Step(at),
         \/ /\ visit.at \in {"user", "role"}
            /\ at \in {"role", "unauthorized", "forbidden"}
         \/ visit.at = "handler" /\ at = "created"
  PROVE  /\ visit' \in Visit /\ visit'.at = at /\ visit'.by = visit.by
         /\ visit # Away /\ visit' # Away
         /\ visit'.route = visit.route /\ visit.route \in DOMAIN Required
         /\ visit'.biz = visit.biz /\ visit'.had = visit.had
<1>1. CASE visit.at \in {"user", "role"} /\ at \in {"role", "unauthorized", "forbidden"}
  BY <1>1, VisitShape DEF Step, Visit, Away
<1>2. CASE visit.at = "handler" /\ at = "created"
  BY <1>2, VisitShape DEF Step, Visit, Away
<1> QED
  BY <1>1, <1>2

\* A visit comes to its handler.
LEMMA PassVisit ==
  ASSUME GateTypeOK, NEW had \in Nat, Pass(had), visit.at \in {"user", "role"}
  PROVE  /\ visit' \in Visit /\ visit'.at = "handler" /\ visit'.by = visit.by
         /\ visit # Away /\ visit' # Away
         /\ visit'.route = visit.route /\ visit.route \in DOMAIN Required
         /\ visit'.biz = visit.biz /\ visit'.had = had
<1>1. SomeBiz \subseteq BizId
  BY DEF SomeBiz, BizId, GateTypeOK, TypeOK
<1>2. /\ visit # Away /\ visit.route \in DOMAIN Required
      /\ visit.by \in Holder /\ visit.biz \in BizId
  BY VisitShape DEF Away
<1> QED
  BY <1>1, <1>2 DEF Pass, Visit, Away

\* The place of the relation that gives access.
LEMMA AccessFinds ==
  ASSUME TypeOK, NEW h, NEW b
  PROVE  /\ Access(h, b) \in Nat
         /\ Access(h, b) # 0 => Finds(Access(h, b), h, b)
         /\ h # Absent /\ HasRole(h, b, Role) => Access(h, b) # 0
<1>1. CASE h # Absent /\ HasRole(h, b, Role)
  <2>1. \E i \in DOMAIN relations : Finds(i, h, b)
    BY <1>1 DEF HasRole
  <2>2. /\ Access(h, b) \in DOMAIN relations
        /\ Finds(Access(h, b), h, b)
    BY <1>1, <2>1 DEF Access
  <2> QED
    BY <2>2, RelationsType
<1>2. CASE ~ (h # Absent /\ HasRole(h, b, Role))
  BY <1>2 DEF Access
<1> QED
  BY <1>1, <1>2
-----------------------------------------------------------------------------
(* GateInv is inductive, whatever bodies name.                             *)

LEMMA GateInitInvariant == GateInit => IInv /\ GateInv
<1> SUFFICES ASSUME GateInit PROVE IInv /\ GateInv
  OBVIOUS
<1>1. IInv
  BY InitInvariant DEF GateInit
<1>2. GateInv
  BY <1>1 DEF GateInit, Init, GateInv, GateTypeOK, Visit, Away, VisitorExists,
              IInv
<1> QED
  BY <1>1, <1>2

\* A cookie is set for an account that is there, or for none: a registration
\* comes to its link with one, a sign-in finds or makes one.
LEMMA MembershipStepInvariant ==
  ASSUME IInv, GateInv, MembershipStep
  PROVE  GateInv'
<1>1. TypeOK' /\ users \subseteq users'
  BY NextInvariant, RequestsStep, StepKeeps DEF IInv
<1>2. \/ UNCHANGED jar
      \/ \E h \in {u.email : u \in users'} \union {Absent} : jar' = {h}
  <2>1. ASSUME NEW q \in Req, Link(q), SetCookie(req[q].user.email)
        PROVE  \/ UNCHANGED jar
               \/ \E h \in {u.email : u \in users'} \union {Absent} : jar' = {h}
    BY <1>1, <2>1 DEF SetCookie, Link, IInv, LinkHasUser, Exists
  <2>2. ASSUME NEW q \in Req, FindUser(q), SignInCookie(q, req[q].user.email)
        PROVE  \/ UNCHANGED jar
               \/ \E h \in {u.email : u \in users'} \union {Absent} : jar' = {h}
    <3>1. CASE Exists(req[q].user.email)
      BY <1>1, <2>2, <3>1 DEF SignInCookie, SetCookie, Exists
    <3>2. CASE ~ Exists(req[q].user.email)
      <4>1. Go(q, "create")
        BY <2>2, <3>2 DEF FindUser
      <4>2. req'[q].at = "create" /\ Idle.op = "none"
            /\ req'[q].op = req[q].op
        BY <4>1, <2>2, RequestShape
           DEF Go, Idle, IInv, TypeOK, FindUser, Creating
      <4>3. req'[q] # Idle
        BY <4>2, <2>2 DEF FindUser, Creating
      <4> QED
        BY <2>2, <4>3 DEF SignInCookie
    <3> QED
      BY <3>1, <3>2
  <2>3. ASSUME NEW q \in Req, InsertUser(q), SignInCookie(q, req[q].user.email)
        PROVE  \/ UNCHANGED jar
               \/ \E h \in {u.email : u \in users'} \union {Absent} : jar' = {h}
    BY <2>3 DEF SignInCookie, SetCookie, InsertUser
  <2>4. ASSUME NEW q \in Req, SignInCookie(q, Absent)
        PROVE  UNCHANGED jar \/ jar' = {Absent}
    BY <2>4 DEF SignInCookie, SetCookie
  <2> QED
    BY <2>1, <2>2, <2>3, <2>4 DEF MembershipStep
<1>3. /\ jar' \subseteq {u.email : u \in users'} \union {Absent}
      /\ \A g, h \in jar' : g = h
  BY <1>1, <1>2 DEF GateInv, GateTypeOK
<1> QED
  BY <1>1, <1>3 DEF MembershipStep, GateInv, GateTypeOK, VisitorExists, Exists

\* Steps of sessions and of the visit leave Membership alone.
LEMMA VisitStep ==
  ASSUME GateInv, UNCHANGED vars,
         jar' \subseteq {u.email : u \in users} \union {Absent},
         \A g, h \in jar' : g = h, visit' \in Visit,
         visit'.at = "user" => visit'.by = Absent \/ Exists(visit'.by),
         visit'.at \in {"role", "handler", "created", "compare"}
           => Exists(visit'.by)
  PROVE  GateInv'
<1>1. TypeOK'
  BY DEF vars, GateInv, GateTypeOK, TypeOK
<1> QED
  BY <1>1 DEF vars, GateInv, GateTypeOK, VisitorExists, Exists

LEMMA LeaveStep ==
  ASSUME GateInv, Leave, UNCHANGED vars,
         jar' \subseteq {u.email : u \in users} \union {Absent},
         \A g, h \in jar' : g = h
  PROVE  GateInv'
<1>1. Away \in Visit /\ Away.at = "away"
  BY DEF Visit, Away
<1> QED
  BY <1>1, VisitStep DEF Leave

\* A login ends in the cookie of the account it found.
LEMMA SessionInvariant ==
  ASSUME GateInv, Expire \/ Login \/ FindLogin \/ ComparePassword
  PROVE  GateInv'
<1>1. CASE Expire
  BY <1>1, VisitStep DEF Expire, GateInv, GateTypeOK, VisitorExists
<1>2. CASE Login
  BY <1>2, VisitStep DEF Login, GateInv, GateTypeOK, Visit
<1>3. CASE FindLogin /\ Step("compare")
  <2>1. visit' \in Visit /\ visit'.by = visit.by /\ visit'.at = "compare"
    BY <1>3, VisitShape DEF FindLogin, Step, GateInv, Away, Visit
  <2>2. Exists(visit.by)
    <3>1. visit' # Away
      BY <2>1 DEF Away
    <3> QED
      BY <1>3, <3>1 DEF FindLogin, Leave, Exists
  <2> QED
    BY <1>3, <2>1, <2>2, VisitStep DEF FindLogin, GateInv, GateTypeOK
<1>4. CASE FindLogin /\ Leave
  BY <1>4, LeaveStep DEF FindLogin, GateInv, GateTypeOK
<1>5. CASE ComparePassword
  <2>1. Exists(visit.by)
    BY <1>5 DEF ComparePassword, GateInv, VisitorExists
  <2> QED
    BY <1>5, <2>1, LeaveStep DEF ComparePassword, GateInv, GateTypeOK, Exists
<1> QED
  BY <1>1, <1>2, <1>3, <1>4, <1>5 DEF FindLogin

LEMMA WayInInvariant ==
  ASSUME GateInv, Arrive \/ FindVisitor \/ RolesGuard \/ Unavailable
  PROVE  GateInv'
<1>1. CASE Arrive
  <2>1. PICK route \in DOMAIN Required, h \in jar, b \in SomeBiz :
          visit' = [route |-> route, by |-> h, biz |-> b, at |-> "user",
                    had |-> Access(h, b)]
    BY <1>1 DEF Arrive
  <2>2. h = Absent \/ (Exists(h) /\ h \in Email)
    BY DEF GateInv, GateTypeOK, Exists, TypeOK, User
  <2>3. visit' \in Visit
    <3>1. Access(h, b) \in Nat
      BY AccessFinds DEF GateInv, GateTypeOK
    <3>2. b \in BizId
      BY DEF SomeBiz, BizId, GateInv, GateTypeOK, TypeOK
    <3> QED
      BY <2>1, <2>2, <3>1, <3>2 DEF Visit, Holder
  <2> QED
    BY <1>1, <2>1, <2>2, <2>3, VisitStep DEF Arrive, GateInv, GateTypeOK
<1>2. CASE FindVisitor
  <2>1. CASE Step("unauthorized") \/ (Step("role") /\ Exists(visit.by))
    BY <1>2, <2>1, StepVisit, VisitStep DEF FindVisitor, GateInv, GateTypeOK
  <2>2. CASE Pass(visit.had) /\ Exists(visit.by)
    <3>1. visit.had \in Nat
      BY <1>2, VisitShape DEF FindVisitor, GateInv, Away
    <3> QED
      BY <1>2, <2>2, <3>1, PassVisit, VisitStep
         DEF FindVisitor, GateInv, GateTypeOK
  <2> QED
    BY <1>2, <2>1, <2>2 DEF FindVisitor, Admit
<1>3. CASE RolesGuard
  <2>1. Exists(visit.by)
    BY <1>3 DEF RolesGuard, GateInv, VisitorExists
  <2>2. CASE Step("forbidden")
    BY <1>3, <2>2, StepVisit, VisitStep DEF RolesGuard, GateInv, GateTypeOK
  <2>3. CASE Pass(Access(visit.by, visit.biz))
    <3>1. Access(visit.by, visit.biz) \in Nat
      BY AccessFinds DEF GateInv, GateTypeOK
    <3> QED
      BY <1>3, <2>1, <2>3, <3>1, PassVisit, VisitStep
         DEF RolesGuard, GateInv, GateTypeOK
  <2> QED
    BY <1>3, <2>2, <2>3 DEF RolesGuard
<1>4. CASE Unavailable
  BY <1>4, LeaveStep DEF Unavailable, GateInv, GateTypeOK
<1> QED
  BY <1>1, <1>2, <1>3, <1>4

LEMMA HandlerInvariant ==
  ASSUME GateInv,
         FetchApiStatus \/ ListBusinessApis \/ CreateApi \/ Logout \/ Answered
  PROVE  GateInv'
<1>1. CASE FetchApiStatus \/ ListBusinessApis \/ Answered
  BY <1>1, LeaveStep
     DEF FetchApiStatus, ListBusinessApis, Answered, GateInv, GateTypeOK
<1>2. CASE CreateApi /\ Leave
  BY <1>2, LeaveStep DEF CreateApi, GateInv, GateTypeOK
<1>3. CASE CreateApi /\ Step("created")
  <2>1. Exists(visit.by)
    BY <1>3 DEF CreateApi, GateInv, VisitorExists
  <2> QED
    BY <1>3, <2>1, StepVisit, VisitStep DEF CreateApi, GateInv, GateTypeOK
<1>4. CASE Logout
  BY <1>4, LeaveStep DEF Logout
<1> QED
  BY <1>1, <1>2, <1>3, <1>4 DEF CreateApi

LEMMA GateNextInvariant ==
  IInv /\ GateInv /\ [GateNext]_gateVars => IInv' /\ GateInv'
<1> SUFFICES ASSUME IInv, GateInv, [GateNext]_gateVars PROVE IInv' /\ GateInv'
  OBVIOUS
<1>1. IInv'
  BY GateStep, NextInvariant
<1>2. CASE UNCHANGED gateVars
  <2>1. UNCHANGED <<jar, visit>> /\ UNCHANGED vars
    BY <1>2 DEF gateVars
  <2> QED
    BY <1>1, <2>1, VisitStep DEF GateInv, GateTypeOK, VisitorExists
<1> QED
  BY <1>1, <1>2, MembershipStepInvariant, SessionInvariant, WayInInvariant,
     HandlerInvariant DEF GateNext

\* What goes on behind the gate is what Membership says: whatever is proved of it
\* holds behind the gate.
THEOREM GateImplementsMembership == GateSpec => Spec
<1>1. GateInit => Init
  BY DEF GateInit
<1> QED
  BY <1>1, GateStep, PTL DEF GateSpec, Spec

\* A token that names a user names a stored one, and a visit that has passed
\* AuthMiddleware is a stored user's, the cookie of a sign-in that failed
\* included.
THEOREM GateInductive == GateSpec => [](IInv /\ GateInv)
<1> QED
  BY GateInitInvariant, GateNextInvariant, PTL DEF GateSpec

\* The type of the gate: a session is a stored user's or, after a sign-in that
\* failed, nobody's.
THEOREM GateTypeCorrect == GateSpec => []GateTypeOK
<1>1. GateInv => GateTypeOK
  BY DEF GateInv
<1> QED
  BY <1>1, GateInductive, PTL
-----------------------------------------------------------------------------
(* AccessInv is inductive, whatever bodies name.                           *)

\* What the way in leaves of Membership's invariants to the visit.
Trusted == IInv /\ AdminInv /\ GateInv /\ AccessInv

\* The relation n gave h access to b, and still does or was linked since.
Stands(n, h, b) ==
  n # 0 => /\ n \in DOMAIN relations /\ relations[n].biz = b
           /\ relations[n].user = h \/ Relinked(n, h)

LEMMA StandsStays ==
  ASSUME IInv, [Next]_vars
  PROVE  \A n, h, b : Stands(n, h, b) => Stands(n, h, b)'
<1> SUFFICES ASSUME NEW n, NEW h, NEW b, Stands(n, h, b), n # 0
             PROVE  /\ n \in DOMAIN relations' /\ relations'[n].biz = b
                    /\ relations'[n].user = h \/ Relinked(n, h)'
  BY DEF Stands
<1>1. n \in DOMAIN relations /\ relations[n].biz = b
  BY DEF Stands
<1>2. Kept(n) /\ registered \subseteq registered'
  BY <1>1, StepKeeps
<1>3. CASE relations[n].user = h
  BY <1>1, <1>3, RelationStep
<1>4. CASE Relinked(n, h)
  BY <1>1, <1>2, <1>4 DEF Kept, Relinked
<1> QED
  BY <1>1, <1>2, <1>3, <1>4 DEF Stands, Kept

LEMMA AccessStands ==
  ASSUME TypeOK, NEW h, NEW b
  PROVE  Stands(Access(h, b), h, b)
BY AccessFinds DEF Stands, Finds

\* A super admin who is a stored user.
LEMMA GuardFindsAdmin ==
  ASSUME NEW h, NEW b, Exists(h), HasRole(h, b, {"superAdmin"})
  PROVE  HasSuperAdmin(b)
BY DEF HasRole, Finds, HasSuperAdmin, AdminRelation

\* Requests of others leave the visit's relation standing.
LEMMA MembershipStepAccess ==
  ASSUME Trusted, MembershipStep
  PROVE  AccessInv'
<1>1. [Next]_vars /\ UNCHANGED visit
  BY RequestsStep
<1>2. HadStands'
  <2>1. OnBusiness => Stands(visit.had, visit.by, visit.biz)
    BY DEF Trusted, AccessInv, HadStands, Stands
  <2>2. OnBusiness => Stands(visit.had, visit.by, visit.biz)'
    BY <1>1, <2>1, StandsStays DEF Trusted, Stands, Relinked
  <2> QED
    BY <1>1, <2>2 DEF HadStands, OnBusiness, Stands
<1>3. ApiHasAdmin'
  <2>1. \A b : HasSuperAdmin(b) => HasSuperAdmin(b)'
    BY <1>1, AdminStays DEF Trusted
  <2> QED
    BY <1>1, <2>1
       DEF Trusted, AccessInv, ApiHasAdmin, HasSuperAdmin, AdminRelation, Exists
<1> QED
  BY <1>1, <1>2, <1>3
     DEF Trusted, AccessInv, HandlerHadAccess, GuardHasRoles, CreatedByCreate

\* Steps of the visit leave relations and users alone.
LEMMA VisitAccess ==
  ASSUME UNCHANGED vars,
         visit' # Away /\ visit'.route \in DOMAIN Required
           => Stands(visit'.had, visit'.by, visit'.biz),
         visit'.at \in {"handler", "created"} /\ visit'.route # "logout"
           => visit'.had # 0,
         visit'.at = "role" => visit'.route # "logout",
         visit'.at = "created" => visit'.route = "create",
         visit'.at \in {"handler", "created"} /\ visit'.route = "create"
           => HasSuperAdmin(visit'.biz)
  PROVE  AccessInv'
<1>1. UNCHANGED <<relations, users, registered>>
  BY DEF vars
<1>2. HadStands'
  BY <1>1 DEF HadStands, OnBusiness, Stands, Relinked
<1>3. ApiHasAdmin'
  BY <1>1 DEF ApiHasAdmin, HasSuperAdmin, AdminRelation, Exists
<1> QED
  BY <1>2, <1>3 DEF AccessInv, HandlerHadAccess, GuardHasRoles, CreatedByCreate

LEMMA LeaveAccess ==
  ASSUME Leave, UNCHANGED vars
  PROVE  AccessInv'
<1>1. Away.at \notin {"role", "handler", "created"}
  BY DEF Away
<1> QED
  BY <1>1, VisitAccess DEF Leave

\* A step of the visit on its route, with what it had.
LEMMA StepAccess ==
  ASSUME Trusted, NEW at, Step(at), UNCHANGED vars,
         \/ /\ visit.at \in {"user", "role"}
            /\ at \in {"role", "unauthorized", "forbidden"}
            /\ at = "role" => visit.route # "logout"
         \/ visit.at = "handler" /\ visit.route = "create" /\ at = "created"
  PROVE  AccessInv'
<1>1. /\ visit'.at = at /\ visit'.by = visit.by
      /\ visit # Away /\ visit'.route = visit.route
      /\ visit.route \in DOMAIN Required
      /\ visit'.biz = visit.biz /\ visit'.had = visit.had
  BY StepVisit DEF Trusted, GateInv
<1>2. Stands(visit.had, visit.by, visit.biz)
  BY <1>1 DEF Trusted, AccessInv, HadStands, OnBusiness, Stands
<1>3. visit.at = "handler" => visit.route # "create" \/ HasSuperAdmin(visit.biz)
  BY DEF Trusted, AccessInv, ApiHasAdmin
<1>4. visit.at = "handler" /\ visit.route # "logout" => visit.had # 0
  BY DEF Trusted, AccessInv, HandlerHadAccess
<1> QED
  BY <1>1, <1>2, <1>3, <1>4, VisitAccess

LEMMA SessionAccess ==
  ASSUME Trusted, Expire \/ Login \/ FindLogin \/ ComparePassword
  PROVE  AccessInv'
<1>1. CASE Expire
  BY <1>1, VisitAccess
     DEF Expire, Trusted, AccessInv, HadStands, OnBusiness, Stands,
         HandlerHadAccess, GuardHasRoles, CreatedByCreate, ApiHasAdmin
<1>2. CASE Login
  <2>1. visit'.route \notin DOMAIN Required /\ visit'.at = "find"
    BY <1>2, Routes DEF Login, Excluded
  <2> QED
    BY <1>2, <2>1, VisitAccess DEF Login
<1>3. CASE FindLogin /\ Step("compare")
  <2>1. visit.route \in Excluded /\ visit'.route = visit.route
        /\ visit'.at = "compare"
    BY <1>3, VisitShape DEF FindLogin, Step, Trusted, GateInv, Away
  <2> QED
    BY <1>3, <2>1, VisitAccess, Routes DEF FindLogin, Excluded
<1>4. CASE (FindLogin \/ ComparePassword) /\ Leave
  BY <1>4, LeaveAccess DEF FindLogin, ComparePassword
<1> QED
  BY <1>1, <1>2, <1>3, <1>4 DEF FindLogin, ComparePassword

\* The guard of a route with roles lets in who has one of them.
LEMMA WayInAccess ==
  ASSUME Trusted, Arrive \/ FindVisitor \/ RolesGuard \/ Unavailable
  PROVE  AccessInv'
<1>1. CASE Arrive
  <2>1. PICK route \in DOMAIN Required, h \in jar, b \in SomeBiz :
          visit' = [route |-> route, by |-> h, biz |-> b, at |-> "user",
                    had |-> Access(h, b)]
    BY <1>1 DEF Arrive
  <2>2. Stands(Access(h, b), h, b)
    BY AccessStands DEF Trusted, IInv
  <2> QED
    BY <1>1, <2>1, <2>2, VisitAccess DEF Arrive
<1>2. CASE FindVisitor
  <2>1. UNCHANGED vars /\ visit.at = "user"
    BY <1>2 DEF FindVisitor
  <2>2. CASE Step("unauthorized")
    BY <2>1, <2>2, StepAccess
  <2>3. CASE Step("role") /\ Required[visit.route] # {}
    <3>1. visit.route # "logout"
      BY <2>3, Routes
    <3> QED
      BY <2>1, <2>3, <3>1, StepAccess
  <2>4. CASE Pass(visit.had) /\ Required[visit.route] = {}
    <3>1. visit.had \in Nat
      BY <2>1, VisitShape DEF Trusted, GateInv, Away
    <3>2. /\ visit'.at = "handler" /\ visit'.by = visit.by
          /\ visit # Away /\ visit'.route = visit.route
          /\ visit.route \in DOMAIN Required
          /\ visit'.biz = visit.biz /\ visit'.had = visit.had
      BY <2>1, <2>4, <3>1, PassVisit DEF Trusted, GateInv
    <3>3. visit'.route = "logout"
      BY <2>4, <3>2, Routes
    <3>4. Stands(visit.had, visit.by, visit.biz)
      BY <3>2 DEF Trusted, AccessInv, HadStands, OnBusiness, Stands
    <3> QED
      BY <2>1, <3>2, <3>3, <3>4, VisitAccess
  <2> QED
    BY <1>2, <2>2, <2>3, <2>4 DEF FindVisitor, Admit
<1>3. CASE RolesGuard
  <2>1. UNCHANGED vars /\ visit.at = "role" /\ Exists(visit.by)
    BY <1>3 DEF RolesGuard, Trusted, GateInv, VisitorExists
  <2>2. CASE Step("forbidden")
    BY <2>1, <2>2, StepAccess
  <2>3. CASE Pass(Access(visit.by, visit.biz))
             /\ HasRole(visit.by, visit.biz, Required[visit.route])
    <3> DEFINE had == Access(visit.by, visit.biz)
    <3>1. had \in Nat /\ Stands(had, visit.by, visit.biz)
      BY AccessFinds, AccessStands DEF Trusted, IInv
    <3>2. /\ visit'.at = "handler" /\ visit'.by = visit.by
          /\ visit # Away /\ visit'.route = visit.route
          /\ visit.route \in DOMAIN Required
          /\ visit'.biz = visit.biz /\ visit'.had = had
      BY <2>1, <2>3, <3>1, PassVisit DEF Trusted, GateInv
    <3>3. Required[visit.route] \subseteq Role
      BY <3>2, Routes DEF Role
    <3>4. had # 0
      <4>1. HasRole(visit.by, visit.biz, Role)
        BY <2>3, <3>3 DEF HasRole
      <4>2. visit.by # Absent
        BY <2>1, IdAssumption DEF Exists, Trusted, IInv, TypeOK, User
      <4> QED
        BY <4>1, <4>2, AccessFinds DEF Trusted, IInv
    <3>5. visit.route = "create" => HasSuperAdmin(visit.biz)
      BY <2>1, <2>3, Routes, GuardFindsAdmin
    <3> HIDE DEF had
    <3> QED
      BY <2>1, <3>1, <3>2, <3>4, <3>5, VisitAccess
  <2> QED
    BY <1>3, <2>2, <2>3 DEF RolesGuard
<1>4. CASE Unavailable
  BY <1>4, LeaveAccess DEF Unavailable
<1> QED
  BY <1>1, <1>2, <1>3, <1>4

LEMMA HandlerAccess ==
  ASSUME Trusted,
         FetchApiStatus \/ ListBusinessApis \/ CreateApi \/ Logout \/ Answered
  PROVE  AccessInv'
<1>1. CASE FetchApiStatus \/ ListBusinessApis \/ Logout \/ Answered
  BY <1>1, LeaveAccess DEF FetchApiStatus, ListBusinessApis, Logout, Answered
<1>2. CASE CreateApi
  BY <1>2, LeaveAccess, StepAccess DEF CreateApi
<1> QED
  BY <1>1, <1>2

LEMMA AccessInitInvariant == GateInit => AccessInv
  BY DEF GateInit, Away, AccessInv, HadStands, OnBusiness, HandlerHadAccess,
         GuardHasRoles, CreatedByCreate, ApiHasAdmin

LEMMA TrustedNext == Trusted /\ [GateNext]_gateVars => Trusted'
<1> SUFFICES ASSUME Trusted, [GateNext]_gateVars PROVE Trusted'
  OBVIOUS
<1>1. IInv' /\ GateInv' /\ AdminInv'
  BY GateNextInvariant, GateStep, NextAdmin DEF Trusted
<1>2. CASE UNCHANGED gateVars
  <2>1. UNCHANGED vars /\ UNCHANGED visit
    BY <1>2 DEF gateVars
  <2>2. AccessInv'
    BY <2>1, VisitAccess
       DEF Trusted, AccessInv, HadStands, OnBusiness, Stands,
           HandlerHadAccess, GuardHasRoles, CreatedByCreate, ApiHasAdmin
  <2> QED
    BY <1>1, <2>2 DEF Trusted
<1>3. CASE GateNext
  <2>1. AccessInv'
    BY <1>3, MembershipStepAccess, SessionAccess, WayInAccess, HandlerAccess
       DEF GateNext
  <2> QED
    BY <1>1, <2>1 DEF Trusted
<1> QED
  BY <1>2, <1>3

LEMMA TrustedAlways == GateSpec => []Trusted
<1>1. GateInit => Trusted
  BY GateInitInvariant, AccessInitInvariant, InitAdmin DEF GateInit, Trusted
<1> QED
  BY <1>1, TrustedNext, PTL DEF GateSpec

\* What BusinessRolesGuard found of the business it was asked about stays so
\* up to the end of the handler, but for a relation that is linked to another.
THEOREM AccessInductive == GateSpec => []AccessInv
<1>1. Trusted => AccessInv
  BY DEF Trusted
<1> QED
  BY <1>1, TrustedAlways, PTL

\* While createApi runs the guarded business has a stored super admin, whoever
\* registers and whatever is invited meanwhile.
THEOREM GuardedApiHasAdmin == GateSpec => []ApiHasAdmin
<1>1. Trusted => ApiHasAdmin
  BY DEF Trusted, AccessInv
<1> QED
  BY <1>1, TrustedAlways, PTL

\* A visit of a route with a business: its relation stands, and while it has
\* its user the user has access.
LEMMA StandingAccess ==
  ASSUME Trusted, OnBusiness, visit.had # 0, Exists(visit.by)
  PROVE  HasRole(visit.by, visit.biz, Role) \/ Relinked(visit.had, visit.by)
<1>1. Stands(visit.had, visit.by, visit.biz)
  BY DEF Trusted, AccessInv, HadStands, Stands
<1>2. visit.by \in Email
  BY DEF Exists, Trusted, IInv, TypeOK, User
<1>3. visit.biz \in BizId
  BY VisitShape, Routes DEF Trusted, GateInv, OnBusiness, Excluded
<1> QED
  BY <1>1, <1>2, <1>3, AnyRelationCounts DEF Stands, SomeRelation, Trusted, IInv

\* Whoever is shown the business the guard was asked about has access when it is
\* read, but for a relation that went to another between guard and handler.
THEOREM ServedStillHaveAccess == GateSpec => []ServedHasAccess
<1>1. Trusted => ServedHasAccess
  <2> SUFFICES ASSUME Trusted, visit.at = "handler", visit.route = "view",
                      visit.used = visit.biz
               PROVE  \/ HasRole(visit.by, visit.used, Role)
                      \/ Relinked(visit.had, visit.by)
    BY DEF ServedHasAccess
  <2>1. OnBusiness /\ visit.had # 0 /\ Exists(visit.by)
    BY Routes DEF OnBusiness, Away, Trusted, AccessInv, HandlerHadAccess,
                  GateInv, VisitorExists
  <2> QED
    BY <2>1, StandingAccess
<1> QED
  BY <1>1, TrustedAlways, PTL

\* What the refusals say stays true while the visit waits for its answer.
LEMMA RefusalMembership ==
  ASSUME Trusted, RefusalHasCause, MembershipStep
  PROVE  RefusalHasCause'
<1>1. [Next]_vars /\ UNCHANGED visit
  BY RequestsStep
<1>2. ASSUME NEW n, NEW h, Relinked(n, h)
      PROVE  Relinked(n, h)'
  <2>1. n \in DOMAIN relations
    BY <1>2 DEF Relinked
  <2>2. Kept(n) /\ registered \subseteq registered'
    BY <1>1, <2>1, StepKeeps DEF Trusted
  <2> QED
    BY <1>2, <2>2 DEF Relinked, Kept
<1> QED
  BY <1>1, <1>2 DEF RefusalHasCause, Relinked

\* The refusals of a step: AuthMiddleware refuses only the token of nobody, the
\* guard of a dashboard only those whose relation has gone to another.
LEMMA RefusalStep ==
  ASSUME Trusted, RefusalHasCause, [GateNext]_gateVars
  PROVE  RefusalHasCause'
<1>1. CASE MembershipStep
  BY <1>1, RefusalMembership
<1>2. CASE UNCHANGED <<vars, visit>>
  BY <1>2 DEF RefusalHasCause, Relinked, vars
<1>3. CASE visit'.at \notin {"unauthorized", "forbidden"}
  BY <1>3 DEF RefusalHasCause
<1>4. CASE visit' = Away \/ Login \/ Arrive
  BY <1>3, <1>4 DEF Away, Login, Arrive
<1>5. CASE FindLogin /\ Step("compare")
  <2>1. visit'.at = "compare"
    BY <1>5, VisitShape DEF FindLogin, Step, Trusted, GateInv, Away
  <2> QED
    BY <1>3, <2>1
<1>6. CASE FindVisitor
  <2>1. CASE Step("unauthorized")
    <3>1. visit'.at = "unauthorized" /\ visit'.by = visit.by
      BY <1>6, <2>1, StepVisit DEF FindVisitor, Trusted, GateInv
    <3>2. visit'.by = Absent \/ Exists(visit.by)
      BY <1>6, <3>1 DEF FindVisitor, Trusted, GateInv, VisitorExists
    <3>3. CASE Exists(visit.by) /\ visit.by # Absent
      <4>1. Step("role") \/ Pass(visit.had)
        BY <1>6, <3>3 DEF FindVisitor, Admit
      <4>2. visit.had \in Nat
        BY <1>6, VisitShape DEF FindVisitor, Trusted, GateInv, Away
      <4>3. visit'.at # "unauthorized"
        BY <1>6, <4>1, <4>2, StepVisit, PassVisit
           DEF FindVisitor, Trusted, GateInv
      <4> QED
        BY <3>1, <4>3
    <3> QED
      BY <3>1, <3>2, <3>3 DEF RefusalHasCause
  <2>2. CASE Step("role") \/ Pass(visit.had)
    <3>1. visit.had \in Nat
      BY <1>6, VisitShape DEF FindVisitor, Trusted, GateInv, Away
    <3>2. visit'.at \in {"role", "handler"}
      BY <1>6, <2>2, <3>1, StepVisit, PassVisit DEF FindVisitor, Trusted, GateInv
    <3> QED
      BY <1>3, <3>2
  <2> QED
    BY <1>6, <2>1, <2>2 DEF FindVisitor, Admit
<1>7. CASE RolesGuard
  <2>1. CASE HasRole(visit.by, visit.biz, Required[visit.route])
    <3>1. Access(visit.by, visit.biz) \in Nat
      BY AccessFinds DEF Trusted, IInv
    <3>2. visit'.at = "handler"
      BY <1>7, <2>1, <3>1, PassVisit DEF RolesGuard, Trusted, GateInv
    <3> QED
      BY <1>3, <3>2
  <2>2. CASE ~ HasRole(visit.by, visit.biz, Required[visit.route])
    <3>1. /\ visit # Away /\ visit.route \in DOMAIN Required
          /\ visit'.at = "forbidden" /\ visit'.by = visit.by
          /\ visit'.route = visit.route /\ visit'.had = visit.had
      BY <1>7, <2>2, StepVisit DEF RolesGuard, Trusted, GateInv
    <3>2. visit.route # "create" => ~ HasRole(visit.by, visit.biz, Role)
      BY <1>7, <2>2, <3>1, Routes
         DEF RolesGuard, Trusted, AccessInv, GuardHasRoles
    <3>3. Exists(visit.by)
      BY <1>7 DEF RolesGuard, Trusted, GateInv, VisitorExists
    <3>4. visit.had # 0 /\ visit.route # "create" => Relinked(visit.had, visit.by)
      BY <3>1, <3>2, <3>3, StandingAccess DEF OnBusiness
    <3> QED
      BY <1>7, <3>1, <3>4 DEF RefusalHasCause, RolesGuard, Relinked, vars
  <2> QED
    BY <2>1, <2>2
<1>8. CASE CreateApi /\ Step("created")
  <2>1. visit'.at = "created"
    BY <1>8, StepVisit DEF CreateApi, Trusted, GateInv
  <2> QED
    BY <1>3, <2>1
<1> QED
  BY <1>1, <1>2, <1>4, <1>5, <1>6, <1>7, <1>8
     DEF GateNext, gateVars, Expire, FindLogin, ComparePassword, Unavailable,
         FetchApiStatus, ListBusinessApis, CreateApi, Logout, Answered, Leave

\* Nobody is refused for what other requests do meanwhile, but for a relation
\* that is linked to the one who registers its address.
THEOREM RefusalsHaveCause == GateSpec => []RefusalHasCause
<1>1. GateInit => RefusalHasCause
  BY DEF GateInit, Away, RefusalHasCause
<1> QED
  BY <1>1, RefusalStep, TrustedAlways, PTL DEF GateSpec
=============================================================================
