---------------------------- MODULE RequestGate ----------------------------
(***************************************************************************)
(* The way of a request to a handler that needs a session or a role:       *)
(* AuthMiddleware, AuthGuard, BusinessRolesGuard, handler, each with its   *)
(* await, while the requests of Membership change accounts and relations   *)
(* and sessions begin and end.  One browser is followed, and one visit of  *)
(* it at a time; a sign-in may be this browser's or another's.             *)
(*                                                                         *)
(* A session is a cookie and its token, which expire together an hour      *)
(* after they were made.  A token names a stored user, or none (Absent)    *)
(* when a GitHub sign-in went on without a document.                       *)
(*                                                                         *)
(* The guard and the handler of a route may be given different businesses: *)
(* the guard reads path, query and body in this order, createApi the body, *)
(* and the dashboard lets a businessId of the query replace the path's.    *)
(***************************************************************************)
EXTENDS Membership

CONSTANT Route   \* the routes that are followed

VARIABLES jar,    \* the cookie of the visitor's browser, unless it is expired
          visit   \* the request that is followed

gateVars == <<vars, jar, visit>>

Away == [at |-> "away"]

\* Required[route]: what RequireBusinessRoles says; with {}, BusinessRolesGuard
\* is not used.  view is GET /api/dashboard and GET /api/monitoring/apis, which
\* name a business in the path and ask for the same roles.
Required == [view |-> {"admin", "superAdmin"}, create |-> {"superAdmin"},
             logout |-> {}]

\* A route AuthMiddleware is not applied to.  The others are register and the
\* sign-in of Membership, and the public board of StatusBoard.
Excluded == {"login"}

ASSUME RouteAssumption == Route \subseteq DOMAIN Required \union Excluded

Holder == Email \union {Absent}

\* A visit on its way to a handler.  biz is the business the guard is given,
\* used the one the handler is; had is history, the place of the relation that
\* gave the visitor access to biz when the request came or, later, when the
\* guard asked (0 if there was none).  At "created" the API of business used
\* is stored and the answer under way.  An answer that no later step or
\* property asks about ends the visit at once.
Visit ==
  {Away}
  \union [route : DOMAIN Required, by : Holder, biz : BizId, had : Nat,
          at : {"user", "role", "unauthorized", "forbidden"}]
  \union [route : DOMAIN Required, by : Holder, biz : BizId, had : Nat,
          used : BizId, at : {"handler", "created"}]
  \union [route : Excluded, by : Email, at : {"find", "compare"}]

GateTypeOK ==
  /\ TypeOK
  /\ jar \subseteq {u.email : u \in users} \union {Absent}
  /\ \A g, h \in jar : g = h
  /\ visit \in Visit

GateInit ==
  /\ Init
  /\ jar = {}
  /\ visit = Away

Step(at) == visit' = [visit EXCEPT !.at = at]
Leave == visit' = Away
-----------------------------------------------------------------------------
(* Sessions.                                                               *)

SetCookie(h) == jar' = {h} \/ UNCHANGED jar

\* validateUser sets the cookie as it ends.
SignInCookie(q, h) ==
  IF req[q].op = "validateUser" /\ req'[q] = Idle THEN SetCookie(h)
                                                 ELSE UNCHANGED jar

\* A step of the requests of Membership.  register sets its cookie when the
\* relation is linked.
MembershipStep ==
  /\ \E q \in Req :
       \/ Serves(q) /\ UNCHANGED jar
       \/ Link(q) /\ SetCookie(req[q].user.email)
       \/ FindUser(q) /\ SignInCookie(q, req[q].user.email)
       \/ InsertUser(q) /\ SignInCookie(q, req[q].user.email)
       \/ CreateFails(q) /\ SignInCookie(q, Absent)
  /\ UNCHANGED visit

\* An hour is over: maxAge of the cookie, expiresIn of the token.
Expire ==
  /\ jar # {}
  /\ jar' = {}
  /\ UNCHANGED <<vars, visit>>

\* POST /auth/login.
Login ==
  /\ visit = Away
  /\ \E route \in Excluded \intersect Route, e \in Email :
       visit' = [route |-> route, by |-> e, at |-> "find"]
  /\ UNCHANGED <<vars, jar>>

FindLoginUnchecked ==
  /\ visit.at = "find"
  /\ Step("compare") \/ Leave
  /\ UNCHANGED <<vars, jar>>

\* An account made by GitHub has no password: answered 401.
FindLogin ==
  /\ visit.at = "find"
  /\ \/ /\ \E u \in users : u.email = visit.by /\ ~ u.github
        /\ Step("compare")
     \/ Leave
  /\ UNCHANGED <<vars, jar>>

\* bcrypt.compare, then the cookie.
ComparePassword ==
  /\ visit.at = "compare"
  /\ jar' = {visit.by} \/ UNCHANGED jar
  /\ Leave
  /\ UNCHANGED vars
-----------------------------------------------------------------------------
(* The way in.                                                             *)

\* The place of the relation the guard finds, 0 if there is none.
Access(h, b) ==
  IF h # Absent /\ HasRole(h, b, Role)
    THEN CHOOSE i \in DOMAIN relations : Finds(i, h, b)
    ELSE 0

\* AuthMiddleware checks cookie and token before its first await.  Without a
\* session the visit ends with it.
Arrive ==
  /\ visit = Away
  /\ \E route \in DOMAIN Required \intersect Route, h \in jar, b \in SomeBiz :
       visit' = [route |-> route, by |-> h, biz |-> b, at |-> "user",
                 had |-> Access(h, b)]
  /\ UNCHANGED <<vars, jar>>

\* The database fails a step before the handler: 401 from AuthMiddleware,
\* whatever went wrong in it, 500 from the guard.
Unavailable ==
  /\ visit # Away
  /\ visit.at \in {"user", "role"}
  /\ Leave
  /\ UNCHANGED <<vars, jar>>

\* On to the handler, which takes its business from the request by itself.
Pass(had) ==
  \E c \in SomeBiz :
    visit' = [route |-> visit.route, by |-> visit.by, biz |-> visit.biz,
              had |-> had, used |-> c, at |-> "handler"]

\* Past AuthMiddleware.
Admit ==
  IF Required[visit.route] = {} THEN Pass(visit.had) ELSE Step("role")

FindVisitorLate ==
  /\ visit.at = "user"
  /\ IF visit.by \notin jar THEN Step("unauthorized") ELSE Admit
  /\ UNCHANGED <<vars, jar>>

\* getUserDetails of AuthMiddleware, which finds nobody for a token without
\* _id.  AuthGuard then finds the user it left in the request.
FindVisitor ==
  /\ visit.at = "user"
  /\ IF visit.by = Absent \/ ~ Exists(visit.by) THEN Step("unauthorized")
                                                ELSE Admit
  /\ UNCHANGED <<vars, jar>>

RolesGuardUnawaited ==
  /\ visit.at = "role"
  /\ Pass(Access(visit.by, visit.biz))
  /\ UNCHANGED <<vars, jar>>

\* BusinessRolesGuard.canActivate of a route with roles and a business.  What
\* it found is what the visitor has from here on.
RolesGuard ==
  /\ visit.at = "role"
  /\ IF HasRole(visit.by, visit.biz, Required[visit.route])
       THEN Pass(Access(visit.by, visit.biz)) ELSE Step("forbidden")
  /\ UNCHANGED <<vars, jar>>
-----------------------------------------------------------------------------
(* The handlers.                                                           *)

\* fetchApiStatus reads the responses of a business that a businessId of the
\* query replaces, be there such a business or not.
FetchApiStatus ==
  /\ visit.at = "handler" /\ visit.route = "view"
  /\ Leave
  /\ UNCHANGED <<vars, jar>>

\* listBusinessApis takes the business of the path and looks it up first: one
\* that is not there is a 404, a lookup that fails is taken for a business,
\* one without APIs.
ListBusinessApis ==
  /\ visit.at = "handler" /\ visit.route = "view" /\ visit.used = visit.biz
  /\ Leave
  /\ UNCHANGED <<vars, jar>>

\* createApi does not ask for the business of the body, and may be refused by
\* the database (a url that is there already).
CreateApi ==
  /\ visit.at = "handler" /\ visit.route = "create"
  /\ Step("created") \/ Leave
  /\ UNCHANGED <<vars, jar>>

\* clearCookie, whichever cookie the browser has by now.
Logout ==
  /\ visit.at = "handler" /\ visit.route = "logout"
  /\ jar' = {}
  /\ Leave
  /\ UNCHANGED vars

\* The answer has reached the client.
Answered ==
  /\ visit.at \in {"unauthorized", "forbidden", "created"}
  /\ Leave
  /\ UNCHANGED <<vars, jar>>

GateNext ==
  \/ MembershipStep
  \/ Expire
  \/ Login \/ FindLogin \/ ComparePassword
  \/ Arrive \/ FindVisitor \/ RolesGuard \/ Unavailable
  \/ FetchApiStatus \/ ListBusinessApis \/ CreateApi \/ Logout
  \/ Answered

GateSpec == GateInit /\ [][GateNext]_gateVars
-----------------------------------------------------------------------------
(* The inductive invariant, beside IInv and AdminInv of Membership.        *)

\* A token that names a user names a stored one, a login has found one, and
\* none is taken away.
VisitorExists ==
  /\ visit.at = "user" => visit.by = Absent \/ Exists(visit.by)
  /\ visit.at \in {"role", "handler", "created", "compare"}
       => Exists(visit.by)

OnBusiness == visit # Away /\ visit.route \in DOMAIN Required

\* The relation that gave access is still there, for the visitor or, linked
\* since, for whoever registered its address.
HadStands ==
  OnBusiness /\ visit.had # 0 =>
    /\ visit.had \in DOMAIN relations
    /\ relations[visit.had].biz = visit.biz
    /\ relations[visit.had].user = visit.by \/ Relinked(visit.had, visit.by)

\* Behind the guard there was access.
HandlerHadAccess ==
  visit.at \in {"handler", "created"} /\ visit.route # "logout"
    => visit.had # 0

\* BusinessRolesGuard is used on the routes that require a role.
GuardHasRoles == visit.at = "role" => visit.route # "logout"

\* Only createApi stores one.
CreatedByCreate == visit.at = "created" => visit.route = "create"

\* createApi looks neither the business nor its owner up: that the API has a
\* business with a super admin rests on the guard, which ran before, and on
\* nothing taking the last super admin away until the answer is out.  It is
\* the business of the guard; of another one in the body nothing is known.
ApiHasAdmin ==
  visit.at \in {"handler", "created"} /\ visit.route = "create"
    => HasSuperAdmin(visit.biz)

GateInv == GateTypeOK /\ VisitorExists

\* What the guard found before the handler's first await is so after it, or
\* the relation has been linked to another in between.
AccessInv ==
  /\ HadStands
  /\ HandlerHadAccess
  /\ GuardHasRoles
  /\ CreatedByCreate
  /\ ApiHasAdmin
-----------------------------------------------------------------------------
(* Correctness.                                                            *)

\* BusinessRolesGuard asks once and the handler runs later: whoever is shown
\* the business the guard was asked about still has access when the handler
\* reads it, unless the very relation the guard found was linked in between
\* to the one who registered its address.
ServedHasAccess ==
  /\ visit.at = "handler" /\ visit.route = "view"
  /\ visit.used = visit.biz
  => HasRole(visit.by, visit.used, Role) \/ Relinked(visit.had, visit.by)

\* Nobody is turned away for what other requests do meanwhile: a request that
\* came with the token of a user is not refused as one of an unknown user,
\* although the session may be over by then; and a dashboard is forbidden to
\* one who had access when the request came only if the relation that gave it
\* was linked to another in between.
RefusalHasCause ==
  /\ visit.at = "unauthorized" => visit.by = Absent
  /\ visit.at = "forbidden" /\ visit.route # "create" /\ visit.had # 0
       => Relinked(visit.had, visit.by)
=============================================================================
