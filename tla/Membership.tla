----------------------------- MODULE Membership -----------------------------
(***************************************************************************)
(* Accounts, businesses and who may act for which business: the users,    *)
(* businesses and businessusers collections, and the handlers of the       *)
(* backend that write them (AuthService, UsersService, BusinessesService), *)
(* each cut at its awaits.  Handlers run interleaved in one Node process   *)
(* and every database call may fail.                                       *)
(*                                                                         *)
(* A user is named by the email of its document, which is unique.  A       *)
(* relation is a document of businessusers; relations is that collection   *)
(* in its natural order, the order findOne and updateOne search it in.     *)
(*                                                                         *)
(* A request that waits at its first lookup (a guard, the permission to    *)
(* register) carries nothing but its own text, and no lookup before that   *)
(* finds less later than earlier.  Its arrival and that lookup are one     *)
(* action; one that is refused there leaves no trace.  The text of a body  *)
(* is left open until the handler first uses it.                           *)
(***************************************************************************)
EXTENDS Naturals, Sequences

CONSTANTS Email,         \* addresses of people and of businesses
          Biz,           \* identifiers of business documents
          Req,           \* requests being handled at once
          MaxRelations,  \* bound on the relations collection
          Unknown,       \* an ObjectId that no document has
          Absent         \* a userId that is not there

ASSUME IdAssumption ==
  Unknown \notin Email \union Biz /\ Absent \notin Email \union {Unknown}
ASSUME MaxRelationsAssumption == MaxRelations \in Nat

Role == {"admin", "superAdmin"}

VARIABLES users,       \* the users collection
          businesses,  \* the _ids of the businesses collection
          relations,   \* the businessusers collection
          req,         \* the requests being handled
          registered,  \* accounts /auth/register answered 201 for
          founded      \* businesses POST /businesses answered with

vars == <<users, businesses, relations, req, registered, founded>>
store == <<users, businesses, relations>>
answers == <<registered, founded>>

UserId == Email \union {Unknown}
BizId == Biz \union {Unknown}

User == [email : Email, github : BOOLEAN]
Relation == [biz : BizId, email : Email, user : UserId \union {Absent},
             role : Role]

Idle == [op |-> "none"]

\* A request: its operation, the await it stands at, and the values its
\* handler carries from one await to the next.
Request ==
  {Idle}
  \union [op : {"register", "validateUser", "createUser"},
          at : {"find", "create", "link"}, user : User]
  \union [op : {"createBusiness"}, at : {"owner"}]
  \union [op : {"createBusiness"}, at : {"business"}, owner : Email,
          email : Email]
  \union [op : {"createBusiness"}, at : {"relation"}, owner : Email,
          email : Email, biz : Biz]
  \union [op : {"createUserBusiness"}, at : {"lookup"}]
  \union [op : {"createUserBusiness"}, at : {"insert"}, relation : Relation]

\* Types, and what the unique index on email gives: one document for each.
TypeOK ==
  /\ users \subseteq User
  /\ \A u, v \in users : u.email = v.email => u = v
  /\ businesses \subseteq Biz
  /\ relations \in Seq(Relation)
  /\ req \in [Req -> Request]
  /\ registered \subseteq Email
  /\ founded \subseteq Biz

Init ==
  /\ users = {}
  /\ businesses = {}
  /\ relations = <<>>
  /\ req = [q \in Req |-> Idle]
  /\ registered = {}
  /\ founded = {}

Exists(e) == \E u \in users : u.email = e

At(q, op, at) == req[q].op = op /\ req[q].at = at

Become(q, r) == req' = [req EXCEPT ![q] = r]
Go(q, at) == req' = [req EXCEPT ![q].at = at]
End(q) == Become(q, Idle)

\* A database call fails and the handler reports an error: what it wrote
\* before stays.  The calls of UsersService.create are apart (CreateFails).
Fail(q) ==
  /\ req[q] # Idle
  /\ req[q].at \notin {"find", "create"}
  /\ End(q)
  /\ UNCHANGED <<store, answers>>
-----------------------------------------------------------------------------
(* Lookups.                                                                *)

\* The relation findOne({userId, businessId}) returns is the first one.
Finds(i, u, b) ==
  /\ i \in DOMAIN relations
  /\ relations[i].user = u /\ relations[i].biz = b
  /\ \A j \in 1 .. i - 1 :
       ~ (relations[j].user = u /\ relations[j].biz = b)

HasRole(u, b, roles) ==
  \E i \in DOMAIN relations : Finds(i, u, b) /\ relations[i].role \in roles

IsSuperAdmin(u) ==
  \E i \in DOMAIN relations :
    relations[i].user = u /\ relations[i].role = "superAdmin"

\* findAll of BusinessesService.
FindAll(u) ==
  {b \in businesses :
     \E i \in DOMAIN relations :
       relations[i].user = u /\ relations[i].biz = b}

\* AuthMiddleware wants a cookie that names a user of the collection.  Every
\* user can have one: a GitHub sign-in finds any account by its email.
SignedIn(e) == Exists(e)
-----------------------------------------------------------------------------
(* UsersService.create, called by register, validateUser and POST /users.  *)

\* register goes on only for an email somebody has entered in a relation.
Register(q) ==
  /\ req[q] = Idle
  /\ \E i \in DOMAIN relations :
       Become(q, [op |-> "register", at |-> "find",
                  user |-> [email |-> relations[i].email, github |-> FALSE]])
  /\ UNCHANGED <<store, answers>>

\* GET /auth/github/callback, with the profile passport hands over.
ValidateUser(q) ==
  /\ req[q] = Idle
  /\ \E e \in Email :
       Become(q, [op |-> "validateUser", at |-> "find",
                  user |-> [email |-> e, github |-> TRUE]])
  /\ UNCHANGED <<store, answers>>

\* POST /users, behind AuthMiddleware.
CreateUser(q) ==
  /\ req[q] = Idle
  /\ \E e \in Email : SignedIn(e)
  /\ \E u \in User :
       Become(q, [op |-> "createUser", at |-> "find", user |-> u])
  /\ UNCHANGED <<store, answers>>

Creating == {"register", "validateUser", "createUser"}

\* create has returned the document, new or not, of the request's email.
\* register awaits one call more; validateUser sets the cookie and redirects.
Made(q) == IF req[q].op = "register" THEN Go(q, "link") ELSE End(q)

FindUser(q) ==
  /\ req[q].op \in Creating
  /\ req[q].at = "find"
  /\ IF Exists(req[q].user.email) THEN Made(q) ELSE Go(q, "create")
  /\ UNCHANGED <<store, answers>>

\* create catches every error and returns it in the place of a document: a
\* call that fails, an email that is taken by now, a field that is missing.
\* register then fails on user._id.toString().  validateUser goes on with the
\* error: it signs a token without _id, sets the cookie and redirects
\* (RequestGate follows that cookie).
CreateFails(q) ==
  /\ req[q].op \in Creating
  /\ req[q].at \in {"find", "create"}
  /\ End(q)
  /\ UNCHANGED <<store, answers>>

InsertUserUnindexed(q) ==
  /\ req[q].op \in Creating
  /\ req[q].at = "create"
  /\ users' = users \union {req[q].user}
  /\ Made(q)
  /\ UNCHANGED <<businesses, relations, answers>>

\* userModel.create, after the hash of the password: the unique index on
\* email refuses the second of two, which CreateFails answers.
InsertUser(q) ==
  /\ req[q].op \in Creating
  /\ req[q].at = "create"
  /\ ~ Exists(req[q].user.email)
  /\ users' = users \union {req[q].user}
  /\ Made(q)
  /\ UNCHANGED <<businesses, relations, answers>>

FirstOfAny(i, e) == i = 1 /\ i \in DOMAIN relations

\* The relation updateOne({userEmail: e}) changes.
First(i, e) ==
  /\ i \in DOMAIN relations
  /\ relations[i].email = e
  /\ \A j \in 1 .. i - 1 : relations[j].email # e

LinkUnchecked(q) ==
  /\ At(q, "register", "link")
  /\ LET e == req[q].user.email IN
       /\ \/ UNCHANGED relations
          \/ \E i \in DOMAIN relations :
               First(i, e) /\ relations' = [relations EXCEPT ![i].user = e]
       /\ registered' = registered \union {e}
  /\ End(q)
  /\ UNCHANGED <<users, businesses, founded>>

\* updateUserBusiness: updateOne({userEmail}, {$set: {userId}}), then the
\* 201.  updatedAt changes too, so modifiedCount is not 0.
Link(q) ==
  /\ At(q, "register", "link")
  /\ LET e == req[q].user.email IN
       /\ \E i \in DOMAIN relations :
            First(i, e) /\ relations' = [relations EXCEPT ![i].user = e]
       /\ registered' = registered \union {e}
  /\ End(q)
  /\ UNCHANGED <<users, businesses, founded>>
-----------------------------------------------------------------------------
(* BusinessesService.                                                      *)

\* The _ids that a body can name: those of documents and of none.
SomeUser == {u.email : u \in users} \union {Unknown}
SomeBiz == businesses \union {Unknown}

\* BusinessRolesGuard under RequireSuperAdmin: a body without a businessId
\* takes a GitHub account, one with a businessId a super admin of any
\* business.
MayFound(e) ==
  \/ \E u \in users : u.email = e /\ u.github
  \/ IsSuperAdmin(e)

\* POST /businesses passes the guard.
CreateBusiness(q) ==
  /\ req[q] = Idle
  /\ \E by \in Email : SignedIn(by) /\ MayFound(by)
  /\ Become(q, [op |-> "createBusiness", at |-> "owner"])
  /\ UNCHANGED <<store, answers>>

\* The body names an owner and an email of the business, each as it likes;
\* without such an owner the founding ends.
FindOwner(q) ==
  /\ At(q, "createBusiness", "owner")
  /\ \/ End(q)
     \/ \E owner \in users, email \in Email :
          Become(q, [op |-> "createBusiness", at |-> "business",
                     owner |-> owner.email, email |-> email])
  /\ UNCHANGED <<store, answers>>

\* The first insert.  creatorId is written and read by nobody.
InsertBusiness(q) ==
  /\ At(q, "createBusiness", "business")
  /\ \E b \in Biz :
       /\ b \notin businesses
       /\ businesses' = businesses \union {b}
       /\ Become(q, [op |-> "createBusiness", at |-> "relation", biz |-> b,
                     owner |-> req[q].owner, email |-> req[q].email])
  /\ UNCHANGED <<users, relations, answers>>

CreateRelation(x) ==
  /\ Len(relations) < MaxRelations
  /\ relations' = Append(relations, x)

OwnerRelation(r, role) ==
  [biz |-> r.biz, email |-> r.email, user |-> r.owner, role |-> role]

InsertOwnerDefaultRole(q) ==
  /\ At(q, "createBusiness", "relation")
  /\ CreateRelation(OwnerRelation(req[q], "admin"))
  /\ founded' = founded \union {req[q].biz}
  /\ End(q)
  /\ UNCHANGED <<users, businesses, registered>>

InsertOwnerUnawaited(q) ==
  /\ At(q, "createBusiness", "relation")
  /\ \/ CreateRelation(OwnerRelation(req[q], "superAdmin"))
     \/ UNCHANGED relations
  /\ founded' = founded \union {req[q].biz}
  /\ End(q)
  /\ UNCHANGED <<users, businesses, registered>>

\* The second insert; createBusiness then answers with the business.
InsertOwner(q) ==
  /\ At(q, "createBusiness", "relation")
  /\ CreateRelation(OwnerRelation(req[q], "superAdmin"))
  /\ founded' = founded \union {req[q].biz}
  /\ End(q)
  /\ UNCHANGED <<users, businesses, registered>>

\* BusinessRolesGuard under RequireBusinessRoles(superAdmin).  It is given the
\* businessId of the query, and that of the body only when the query has none.
MayInvite(e) == \E scope \in SomeBiz : HasRole(e, scope, {"superAdmin"})

\* POST /businesses/worker, "to preapprove user admin", passes the guard.
CreateUserBusiness(q) ==
  /\ req[q] = Idle
  /\ \E by \in Email : SignedIn(by) /\ MayInvite(by)
  /\ Become(q, [op |-> "createUserBusiness", at |-> "lookup"])
  /\ UNCHANGED <<store, answers>>

\* The handler takes the business from the body; the userId there is optional
\* and wins over that of an account the invited may have already.
LookupInvited(q) ==
  /\ At(q, "createUserBusiness", "lookup")
  /\ \E e \in Email, b \in SomeBiz, role \in Role :
       \E u \in SomeUser \union {Absent} :
         Become(q, [op |-> "createUserBusiness", at |-> "insert",
                    relation |->
                      [biz |-> b, email |-> e, role |-> role,
                       user |-> IF u = Absent /\ Exists(e) THEN e ELSE u]])
  /\ UNCHANGED <<store, answers>>

InsertInvited(q) ==
  /\ At(q, "createUserBusiness", "insert")
  /\ CreateRelation(req[q].relation)
  /\ End(q)
  /\ UNCHANGED <<users, businesses, answers>>
-----------------------------------------------------------------------------
\* The steps that may end in a session.
SignsIn(q) == FindUser(q) \/ InsertUser(q) \/ CreateFails(q) \/ Link(q)

Serves(q) ==
  \/ Register(q) \/ ValidateUser(q) \/ CreateUser(q)
  \/ CreateBusiness(q) \/ FindOwner(q) \/ InsertBusiness(q) \/ InsertOwner(q)
  \/ CreateUserBusiness(q) \/ LookupInvited(q) \/ InsertInvited(q)
  \/ Fail(q)

Next == \E q \in Req : SignsIn(q) \/ Serves(q)

Spec == Init /\ [][Next]_vars
-----------------------------------------------------------------------------
(* The inductive invariant.                                                *)

\* The relation a registration has linked is the oldest of its email, and
\* stays it.
RegisteredLinked ==
  \A e \in registered : \E i \in DOMAIN relations :
    First(i, e) /\ relations[i].user = e

\* create has returned before updateUserBusiness is called.
LinkHasUser ==
  \A q \in Req : At(q, "register", "link") => Exists(req[q].user.email)

\* A relation that gives a stored user the role of a super admin.
AdminRelation(i) ==
  /\ i \in DOMAIN relations
  /\ Exists(relations[i].user) /\ relations[i].role = "superAdmin"

HasSuperAdmin(b) ==
  \E i \in DOMAIN relations : AdminRelation(i) /\ relations[i].biz = b

\* The owner was found before the business is stored, the business before
\* the relation.
FoundingIsReady ==
  \A q \in Req :
    /\ req[q].op = "createBusiness" /\ req[q].at \in {"business", "relation"}
         => Exists(req[q].owner)
    /\ At(q, "createBusiness", "relation") => req[q].biz \in businesses

\* Whoever got past the inviting guard had a relation.
InvitersAreIn ==
  \A q \in Req : req[q].op = "createUserBusiness" => relations # <<>>

\* The oldest relation of all is a founder's.
OldestIsFounders ==
  relations # <<>> => AdminRelation(1) /\ relations[1].biz \in businesses

\* Whatever bodies name, who has registered owns the oldest relation of the
\* email.
IInv == TypeOK /\ RegisteredLinked /\ LinkHasUser

\* A business that was answered as created keeps a super admin whatever is
\* invited to it or linked in it.
FoundedHasAdmin == \A b \in founded : HasSuperAdmin(b)

AdminInv ==
  FoundingIsReady /\ InvitersAreIn /\ OldestIsFounders /\ FoundedHasAdmin
-----------------------------------------------------------------------------
(* Correctness.                                                            *)

\* Whoever was answered 201 by /auth/register can work with a business at
\* once and for good: the guard finds a relation of theirs, whichever other
\* registrations, invitations and failures there were before or since.
RegisteredHasAccess ==
  \A e \in registered : \E b \in BizId : HasRole(e, b, Role)

\* Once there is a relation at all, some account gets past the guard for
\* super admins of some business that exists, so that somebody can invite:
\* registrations move relations from one user to another and invitations
\* name any user and business, but neither makes the last one go.
SomebodyIsSuperAdmin ==
  relations # <<>> =>
    \E u \in users, b \in businesses : HasRole(u.email, b, {"superAdmin"})

\* A relation that was made for one user under the address of another, and
\* went to that other when the address was registered.
Relinked(i, e) ==
  /\ i \in DOMAIN relations
  /\ relations[i].email # e /\ relations[i].email \in registered
  /\ relations[i].user = relations[i].email

\* Nobody loses access to a business but in one way: a relation of theirs
\* under another address, such as the business's own, goes to whoever
\* registers that address.
AccessIsKept ==
  [][\A e \in Email, b \in BizId :
       HasRole(e, b, Role) /\ ~ HasRole(e, b, Role)' =>
         \E i \in DOMAIN relations :
           Finds(i, e, b) /\ Relinked(i, e)']_vars

\* "to find all the business someone has access to"
\* (businesses.controller.ts:24): a registered user is shown every business
\* they have been entered for, where no other user is named.
FindAllIsComplete ==
  \A e \in registered, i \in DOMAIN relations :
    /\ relations[i].email = e /\ relations[i].user = Absent
    /\ relations[i].biz \in businesses
    => relations[i].biz \in FindAll(e)
=============================================================================
