-------------------------- MODULE MembershipProofs --------------------------
(***************************************************************************)
(* Proofs about Membership, for any number of people, businesses, requests *)
(* and relations.                                                          *)
(***************************************************************************)
EXTENDS Membership, NumberLemmas

(* Lemmas about the operators.                                             *)

\* The indices of the collection.
LEMMA RelationsType ==
  ASSUME TypeOK
  PROVE  /\ Len(relations) \in Nat
         /\ DOMAIN relations = 1 .. Len(relations)
         /\ \A i \in DOMAIN relations : relations[i] \in Relation
  BY DEF TypeOK

\* An insert adds a relation behind the others.
Inserted(x) ==
  /\ DOMAIN relations' = 1 .. Len(relations) + 1
  /\ \A i \in DOMAIN relations : relations'[i] = relations[i]
  /\ relations'[Len(relations) + 1] = x

LEMMA InsertRelation ==
  ASSUME TypeOK, NEW x \in Relation, CreateRelation(x)
  PROVE  relations' \in Seq(Relation) /\ Inserted(x)
  BY DEF TypeOK, CreateRelation, Inserted

\* An update gives one relation, the first of its email, its user.
Updated(i, e) ==
  /\ DOMAIN relations' = DOMAIN relations
  /\ relations'[i] = [relations[i] EXCEPT !.user = e]
  /\ \A j \in DOMAIN relations \ {i} : relations'[j] = relations[j]

LEMMA UpdateRelation ==
  ASSUME TypeOK, NEW e \in Email, NEW i \in DOMAIN relations,
         relations' = [relations EXCEPT ![i].user = e]
  PROVE  relations' \in Seq(Relation) /\ Updated(i, e)
<1>1. [relations[i] EXCEPT !.user = e] \in Relation
  BY RelationsType DEF Relation, UserId
<1> QED
  BY <1>1, RelationsType DEF TypeOK, Updated

\* What a request can be.
LEMMA RequestShape ==
  ASSUME TypeOK, NEW q \in Req
  PROVE  \/ req[q] = Idle
         \/ req[q] \in [op : Creating, at : {"find", "create", "link"},
                        user : User]
         \/ req[q] \in [op : {"createBusiness"}, at : {"owner"}]
         \/ req[q] \in [op : {"createBusiness"}, at : {"business"},
                        owner : Email, email : Email]
         \/ req[q] \in [op : {"createBusiness"}, at : {"relation"},
                        owner : Email, email : Email, biz : Biz]
         \/ req[q] \in [op : {"createUserBusiness"}, at : {"lookup"}]
         \/ req[q] \in [op : {"createUserBusiness"}, at : {"insert"},
                        relation : Relation]
  BY DEF TypeOK, Request, Creating

\* The guard lets in whoever has a relation with the business: of several the
\* oldest is found, and each has a role.
SomeRelation(u, b) ==
  \E i \in DOMAIN relations : relations[i].user = u /\ relations[i].biz = b

LEMMA AnyRelationCounts ==
  TypeOK => \A u \in Email, b \in BizId :
              HasRole(u, b, Role) <=> SomeRelation(u, b)
<1> SUFFICES ASSUME TypeOK, NEW u \in Email, NEW b \in BizId
             PROVE  HasRole(u, b, Role) <=> SomeRelation(u, b)
  OBVIOUS
<1>1. HasRole(u, b, Role) => SomeRelation(u, b)
  BY DEF HasRole, Finds, SomeRelation
<1>2. ASSUME SomeRelation(u, b)
      PROVE  HasRole(u, b, Role)
  <2> DEFINE S == {i \in DOMAIN relations :
                     relations[i].user = u /\ relations[i].biz = b}
  <2>1. PICK i \in S : \A k \in S : i <= k
    <3>1. PICK n : n \in S
      BY <1>2 DEF SomeRelation
    <3>2. S \in SUBSET Nat
      BY RelationsType
    <3> HIDE DEF S
    <3> QED
      BY <3>1, <3>2, LeastIndex
  <2>2. \A k \in 1 .. i - 1 : k \in DOMAIN relations /\ k \notin S
    BY <2>1, RelationsType
  <2>3. relations[i].role \in Role
    BY RelationsType DEF Relation
  <2> QED
    BY <2>1, <2>2, <2>3 DEF HasRole, Finds
<1> QED
  BY <1>1, <1>2
-----------------------------------------------------------------------------
(* IInv is inductive.                                                      *)

LEMMA InitInvariant == Init => IInv
<1> SUFFICES ASSUME Init PROVE IInv
  OBVIOUS
<1>1. TypeOK
  BY DEF Init, TypeOK, Request
<1>2. RegisteredLinked /\ LinkHasUser
  BY DEF Init, RegisteredLinked, LinkHasUser, At, Idle
<1> QED
  BY <1>1, <1>2 DEF IInv

\* A step that changes one request, and maybe users and businesses, keeps the
\* invariant when names stay unique and a registration that comes to its link
\* has its user.
LEMMA RequestStep ==
  ASSUME IInv, NEW q \in Req, NEW r \in Request, Become(q, r),
         UNCHANGED <<relations, answers>>,
         users \subseteq users', users' \subseteq User,
         \A u, v \in users' : u.email = v.email => u = v,
         businesses \subseteq businesses', businesses' \subseteq Biz,
         r.op = "register" /\ r.at = "link"
           => \E u \in users' : u.email = r.user.email
  PROVE  IInv'
<1>1. req' \in [Req -> Request] /\ \A p \in Req \ {q} : req'[p] = req[p]
  BY DEF IInv, TypeOK, Become
<1>2. TypeOK'
  BY <1>1 DEF IInv, TypeOK, answers
<1>3. RegisteredLinked'
  BY DEF IInv, RegisteredLinked, First, answers
<1>4. LinkHasUser'
  <2> SUFFICES ASSUME NEW p \in Req, At(p, "register", "link")'
               PROVE  Exists(req[p].user.email)'
    BY DEF LinkHasUser
  <2>1. CASE p = q
    BY <2>1 DEF IInv, TypeOK, Become, At, Exists
  <2>2. CASE p # q
    BY <1>1, <2>2 DEF IInv, LinkHasUser, At, Exists
  <2> QED
    BY <2>1, <2>2
<1> QED
  BY <1>2, <1>3, <1>4 DEF IInv

LEMMA EndStep ==
  ASSUME IInv, NEW q \in Req, End(q), UNCHANGED <<store, answers>>
  PROVE  IInv'
<1>1. Idle \in Request /\ Idle.op # "register"
  BY DEF Idle, Request
<1> QED
  BY <1>1, RequestStep DEF End, IInv, TypeOK, store

\* A handler that goes on to its next await.
LEMMA GoStep ==
  ASSUME IInv, NEW q \in Req, NEW at, Go(q, at),
         UNCHANGED <<businesses, relations, answers>>,
         users \subseteq users', users' \subseteq User,
         \A u, v \in users' : u.email = v.email => u = v,
         req[q].op \in Creating, at \in {"create", "link"},
         at = "link" => \E u \in users' : u.email = req[q].user.email
  PROVE  IInv'
<1> DEFINE r == [req[q] EXCEPT !.at = at]
<1>1. r \in Request /\ r.op = req[q].op /\ r.at = at
  BY RequestShape DEF Request, Creating, Idle, IInv, At
<1>2. Become(q, r)
  BY DEF Go, Become, IInv, TypeOK
<1>3. r.op = "register" /\ at = "link" => r.user = req[q].user
  BY <1>1, RequestShape DEF Creating, IInv, Idle
<1>4. r.op = "register" /\ r.at = "link" => \E u \in users' : u.email = r.user.email
  BY <1>1, <1>3 DEF At
<1> HIDE DEF r
<1> QED
  BY <1>1, <1>2, <1>4, RequestStep DEF IInv, TypeOK

\* A request begins with an input of its type.
LEMMA BeginInvariant ==
  ASSUME IInv, NEW q \in Req,
         Register(q) \/ ValidateUser(q) \/ CreateUser(q) \/ CreateBusiness(q)
         \/ CreateUserBusiness(q)
  PROVE  IInv'
<1>1. UNCHANGED <<store, answers>>
  BY DEF Register, ValidateUser, CreateUser, CreateBusiness, CreateUserBusiness
<1>2. \E r \in Request : Become(q, r) /\ (r.op = "register" => r.at = "find")
  <2>1. \A e \in Email :
          /\ [op |-> "register", at |-> "find",
              user |-> [email |-> e, github |-> FALSE]] \in Request
          /\ [op |-> "validateUser", at |-> "find",
              user |-> [email |-> e, github |-> TRUE]] \in Request
    BY DEF Request, User
  <2>2. CASE Register(q)
    <3>1. \A i \in DOMAIN relations : relations[i].email \in Email
      BY RelationsType DEF IInv, Relation
    <3> QED
      BY <2>1, <2>2, <3>1 DEF Register
  <2>3. CASE ValidateUser(q)
    BY <2>1, <2>3 DEF ValidateUser
  <2>4. CASE CreateUser(q)
    BY <2>4 DEF CreateUser, Request
  <2>5. CASE CreateBusiness(q)
    BY <2>5 DEF CreateBusiness, Request
  <2>6. CASE CreateUserBusiness(q)
    BY <2>6 DEF CreateUserBusiness, Request
  <2> QED
    BY <2>2, <2>3, <2>4, <2>5, <2>6
<1> QED
  BY <1>1, <1>2, RequestStep DEF IInv, TypeOK, store

\* Of a document that is there, register goes on to the link.
LEMMA MadeStep ==
  ASSUME IInv, NEW q \in Req, req[q].op \in Creating, Made(q),
         UNCHANGED <<businesses, relations, answers>>,
         users \subseteq users', users' \subseteq User,
         \A u, v \in users' : u.email = v.email => u = v,
         \E u \in users' : u.email = req[q].user.email
  PROVE  IInv'
<1>1. CASE Go(q, "link")
  BY <1>1, GoStep
<1>2. CASE End(q)
  <2>1. Idle \in Request /\ Idle.op # "register"
    BY DEF Idle, Request
  <2> QED
    BY <1>2, <2>1, RequestStep DEF End, IInv, TypeOK
<1> QED
  BY <1>1, <1>2 DEF Made

LEMMA FindUserInvariant ==
  ASSUME IInv, NEW q \in Req, FindUser(q)
  PROVE  IInv'
<1>1. CASE Exists(req[q].user.email) /\ Made(q)
  BY <1>1, MadeStep DEF FindUser, Exists, store, IInv, TypeOK
<1>2. CASE Go(q, "create")
  BY <1>2, GoStep DEF FindUser, store, IInv, TypeOK
<1> QED
  BY <1>1, <1>2 DEF FindUser

\* The unique index keeps the second document of an email out.
LEMMA InsertUserInvariant ==
  ASSUME IInv, NEW q \in Req, InsertUser(q)
  PROVE  IInv'
<1>1. req[q].user \in User
  BY RequestShape DEF InsertUser, Creating, IInv, Idle
<1>2. \A u, v \in users' : u.email = v.email => u = v
  BY DEF InsertUser, Exists, IInv, TypeOK
<1> QED
  BY <1>1, <1>2, MadeStep DEF InsertUser, IInv, TypeOK

\* The link goes to the oldest relation of the email; the oldest relation of
\* another email is another.
LEMMA LinkInvariant ==
  ASSUME IInv, NEW q \in Req, Link(q)
  PROVE  IInv'
<1> DEFINE e == req[q].user.email
<1>1. PICK i \in DOMAIN relations :
        First(i, e) /\ relations' = [relations EXCEPT ![i].user = e]
  BY DEF Link
<1>2. e \in Email
  BY RequestShape DEF Link, At, IInv, Creating, User, Idle
<1>3. relations' \in Seq(Relation) /\ Updated(i, e)
  BY <1>1, <1>2, UpdateRelation DEF IInv
<1>4. Idle \in Request /\ Idle.op # "register"
  BY DEF Idle, Request
<1>5. req' \in [Req -> Request] /\ req'[q] = Idle
      /\ \A p \in Req \ {q} : req'[p] = req[p]
  BY <1>4 DEF Link, End, Become, IInv, TypeOK
<1>6. TypeOK'
  BY <1>2, <1>3, <1>5 DEF Link, IInv, TypeOK
<1>7. RegisteredLinked'
  <2>1. \A j \in DOMAIN relations : /\ j \in DOMAIN relations'
                                    /\ relations'[j].email = relations[j].email
    BY <1>1, <1>3, RelationsType DEF Updated, IInv, Relation
  <2>2. \A j \in DOMAIN relations, x \in Email : First(j, x) => First(j, x)'
    BY <1>3, <2>1, RelationsType DEF First, IInv, Updated
  <2>3. relations'[i].user = e
    BY <1>1, <1>3, RelationsType DEF Updated, IInv, Relation
  <2>4. ASSUME NEW x \in registered, x # e
        PROVE  \E j \in DOMAIN relations' : First(j, x)' /\ relations'[j].user = x
    <3>1. PICK j \in DOMAIN relations : First(j, x) /\ relations[j].user = x
      BY DEF IInv, RegisteredLinked
    <3>2. j # i
      BY <1>1, <2>4, <3>1 DEF First
    <3> QED
      BY <1>3, <2>1, <2>2, <3>1, <3>2 DEF Updated, IInv, TypeOK
  <2> QED
    BY <1>1, <1>2, <2>1, <2>2, <2>3, <2>4 DEF RegisteredLinked, Link
<1>8. LinkHasUser'
  BY <1>4, <1>5 DEF LinkHasUser, IInv, At, Exists, Link
<1> QED
  BY <1>6, <1>7, <1>8 DEF IInv

\* The request that has found its owner.
LEMMA OwnerRequest ==
  ASSUME TypeOK, NEW q \in Req, FindOwner(q), ~ End(q)
  PROVE  \E r \in Request :
           /\ Become(q, r) /\ r.op = "createBusiness" /\ r.at = "business"
           /\ Exists(r.owner)
<1>1. PICK owner \in users, email \in Email :
        Become(q, [op |-> "createBusiness", at |-> "business",
                   owner |-> owner.email, email |-> email])
  BY DEF FindOwner
<1>2. owner.email \in Email /\ Exists(owner.email)
  BY DEF TypeOK, User, Exists
<1>3. [op |-> "createBusiness", at |-> "business",
       owner |-> owner.email, email |-> email] \in Request
  BY <1>2 DEF Request
<1> QED
  BY <1>1, <1>2, <1>3

\* Lookups and failures that only move one request.
LEMMA MoveInvariant ==
  ASSUME IInv, NEW q \in Req, CreateFails(q) \/ FindOwner(q) \/ Fail(q)
  PROVE  IInv'
<1>1. UNCHANGED <<store, answers>>
  BY DEF CreateFails, FindOwner, Fail
<1>2. CASE End(q)
  BY <1>1, <1>2, EndStep
<1>3. CASE ~ End(q)
  <2>1. FindOwner(q)
    BY <1>3 DEF CreateFails, Fail
  <2>2. PICK r \in Request : Become(q, r) /\ r.op = "createBusiness"
    BY <1>3, <2>1, OwnerRequest DEF IInv
  <2> QED
    BY <1>1, <2>2, RequestStep DEF IInv, TypeOK, store
<1> QED
  BY <1>2, <1>3

\* The request behind its first insert.
LEMMA FoundedRequest ==
  ASSUME TypeOK, NEW q \in Req, InsertBusiness(q)
  PROVE  \E r \in Request :
           /\ Become(q, r) /\ r.op = "createBusiness" /\ r.at = "relation"
           /\ r.owner = req[q].owner /\ r.biz \notin businesses
           /\ businesses' = businesses \union {r.biz} /\ r.biz \in Biz
<1>1. PICK b \in Biz :
        /\ b \notin businesses
        /\ businesses' = businesses \union {b}
        /\ Become(q, [op |-> "createBusiness", at |-> "relation", biz |-> b,
                      owner |-> req[q].owner, email |-> req[q].email])
  BY DEF InsertBusiness
<1>2. req[q].owner \in Email /\ req[q].email \in Email
  BY RequestShape DEF InsertBusiness, At, Creating, Idle
<1>3. [op |-> "createBusiness", at |-> "relation", biz |-> b,
       owner |-> req[q].owner, email |-> req[q].email] \in Request
  BY <1>2 DEF Request
<1> QED
  BY <1>1, <1>3

LEMMA InsertBusinessInvariant ==
  ASSUME IInv, NEW q \in Req, InsertBusiness(q)
  PROVE  IInv'
<1>1. PICK r \in Request : /\ Become(q, r) /\ r.op = "createBusiness"
                           /\ businesses' = businesses \union {r.biz}
                           /\ r.biz \in Biz
  BY FoundedRequest DEF IInv
<1> QED
  BY <1>1, RequestStep DEF InsertBusiness, IInv, TypeOK

\* The invitation that is about to be stored.
LEMMA LookupRequest ==
  ASSUME TypeOK, NEW q \in Req, LookupInvited(q)
  PROVE  \E r \in Request : Become(q, r) /\ r.op = "createUserBusiness"
<1>1. PICK e \in Email, b \in SomeBiz, role \in Role,
           u \in SomeUser \union {Absent} :
        Become(q, [op |-> "createUserBusiness", at |-> "insert",
                   relation |->
                     [biz |-> b, email |-> e, role |-> role,
                      user |-> IF u = Absent /\ Exists(e) THEN e ELSE u]])
  BY DEF LookupInvited
<1>2. SomeUser \subseteq UserId /\ SomeBiz \subseteq BizId
  BY DEF SomeUser, UserId, User, SomeBiz, BizId, TypeOK
<1>3. [biz |-> b, email |-> e, role |-> role,
       user |-> IF u = Absent /\ Exists(e) THEN e ELSE u] \in Relation
  BY <1>2 DEF Relation, UserId
<1>4. [op |-> "createUserBusiness", at |-> "insert",
       relation |-> [biz |-> b, email |-> e, role |-> role,
                     user |-> IF u = Absent /\ Exists(e) THEN e ELSE u]]
        \in Request
  BY <1>3 DEF Request
<1> QED
  BY <1>1, <1>4

LEMMA LookupInvitedInvariant ==
  ASSUME IInv, NEW q \in Req, LookupInvited(q)
  PROVE  IInv'
<1>1. \E r \in Request : Become(q, r) /\ r.op # "register"
  BY LookupRequest DEF IInv
<1> QED
  BY <1>1, RequestStep DEF LookupInvited, IInv, TypeOK, store

\* An insert puts its relation behind the others.
LEMMA InsertInvariant ==
  ASSUME IInv, NEW q \in Req, NEW x \in Relation, CreateRelation(x), End(q),
         UNCHANGED <<users, businesses, registered>>,
         founded' \subseteq Biz
  PROVE  IInv'
<1>1. relations' \in Seq(Relation) /\ Inserted(x)
  BY InsertRelation DEF IInv
<1>2. Idle \in Request /\ Idle.op # "register"
  BY DEF Idle, Request
<1>3. req' \in [Req -> Request] /\ req'[q] = Idle
      /\ \A p \in Req \ {q} : req'[p] = req[p]
  BY <1>2 DEF End, Become, IInv, TypeOK
<1>4. TypeOK'
  BY <1>1, <1>3 DEF IInv, TypeOK
<1>5. RegisteredLinked'
  BY <1>1, RelationsType DEF RegisteredLinked, First, Inserted, IInv
<1>6. LinkHasUser'
  BY <1>2, <1>3 DEF LinkHasUser, IInv, At, Exists
<1> QED
  BY <1>4, <1>5, <1>6 DEF IInv

LEMMA OwnerRelationType ==
  ASSUME TypeOK, NEW q \in Req, At(q, "createBusiness", "relation")
  PROVE  OwnerRelation(req[q], "superAdmin") \in Relation
BY RequestShape DEF At, Creating, Idle, OwnerRelation, Relation, Role, BizId,
   UserId

LEMMA InsertOwnerInvariant ==
  ASSUME IInv, NEW q \in Req, InsertOwner(q)
  PROVE  IInv'
<1>1. OwnerRelation(req[q], "superAdmin") \in Relation
  BY OwnerRelationType DEF InsertOwner, IInv
<1>2. founded' \subseteq Biz
  <2>1. req[q].biz \in Biz
    BY RequestShape DEF InsertOwner, At, IInv, Creating, Idle
  <2> QED
    BY <2>1 DEF InsertOwner, IInv, TypeOK
<1> QED
  BY <1>1, <1>2, InsertInvariant DEF InsertOwner

LEMMA InvitedRelationType ==
  ASSUME TypeOK, NEW q \in Req, InsertInvited(q)
  PROVE  req[q].relation \in Relation
BY RequestShape DEF InsertInvited, At, Creating, Idle

LEMMA InsertInvitedInvariant ==
  ASSUME IInv, NEW q \in Req, InsertInvited(q)
  PROVE  IInv'
BY InvitedRelationType, InsertInvariant DEF InsertInvited, IInv, TypeOK, answers

LEMMA NextInvariant == IInv /\ [Next]_vars => IInv'
<1> SUFFICES ASSUME IInv, [Next]_vars PROVE IInv'
  OBVIOUS
<1>1. ASSUME NEW q \in Req,
             \/ Register(q) \/ ValidateUser(q) \/ CreateUser(q)
             \/ CreateBusiness(q) \/ CreateUserBusiness(q)
      PROVE  IInv'
  BY <1>1, BeginInvariant
<1>2. ASSUME NEW q \in Req, SignsIn(q) PROVE IInv'
  BY <1>2, FindUserInvariant, InsertUserInvariant, MoveInvariant, LinkInvariant
     DEF SignsIn
<1>3. ASSUME NEW q \in Req, FindOwner(q) \/ Fail(q) PROVE IInv'
  BY <1>3, MoveInvariant
<1>4. ASSUME NEW q \in Req, InsertBusiness(q) \/ InsertOwner(q) PROVE IInv'
  BY <1>4, InsertBusinessInvariant, InsertOwnerInvariant
<1>5. ASSUME NEW q \in Req, LookupInvited(q) \/ InsertInvited(q) PROVE IInv'
  BY <1>5, LookupInvitedInvariant, InsertInvitedInvariant
<1>6. CASE UNCHANGED vars
  BY <1>6 DEF vars, IInv, TypeOK, RegisteredLinked, First, LinkHasUser, At,
              Exists
<1> QED
  BY <1>1, <1>2, <1>3, <1>4, <1>5, <1>6 DEF Next, Serves

\* IInv holds in every state.
THEOREM Inductive == Spec => []IInv
<1> QED
  BY InitInvariant, NextInvariant, PTL DEF Spec

\* Every document and request has its type and emails of users stay unique,
\* whatever bodies name.
THEOREM TypeCorrect == Spec => []TypeOK
<1>1. IInv => TypeOK
  BY DEF IInv
<1> QED
  BY <1>1, Inductive, PTL

\* Whoever is answered 201 by register is let in by the guard of a business at
\* once and for good, whatever bodies name: register links the oldest relation
\* of the email, and no later step takes it.
THEOREM RegisteredCanWork == Spec => []RegisteredHasAccess
<1>1. IInv => RegisteredHasAccess
  <2> SUFFICES ASSUME IInv, NEW e \in registered
               PROVE  \E b \in BizId : HasRole(e, b, Role)
    BY DEF RegisteredHasAccess
  <2>1. PICK i \in DOMAIN relations : relations[i].user = e
    BY DEF IInv, RegisteredLinked
  <2>2. relations[i].biz \in BizId /\ e \in Email
    BY RelationsType DEF IInv, TypeOK, Relation
  <2> QED
    BY <2>1, <2>2, AnyRelationCounts DEF IInv, SomeRelation
<1> QED
  BY <1>1, Inductive, PTL
-----------------------------------------------------------------------------
(* What a step does to the collections, whoever takes it.                  *)

\* The steps that write one of them, and those that write none.
LEMMA Writes ==
  ASSUME NEW q \in Req, SignsIn(q) \/ Serves(q)
  PROVE  \/ UNCHANGED <<store, answers>>
         \/ InsertUser(q) \/ Link(q) \/ InsertBusiness(q) \/ InsertOwner(q)
         \/ InsertInvited(q)
  BY DEF SignsIn, Serves, FindUser, CreateFails, Register, ValidateUser,
         CreateUser, CreateBusiness, FindOwner, CreateUserBusiness,
         LookupInvited, Fail

\* A relation stays with its business, email and role, and with its user or
\* goes to the one of its email, who has registered.
Kept(j) ==
  /\ j \in DOMAIN relations'
  /\ relations'[j].biz = relations[j].biz
  /\ relations'[j].email = relations[j].email
  /\ relations'[j].role = relations[j].role
  /\ \/ relations'[j].user = relations[j].user
     \/ /\ relations'[j].user = relations[j].email
        /\ relations[j].email \in registered'
        /\ Exists(relations[j].email)

LEMMA LinkKeeps ==
  ASSUME IInv, NEW q \in Req, Link(q), NEW j \in DOMAIN relations
  PROVE  Kept(j)
<1> DEFINE e == req[q].user.email
<1>1. PICK i \in DOMAIN relations :
        First(i, e) /\ relations' = [relations EXCEPT ![i].user = e]
  BY DEF Link
<1>2. e \in Email
  BY RequestShape DEF Link, At, IInv, Creating, User, Idle
<1>3. Updated(i, e) /\ relations[i] \in Relation /\ relations[i].email = e
  BY <1>1, <1>2, UpdateRelation, RelationsType DEF IInv, First
<1>4. Exists(e) /\ e \in registered'
  BY DEF Link, IInv, LinkHasUser
<1>5. CASE j = i
  BY <1>3, <1>4, <1>5 DEF Updated, Kept, Relation
<1>6. CASE j # i
  BY <1>3, <1>6 DEF Updated, Kept
<1> QED
  BY <1>5, <1>6

LEMMA StepKeeps ==
  ASSUME IInv, [Next]_vars
  PROVE  /\ users \subseteq users' /\ businesses \subseteq businesses'
         /\ registered \subseteq registered'
         /\ \A j \in DOMAIN relations : Kept(j)
<1>1. ASSUME NEW q \in Req, Link(q)
      PROVE  /\ users \subseteq users' /\ businesses \subseteq businesses'
             /\ registered \subseteq registered'
             /\ \A j \in DOMAIN relations : Kept(j)
  BY <1>1, LinkKeeps DEF Link
<1>2. ASSUME NEW q \in Req, InsertOwner(q) \/ InsertInvited(q)
      PROVE  /\ UNCHANGED <<users, businesses, registered>>
             /\ \A j \in DOMAIN relations : Kept(j)
  <2>1. \A j \in DOMAIN relations :
          j \in DOMAIN relations' /\ relations'[j] = relations[j]
    BY <1>2 DEF InsertOwner, InsertInvited, CreateRelation, IInv, TypeOK
  <2> QED
    BY <1>2, <2>1 DEF InsertOwner, InsertInvited, Kept, answers
<1>3. ASSUME NEW q \in Req,
             \/ InsertUser(q) \/ InsertBusiness(q)
             \/ UNCHANGED <<store, answers>>
      PROVE  /\ users \subseteq users' /\ businesses \subseteq businesses'
             /\ UNCHANGED <<relations, registered>>
  BY <1>3 DEF InsertUser, InsertBusiness, store, answers
<1>4. UNCHANGED relations => \A j \in DOMAIN relations : Kept(j)
  BY DEF Kept
<1> QED
  BY <1>1, <1>2, <1>3, <1>4, Writes DEF Next, vars

\* So whoever was a super admin of a business is succeeded by one.
LEMMA AdminStays ==
  ASSUME IInv, [Next]_vars
  PROVE  /\ \A i \in DOMAIN relations : AdminRelation(i) => AdminRelation(i)'
         /\ \A b : HasSuperAdmin(b) => HasSuperAdmin(b)'
<1>1. ASSUME NEW i \in DOMAIN relations, AdminRelation(i)
      PROVE  AdminRelation(i)' /\ relations'[i].biz = relations[i].biz
  <2>1. Kept(i) /\ users \subseteq users'
    BY StepKeeps
  <2> QED
    BY <1>1, <2>1 DEF Kept, AdminRelation, Exists
<1>2. ASSUME NEW b, HasSuperAdmin(b)
      PROVE  HasSuperAdmin(b)'
  <2>1. PICK i \in DOMAIN relations : AdminRelation(i) /\ relations[i].biz = b
    BY <1>2 DEF HasSuperAdmin
  <2>2. AdminRelation(i)' /\ relations'[i].biz = b
    BY <1>1, <2>1
  <2>3. i \in DOMAIN relations'
    BY <2>2 DEF AdminRelation
  <2> QED
    BY <2>2, <2>3 DEF HasSuperAdmin
<1> QED
  BY <1>1, <1>2
-----------------------------------------------------------------------------
(* AdminInv is inductive.                                                  *)

LEMMA InitAdmin == Init => AdminInv
  BY DEF Init, AdminInv, FoundingIsReady, InvitersAreIn, OldestIsFounders,
         FoundedHasAdmin, At, Idle

\* What the request r has found or stored is there.
Ready(r) ==
  /\ r.op = "createBusiness" /\ r.at \in {"business", "relation"}
       => Exists(r.owner)
  /\ r.op = "createBusiness" /\ r.at = "relation" => r.biz \in businesses
  /\ r.op = "createUserBusiness" => relations # <<>>

LEMMA ReadyIs ==
  FoundingIsReady /\ InvitersAreIn <=> \A q \in Req : Ready(req[q])
  BY DEF FoundingIsReady, InvitersAreIn, Ready, At

\* It stays there.
LEMMA ReadyStays ==
  ASSUME IInv, [Next]_vars
  PROVE  \A r : Ready(r) => Ready(r)'
<1>1. users \subseteq users' /\ businesses \subseteq businesses'
  BY StepKeeps
<1>2. relations # <<>> => relations' # <<>>
  <2> SUFFICES ASSUME relations # <<>> PROVE relations' # <<>>
    OBVIOUS
  <2>1. 1 \in DOMAIN relations
    BY RelationsType DEF IInv, TypeOK
  <2>2. 1 \in DOMAIN relations'
    BY <2>1, StepKeeps DEF Kept
  <2> QED
    BY <2>2
<1> QED
  BY <1>1, <1>2 DEF Ready, Exists

\* A request is ready for the await it comes to.
LEMMA ReadyStep ==
  ASSUME IInv, AdminInv, NEW q \in Req, SignsIn(q) \/ Serves(q)
  PROVE  \E r : Become(q, r) /\ (Ready(r) \/ Ready(r)')
<1>1. Ready(req[q])
  BY ReadyIs DEF AdminInv
<1>2. Ready(Idle)
  BY DEF Ready, Idle
<1>3. CASE Register(q) \/ ValidateUser(q) \/ CreateUser(q) \/ CreateBusiness(q)
  <2>1. CASE Register(q)
    BY <2>1 DEF Register, Ready
  <2>2. CASE ValidateUser(q)
    BY <2>2 DEF ValidateUser, Ready
  <2>3. CASE CreateUser(q)
    BY <2>3 DEF CreateUser, Ready
  <2>4. CASE CreateBusiness(q)
    BY <2>4 DEF CreateBusiness, Ready
  <2> QED
    BY <1>3, <2>1, <2>2, <2>3, <2>4
<1>4. CASE CreateUserBusiness(q)
  BY <1>4 DEF CreateUserBusiness, MayInvite, HasRole, Finds, Ready, IInv, TypeOK
<1>5. CASE FindUser(q) \/ InsertUser(q)
  <2>1. CASE End(q)
    BY <1>2, <2>1 DEF End
  <2>2. ASSUME NEW at, Go(q, at)
        PROVE  Become(q, [req[q] EXCEPT !.at = at])
    BY <2>2 DEF Go, Become, IInv, TypeOK
  <2>3. ASSUME NEW at, req[q].op \in Creating
        PROVE  Ready([req[q] EXCEPT !.at = at])
    <3>1. [req[q] EXCEPT !.at = at].op = req[q].op
      BY <2>3, RequestShape DEF IInv, Creating, Idle
    <3> QED
      BY <2>3, <3>1 DEF Ready, Creating
  <2> QED
    BY <1>5, <2>1, <2>2, <2>3 DEF FindUser, InsertUser, Made
<1>6. CASE CreateFails(q) \/ Link(q) \/ InsertOwner(q) \/ InsertInvited(q) \/ Fail(q)
  BY <1>2, <1>6 DEF CreateFails, Link, InsertOwner, InsertInvited, Fail, End
<1>7. CASE InsertBusiness(q)
  <2>1. PICK r \in Request :
          /\ Become(q, r) /\ r.op = "createBusiness" /\ r.at = "relation"
          /\ r.owner = req[q].owner
          /\ businesses' = businesses \union {r.biz}
    BY <1>7, FoundedRequest DEF IInv
  <2>2. Exists(req[q].owner) /\ UNCHANGED users
    BY <1>1, <1>7 DEF Ready, InsertBusiness, At
  <2>3. Ready(r)'
    BY <2>1, <2>2 DEF Ready, Exists
  <2> QED
    BY <2>1, <2>3
<1>8. CASE LookupInvited(q)
  <2>1. PICK r \in Request : Become(q, r) /\ r.op = "createUserBusiness"
    BY <1>8, LookupRequest DEF IInv
  <2>2. relations # <<>>
    BY <1>1, <1>8 DEF Ready, LookupInvited, At
  <2> QED
    BY <2>1, <2>2 DEF Ready
<1>9. CASE FindOwner(q)
  <2>1. CASE End(q)
    BY <1>2, <2>1 DEF End
  <2>2. CASE ~ End(q)
    BY <1>9, <2>2, OwnerRequest DEF Ready, IInv
  <2> QED
    BY <2>1, <2>2
<1> QED
  BY <1>3, <1>4, <1>5, <1>6, <1>7, <1>8, <1>9 DEF SignsIn, Serves

LEMMA ReadyNext ==
  ASSUME IInv, AdminInv, [Next]_vars
  PROVE  FoundingIsReady' /\ InvitersAreIn'
<1>1. ASSUME NEW p \in Req PROVE Ready(req[p])'
  <2>1. Ready(req[p])
    BY ReadyIs DEF AdminInv
  <2>2. CASE req'[p] = req[p]
    BY <2>1, <2>2, ReadyStays DEF Ready
  <2>3. ASSUME NEW q \in Req, SignsIn(q) \/ Serves(q)
        PROVE  Ready(req[p])'
    <3>1. PICK r : Become(q, r) /\ (Ready(r) \/ Ready(r)')
      BY <2>3, ReadyStep
    <3>2. Ready(r)'
      BY <3>1, ReadyStays
    <3>3. req'[p] = r \/ req'[p] = req[p]
      BY <3>1 DEF Become, IInv, TypeOK
    <3> QED
      BY <2>2, <3>2, <3>3 DEF Ready
  <2> QED
    BY <2>2, <2>3 DEF Next, vars
<1>2. (FoundingIsReady /\ InvitersAreIn <=> \A q \in Req : Ready(req[q]))'
  BY ReadyIs, PTL
<1> QED
  BY <1>1, <1>2

\* The owner's relation, once it is stored, makes a super admin.
LEMMA OwnerIsAdmin ==
  ASSUME IInv, AdminInv, NEW q \in Req, InsertOwner(q)
  PROVE  \E n \in DOMAIN relations' :
           /\ n = Len(relations) + 1 /\ AdminRelation(n)'
           /\ relations'[n].biz = req[q].biz /\ req[q].biz \in businesses'
<1> DEFINE x == OwnerRelation(req[q], "superAdmin")
           n == Len(relations) + 1
<1>1. x \in Relation /\ Inserted(x)
  BY OwnerRelationType, InsertRelation DEF InsertOwner, IInv
<1>2. n \in DOMAIN relations' /\ relations'[n] = x
  BY <1>1, RelationsType DEF Inserted, IInv
<1>3. Exists(req[q].owner) /\ req[q].biz \in businesses
  BY DEF InsertOwner, AdminInv, FoundingIsReady, At
<1> QED
  BY <1>2, <1>3 DEF OwnerRelation, AdminRelation, InsertOwner, Exists

LEMMA OldestNext ==
  ASSUME IInv, AdminInv, [Next]_vars
  PROVE  OldestIsFounders'
<1> SUFFICES ASSUME relations' # <<>>
             PROVE  AdminRelation(1)' /\ relations'[1].biz \in businesses'
  BY DEF OldestIsFounders
<1>1. CASE relations # <<>>
  <2>1. 1 \in DOMAIN relations
    BY <1>1, RelationsType DEF IInv, TypeOK
  <2>2. AdminRelation(1) /\ relations[1].biz \in businesses
    BY <1>1 DEF AdminInv, OldestIsFounders
  <2> QED
    BY <2>1, <2>2, AdminStays, StepKeeps DEF Kept
<1>2. CASE relations = <<>>
  <2>1. Len(relations) = 0 /\ relations' # relations
    BY <1>2
  <2>2. ASSUME NEW q \in Req, Link(q) \/ InsertInvited(q)
        PROVE  FALSE
    BY <1>2, <2>2 DEF Link, InsertInvited, At, AdminInv, InvitersAreIn
  <2>3. PICK q \in Req : InsertOwner(q)
    BY <2>1, <2>2, Writes DEF Next, vars, InsertUser, InsertBusiness, store
  <2> QED
    BY <2>1, <2>3, OwnerIsAdmin
<1> QED
  BY <1>1, <1>2

LEMMA FoundedNext ==
  ASSUME IInv, AdminInv, [Next]_vars
  PROVE  FoundedHasAdmin'
<1> SUFFICES ASSUME NEW b \in founded' PROVE HasSuperAdmin(b)'
  BY DEF FoundedHasAdmin
<1>1. CASE b \in founded
  BY <1>1, AdminStays DEF AdminInv, FoundedHasAdmin
<1>2. CASE b \notin founded
  <2>1. PICK q \in Req : InsertOwner(q) /\ b = req[q].biz
    BY <1>2, Writes
       DEF Next, vars, InsertUser, InsertBusiness, InsertInvited, InsertOwner,
           Link, answers
  <2> QED
    BY <2>1, OwnerIsAdmin DEF HasSuperAdmin
<1> QED
  BY <1>1, <1>2

LEMMA NextAdmin == IInv /\ AdminInv /\ [Next]_vars => AdminInv'
  BY ReadyNext, OldestNext, FoundedNext DEF AdminInv

\* AdminInv holds in every state, whatever bodies name.
THEOREM AdminInductive == Spec => [](IInv /\ AdminInv)
<1> QED
  BY InitInvariant, InitAdmin, NextInvariant, NextAdmin, PTL DEF Spec

\* A business that POST /businesses answered with keeps a super admin,
\* whatever is invited to it and whoever registers.
THEOREM FoundedKeepsAdmin == Spec => []FoundedHasAdmin
<1>1. AdminInv => FoundedHasAdmin
  BY DEF AdminInv
<1> QED
  BY <1>1, AdminInductive, PTL

\* Once there is a relation there is always somebody who can invite: the
\* oldest relation is a founder's and can change hands, but is never let go.
THEOREM SomebodyCanInvite == Spec => []SomebodyIsSuperAdmin
<1>1. IInv /\ AdminInv => SomebodyIsSuperAdmin
  <2> SUFFICES ASSUME IInv, AdminInv, relations # <<>>
               PROVE  \E u \in users, b \in businesses :
                        HasRole(u.email, b, {"superAdmin"})
    BY DEF SomebodyIsSuperAdmin
  <2>1. AdminRelation(1) /\ relations[1].biz \in businesses
    BY DEF AdminInv, OldestIsFounders
  <2>2. PICK u \in users : u.email = relations[1].user
    BY <2>1 DEF AdminRelation, Exists
  <2>3. Finds(1, u.email, relations[1].biz)
    BY <2>1, <2>2 DEF Finds, AdminRelation
  <2> QED
    BY <2>1, <2>3 DEF HasRole, AdminRelation
<1> QED
  BY <1>1, AdminInductive, PTL
-----------------------------------------------------------------------------
(* Access.                                                                 *)

LEMMA AnyRelationCountsNext ==
  (TypeOK => \A u \in Email, b \in BizId :
               HasRole(u, b, Role) <=> SomeRelation(u, b))'
BY AnyRelationCounts, PTL

\* A relation of e with b is still one after a step, or relinked.
LEMMA RelationStep ==
  ASSUME IInv, [Next]_vars, NEW e, NEW i \in DOMAIN relations,
         relations[i].user = e
  PROVE  /\ i \in DOMAIN relations' /\ relations'[i].biz = relations[i].biz
         /\ relations'[i].user = e \/ Relinked(i, e)'
<1>1. Kept(i)
  BY StepKeeps
<1> QED
  BY <1>1 DEF Kept, Relinked

LEMMA AccessStep ==
  ASSUME IInv, [Next]_vars, NEW e \in Email, NEW b \in BizId,
         HasRole(e, b, Role), ~ HasRole(e, b, Role)'
  PROVE  \E i \in DOMAIN relations : Finds(i, e, b) /\ Relinked(i, e)'
<1>1. PICK i \in DOMAIN relations : Finds(i, e, b)
  BY DEF HasRole
<1>2. relations[i].user = e /\ relations[i].biz = b
  BY <1>1 DEF Finds
<1>3. TypeOK'
  BY NextInvariant DEF IInv
<1>4. ~ SomeRelation(e, b)'
  BY <1>3, AnyRelationCountsNext
<1>5. relations'[i].user # e
  BY <1>2, <1>4, RelationStep DEF SomeRelation
<1> QED
  BY <1>1, <1>2, <1>5, RelationStep

\* The only way to lose access to a business is that a relation under another
\* address goes to the one who registers the address, whatever bodies name.
THEOREM AccessStays == Spec => AccessIsKept
<1>1. IInv /\ [Next]_vars
        => [\A e \in Email, b \in BizId :
              HasRole(e, b, Role) /\ ~ HasRole(e, b, Role)' =>
                \E i \in DOMAIN relations :
                  Finds(i, e, b) /\ Relinked(i, e)']_vars
  BY AccessStep
<1> QED
  BY <1>1, Inductive, PTL DEF Spec, AccessIsKept
=============================================================================
