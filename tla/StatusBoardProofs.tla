------------------------- MODULE StatusBoardProofs -------------------------
(***************************************************************************)
(* Proofs about StatusBoard, for any number of APIs, responses and rows of *)
(* a page, any length of the day and any lag shorter than it.              *)
(***************************************************************************)
EXTENDS StatusBoard, NumberLemmas

(* Lemmas about time and about sets.                                       *)

LEMMA DayBounds ==
  \A t \in Nat : /\ Day(t) \in Nat
                 /\ Day(t) * DayLength <= t
                 /\ t < (Day(t) + 1) * DayLength
BY SizeAssumption DEF Day

LEMMA DayMonotone == \A t, u \in Nat : t <= u => Day(t) <= Day(u)
BY SizeAssumption DEF Day

LEMMA DaysAreNat == Days \subseteq Nat
BY DayBounds, SizeAssumption DEF Days

\* What is stored has its createdAt in the day that is not over, or in the one
\* before it.
LEMMA LateDay ==
  ASSUME NEW t \in Nat, NEW u \in Nat, NEW d \in Nat, u <= t + Lag,
         (d + 1) * DayLength <= u
  PROVE  d <= Day(t)
<1>1. d * DayLength < t + 1
  <2>1. (d + 1) * DayLength = d * DayLength + DayLength /\ d * DayLength \in Nat
    BY SizeAssumption
  <2> QED
    BY <2>1, SizeAssumption, LagAssumption
<1>2. t + 1 <= (Day(t) + 1) * DayLength
  BY DayBounds, SizeAssumption
<1>3. d * DayLength < (Day(t) + 1) * DayLength
  BY <1>1, <1>2, SizeAssumption, DayBounds
<1>4. \A x, y \in Int : x * DayLength < y * DayLength => x < y
  BY SizeAssumption
<1> QED
  BY <1>3, <1>4, DayBounds

\* The responses and their places.
LEMMA ResponsesType ==
  ASSUME TypeOK
  PROVE  /\ Len(responses) \in 0 .. MaxResponses
         /\ DOMAIN responses = 1 .. Len(responses)
         /\ IsFiniteSet(DOMAIN responses)
         /\ \A i \in DOMAIN responses : responses[i] \in Response
BY SizeAssumption, FS_Interval DEF TypeOK

Stored(x) ==
  /\ DOMAIN responses' = 1 .. Len(responses) + 1
  /\ \A i \in DOMAIN responses : responses'[i] = responses[i]
  /\ responses'[Len(responses) + 1] = x

LEMMA StoreAppends ==
  ASSUME TypeOK, StoreResponse
  PROVE  \E x \in Response :
           /\ x.createdAt <= now /\ now <= x.createdAt + Lag
           /\ x.success = Success(x.statuscode)
           /\ Stored(x)
           /\ responses' \in Seq(Response) /\ Len(responses') <= MaxResponses
           /\ Len(responses') = Len(responses) + 1
<1>1. PICK x \in Response :
        /\ x.createdAt <= now /\ now <= x.createdAt + Lag
        /\ x.success = Success(x.statuscode)
        /\ responses' = Append(responses, x)
  BY DEF StoreResponse
<1>2. responses' \in Seq(Response) /\ Len(responses') = Len(responses) + 1
  BY <1>1 DEF TypeOK
<1>3. Stored(x)
  BY <1>1, ResponsesType DEF Stored, TypeOK
<1>4. Len(responses') <= MaxResponses
  BY <1>2, ResponsesType, SizeAssumption DEF StoreResponse
<1> QED
  BY <1>1, <1>2, <1>3, <1>4

\* A page takes rows of consecutive places of the order.
LEMMA SortedIsOrder ==
  ASSUME TypeOK, NEW S, S \subseteq DOMAIN responses, NEW s \in Sorted(S)
  PROVE  /\ Cardinality(S) \in Nat /\ Cardinality(S) <= Len(responses)
         /\ s \in Bijection(1 .. Cardinality(S), S)
<1>1. IsFiniteSet(S) /\ Cardinality(S) \in Nat /\ Cardinality(S) <= Len(responses)
  <2>1. S \in SUBSET (1 .. Len(responses)) /\ Len(responses) \in Nat
    BY ResponsesType
  <2>2. /\ IsFiniteSet(1 .. Len(responses))
        /\ Cardinality(1 .. Len(responses)) = Len(responses)
    BY <2>1, FirstNumbers
  <2>3. IsFiniteSet(S) /\ Cardinality(S) <= Len(responses)
    BY <2>1, <2>2, FS_Subset
  <2> QED
    BY <2>3, FS_CardinalityType
<1>2. s \in [1 .. Cardinality(S) -> S]
  BY DEF Sorted
<1>3. s \in Injection(1 .. Cardinality(S), S)
  <2>1. \A i, j \in 1 .. Cardinality(S) : i # j => s[i] # s[j]
    BY <1>1 DEF Sorted
  <2> QED
    BY <1>2, <2>1 DEF Injection, IsInjective
<1>4. s \in Surjection(1 .. Cardinality(S), S)
  BY <1>1, <1>3, FS_Injection, FS_Interval
<1> QED
  BY <1>1, <1>3, <1>4 DEF Bijection

\* A page that is not full reaches the end.
LEMMA PageRows ==
  ASSUME NEW n \in Nat, NEW S, NEW s \in Bijection(1 .. n, S), NEW page \in Nat,
         page > 0
  PROVE  /\ Rows(s, page) \subseteq S
         /\ \A k \in 1 .. n : (page - 1) * Limit < k /\ k <= page * Limit
                                => s[k] \in Rows(s, page)
         /\ Cardinality(Rows(s, page)) = Limit <=> page * Limit <= n
<1> DEFINE first == (page - 1) * Limit
           last == page * Limit
           J == {k \in 1 .. n : first < k /\ k <= last}
           t == [k \in J |-> s[k]]
           T == Rows(s, page)
<1>1. /\ first \in Nat /\ last \in Nat /\ last = first + Limit
      /\ Limit \in Nat /\ Limit > 0
  BY SizeAssumption
<1>2. s \in [1 .. n -> S] /\ \A i, j \in 1 .. n : s[i] = s[j] => i = j
  BY DEF Bijection, Injection, IsInjective
<1>3. T = {s[k] : k \in J}
  BY <1>2 DEF Rows
<1>4. t \in Bijection(J, T)
  BY <1>2, <1>3 DEF Bijection, Injection, IsInjective, Surjection
<1>5. IsFiniteSet(J) /\ IsFiniteSet(T) /\ Cardinality(T) = Cardinality(J)
  <2>1. IsFiniteSet(J)
    <3>1. J \in SUBSET (1 .. n) /\ IsFiniteSet(1 .. n)
      BY FS_Interval
    <3> QED
      BY <3>1, FS_Subset
  <2> HIDE DEF J, T, t
  <2> QED
    BY <1>4, <2>1, FS_Bijection DEF ExistsBijection
<1> HIDE DEF first, last
<1>6. last <= n => J = first + 1 .. last
  BY <1>1
<1>7. n < last => J = first + 1 .. n
  BY <1>1
<1>8. Cardinality(J) = Limit <=> last <= n
  <2> HIDE DEF J
  <2>1. last <= n => Cardinality(J) = Limit
    BY <1>1, <1>6, FS_Interval
  <2>2. n < last => Cardinality(J) # Limit
    BY <1>1, <1>7, FS_Interval
  <2> QED
    BY <1>1, <2>1, <2>2
<1>9. Cardinality(T) = Limit <=> last <= n
  BY <1>5, <1>8
<1>10. T \subseteq S /\ \A k \in 1 .. n : first < k /\ k <= last => s[k] \in T
  BY <1>2, <1>3
<1> QED
  BY <1>9, <1>10 DEF first, last
-----------------------------------------------------------------------------
(* Type correctness.                                                       *)

LEMMA ClientShape ==
  ASSUME TypeOK
  PROVE  \/ client = Idle
         \/ client \in [at : {"asked"}, today : Days]
         \/ client \in [at : {"board"}, today : Days, of : 0 .. MaxResponses,
                        rows : SUBSET Place]
         \/ client \in [at : {"paging", "paged"}, api : SUBSET Api,
                        of : 0 .. MaxResponses,
                        page : 1 .. MaxResponses \div Limit + 1,
                        seen : SUBSET Place]
BY DEF TypeOK, Client

\* What a reader of pages gets, and where it goes on.
Fetched(rows, n) ==
  /\ client' = [client EXCEPT
                  !.seen = @ \union rows,
                  !.page = IF client.page * Limit <= n THEN @ + 1 ELSE @,
                  !.at = IF client.page * Limit <= n THEN "paging" ELSE "paged"]
  /\ rows \subseteq Matching(client.api)

\* The places of the order s of n rows that a page has are among the rows.
LEMMA FetchStep ==
  ASSUME TypeOK, FetchApiStatus
  PROVE  \E n \in Nat : \E s \in Sorted(Matching(client.api)) : \E rows :
           /\ n = Cardinality(Matching(client.api)) /\ n <= Len(responses)
           /\ s \in Bijection(1 .. n, Matching(client.api))
           /\ \A k \in 1 .. n :
                (client.page - 1) * Limit < k /\ k <= client.page * Limit
                  => s[k] \in rows
           /\ Fetched(rows, n)
<1> DEFINE S == Matching(client.api)
           n == Cardinality(S)
<1>1. PICK s \in Sorted(S) :
        LET rows == Rows(s, client.page)
            full == Cardinality(rows) = Limit
        IN client' = [client EXCEPT !.seen = @ \union rows,
                                    !.page = IF full THEN @ + 1 ELSE @,
                                    !.at = IF full THEN "paging" ELSE "paged"]
  BY DEF FetchApiStatus
<1>2. S \subseteq DOMAIN responses
  BY DEF Matching
<1>3. n \in Nat /\ n <= Len(responses) /\ s \in Bijection(1 .. n, S)
  BY <1>2, SortedIsOrder
<1>4. client.page \in Nat /\ client.page > 0
  BY ClientShape, SizeAssumption DEF FetchApiStatus, Idle
<1> DEFINE rows == Rows(s, client.page)
<1>5. /\ rows \subseteq S
      /\ \A k \in 1 .. n : (client.page - 1) * Limit < k /\ k <= client.page * Limit
                             => s[k] \in rows
      /\ Cardinality(rows) = Limit <=> client.page * Limit <= n
  BY <1>3, <1>4, PageRows
<1>6. Fetched(rows, n)
  BY <1>1, <1>5 DEF Fetched
<1> QED
  BY <1>3, <1>5, <1>6

LEMMA FetchType ==
  ASSUME TypeOK, FetchApiStatus
  PROVE  /\ client' \in Client
         /\ client'.api = client.api /\ client'.of = client.of
         /\ client'.at \in {"paging", "paged"}
<1>1. PICK n \in Nat : n <= Len(responses) /\ \E rows : Fetched(rows, n)
  BY FetchStep
<1>2. PICK rows : Fetched(rows, n)
  BY <1>1
<1>3. client \in [at : {"paging", "paged"}, api : SUBSET Api,
                  of : 0 .. MaxResponses, page : 1 .. MaxResponses \div Limit + 1,
                  seen : SUBSET Place]
  BY ClientShape DEF FetchApiStatus, Idle
<1>4. rows \subseteq Place
  BY <1>2, ResponsesType, SizeAssumption DEF Fetched, Matching, Place
<1>5. client.page * Limit <= n => client.page + 1 \in 1 .. MaxResponses \div Limit + 1
  <2>1. client.page * Limit <= n => client.page * Limit <= MaxResponses
    BY <1>1, <1>3, ResponsesType, SizeAssumption
  <2>2. \A x \in Nat : x * Limit <= MaxResponses => x <= MaxResponses \div Limit
    BY SizeAssumption
  <2> QED
    BY <1>3, <2>1, <2>2, SizeAssumption
<1> QED
  BY <1>3, <1>4, <1>5, <1>2 DEF Fetched, Client

LEMMA TypeNext == TypeOK /\ [Next]_vars => TypeOK'
<1> SUFFICES ASSUME TypeOK, [Next]_vars PROVE TypeOK'
  OBVIOUS
<1>1. Idle \in Client
  BY DEF Client
<1>2. Day(now) \in Days
  <2>1. now \in Nat /\ MaxTime \in Nat /\ now <= MaxTime
    BY SizeAssumption DEF TypeOK
  <2>2. Day(now) <= Day(MaxTime) /\ Day(now) \in Nat /\ Day(MaxTime) \in Nat
    BY <2>1, DayMonotone, DayBounds
  <2> QED
    BY <2>2 DEF Days
<1>3. CASE Tick
  BY <1>3, SizeAssumption DEF Tick, TypeOK
<1>4. CASE StoreResponse
  BY <1>4, StoreAppends DEF StoreResponse, TypeOK
<1>5. CASE FindApiResponses
  BY <1>2, <1>5 DEF FindApiResponses, TypeOK, Client
<1>6. CASE Aggregate
  <2>1. PICK rows \in Boards(client.today) :
          /\ client' = [at |-> "board", today |-> client.today,
                        of |-> Len(responses), rows |-> rows]
          /\ outages' \subseteq outages \union Api \X Days
    BY <1>6 DEF Aggregate
  <2>2. client.today \in Days
    BY <1>6, ClientShape DEF Aggregate, Idle
  <2>3. rows \subseteq Place
    BY ResponsesType, SizeAssumption DEF Boards, Place
  <2> QED
    BY <1>6, <2>1, <2>2, <2>3, ResponsesType DEF Aggregate, TypeOK, Client
<1>7. CASE BeginPaging
  <2>1. 1 \in 1 .. MaxResponses \div Limit + 1
    BY SizeAssumption
  <2> QED
    BY <1>7, <2>1, ResponsesType DEF BeginPaging, TypeOK, Client
<1>8. CASE FetchApiStatus
  BY <1>8, FetchType DEF FetchApiStatus, TypeOK
<1>9. CASE Leave
  BY <1>1, <1>9 DEF Leave, TypeOK
<1>10. CASE UNCHANGED vars
  BY <1>10 DEF vars, TypeOK
<1> QED
  BY <1>3, <1>4, <1>5, <1>6, <1>7, <1>8, <1>9, <1>10 DEF Next

LEMMA TypeInit == Init => TypeOK
BY SizeAssumption DEF Init, TypeOK, Client

\* Every response and request has its type; a reader of pages asks for no page
\* behind the last one that the bound allows.
THEOREM TypeCorrect == Spec => []TypeOK
<1> QED
  BY TypeInit, TypeNext, PTL DEF Spec
-----------------------------------------------------------------------------
(* BoardInv is inductive.                                                  *)

\* The stages of the pipeline keep to the responses of their API and day.
LEMMA SelectedIsOn ==
  ASSUME NEW a, NEW d, NEW today, NEW i \in Selected(a, d, today)
  PROVE  i \in On(a, d) /\ responses[i].api = a /\ Day(responses[i].createdAt) = d
<1>1. i \in On(a, d)
  BY DEF Selected, DayResponses, Latest, Failed
<1> QED
  BY <1>1 DEF On

\* A day keeps its responses, with their outcomes.
LEMMA DayGrows ==
  ASSUME TypeOK, NEW x, Stored(x), NEW a, NEW d
  PROVE  /\ On(a, d) \subseteq On(a, d)'
         /\ Failed(On(a, d)) \subseteq Failed(On(a, d))'
<1>1. DOMAIN responses \subseteq DOMAIN responses'
  BY ResponsesType DEF Stored
<1>2. On(a, d) \subseteq On(a, d)'
  BY <1>1 DEF On, Stored
<1>3. \A i \in On(a, d) : responses'[i] = responses[i]
  BY DEF On, Stored
<1> QED
  BY <1>2, <1>3 DEF Failed

\* What is stored after the day d is over is not of an earlier day.
LEMMA EarlierDaysStay ==
  ASSUME TypeOK, NEW x \in Response, now <= x.createdAt + Lag, Stored(x),
         NEW a, NEW d \in Nat, (d + 1) * DayLength <= now,
         NEW e \in Nat, e < d
  PROVE  On(a, e)' # {} <=> On(a, e) # {}
<1>1. d <= Day(x.createdAt)
  <2>1. x.createdAt \in Nat /\ now \in Nat
    BY SizeAssumption DEF TypeOK, Response
  <2> QED
    BY <2>1, LateDay
<1>2. Day(x.createdAt) # e
  <2>1. Day(x.createdAt) \in Nat
    BY DayBounds, SizeAssumption DEF Response
  <2> QED
    BY <1>1, <2>1
<1>3. On(a, e)' \subseteq On(a, e)
  <2>1. \A i \in DOMAIN responses' : i \in DOMAIN responses \/ responses'[i] = x
    BY ResponsesType DEF Stored
  <2> QED
    BY <1>2, <2>1 DEF On, Stored
<1> QED
  BY <1>3, DayGrows

LEMMA ShownDaysStay ==
  ASSUME TypeOK, NEW x \in Response, now <= x.createdAt + Lag, Stored(x),
         NEW a, NEW d \in ShownDays(a), (d + 1) * DayLength <= now
  PROVE  d \in ShownDays(a)'
<1>1. d \in Days /\ On(a, d) # {}
  BY DEF ShownDays
<1>2. d \in Nat /\ Days \subseteq Nat
  BY <1>1, DayBounds, SizeAssumption DEF Days
<1>3. {e \in {f \in Days : On(a, f) # {}} : e < d}
        = {e \in {f \in Days : On(a, f)' # {}} : e < d}
  BY <1>2, EarlierDaysStay
<1>4. Cardinality({e \in {f \in Days : On(a, f)' # {}} : e < d}) < MaxDays
  <2>1. Cardinality({e \in {f \in Days : On(a, f) # {}} : e < d}) < MaxDays
    BY DEF ShownDays
  <2> QED
    BY <1>3, <2>1
<1>5. On(a, d)' # {}
  BY <1>1, DayGrows
<1> QED
  BY <1>1, <1>4, <1>5 DEF ShownDays

LEMMA SamePlaces ==
  ASSUME UNCHANGED responses, NEW a, NEW d
  PROVE  /\ Failed(On(a, d))' = Failed(On(a, d))
         /\ d \in ShownDays(a)' <=> d \in ShownDays(a)
<1>1. \A e : On(a, e)' = On(a, e)
  BY DEF On
<1>2. Failed(On(a, d))' = Failed(On(a, d))
  BY <1>1 DEF Failed
<1>3. ShownDays(a)' = ShownDays(a)
  BY <1>1 DEF ShownDays
<1> QED
  BY <1>2, <1>3

LEMMA LooksBackNext ==
  ASSUME TypeOK, ClientLooksBack, [Next]_vars
  PROVE  ClientLooksBack'
<1>1. CASE Tick
  <2>1. Day(now) <= Day(now') /\ Day(now) \in Nat /\ Day(now') \in Nat
    <3>1. now \in Nat /\ now' \in Nat /\ now <= now'
      BY <1>1 DEF Tick, TypeOK
    <3> QED
      BY <3>1, DayMonotone, DayBounds
  <2>2. client.at \in {"asked", "board"} => client.today \in Nat
    BY ClientShape, DayBounds, SizeAssumption DEF Idle, Days
  <2> QED
    BY <1>1, <2>1, <2>2 DEF Tick, ClientLooksBack
<1>2. CASE StoreResponse
  <2>1. Len(responses') = Len(responses) + 1 /\ Len(responses) \in Nat
    BY <1>2, StoreAppends, ResponsesType
  <2>2. client.at \in {"board", "paging", "paged"} => client.of \in Nat
    BY ClientShape DEF Idle
  <2> QED
    BY <1>2, <2>1, <2>2 DEF StoreResponse, ClientLooksBack
<1>3. CASE FindApiResponses
  BY <1>3, DayBounds DEF FindApiResponses, ClientLooksBack, TypeOK
<1>4. CASE Aggregate
  <2>1. PICK rows \in Boards(client.today) :
          client' = [at |-> "board", today |-> client.today,
                     of |-> Len(responses), rows |-> rows]
    BY <1>4 DEF Aggregate
  <2>2. rows \subseteq 1 .. Len(responses) /\ Len(responses) \in Nat
    BY ResponsesType DEF Boards
  <2> QED
    BY <1>4, <2>1, <2>2 DEF Aggregate, ClientLooksBack
<1>5. CASE BeginPaging
  BY <1>5, ResponsesType DEF BeginPaging, ClientLooksBack
<1>6. CASE FetchApiStatus
  BY <1>6, FetchType DEF FetchApiStatus, ClientLooksBack
<1>7. CASE Leave
  BY <1>7 DEF Leave, ClientLooksBack, Idle
<1>8. CASE UNCHANGED vars
  BY <1>8 DEF vars, ClientLooksBack
<1> QED
  BY <1>1, <1>2, <1>3, <1>4, <1>5, <1>6, <1>7, <1>8 DEF Next

\* An outage that is shown is of a day that is over when the board is computed.
LEMMA AggregateOutages ==
  ASSUME BoardInv, Aggregate
  PROVE  OutagesKeepTheirPlace'
<1>1. PICK rows \in Boards(client.today) :
        outages' = outages \union
          {o \in Api \X Days :
             o[2] < client.today /\ Failed(On(o[1], o[2])) \intersect rows # {}}
  BY DEF Aggregate
<1>2. ASSUME NEW o \in outages', o \notin outages
      PROVE  /\ (o[2] + 1) * DayLength <= now
             /\ Failed(On(o[1], o[2])) # {}
             /\ o[2] \in ShownDays(o[1])
  <2>1. PICK i \in rows : i \in Failed(On(o[1], o[2])) /\ i \in DOMAIN responses
    BY <1>1, <1>2 DEF Failed, On
  <2>2. PICK a \in Api :
          \E d \in ShownDays(a) : i \in Selected(a, d, client.today)
    BY <2>1 DEF Boards
  <2>3. PICK d \in ShownDays(a) : i \in Selected(a, d, client.today)
    BY <2>2
  <2>6. o[1] = a /\ o[2] = d
    BY <2>1, <2>3, SelectedIsOn DEF Failed, On
  <2>4. o[2] + 1 <= Day(now)
    <3>1. o[2] \in Days /\ o[2] < client.today
      BY <1>1, <1>2
    <3>3. client.today \in Days
      BY ClientShape DEF Aggregate, BoardInv, Idle
    <3>2. client.today <= Day(now) /\ Day(now) \in Nat
      BY DayBounds DEF BoardInv, ClientLooksBack, Aggregate, TypeOK
    <3>4. o[2] \in Nat /\ client.today \in Nat
      BY <3>1, <3>3, DaysAreNat
    <3> QED
      BY <3>1, <3>2, <3>4
  <2>5. (o[2] + 1) * DayLength <= now
    <3>1. o[2] \in Nat
      BY <1>1, <1>2, DaysAreNat
    <3>2. Day(now) * DayLength <= now /\ now \in Nat /\ Day(now) \in Nat
      BY DayBounds DEF BoardInv, TypeOK
    <3>3. \A x, y \in Nat : x <= y => x * DayLength <= y * DayLength
      BY SizeAssumption
    <3>4. (o[2] + 1) * DayLength <= Day(now) * DayLength
      BY <2>4, <3>1, <3>2, <3>3
    <3> QED
      BY <3>1, <3>2, <3>4, SizeAssumption
  <2> QED
    BY <2>1, <2>5, <2>6
<1>3. UNCHANGED <<now, responses>>
  BY DEF Aggregate
<1> QED
  BY <1>2, <1>3, SamePlaces DEF BoardInv, OutagesKeepTheirPlace

LEMMA OutagesNext ==
  ASSUME BoardInv, [Next]_vars
  PROVE  OutagesKeepTheirPlace'
<1>1. CASE Tick
  <2>1. now \in Nat /\ now' = now + 1 /\ UNCHANGED <<responses, outages>>
    BY <1>1 DEF Tick, BoardInv, TypeOK
  <2>2. \A o \in outages : (o[2] + 1) * DayLength \in Int
    <3>1. \A o \in outages : o[2] \in Nat
      BY DaysAreNat DEF BoardInv, TypeOK
    <3> QED
      BY <3>1, SizeAssumption
  <2>3. \A o \in outages : (o[2] + 1) * DayLength <= now'
    BY <2>1, <2>2 DEF BoardInv, OutagesKeepTheirPlace
  <2> QED
    BY <2>1, <2>3, SamePlaces DEF BoardInv, OutagesKeepTheirPlace
<1>2. CASE StoreResponse
  <2>1. PICK x \in Response : now <= x.createdAt + Lag /\ Stored(x)
    BY <1>2, StoreAppends DEF BoardInv
  <2>2. ASSUME NEW o \in outages
        PROVE  /\ (o[2] + 1) * DayLength <= now
               /\ Failed(On(o[1], o[2]))' # {}
               /\ o[2] \in ShownDays(o[1])'
    BY <2>1, <2>2, DayGrows, ShownDaysStay DEF BoardInv, OutagesKeepTheirPlace
  <2> QED
    BY <1>2, <2>2 DEF StoreResponse, OutagesKeepTheirPlace
<1>3. CASE Aggregate
  BY <1>3, AggregateOutages
<1>4. CASE FindApiResponses \/ BeginPaging \/ FetchApiStatus \/ Leave
           \/ UNCHANGED vars
  <2>1. UNCHANGED <<now, responses, outages>>
    BY <1>4 DEF FindApiResponses, BeginPaging, FetchApiStatus, Leave, vars
  <2> QED
    BY <2>1, SamePlaces DEF BoardInv, OutagesKeepTheirPlace
<1> QED
  BY <1>1, <1>2, <1>3, <1>4 DEF Next

LEMMA BoardInvNext == BoardInv /\ [Next]_vars => BoardInv'
BY TypeNext, LooksBackNext, OutagesNext DEF BoardInv

LEMMA BoardInvInit == Init => BoardInv
BY TypeInit DEF Init, BoardInv, ClientLooksBack, OutagesKeepTheirPlace, Idle

\* BoardInv holds in every state.
THEOREM BoardInductive == Spec => []BoardInv
<1> QED
  BY BoardInvInit, BoardInvNext, PTL DEF Spec
-----------------------------------------------------------------------------
(* What a board tells.                                                     *)

LEMMA LatestIsThere ==
  ASSUME TypeOK, NEW S, S \subseteq DOMAIN responses, NEW n \in S
  PROVE  \E i \in S : i \in Latest(S)
<1> DEFINE T == {responses[i].createdAt : i \in S}
<1>1. \A i \in S : responses[i].createdAt \in 0 .. MaxTime
  BY ResponsesType DEF Response
<1>2. /\ T \in SUBSET Nat /\ responses[n].createdAt \in T
      /\ MaxTime \in Nat /\ \A t \in T : t <= MaxTime
  BY <1>1, SizeAssumption
<1>3. PICK t \in T : \A u \in T : u <= t
  <2> HIDE DEF T
  <2> QED
    BY <1>2, GreatestNumber
<1> QED
  BY <1>3 DEF Latest

\* The latest of the latest failure and the latest success is the latest.
LEMMA LatestOfOutcomes ==
  ASSUME TypeOK, NEW a, NEW d, NEW i \in Latest(DayResponses(a, d))
  PROVE  i \in Latest(On(a, d))
<1> DEFINE F == Failed(On(a, d))
           G == On(a, d) \ F
<1>1. F \subseteq DOMAIN responses /\ G \subseteq DOMAIN responses
  BY DEF Failed, On
<1>2. \A j \in DOMAIN responses : responses[j].createdAt \in Int
  BY ResponsesType, SizeAssumption DEF Response
<1>3. i \in On(a, d) /\ i \in DOMAIN responses
  BY DEF Latest, DayResponses, Failed, On
<1>4. ASSUME NEW j \in On(a, d)
      PROVE  responses[j].createdAt <= responses[i].createdAt
  <2>1. PICK k \in Latest(F) \union Latest(G) :
          responses[j].createdAt <= responses[k].createdAt
    <3>1. CASE j \in F
      <4>1. PICK k \in Latest(F) : TRUE
        BY <1>1, <3>1, LatestIsThere
      <4> QED
        BY <3>1, <4>1 DEF Latest
    <3>2. CASE j \in G
      <4>1. PICK k \in Latest(G) : TRUE
        BY <1>1, <3>2, LatestIsThere
      <4> QED
        BY <3>2, <4>1 DEF Latest
    <3> QED
      BY <3>1, <3>2
  <2>2. k \in DayResponses(a, d)
    BY DEF DayResponses
  <2>3. responses[k].createdAt <= responses[i].createdAt
    BY <2>2 DEF Latest
  <2>4. j \in DOMAIN responses /\ k \in DOMAIN responses
    BY <1>1 DEF Latest, On
  <2> QED
    BY <1>2, <1>3, <2>1, <2>3, <2>4
<1> QED
  BY <1>3, <1>4 DEF Latest

LEMMA AggregateTells ==
  ASSUME BoardInv, Aggregate
  PROVE  BoardTellsTheDay'
<1>1. PICK rows \in Boards(client.today) :
        client' = [at |-> "board", today |-> client.today,
                   of |-> Len(responses), rows |-> rows]
  BY DEF Aggregate
<1>2. UNCHANGED responses
  BY DEF Aggregate
<1>3. ASSUME NEW i \in rows, NEW a, NEW d,
             a = responses[i].api, d = Day(responses[i].createdAt)
      PROVE  /\ rows \intersect On(a, d) = {i}
             /\ IF d = client.today THEN i \in Latest(On(a, d))
                ELSE responses[i].success <=> Failed(On(a, d)) = {}
  <2>1. PICK b \in Api : \E e \in ShownDays(b) : i \in Selected(b, e, client.today)
    BY DEF Boards
  <2>2. PICK e \in ShownDays(b) : i \in Selected(b, e, client.today)
    BY <2>1
  <2>3. b = a /\ e = d /\ i \in On(a, d)
    BY <1>3, <2>2, SelectedIsOn
  <2>4. rows \intersect On(a, d) = {i}
    <3>1. Cardinality(rows \intersect On(a, d)) = 1
      BY <2>2, <2>3 DEF Boards
    <3>2. IsFiniteSet(rows \intersect On(a, d))
      <4>1. rows \intersect On(a, d) \in SUBSET DOMAIN responses
        BY DEF On
      <4> QED
        BY <4>1, ResponsesType, FS_Subset DEF BoardInv
    <3>3. PICK x : rows \intersect On(a, d) = {x}
      BY <3>1, <3>2, FS_Singleton
    <3> QED
      BY <2>3, <3>3
  <2>5. d = client.today => i \in Latest(On(a, d))
    BY <2>2, <2>3, LatestOfOutcomes DEF Selected, BoardInv
  <2>6. d # client.today => (responses[i].success <=> Failed(On(a, d)) = {})
    <3>1. Failed(On(a, d)) = {} => responses[i].success
      BY <2>3 DEF Failed
    <3>2. Failed(On(a, d)) # {} /\ d # client.today => ~ responses[i].success
      BY <2>2, <2>3 DEF Selected, Failed
    <3> QED
      BY <3>1, <3>2
  <2> QED
    BY <2>4, <2>5, <2>6
<1>4. \A a, d : On(a, d) \intersect (1 .. Len(responses)) = On(a, d)
  BY ResponsesType DEF On, BoardInv
<1> QED
  BY <1>1, <1>2, <1>3, <1>4
     DEF BoardTellsTheDay, Known, On, Latest, Failed

DayTold(i, a, d) ==
  /\ client.rows \intersect Known(a, d) = {i}
  /\ IF d = client.today THEN i \in Latest(Known(a, d))
                         ELSE responses[i].success <=> Failed(Known(a, d)) = {}

Told == client.at = "board" =>
          \A i \in client.rows : \A a, d :
            a = responses[i].api /\ d = Day(responses[i].createdAt)
              => DayTold(i, a, d)

LEMMA ToldIsTold == BoardTellsTheDay <=> Told
BY DEF BoardTellsTheDay, Told, DayTold

LEMMA ToldNext == (BoardTellsTheDay <=> Told)'
BY ToldIsTold, PTL

\* A board goes on telling what it told, however the day goes on.
LEMMA StoreTells ==
  ASSUME BoardInv, BoardTellsTheDay, StoreResponse
  PROVE  BoardTellsTheDay'
<1> SUFFICES ASSUME client.at = "board"
             PROVE  BoardTellsTheDay'
  BY DEF BoardTellsTheDay, StoreResponse
<1>1. PICK x \in Response : Stored(x)
  BY StoreAppends DEF BoardInv
<1>2. UNCHANGED client
  BY DEF StoreResponse
<1>3. 1 .. client.of \subseteq DOMAIN responses /\ client.rows \subseteq 1 .. client.of
  <2>1. client.of \in Nat /\ client.of <= Len(responses) /\ Len(responses) \in Nat
    BY ClientShape, ResponsesType DEF BoardInv, ClientLooksBack, Idle
  <2> QED
    BY <2>1, ResponsesType DEF BoardInv, ClientLooksBack
<1>4. \A i \in 1 .. client.of : i \in DOMAIN responses' /\ responses'[i] = responses[i]
  BY <1>1, <1>3, ResponsesType DEF Stored, BoardInv
<1>5. \A a, d : Known(a, d)' = Known(a, d)
  BY <1>2, <1>3, <1>4 DEF Known, On
<1>6. \A a, d : /\ Latest(Known(a, d))' = Latest(Known(a, d))
                /\ Failed(Known(a, d))' = Failed(Known(a, d))
  <2>1. \A a, d : Known(a, d) \subseteq 1 .. client.of
    BY DEF Known
  <2> QED
    BY <1>4, <1>5, <2>1 DEF Latest, Failed
<1>7. \A i \in client.rows : \A a, d : DayTold(i, a, d) => DayTold(i, a, d)'
  BY <1>2, <1>3, <1>4, <1>5, <1>6 DEF DayTold
<1>8. Told'
  BY <1>2, <1>3, <1>4, <1>7, ToldIsTold DEF Told
<1> QED
  BY <1>8, ToldNext

LEMMA TellsNext == BoardInv /\ BoardTellsTheDay /\ [Next]_vars => BoardTellsTheDay'
<1> SUFFICES ASSUME BoardInv, BoardTellsTheDay, [Next]_vars
             PROVE  BoardTellsTheDay'
  OBVIOUS
<1>1. CASE StoreResponse
  BY <1>1, StoreTells
<1>2. CASE Aggregate
  BY <1>2, AggregateTells
<1>3. CASE FindApiResponses \/ BeginPaging \/ FetchApiStatus \/ Leave
  <2>1. client'.at # "board"
    BY <1>3, FetchType DEF FindApiResponses, BeginPaging, Leave, Idle, BoardInv
  <2> QED
    BY <2>1 DEF BoardTellsTheDay
<1>4. CASE Tick \/ UNCHANGED vars
  BY <1>4 DEF Tick, vars, BoardTellsTheDay, Known, On, Latest, Failed
<1> QED
  BY <1>1, <1>2, <1>3, <1>4 DEF Next

\* findApiResponses: a day has one row, the latest of today, a failure of an
\* earlier day exactly when it had one.
THEOREM BoardsTellTheDay == Spec => []BoardTellsTheDay
<1>1. Init => BoardTellsTheDay
  BY DEF Init, BoardTellsTheDay, Idle
<1> QED
  BY <1>1, BoardInvInit, BoardInvNext, TellsNext, PTL DEF Spec
-----------------------------------------------------------------------------
(* Outages stay on the board.                                              *)

\* The place of an outage is taken by a failure.
LEMMA PlaceOfOutage ==
  ASSUME BoardInv, NEW rows \in Boards(client.today),
         NEW o \in outages, o[2] < client.today, client.today \in Nat
  PROVE  Failed(On(o[1], o[2])) \intersect rows # {}
<1> DEFINE F == Failed(On(o[1], o[2]))
<1>1. o[1] \in Api /\ o[2] \in ShownDays(o[1]) /\ F # {} /\ o[2] # client.today
  <2>1. o[2] \in Nat
    BY DaysAreNat DEF BoardInv, TypeOK
  <2> QED
    BY <2>1 DEF BoardInv, OutagesKeepTheirPlace, TypeOK
<1>2. Cardinality(rows \intersect On(o[1], o[2])) = 1
  BY <1>1 DEF Boards
<1>3. PICK i \in rows : i \in On(o[1], o[2])
  <2>1. rows \intersect On(o[1], o[2]) # {}
    BY <1>2, FS_EmptySet
  <2> QED
    BY <2>1
<1>4. PICK b \in Api : \E e \in ShownDays(b) : i \in Selected(b, e, client.today)
  BY DEF Boards
<1>5. PICK e \in ShownDays(b) : i \in Selected(b, e, client.today)
  BY <1>4
<1>6. b = o[1] /\ e = o[2]
  BY <1>3, <1>5, SelectedIsOn DEF On
<1>7. i \in Failed(DayResponses(o[1], o[2]))
  BY <1>1, <1>5, <1>6 DEF Selected
<1> QED
  BY <1>3, <1>7 DEF Failed

LEMMA OutagesStayNext ==
  BoardInv /\ OutagesStayVisible /\ [Next]_vars => OutagesStayVisible'
<1> SUFFICES ASSUME BoardInv, OutagesStayVisible, [Next]_vars
             PROVE  OutagesStayVisible'
  OBVIOUS
<1>1. CASE StoreResponse
  <2>1. PICK x \in Response : Stored(x)
    BY <1>1, StoreAppends DEF BoardInv
  <2>2. \A a, d : Failed(On(a, d)) \subseteq Failed(On(a, d))'
    BY <2>1, DayGrows DEF BoardInv
  <2> QED
    BY <1>1, <2>2 DEF StoreResponse, OutagesStayVisible
<1>2. CASE Aggregate
  <2>1. PICK rows \in Boards(client.today) :
          /\ client' = [at |-> "board", today |-> client.today,
                        of |-> Len(responses), rows |-> rows]
          /\ outages' = outages \union
               {o \in Api \X Days :
                  o[2] < client.today /\ Failed(On(o[1], o[2])) \intersect rows # {}}
    BY <1>2 DEF Aggregate
  <2>2. client.today \in Nat
    <3>1. client.today \in Days
      BY <1>2, ClientShape DEF Aggregate, BoardInv, Idle
    <3> QED
      BY <3>1, DaysAreNat
  <2>3. \A o \in outages' :
          o[2] < client.today => Failed(On(o[1], o[2])) \intersect rows # {}
    BY <2>1, <2>2, PlaceOfOutage
  <2>4. \A a, d : Failed(On(a, d))' = Failed(On(a, d))
    BY <1>2, SamePlaces DEF Aggregate
  <2> QED
    BY <2>1, <2>3, <2>4 DEF OutagesStayVisible
<1>3. CASE FindApiResponses \/ BeginPaging \/ FetchApiStatus \/ Leave
  <2>1. client'.at # "board"
    BY <1>3, FetchType DEF FindApiResponses, BeginPaging, Leave, Idle, BoardInv
  <2> QED
    BY <2>1 DEF OutagesStayVisible
<1>4. CASE Tick \/ UNCHANGED vars
  BY <1>4, SamePlaces DEF Tick, vars, OutagesStayVisible
<1> QED
  BY <1>1, <1>2, <1>3, <1>4 DEF Next

\* An outage that a board has shown of a day that is over is on every later
\* board that counts the day as over, whatever is stored late.
THEOREM OutagesStay == Spec => []OutagesStayVisible
<1>1. Init => OutagesStayVisible
  BY DEF Init, OutagesStayVisible, Idle
<1> QED
  BY <1>1, BoardInvInit, BoardInvNext, OutagesStayNext, PTL DEF Spec
-----------------------------------------------------------------------------
(* A reader of pages misses nothing.                                       *)

LEMMA LaterIsFinite ==
  ASSUME TypeOK, NEW i, NEW some
  PROVE  IsFiniteSet(Later(i, some)) /\ Cardinality(Later(i, some)) \in Nat
<1>1. Later(i, some) \in SUBSET DOMAIN responses
  BY DEF Later, Matching
<1>2. IsFiniteSet(Later(i, some))
  BY <1>1, ResponsesType, FS_Subset
<1> QED
  BY <1>2, FS_CardinalityType

\* A row with a createdAt of its own has one place in every order, behind the
\* later ones.
LEMMA PlaceInOrder ==
  ASSUME TypeOK, NEW some, NEW s \in Sorted(Matching(some)), NEW n \in Nat,
         s \in Bijection(1 .. n, Matching(some)),
         NEW i \in Matching(some), Alone(i)
  PROVE  \E k \in 1 .. n : s[k] = i /\ Cardinality(Later(i, some)) = k - 1
<1> DEFINE S == Matching(some)
           L == Later(i, some)
<1>1. /\ DOMAIN s = 1 .. n /\ s \in [1 .. n -> S]
      /\ \A j, m \in 1 .. n : s[j] = s[m] => j = m
      /\ \A j \in S : \E m \in 1 .. n : s[m] = j
  BY DEF Bijection, Injection, IsInjective, Surjection
<1>2. \A j, m \in 1 .. n :
        j < m => responses[s[j]].createdAt >= responses[s[m]].createdAt
  BY <1>1 DEF Sorted
<1>3. S \subseteq DOMAIN responses /\ \A j \in S : responses[j].createdAt \in Nat
  <2>1. S \subseteq DOMAIN responses
    BY DEF Matching
  <2> QED
    BY <2>1, ResponsesType, SizeAssumption DEF Response
<1>4. PICK k \in 1 .. n : s[k] = i
  BY <1>1
<1>5. \A m \in 1 .. n : m < k => responses[s[m]].createdAt > responses[i].createdAt
  <2> TAKE m \in 1 .. n
  <2> HAVE m < k
  <2>1. s[m] \in S /\ s[m] # i
    BY <1>1, <1>4
  <2>2. responses[s[m]].createdAt # responses[i].createdAt
    BY <1>3, <2>1 DEF Alone
  <2> QED
    BY <1>2, <1>3, <1>4, <2>1, <2>2
<1>6. \A m \in 1 .. n : responses[s[m]].createdAt > responses[i].createdAt => m < k
  <2> TAKE m \in 1 .. n
  <2> HAVE responses[s[m]].createdAt > responses[i].createdAt
  <2>1. s[m] \in S /\ s[m] # i
    BY <1>1, <1>3
  <2> QED
    BY <1>1, <1>2, <1>3, <1>4, <2>1
<1>7. L = {s[m] : m \in 1 .. k - 1}
  BY <1>1, <1>5, <1>6 DEF Later
<1> DEFINE t == [m \in 1 .. k - 1 |-> s[m]]
<1>8. t \in Bijection(1 .. k - 1, L)
  <2>1. 1 .. k - 1 \subseteq 1 .. n
    OBVIOUS
  <2>2. t \in [1 .. k - 1 -> L] /\ \A m \in 1 .. k - 1 : t[m] = s[m]
    BY <1>7
  <2>3. t \in Injection(1 .. k - 1, L)
    BY <1>1, <2>1, <2>2 DEF Injection, IsInjective
  <2>4. t \in Surjection(1 .. k - 1, L)
    BY <1>7, <2>2 DEF Surjection
  <2> QED
    BY <2>3, <2>4 DEF Bijection
<1>9. IsFiniteSet(1 .. k - 1) /\ Cardinality(1 .. k - 1) = k - 1
  BY FirstNumbers
<1>10. Cardinality(L) = Cardinality(1 .. k - 1)
  <2> HIDE DEF L, t
  <2> QED
    BY <1>8, <1>9, FS_Bijection DEF ExistsBijection
<1> QED
  BY <1>4, <1>9, <1>10

\* What a page of a reader leaves unseen is behind it, and then it is full.
LEMMA FetchPassesNothing ==
  ASSUME PagingInv, FetchApiStatus,
         NEW i \in Matching(client.api) \intersect (1 .. client.of), Alone(i),
         i \notin client'.seen
  PROVE  /\ client'.at = "paging"
         /\ (client'.page - 1) * Limit <= Cardinality(Later(i, client.api))
<1>1. PICK n \in Nat : \E s \in Sorted(Matching(client.api)) : \E rows :
        /\ s \in Bijection(1 .. n, Matching(client.api))
        /\ \A k \in 1 .. n :
             (client.page - 1) * Limit < k /\ k <= client.page * Limit
               => s[k] \in rows
        /\ Fetched(rows, n)
  BY FetchStep DEF PagingInv, BoardInv
<1>2. PICK s \in Sorted(Matching(client.api)) : \E rows :
        /\ s \in Bijection(1 .. n, Matching(client.api))
        /\ \A k \in 1 .. n :
             (client.page - 1) * Limit < k /\ k <= client.page * Limit
               => s[k] \in rows
        /\ Fetched(rows, n)
  BY <1>1
<1>3. PICK rows :
        /\ \A k \in 1 .. n :
             (client.page - 1) * Limit < k /\ k <= client.page * Limit
               => s[k] \in rows
        /\ Fetched(rows, n)
  BY <1>2
<1>4. PICK k \in 1 .. n : s[k] = i /\ Cardinality(Later(i, client.api)) = k - 1
  BY <1>2, PlaceInOrder DEF PagingInv, BoardInv
<1>5. client \in [at : {"paging", "paged"}, api : SUBSET Api,
                  of : 0 .. MaxResponses, page : 1 .. MaxResponses \div Limit + 1,
                  seen : SUBSET Place]
  BY ClientShape DEF FetchApiStatus, Idle, PagingInv, BoardInv
<1>6. /\ client.page \in Nat
      /\ (client.page - 1) * Limit \in Int /\ client.page * Limit \in Int
  BY <1>5, SizeAssumption
<1>7. /\ client'.seen = client.seen \union rows
      /\ client.page * Limit <= n
           => client'.at = "paging" /\ client'.page = client.page + 1
  BY <1>3, <1>5 DEF Fetched
<1>8. (client.page - 1) * Limit <= k - 1
  BY <1>4, <1>7 DEF PagingInv, UnseenIsAhead, FetchApiStatus
<1>9. client.page * Limit < k
  BY <1>3, <1>4, <1>6, <1>7, <1>8
<1>10. client.page + 1 - 1 = client.page
  BY <1>6
<1> QED
  BY <1>4, <1>6, <1>7, <1>9, <1>10

\* The rows that were there keep their createdAt; only rows are added before
\* them.
LEMMA StoreKeepsPlaces ==
  ASSUME BoardInv, StoreResponse, client.at \in {"paging", "paged"}
  PROVE  \A i \in Matching(client.api)' \intersect (1 .. client.of) :
           Alone(i)' => /\ i \in Matching(client.api) /\ Alone(i)
                        /\ Cardinality(Later(i, client.api)) \in Nat
                        /\ Cardinality(Later(i, client.api)') \in Nat
                        /\ Cardinality(Later(i, client.api))
                             <= Cardinality(Later(i, client.api)')
<1>1. PICK x \in Response : Stored(x)
  BY StoreAppends DEF BoardInv
<1>2. UNCHANGED client
  BY DEF StoreResponse
<1>3. 1 .. client.of \subseteq DOMAIN responses
  <2>1. client.of \in Nat /\ client.of <= Len(responses) /\ Len(responses) \in Nat
    BY ClientShape, ResponsesType DEF BoardInv, ClientLooksBack, Idle
  <2> QED
    BY <2>1, ResponsesType DEF BoardInv
<1>4. \A j \in DOMAIN responses : j \in DOMAIN responses' /\ responses'[j] = responses[j]
  BY <1>1, ResponsesType DEF Stored, BoardInv
<1> TAKE i \in Matching(client.api)' \intersect (1 .. client.of)
<1> HAVE Alone(i)'
<1>5. i \in DOMAIN responses /\ i \in Matching(client.api)
  BY <1>2, <1>3, <1>4 DEF Matching
<1>6. Alone(i)
  BY <1>4, <1>5 DEF Alone
<1>7. Later(i, client.api) \subseteq Later(i, client.api)'
  BY <1>2, <1>4, <1>5 DEF Later, Matching
<1>8. IsFiniteSet(Later(i, client.api)')
  <2>1. IsFiniteSet(DOMAIN responses')
    BY <1>1, ResponsesType, FS_Interval DEF Stored, BoardInv
  <2>2. Later(i, client.api)' \subseteq DOMAIN responses'
    BY DEF Later, Matching
  <2> QED
    BY <2>1, <2>2, FS_Subset
<1>9. IsFiniteSet(Later(i, client.api))
  BY LaterIsFinite DEF BoardInv
<1> QED
  BY <1>2, <1>5, <1>6, <1>7, <1>8, <1>9, FS_Subset, FS_CardinalityType

LEMMA SameOrder ==
  ASSUME UNCHANGED responses, client'.api = client.api
  PROVE  /\ Matching(client.api)' = Matching(client.api)
         /\ \A i : /\ Alone(i)' <=> Alone(i)
                  /\ Later(i, client.api)' = Later(i, client.api)
<1>1. Matching(client.api)' = Matching(client.api)
  BY DEF Matching
<1> QED
  BY <1>1 DEF Alone, Later

\* On the first page everything is ahead.
LEMMA FirstPage ==
  TypeOK /\ (client.at = "paging" => client.page = 1) => UnseenIsAhead
<1> SUFFICES ASSUME TypeOK, client.at = "paging", client.page = 1
             PROVE  UnseenIsAhead
  BY DEF UnseenIsAhead
<1>1. \A i : Cardinality(Later(i, client.api)) \in Nat
  BY LaterIsFinite
<1>2. (client.page - 1) * Limit = 0
  BY SizeAssumption
<1> QED
  BY <1>1, <1>2 DEF UnseenIsAhead

LEMMA FirstPageNext ==
  (TypeOK /\ (client.at = "paging" => client.page = 1) => UnseenIsAhead)'
BY FirstPage, PTL

LEMMA UnseenNext ==
  ASSUME PagingInv, [Next]_vars
  PROVE  UnseenIsAhead'
<1>1. CASE StoreResponse
  <2> SUFFICES ASSUME client.at = "paging",
                      NEW i \in Matching(client.api)' \intersect (1 .. client.of),
                      Alone(i)', i \notin client.seen
               PROVE  (client.page - 1) * Limit
                        <= Cardinality(Later(i, client.api)')
    BY <1>1 DEF StoreResponse, UnseenIsAhead
  <2>1. /\ i \in Matching(client.api) /\ Alone(i)
        /\ Cardinality(Later(i, client.api)) \in Nat
        /\ Cardinality(Later(i, client.api)') \in Nat
        /\ Cardinality(Later(i, client.api)) <= Cardinality(Later(i, client.api)')
    BY <1>1, StoreKeepsPlaces DEF PagingInv
  <2>2. (client.page - 1) * Limit <= Cardinality(Later(i, client.api))
    BY <2>1 DEF PagingInv, UnseenIsAhead
  <2>3. (client.page - 1) * Limit \in Int
    <3>1. client \in [at : {"paging", "paged"}, api : SUBSET Api,
                      of : 0 .. MaxResponses,
                      page : 1 .. MaxResponses \div Limit + 1,
                      seen : SUBSET Place]
      BY ClientShape DEF Idle, PagingInv, BoardInv
    <3> QED
      BY <3>1, SizeAssumption
  <2> QED
    BY <2>1, <2>2, <2>3
<1>2. CASE BeginPaging
  <2>1. client'.at = "paging" => client'.page = 1
    BY <1>2 DEF BeginPaging
  <2>2. TypeOK'
    BY TypeNext DEF PagingInv, BoardInv
  <2> QED
    BY <2>1, <2>2, FirstPageNext
<1>3. CASE FetchApiStatus
  <2>1. UNCHANGED responses /\ client'.api = client.api /\ client'.of = client.of
    BY <1>3, FetchType DEF FetchApiStatus, PagingInv, BoardInv
  <2> QED
    BY <1>3, <2>1, SameOrder, FetchPassesNothing DEF UnseenIsAhead
<1>4. CASE FindApiResponses \/ Aggregate \/ Leave
  <2>1. client'.at # "paging"
    BY <1>4 DEF FindApiResponses, Aggregate, Leave, Idle
  <2> QED
    BY <2>1 DEF UnseenIsAhead
<1>5. CASE Tick \/ UNCHANGED vars
  <2>1. UNCHANGED <<responses, client>>
    BY <1>5 DEF Tick, vars
  <2> QED
    BY <2>1, SameOrder DEF PagingInv, UnseenIsAhead
<1> QED
  BY <1>1, <1>2, <1>3, <1>4, <1>5 DEF Next

\* PagingInv holds in every state.
THEOREM PagingInductive == Spec => []PagingInv
<1>1. Init => PagingInv
  BY BoardInvInit DEF PagingInv, UnseenIsAhead, Init, Idle
<1>2. PagingInv /\ [Next]_vars => PagingInv'
  BY BoardInvNext, UnseenNext DEF PagingInv
<1> QED
  BY <1>1, <1>2, PTL DEF Spec

LEMMA NoneSkippedNext ==
  PagingInv /\ NoneSkipped /\ [Next]_vars => NoneSkipped'
<1> SUFFICES ASSUME PagingInv, NoneSkipped, [Next]_vars
             PROVE  NoneSkipped'
  OBVIOUS
<1>1. CASE StoreResponse
  <2>1. \A i \in Matching(client.api)' \intersect (1 .. client.of) :
          client.at = "paged" /\ Alone(i)' => i \in Matching(client.api) /\ Alone(i)
    BY <1>1, StoreKeepsPlaces DEF PagingInv
  <2> QED
    BY <1>1, <2>1 DEF StoreResponse, NoneSkipped
<1>2. CASE FetchApiStatus
  <2>1. UNCHANGED responses /\ client'.api = client.api /\ client'.of = client.of
    BY <1>2, FetchType DEF FetchApiStatus, PagingInv, BoardInv
  <2> QED
    BY <1>2, <2>1, FetchPassesNothing DEF NoneSkipped, Matching, Alone
<1>3. CASE FindApiResponses \/ Aggregate \/ BeginPaging \/ Leave
  <2>1. client'.at # "paged"
    BY <1>3 DEF FindApiResponses, Aggregate, BeginPaging, Leave, Idle
  <2> QED
    BY <2>1 DEF NoneSkipped
<1>4. CASE Tick \/ UNCHANGED vars
  BY <1>4 DEF Tick, vars, NoneSkipped, Matching, Alone
<1> QED
  BY <1>1, <1>2, <1>3, <1>4 DEF Next

\* fetchApiStatus skips by count in a collection that grows meanwhile: whoever
\* has read every page has seen each row of the start that shares its createdAt
\* with no other.
THEOREM PagesSkipNothing == Spec => []NoneSkipped
<1>1. Init => NoneSkipped
  BY DEF Init, NoneSkipped, Idle
<1> QED
  BY <1>1, NoneSkippedNext, PagingInductive, PTL DEF Spec
=============================================================================
