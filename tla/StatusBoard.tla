---------------------------- MODULE StatusBoard ----------------------------
(***************************************************************************)
(* What a client of the backend is shown of the apiresponses of one        *)
(* business: the board of findApiResponses, one response for each API and  *)
(* day, and the pages of fetchApiStatus.  Both are single reads; what is   *)
(* hard is that the worker goes on storing between them, that a response   *)
(* is stored after its createdAt was taken, and that the board compares    *)
(* days with a "today" that the backend puts into the query it sends.      *)
(*                                                                         *)
(* A document is named by its place in the order of insertion.  Time is    *)
(* counted in ticks, DayLength to a UTC day; the clocks of worker and      *)
(* backend agree.                                                          *)
(***************************************************************************)
EXTENDS Naturals, FiniteSets, Sequences

CONSTANTS Api,           \* APIs of the business
          Code,          \* HTTP status codes their endpoints answer with
          Millis,        \* response times in milliseconds
          DayLength,     \* ticks in a day
          Lag,           \* ticks a response may be stored after its createdAt
          MaxDays,       \* days the board keeps for an API: 30 in the code
          Limit,         \* rows of a page
          MaxTime,       \* bound on the clock
          MaxResponses   \* bound on the collection

ASSUME SizeAssumption ==
  /\ DayLength \in Nat \ {0} /\ MaxDays \in Nat \ {0} /\ Limit \in Nat \ {0}
  /\ MaxTime \in Nat /\ MaxResponses \in Nat
ASSUME CodeAssumption == Code \subseteq Nat /\ Millis \subseteq Nat
\* A probe takes seconds: 5 to get an answer, and the insert.
ASSUME LagAssumption == Lag \in Nat /\ Lag < DayLength

VARIABLES now,        \* the clock
          responses,  \* the apiresponses of the business
          client,     \* a client and the request it waits for
          outages     \* history: days the client has seen end with a failure

vars == <<now, responses, client, outages>>

Day(t) == t \div DayLength
Days == 0 .. Day(MaxTime)

\* The worker's statuscode of a probe without an answer, and what it calls a
\* success.
NoAnswer == 0
Success(c) == c # NoAnswer /\ c < 500

Response == [api : Api, createdAt : 0 .. MaxTime,
             statuscode : Code \union {NoAnswer}, responsetime : Millis,
             success : BOOLEAN]
Place == 1 .. MaxResponses

Idle == [at |-> "idle"]

\* of: how many responses there were when the board was computed, or when the
\* first page was asked for.
Client ==
  {Idle}
  \union [at : {"asked"}, today : Days]
  \union [at : {"board"}, today : Days, of : 0 .. MaxResponses,
          rows : SUBSET Place]
  \union [at : {"paging", "paged"}, api : SUBSET Api, of : 0 .. MaxResponses,
          page : 1 .. MaxResponses \div Limit + 1, seen : SUBSET Place]

TypeOK ==
  /\ now \in 0 .. MaxTime
  /\ responses \in Seq(Response) /\ Len(responses) <= MaxResponses
  /\ client \in Client
  /\ outages \subseteq Api \X Days

Init ==
  /\ now = 0
  /\ responses = <<>>
  /\ client = Idle
  /\ outages = {}

Tick ==
  /\ now < MaxTime
  /\ now' = now + 1
  /\ UNCHANGED <<responses, client, outages>>

\* The worker stores a response whose createdAt it took up to Lag ticks ago.
StoreResponse ==
  /\ Len(responses) < MaxResponses
  /\ \E x \in Response :
       /\ x.createdAt <= now /\ now <= x.createdAt + Lag
       /\ x.success = Success(x.statuscode)
       /\ responses' = Append(responses, x)
  /\ UNCHANGED <<now, client, outages>>
-----------------------------------------------------------------------------
(* findApiResponses.                                                       *)

\* The documents an API has on a day, and the latest of some.
On(a, d) == {i \in DOMAIN responses :
               responses[i].api = a /\ Day(responses[i].createdAt) = d}

Latest(S) ==
  {i \in S : \A j \in S : responses[j].createdAt <= responses[i].createdAt}

Failed(S) == {i \in S : ~ responses[i].success}

\* The first $group: the latest of each outcome.  Of several with one
\* createdAt MongoDB takes any.
DayResponses(a, d) ==
  Latest(Failed(On(a, d))) \union Latest(On(a, d) \ Failed(On(a, d)))

SelectLatest(a, d, today) == Latest(DayResponses(a, d))

SelectFailedFirst(a, d, today) ==
  IF Failed(On(a, d)) # {} THEN Failed(DayResponses(a, d)) ELSE DayResponses(a, d)

\* The response that stands for the day: the latest of today, the latest
\* failure of another day if it has one.
Selected(a, d, today) ==
  IF d = today \/ Failed(On(a, d)) = {}
    THEN Latest(DayResponses(a, d)) ELSE Failed(DayResponses(a, d))

\* $sort by date, $slice: the first MaxDays of the days with responses.
ShownDays(a) ==
  LET days == {d \in Days : On(a, d) # {}}
  IN {d \in days : Cardinality({e \in days : e < d}) < MaxDays}

Boards(today) ==
  {rows \in SUBSET DOMAIN responses :
     /\ \A i \in rows : \E a \in Api : \E d \in ShownDays(a) :
          i \in Selected(a, d, today)
     /\ \A a \in Api : \A d \in ShownDays(a) :
          Cardinality(rows \intersect On(a, d)) = 1}

\* The pipeline is built, with the date of now in it, and sent.
FindApiResponses ==
  /\ client = Idle
  /\ client' = [at |-> "asked", today |-> Day(now)]
  /\ UNCHANGED <<now, responses, outages>>

\* MongoDB runs it on the collection of that moment.
Aggregate ==
  /\ client.at = "asked"
  /\ \E rows \in Boards(client.today) :
       /\ client' = [at |-> "board", today |-> client.today,
                     of |-> Len(responses), rows |-> rows]
       /\ outages' = outages \union
            {o \in Api \X Days :
               o[2] < client.today /\ Failed(On(o[1], o[2])) \intersect rows # {}}
  /\ UNCHANGED <<now, responses>>
-----------------------------------------------------------------------------
(* fetchApiStatus.  A client that wants all rows asks for page after page  *)
(* until one is not full.                                                  *)

\* With apiIdFilter, of one API; otherwise of all of them.
Matching(apis) == {i \in DOMAIN responses : responses[i].api \in apis}

\* sort({createdAt: -1}) fixes no order among equal times, and may order them
\* otherwise for each query.
Sorted(S) ==
  {s \in [1 .. Cardinality(S) -> S] :
     \A i, j \in DOMAIN s : i < j =>
       s[i] # s[j] /\ responses[s[i]].createdAt >= responses[s[j]].createdAt}

BeginPaging ==
  /\ client = Idle
  /\ \E apis \in {Api} \union {{a} : a \in Api} :
       client' = [at |-> "paging", api |-> apis, of |-> Len(responses),
                  page |-> 1, seen |-> {}]
  /\ UNCHANGED <<now, responses, outages>>

RowsFromPage(s, page) ==
  {s[i] : i \in {j \in DOMAIN s :
                   page * Limit < j /\ j <= (page + 1) * Limit}}

RowsUnskipped(s, page) == {s[i] : i \in {j \in DOMAIN s : j <= Limit}}

\* skip((page - 1) * limit), limit(limit).
Rows(s, page) ==
  {s[i] : i \in {j \in DOMAIN s :
                   (page - 1) * Limit < j /\ j <= page * Limit}}

FetchApiStatus ==
  /\ client.at = "paging"
  /\ \E s \in Sorted(Matching(client.api)) :
       LET rows == Rows(s, client.page)
           full == Cardinality(rows) = Limit
       IN client' = [client EXCEPT !.seen = @ \union rows,
                                   !.page = IF full THEN @ + 1 ELSE @,
                                   !.at = IF full THEN "paging" ELSE "paged"]
  /\ UNCHANGED <<now, responses, outages>>
-----------------------------------------------------------------------------
\* The database fails a request, or the client has had its answer.
Leave ==
  /\ client # Idle
  /\ client' = Idle
  /\ UNCHANGED <<now, responses, outages>>

Next ==
  \/ Tick \/ StoreResponse
  \/ FindApiResponses \/ Aggregate
  \/ BeginPaging \/ FetchApiStatus
  \/ Leave

Spec == Init /\ [][Next]_vars
-----------------------------------------------------------------------------
(* The inductive invariant, beside the properties below.                   *)

\* A client looks back on a part of the collection, and on a day that began.
ClientLooksBack ==
  /\ client.at \in {"board", "paging", "paged"} => client.of <= Len(responses)
  /\ client.at = "board" => client.rows \subseteq 1 .. client.of
  /\ client.at \in {"asked", "board"} => client.today <= Day(now)

\* A day whose outage was shown is over and has its place on the board: what
\* arrives late is not late enough for an earlier day.
OutagesKeepTheirPlace ==
  \A o \in outages :
    /\ (o[2] + 1) * DayLength <= now
    /\ Failed(On(o[1], o[2])) # {}
    /\ o[2] \in ShownDays(o[1])

\* What boards rest on: what was shown of a day that is over still has its place.
BoardInv == TypeOK /\ ClientLooksBack /\ OutagesKeepTheirPlace

Alone(i) == \A j \in DOMAIN responses \ {i} :
              responses[j].createdAt # responses[i].createdAt

\* The rows that come before i, of the APIs some.
Later(i, some) ==
  {j \in Matching(some) : responses[j].createdAt > responses[i].createdAt}

\* What a reader of pages has not seen is on a page to come.
UnseenIsAhead ==
  client.at = "paging" =>
    \A i \in Matching(client.api) \intersect (1 .. client.of) :
      Alone(i) => \/ i \in client.seen
                  \/ (client.page - 1) * Limit <= Cardinality(Later(i, client.api))

\* What pages rest on: the rows a reader has not seen are behind the page he asks
\* for next, however many were stored before them meanwhile.
PagingInv == BoardInv /\ UnseenIsAhead
-----------------------------------------------------------------------------
(* Correctness.                                                            *)

\* The responses a board was computed from.
Known(a, d) == On(a, d) \intersect (1 .. client.of)

\* findApiResponses: a day has one row; today's is as late as anything stored
\* of today, and an earlier day shows a failure exactly when it had one,
\* however the failures and successes of the day were mixed.
BoardTellsTheDay ==
  client.at = "board" =>
    \A i \in client.rows :
      LET d == Day(responses[i].createdAt)
          day == Known(responses[i].api, d)
      IN /\ client.rows \intersect day = {i}
         /\ IF d = client.today
              THEN i \in Latest(day)
              ELSE responses[i].success <=> Failed(day) = {}

\* An outage that a board has shown for a day that is over is on every later
\* board that counts the day as over: no response that arrives late, and no
\* order in which they arrive, takes it off.
OutagesStayVisible ==
  client.at = "board" =>
    \A o \in outages :
      o[2] < client.today => Failed(On(o[1], o[2])) \intersect client.rows # {}

\* Paging through a collection that grows at the front (fetchApiStatus skips
\* by count) repeats rows but loses none: whoever has read all pages has seen
\* each row that was there at the start and shares its createdAt with no other.
NoneSkipped ==
  client.at = "paged" =>
    \A i \in Matching(client.api) \intersect (1 .. client.of) :
      Alone(i) => i \in client.seen

\* api-monitor.service.ts:129, "Sort by date ascending to get most recent days
\* first", before the cut to 30: an API that was probed today has its row for
\* today on the board.
NewestDayIsShown ==
  client.at = "board" =>
    \A a \in Api :
      Known(a, client.today) # {} => client.rows \intersect On(a, client.today) # {}
=============================================================================
