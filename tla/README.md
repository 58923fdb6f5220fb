# A formal model of the API monitor

The repository holds an API monitoring tool: a NestJS backend (`src/src/`) where
people register businesses and the HTTP endpoints to watch, and a Go worker
(`src/api-monitor-worker/`) that probes the endpoints when a scheduler calls it.
They share one MongoDB and never talk to each other. This directory models the
two in TLA+, checks the models with TLC on small instances and proves the main
results with TLAPS for all instances.

## The system

| component | state | operations | what is hard |
|---|---|---|---|
| Probe worker (Go) | process, HTTP handlers in flight, goroutines, `apiresponses` | `/run-cron`: find, cursor, one goroutine per job, wait, answer; SIGTERM drain | overlapping calls, `log.Fatal` in a goroutine, cursor errors, shutdown with runs in flight, calls without deadline |
| Users | `users` (unique email) | `create`, `getUserDetails` | find then create, errors returned as values |
| Authentication | `authToken` cookie (JWT, 1 h) | `register`, `validateUser` (GitHub), `login`, `logout`, `AuthMiddleware` | steps of several awaits, failures between them |
| Businesses and memberships | `businesses`, `businessusers` | `createBusiness`, `createUserBusiness`, `updateUserBusiness`, `findAll` | two inserts without a transaction, `updateOne` and `findOne` that take the first of several relations |
| Role guard | none (reads `businessusers`) | `canActivate`, `hasRole`, `isSuperAdmin` | checked once, before the handler, against relations that change |
| API registry and status board | `apis` (unique url), reads `apiresponses` | `createApi`, `listBusinessApis`, `findApiResponses`, `fetchApiStatus` | selection of one response per day, paging over a growing collection, responses that arrive late and after midnight |
| Metrics | Redis keys `metrics:<api>:<start>:<end>`, reads `apiresponses` | `getMetrics`, `computeMetrics`, `invalidateApiCache` | stale writes, TTL from a moving clock, swallowed Redis errors; ends of days, two ideas of a success, rounding |
| Gateway | none | CORS, routes without authentication, rate limit | route patterns |

The worker appends to `apiresponses` what the metrics and the status board read;
the backend appends to `apis` what the worker reads. Within the backend,
requests interleave at every `await`; there is no lock and no transaction. In
the worker, every call of `/run-cron` is a handler goroutine with child
goroutines of its own.

## The modules

| module | what it is |
|---|---|
| `ProbeLedger` | what a call of `/run-cron` promises: plan, record each API once, close only when all is recorded; a crash loses the open runs |
| `MonitorWorker` | the worker, one action per step of `main`, `CronJob`, `FetchJobs`, `ProcessJobsConcurrently`, `ProcessAndStoreAPIResponse` |
| `MonitorWorkerProofs` | its inductive invariant, safety theorems and the refinement of `ProbeLedger` |
| `Membership` | users, businesses, relations; registration, GitHub sign-in, founding, inviting, the guard, each cut at its awaits |
| `MembershipProofs` | its inductive invariants, one for accounts and links and one for super admins, and its safety theorems |
| `MetricsCache` | metrics and invalidation requests, Redis, time, failures |
| `MetricsCacheProofs` | its inductive invariant and safety theorems |
| `Reports` | `computeMetrics` on the collection of `StatusBoard`: what a report counts, its times, its downtime, the ranges accepted |
| `RequestGate` | the way of a request through `AuthMiddleware`, `AuthGuard` and `BusinessRolesGuard` to a handler, sessions, login and logout, on top of `Membership` |
| `ReportsProofs` | its theorems: counts, ranges, downtime, times, outages, and that reports settle |
| `RequestGateProofs` | its inductive invariants, on top of those of `MembershipProofs`, and its safety theorems |
| `StatusBoard` | what clients are shown of `apiresponses`: the board, one row a day, and the pages of the dashboard, while responses go on being stored |
| `StatusBoardProofs` | its inductive invariants, one for boards and one for pages, and its safety theorems |
| `NumberLemmas`, `SumLemmas` | least and greatest numbers; the sum of a function on a finite set, by a smallest counterexample |
| `MCMonitorWorker`, `MCMembership`, `MCMetricsCache`, `MCStatusBoard`, `MCReports`, `MCRequestGate` | constants of the TLC runs |

Some definitions have a variant beside them with a fault that could have been
made in the code (`SaveFailsRetried`, `LinkUnchecked`, `SelectLatest`). No
specification uses them: put in the place of the definition, they break the
property that `PROJECT.json` names with them, which shows that the property
depends on it.

### MonitorWorker and ProbeLedger

`proc` is the process: `down`, `up`, `deaf` (the listener failed, which
`main.go:51` only logs), `draining` (inside `server.Shutdown`), `stopped`
(Shutdown returned nil) and `forced` (its 30 s context expired). `pc[r]` is the
handler of a call: `started`, `fetching` (in the cursor loop), `processing`,
`answered`, `cut` (the 15 s `WriteTimeout` passed, so that the caller sees no
answer), or `lost` with the process. `due`, `read` and `cursorErr` are the
cursor, `wg` the wait group, `routine` and `got` the goroutines. `Die` is
`log.Fatal`, or the end of `main`: all goroutines of all calls vanish. What they
had sent does not: `sent` holds the inserts that had not returned, and `Land`
applies any of them at any later time, or never.

A failed `InsertOne` may have been applied, may be later or not at all: it is one
of those that `SaveFails` leaves in `sent`. `FindFails` and `SaveFails` end the process.
`Start` needs the database only through `ConnectDB`, which ends the process again when it fails: a
process that ends before it listens is no step of the model. A connection
accepted just before `Shutdown` may still bring a call, so `Trigger` is possible
while draining. The HTTP status is abstracted to a code, a failed `Get` to
`NoAnswer` (0, as in the code).

The refinement maps `started` and `fetching` to an open run, `processing` to a
probing run whose plan is the decoded documents, and `answered` and `cut` to a
closed one; a run that died keeps in its plan what it had sent. It says that
neither goroutines, cursors nor shutdown can be told from the collection and the status of the calls.

### Membership

A user document is named by its email, which the collection keeps unique. A
relation is a `businessusers` document; `relations` keeps them in natural order,
in which `findOne` and `updateOne` search. MongoDB promises no order without a
sort; with WiredTiger and no delete it is in practice the order of insertion,
and no route deletes. `req[q]` is a request with the await it stands at. `Fail`
ends a request on a database error and leaves what it wrote. `UsersService.create`
returns its errors as values: `CreateFails` is where a call of it goes wrong,
which ends a registration with an error and a GitHub sign-in with a cookie that
names nobody. A hash, a lookup and an insert are separate steps where the code
awaits between them; the arrival of a request and the first lookup are one,
since nothing it carries by then depends on the state, and what a body says is
left open until the handler first uses it.

Bodies name what they like: `POST /businesses` any owner and any address of the
business, `POST /businesses/worker` any business and any user, of documents or
of none (`Unknown`). The guard reads the business from the path, the query and
the body in this order (`business-roles.guard.ts:37`) and the handler reads the
body, so `MayInvite` asks for a super admin of any business.

A founder's relation is stored under the address of the business
(`businesses.service.ts:36`). When that address is registered, `updateOne({userEmail})`
gives the relation to the new account, and the founder no longer has it: the
update does not ask that the relation has no user. `AccessIsKept` says that
access is lost in this way only (`Relinked`), and `FoundedHasAdmin` that the business keeps a super admin all the
same, since the relation keeps its role.

`registered` and `founded` are history variables: the emails `/auth/register`
answered 201, and the businesses `POST /businesses` answered with.

### MetricsCache

All ranges of an instance end on one day, and `phase` is where time stands to
its end: the thresholds of `determineCacheTTL` (1 h, 24 h, 168 h), the end of
the day, and the moment the last response of the day has arrived (the worker
takes `createdAt` before the insert). Metrics are abstracted to the number of
responses they were computed from. A step of a request is what happens between
two awaits together with the call it issues.

Two assumptions on time are in `Tick`: a call in flight and an entry with a TTL
of at most an hour see at most one end of a phase. They ask that a probe is
stored well within the hour, and that a request takes less than that.

The handler of `invalidate-cache/:apiId` reads `apiId` from the body, not from
its path (`monitoring.controller.ts:34`). The model takes it as the handler gets
it; a client that names the API in the path only invalidates nothing.

### Reports

A report is one aggregation, so `Report(a, s, e)` is an operator on the state of
`StatusBoard`, and only the growth of the collection and the clock are steps
(`Growth`). `In` is the `$match`, `Succeeded` and `FailedRequests` are the two
conditions of the `$group`, which the code writes out separately, `Accepted` is
`validateDateRange`. Percentages and averages are counted in hundredths, which is
what `toFixed(2)` leaves. A document has, beside `createdAt`, the `statuscode`,
`responsetime` and `success` the worker gave it (`Success`: an answer below 500).

`Reports` relates three parts of the system: `OutageIsReported` compares the
report with the board, `ReportsSettle` is what `MetricsCache` relies on when it
says that a result computed after its phase 1 is final, and
`ActiveIsNotFailed` compares the worker's idea of a success with that of the
metrics.

Ranges are given as bare days. The controller has no `ValidationPipe`, so the
`@Transform` of `GetMetricsDto` never runs and a client that sends a full
timestamp gets an invalid date; that decoding is not modelled.

### RequestGate

One browser is followed. `jar` is its cookie: the account the token names, or
`Absent` for the token of a GitHub sign-in whose user could not be stored
(`users.service.ts:42` returns the error as the user, and `validateUser` signs a
token without `_id`; mongoose finds nobody for it). `visit` is one request of that
browser on its way. A `MembershipStep` is any step of `Membership`; a
registration or a sign-in it ends may set the cookie of this browser or of
another. Between any two steps of the visit any number of them may happen, the
session may expire, and the database may fail. Routes stand for their decorators
(`Required`), and `Route` picks those a run follows. `AuthMiddleware` checks the
token before its first await, so `Arrive` asks for the session and no later step
does. Answers that nothing depends on end the visit at once; refusals are kept
as states because `RefusalHasCause` is about them.

`visit.biz` is the business the guard is given and `visit.used` the one the
handler takes, and the two are chosen apart (`Pass`), as guard and handlers read
them from different places of the request. The properties speak of the business
the guard was asked about: `ServedHasAccess` of a dashboard of it, `ApiHasAdmin`
of its super admin. `visit.had` is history: the place of the relation that gave
the visitor access on arrival, or at the guard.

A super admin who was first invited as an admin is an admin again after
registering, because `updateOne` links the older relation and `findOne` then
finds it first. `ServedHasAccess` and `RefusalHasCause` therefore speak of the
routes for both roles; `CreateApi` may be refused to somebody it was open to.

### StatusBoard

`responses` is the collection of one business in the order of insertion, each
with the `createdAt` the worker took up to `Lag` ticks before it was stored.
`DayResponses`, `Selected` and `ShownDays` are the stages of the pipeline of
`findApiResponses`; `Boards` is the set of its possible results, since MongoDB
takes any of several documents with one `createdAt`. The pipeline carries the
date of the moment it was built, so `FindApiResponses` and `Aggregate` are two
steps. A client that reads the dashboard asks for page after page until one is
not full; `Sorted` is every order that `sort({createdAt: -1})` allows, chosen
anew for each page. `outages` is a history variable.

`LagAssumption` says that a response is stored within a day of its `createdAt`:
a probe takes 5 seconds at most, and the insert follows it. The clocks of the
worker and of the backend are taken to agree.

## What the runs check

| run | instance | result |
|---|---|---|
| `worker_sweeps` | two runs, a good document and one that does not decode, fairness | `TypeOK`, `SweepComplete`, `LedgerSpec` (refinement), `EveryRunSettles`, `DrainEnds` hold |
| `worker_overlap` | two runs, two APIs | `IInv` is inductive enough to be proved and holds; `AnsweredMeansRecorded`, `AtMostOneResponse`, `OverRunIsQuiet` hold |
| `worker_cursor` | one run, the same documents | `AllApiJobsProcessed` fails |
| `membership_race` | two people, one business, two requests, two relations | `TypeOK`, the invariants `IInv` and `AdminInv` of the proofs, `RegisteredHasAccess`, `FoundedHasAdmin`, `SomebodyIsSuperAdmin`, `AccessIsKept` hold |
| `membership_findall` | two people, two businesses, three relations, one request at a time | `FindAllIsComplete` fails |
| `cache_ttl` | one API, one range, two requests, two responses, Redis failing at will | `TypeOK`, `IInv`, `LongLivedEntriesAreFinal`, `HistoryIsExact` hold |
| `cache_inflight` | one API, one range, two requests | `InvalidationTakesEffect` fails |
| `board_reads` | two APIs, three days of two ticks, a board of two days, three responses, pages of one row | `TypeOK`, the invariant `PagingInv` of the proofs, `BoardTellsTheDay`, `OutagesStayVisible`, `NoneSkipped` hold |
| `board_newest` | one API, three days, a board of two days | `NewestDayIsShown` fails |
| `reports_ranges` | one API, three days, a year of two days, three responses with the codes none, 200 and 300 and the times 0 and 5 | `EveryResponseCountsOnce`, `OutageIsReported`, `TimesAgree`, `DowntimeIsBounded`, `RangeFitsAYear`, `ReportsSettle` hold |
| `reports_unauthorized` | the same with the code 401 | `ActiveIsNotFailed` fails |
| `gate_access` | two people, one business, one request of `Membership` and one visit of any route, two relations | `GateTypeOK`, the invariant `AccessInv` of the proofs, `ServedHasAccess`, `RefusalHasCause`, `ApiHasAdmin` hold |

What the failing runs show of the code:

- `worker_cursor`: the cursor loop treats an error as the end of the collection
  (`fetch_jobs.go:37`); the caller is told "Cron job executed" with APIs left out.
- `membership_findall`: registering links one relation of the email
  (`businesses.service.ts:109`); the other businesses one was entered for are
  not shown.
- `cache_inflight`: a computation that began before an invalidation is cached
  after it.
- `board_newest`: days are sorted oldest first and the first 30 are kept
  (`api-monitor.service.ts:130`, `:142`); after 30 days with responses the board
  shows no new day.
- `reports_unauthorized`: the worker stores a 401 as a success, since "it means
  the api is still active" (`process_jobs.go:56`); the metrics count it as a
  failed request (`analytics.service.ts:113`), so the board shows a day as clean
  and the report lowers its uptime for it.

### Bounds

The worker's runs use the code 200 and `NoAnswer`, one code for each value of
`success`; the proofs cover every set of codes. Two goroutines of one run and two
runs are the fewest at which the wait group,
the shared process and duplicates can go wrong; the worker's code treats runs
and jobs alike, and the proofs cover any number. `MaxRelations` bounds
`businessusers`: with two relations, a founder's and one more, `findOne` and
`updateOne` begin to choose between those of one pair or email; the
third of `membership_findall` makes two invitations and the relation of the one
who invites. The proofs cover any number. Two requests suffice for each race of find and create. Two
responses distinguish three states of the data; the phases are all there. In `StatusBoard`
three responses over three days make a day with both outcomes beside a late
arrival, and a board of two days is one that overflows; pages of one row make
four fetches with insertions between any two. The collection grows to its bound
within a reading, so a reader that is overtaken is covered; it stops growing then,
and the clock stops at `MaxTime`, where the client goes on. An
insert that would pass a bound is simply not taken, and `Fail` remains
possible for the request.

In `Reports` three responses make two successes of different times beside a
failure, or three outcomes of a day; days of two ticks have a first and a last
moment, three days make ranges with a middle day, and a year of two days is one
that ends within the run. The real year, day and minutes are parameters. There
is no client in `Growth`, so a collection and a clock at their bounds have no
step left: `reports_ranges` is the one run without the deadlock check.
`gate_access` has one request of `Membership` beside the visit, so that two at
once are left to `membership_race` and to the proofs.

Symmetry is used in the runs that check safety only (`worker_overlap`,
`membership_race`, `board_reads`, `gate_access`), over runs, people, requests and APIs that no
definition tells apart.

### Fairness

`WorkerFairness` is weak fairness of `main` (Shutdown ends by itself or by its
30 s context) and of goroutines that can run: spawn, the `Get` with its 5 s
timeout, the answer. It is what the Go scheduler and the timers give. That
database calls return is not assumed (they run under `context.Background()`):
`DatabaseFairness` is a hypothesis within `EveryRunSettles`, and `DrainEnds`
does without it. Neither assumes that anybody calls `/run-cron`, sends a signal
or restarts the process.

## What is proved

`MonitorWorkerProofs`, from `ApiAssumption` (finitely many documents) and
`CodeAssumption`: `Spec => []IInv`, and from it type correctness,
`AnsweredMeansRecorded`, `AtMostOneResponse`, `SweepComplete`, `OverRunIsQuiet`
and `LedgerSpec`. `AnsweredMeansRecorded`
alone is not inductive: a run is answered when its wait group is 0, which says
something only because the counter is the number of goroutines yet to return
(`WaitGroupCounts`), goroutines serve only jobs of a run in processing
(`RoutinesServeJobs`), and one that has returned has stored
(`ReturnedMeansRecorded`). `ResponsesHaveOrigin` gives uniqueness: a goroutine
about to store has nothing stored yet, and `SentIsLost` adds that an insert
without its sender is the only one of its run and API. `CursorComplete` gives the sweep.

`MetricsCacheProofs`, from `MaxResponsesAssumption`: `Spec => []IInv`, type
correctness, `LongLivedEntriesAreFinal` and `HistoryIsExact`. The invariant
follows a result through its life: computed late enough it is final
(`ComputedIsFinal`), an entry set a phase later is too (`CachedIsFinal`), and its
TTL tells when it was set (`TtlTellsPhase`).

`MembershipProofs` has two inductive invariants, from `IdAssumption` and
`MaxRelationsAssumption` alone; nothing is assumed of what bodies name.

- `IInv`: beside `TypeOK`, in which emails of users are unique although they are
  found and inserted in two steps, the oldest relation of a registered email is
  its own (`RegisteredLinked`). That relation is the one `updateOne` takes, so no
  later registration can take it: `RegisteredHasAccess`.
- `AdminInv`: a business that was answered has a super admin with an account
  (`FoundedHasAdmin`), and the oldest relation of all is a super admin's of a
  business that is there (`OldestIsFounders`). Both are inductive because a link
  changes the user of a relation and nothing else, to one who has an account, and
  because nobody can invite before the first founding has ended (`InvitersAreIn`).
  From the second, `SomebodyIsSuperAdmin`: the guard looks at the first relation
  of a user and a business, and the oldest of all is the first of its pair.

`AccessIsKept` follows from a step lemma (`AccessStep`): relations stay, and one
that changes its user was linked to the owner of its address.

`RequestGateProofs` has `GateInv` and `AccessInv`. Every step of the gate is a
step of `Membership` or leaves it alone, so the proofs start from `IInv`,
`AdminInv` and the step lemmas of `MembershipProofs`: what the guard found stays, or
is linked to another (`HadStands`). From it, `ServedHasAccess`,
`RefusalHasCause` and `ApiHasAdmin`, for any number of people, businesses,
requests and any set of routes. `GateImplementsMembership` (`GateSpec => Spec`)
carries the theorems of `MembershipProofs` over.

`StatusBoardProofs`, from `SizeAssumption`, `CodeAssumption` and
`LagAssumption`: `BoardInv` says that a day whose outage was shown is over, and
has its failures and its place among the days of the board. That the lag is
shorter than a day is needed there and nowhere else: a response that is stored after the end of a day
is of that day or a later one, so it cannot bring an earlier day back and push
the outage off the board. `PagingInv` adds, for a reader of pages, that a row he
has not seen has at least as many rows before it as were skipped. From these,
`BoardTellsTheDay`, `OutagesStayVisible` and `NoneSkipped`, for every length of
the day, number of days, size of a page and collection.

`ReportsProofs`, from the same and `YearAssumption`: all six properties of
`reports_ranges`. A report has no state, so each follows from `TypeOK` and lemmas
about the operators: successes and failures part a range (`CountedOnce`), days
do not overlap (`RangeIsCut`), a failure of the board is a failure of the range
(`OutageIsIn`). `OutagesAreReported` has the hypothesis of fewer than 20 000
responses, without which the two digits of the uptime can be 100.00 with a
failure among them; an API probed every five minutes would pass that within
70 days, so a report of a year may show it. `OutagesAreCounted` says the same of
the number of failures without that hypothesis. `TimesAgree` holds with times of
0 ms too, which `$min` leaves out and the average does not, so that the shortest
may be above the average, by their share at most; it bounds a sum, which is
defined by recursion over a set: `SumLemmas` shows that the recursion has a
solution and what it computes, each time by taking a smallest set for which it
fails, since inclusion of finite sets is well founded.

Only model-checked: the two liveness properties, `EveryRunSettles` and
`DrainEnds`: liveness under fairness is beyond the prover. The claims that fail
(`cache_inflight` and the other violations) are runs, not theorems.

## Not modelled

Configuration, DTO classes and module wiring have no state. The throttler is
configured only; its storage is the library's. CORS sets headers; its list of
public routes holds the text of a pattern, which `startsWith` never matches, so
the branch "Allow any origin for public route" is dead (`cors.middleware.ts:14`).
`listBusinessApis` and the founding of a business read errors of
`BusinessesService` as values (`businesses.service.ts:74`, `:43`); `RequestGate`
says who gets such an answer, not what is in it. The texts of messages, the hash
of passwords, and JSON are abstracted. `createApiResponse`,
`getBusinessesWithRole`, `getUserRoleInBusiness` and `debugApiData` have no
caller.

## Plan

1. Done: `ProbeLedger`, `MonitorWorker`, `Membership`, `MetricsCache`,
   `StatusBoard`, `Reports` and `RequestGate`, each with its safety properties
   proved.
2. To state and prove next: what an invalidation does promise, namely that it
   takes effect when Redis answers and no metrics request of the API is between
   its aggregation and its `SETEX`; and what `findAll` does show of the
   businesses of somebody who was invited once.
