--------------------------- MODULE MonitorWorker ---------------------------
(***************************************************************************)
(* The Go worker (api-monitor-worker/): each call of /run-cron sweeps the  *)
(* apis collection with a cursor, probes every decoded API in a goroutine  *)
(* of its own and stores one document per probe in apiresponses.  Calls    *)
(* overlap freely; a failed database call ends the whole process through   *)
(* log.Fatal; SIGTERM drains the HTTP server for at most 30 seconds.       *)
(*                                                                         *)
(* A run is one call of /run-cron.  A retry by the caller is another run.  *)
(***************************************************************************)
EXTENDS Naturals, FiniteSets

CONSTANTS Api,          \* identifiers of documents of the apis collection
          Undecodable,  \* those that do not decode into models.ApiJob
          Run,          \* calls of /run-cron
          Code          \* HTTP status codes an endpoint can answer with

ASSUME ApiAssumption == IsFiniteSet(Api) /\ Undecodable \subseteq Api
ASSUME CodeAssumption == Code \subseteq 100 .. 599

VARIABLES apis,       \* the apis collection, which the NestJS backend grows
          responses,  \* the apiresponses collection
          sent,       \* inserts of processes that died before the answer
          proc,       \* the worker process
          pc,         \* the handler of each run
          due,        \* the collection when the run's Find was accepted
          read,       \* the documents the run's cursor has returned
          cursorErr,  \* cursor.Err() # nil, which FetchJobs never looks at
          wg,         \* the run's sync.WaitGroup counter
          routine,    \* the goroutine of each job of the run
          got         \* the status code each goroutine is about to store

vars == <<apis, responses, sent, proc, pc, due, read, cursorErr, wg, routine, got>>
store == <<apis, responses, sent>>
fetch == <<due, read, cursorErr>>
jobs == <<wg, routine, got>>

NoAnswer == 0   \* apiResponse.StatusCode when clientHTTP.Get fails

\* ProcessAndStoreAPIResponse: a failed Get is no success, an answer is one
\* when its code is below 500.
Success(c) == c # NoAnswer /\ c < 500

Response(r, a, c) ==
  [run |-> r, api |-> a, statuscode |-> c, success |-> Success(c)]

Recorded(r, a) == \E x \in responses : x.run = r /\ x.api = a

\* The slice FetchJobs returns: what the cursor gave, less what failed to
\* decode.
Jobs(r) == read[r] \ Undecodable

InFlight(r) == pc[r] \in {"started", "fetching", "processing"}

Alive == proc # "down"

Over(r) == pc[r] \in {"answered", "cut"}

NoRoutine == [a \in Api |-> "none"]
NoCode == [a \in Api |-> NoAnswer]

TypeOK ==
  /\ apis \subseteq Api
  /\ responses \union sent
       \subseteq [run : Run, api : Api, success : BOOLEAN,
                  statuscode : Code \union {NoAnswer}]
  /\ proc \in {"down", "up", "deaf", "draining", "stopped", "forced"}
  /\ pc \in [Run -> {"idle", "started", "fetching", "processing",
                     "answered", "cut", "lost"}]
  /\ due \in [Run -> SUBSET Api]
  /\ read \in [Run -> SUBSET Api]
  /\ cursorErr \in [Run -> BOOLEAN]
  /\ wg \in [Run -> Nat]
  /\ routine \in [Run -> [Api -> {"none", "calling", "saving", "done"}]]
  /\ got \in [Run -> [Api -> Code \union {NoAnswer}]]

Init ==
  /\ apis \in SUBSET Api
  /\ responses = {}
  /\ sent = {}
  /\ proc = "down"
  /\ pc = [r \in Run |-> "idle"]
  /\ due = [r \in Run |-> {}]
  /\ read = [r \in Run |-> {}]
  /\ cursorErr = [r \in Run |-> FALSE]
  /\ wg = [r \in Run |-> 0]
  /\ routine = [r \in Run |-> NoRoutine]
  /\ got = [r \in Run |-> NoCode]
-----------------------------------------------------------------------------
(* The process.                                                            *)

\* The goroutines whose InsertOne has not returned.
Inserting == {i \in Run \X Api : routine[i[1]][i[2]] = "saving"}

\* The process ends: nothing deferred runs, every goroutine is gone with its
\* local variables, and the callers of the runs in flight see their
\* connection break.  An insert that has not returned may be at the
\* database already.
Die ==
  /\ sent' = sent \union
       {Response(i[1], i[2], got[i[1]][i[2]]) : i \in Inserting}
  /\ UNCHANGED <<apis, responses>>
  /\ proc' = "down"
  /\ pc' = [r \in Run |-> IF InFlight(r) THEN "lost" ELSE pc[r]]
  /\ due' = [r \in Run |-> IF InFlight(r) THEN {} ELSE due[r]]
  /\ read' = [r \in Run |-> IF InFlight(r) THEN {} ELSE read[r]]
  /\ cursorErr' = [r \in Run |-> ~ InFlight(r) /\ cursorErr[r]]
  /\ wg' = [r \in Run |-> 0]
  /\ routine' = [r \in Run |-> NoRoutine]
  /\ got' = [r \in Run |-> NoCode]

\* The platform starts the container.  ConnectDB ends the process again when
\* the database is out of reach, which is no step here.  A listener that
\* fails is only logged: main waits for a signal beside a deaf server.
Start ==
  /\ proc = "down"
  /\ proc' \in {"up", "deaf"}
  /\ UNCHANGED <<store, pc, fetch, jobs>>

\* SIGTERM or SIGINT: server.Shutdown closes the listener.
Signal ==
  /\ proc \in {"up", "deaf"}
  /\ proc' = "draining"
  /\ UNCHANGED <<store, pc, fetch, jobs>>

\* server.Shutdown returns nil once no handler is active.
ShutdownDone ==
  /\ proc = "draining"
  /\ \A r \in Run : ~ InFlight(r)
  /\ proc' = "stopped"
  /\ UNCHANGED <<store, pc, fetch, jobs>>

ShutdownNoTimeout == FALSE /\ UNCHANGED vars

\* The 30 second context expires first: "Server forced to shutdown".
ShutdownTimeout ==
  /\ proc = "draining"
  /\ \E r \in Run : InFlight(r)
  /\ proc' = "forced"
  /\ UNCHANGED <<store, pc, fetch, jobs>>

\* The deferred DisconnectDB returns, or fails with log.Fatal, and main is
\* over.  A handler still running goes on until then.
Exit ==
  /\ proc \in {"stopped", "forced"}
  /\ Die

\* The process is killed from outside.
Kill ==
  /\ Alive
  /\ Die
-----------------------------------------------------------------------------
(* FetchJobs.                                                              *)

\* The handler of /run-cron calls cron.CronJob.  A connection accepted just
\* before the signal may still bring its call: Shutdown closes only the idle
\* ones.
Trigger(r) ==
  /\ proc \in {"up", "draining"}
  /\ pc[r] = "idle"
  /\ pc' = [pc EXCEPT ![r] = "started"]
  /\ UNCHANGED <<store, proc, fetch, jobs>>

FindJobs(r) ==
  /\ Alive
  /\ pc[r] = "started"
  /\ pc' = [pc EXCEPT ![r] = "fetching"]
  /\ due' = [due EXCEPT ![r] = apis]
  /\ UNCHANGED <<store, proc, read, cursorErr, jobs>>

\* log.Fatalf("Error fetching API Jobs"): ends the other runs with it.
FindFails(r) ==
  /\ Alive
  /\ pc[r] = "started"
  /\ Die

CursorNextBreak(r, a) ==
  /\ Alive
  /\ pc[r] = "fetching"
  /\ a \in apis \ read[r]
  /\ read' = [read EXCEPT ![r] = @ \union {a}]
  /\ pc' = [pc EXCEPT ![r] = IF a \in Undecodable THEN "processing" ELSE @]
  /\ UNCHANGED <<store, proc, due, cursorErr, jobs>>

\* One turn of the cursor loop.  A document that fails to decode is skipped
\* with `continue`.
CursorNext(r, a) ==
  /\ Alive
  /\ pc[r] = "fetching"
  /\ a \in apis \ read[r]
  /\ read' = [read EXCEPT ![r] = @ \union {a}]
  /\ UNCHANGED <<store, proc, pc, due, cursorErr, jobs>>

\* cursor.Next returns FALSE, either at the end of the collection (every
\* document that was there when Find was accepted has been returned; one
\* inserted since may or may not have been) or on an error that only
\* cursor.Err() would tell apart.
CursorDone(r) ==
  /\ Alive
  /\ pc[r] = "fetching"
  /\ \/ due[r] \subseteq read[r] /\ UNCHANGED cursorErr
     \/ cursorErr' = [cursorErr EXCEPT ![r] = TRUE]
  /\ pc' = [pc EXCEPT ![r] = "processing"]
  /\ UNCHANGED <<store, proc, due, read, jobs>>
-----------------------------------------------------------------------------
(* ProcessJobsConcurrently and ProcessAndStoreAPIResponse.                 *)

SpawnUncounted(r, a) ==
  /\ Alive
  /\ pc[r] = "processing"
  /\ a \in Jobs(r)
  /\ routine[r][a] = "none"
  /\ routine' = [routine EXCEPT ![r][a] = "calling"]
  /\ UNCHANGED <<store, proc, pc, fetch, wg, got>>

\* wg.Add(1) before the go statement.
Spawn(r, a) ==
  /\ Alive
  /\ pc[r] = "processing"
  /\ a \in Jobs(r)
  /\ routine[r][a] = "none"
  /\ wg' = [wg EXCEPT ![r] = @ + 1]
  /\ routine' = [routine EXCEPT ![r][a] = "calling"]
  /\ UNCHANGED <<store, proc, pc, fetch, got>>

\* clientHTTP.Get returns: an answer, or NoAnswer for a refused connection,
\* a failed lookup or the 5 second timeout.
Probe(r, a) ==
  /\ Alive
  /\ routine[r][a] = "calling"
  /\ \E c \in Code \union {NoAnswer} : got' = [got EXCEPT ![r][a] = c]
  /\ routine' = [routine EXCEPT ![r][a] = "saving"]
  /\ UNCHANGED <<store, proc, pc, fetch, wg>>

SaveWithoutDone(r, a) ==
  /\ Alive
  /\ routine[r][a] = "saving"
  /\ responses' = responses \union {Response(r, a, got[r][a])}
  /\ routine' = [routine EXCEPT ![r][a] = "done"]
  /\ got' = [got EXCEPT ![r][a] = NoAnswer]
  /\ UNCHANGED <<apis, sent, proc, pc, fetch, wg>>

\* InsertOne succeeds; the goroutine returns, its variables are gone and its
\* deferred wg.Done runs.
Save(r, a) ==
  /\ Alive
  /\ routine[r][a] = "saving"
  /\ responses' = responses \union {Response(r, a, got[r][a])}
  /\ routine' = [routine EXCEPT ![r][a] = "done"]
  /\ got' = [got EXCEPT ![r][a] = NoAnswer]
  /\ wg' = [wg EXCEPT ![r] = @ - 1]
  /\ UNCHANGED <<apis, sent, proc, pc, fetch>>

SaveFailsLogged(r, a) ==
  /\ Alive
  /\ routine[r][a] = "saving"
  /\ routine' = [routine EXCEPT ![r][a] = "done"]
  /\ wg' = [wg EXCEPT ![r] = @ - 1]
  /\ UNCHANGED <<store, proc, pc, fetch, got>>

SaveFailsRetried(r, a) ==
  /\ Alive
  /\ routine[r][a] = "saving"
  /\ responses' \in {responses, responses \union {Response(r, a, got[r][a])}}
  /\ routine' = [routine EXCEPT ![r][a] = "calling"]
  /\ UNCHANGED <<apis, sent, proc, pc, fetch, wg, got>>

\* InsertOne reports an error and log.Fatal ends the process with every other
\* goroutine of every run.  The error leaves open whether the write has been
\* or will be applied.
SaveFails(r, a) ==
  /\ Alive
  /\ routine[r][a] = "saving"
  /\ Die

\* The database applies an insert whose sender is gone, which it may do at
\* any later time or never.
Land ==
  /\ \E x \in sent \ responses : responses' = responses \union {x}
  /\ UNCHANGED <<apis, sent, proc, pc, fetch, jobs>>

AllSpawned(r) == \A a \in Jobs(r) : routine[r][a] # "none"

\* The loop over the jobs is over and wg.Wait() returns.
WaitOver(r) == AllSpawned(r) /\ wg[r] = 0

\* CronJob returns and the handler writes status 200.  The 15 second
\* WriteTimeout of the server may have passed meanwhile: then the handler
\* ends the same way but the caller sees the connection cut.
Answer(r) ==
  /\ Alive
  /\ pc[r] = "processing"
  /\ WaitOver(r)
  /\ \E end \in {"answered", "cut"} : pc' = [pc EXCEPT ![r] = end]
  /\ routine' = [routine EXCEPT ![r] =
                   [a \in Api |-> IF @[a] = "done" THEN "none" ELSE @[a]]]
  /\ UNCHANGED <<store, proc, fetch, wg, got>>
-----------------------------------------------------------------------------
\* The backend inserts an API while the worker runs (nothing deletes one).
CreateApi(a) ==
  /\ a \notin apis
  /\ apis' = apis \union {a}
  /\ UNCHANGED <<responses, sent, proc, pc, fetch, jobs>>

Handler(r) ==
  \/ FindJobs(r) \/ FindFails(r) \/ CursorDone(r) \/ Answer(r)
  \/ \E a \in Api :
       \/ CursorNext(r, a) \/ Spawn(r, a) \/ Probe(r, a)
       \/ Save(r, a) \/ SaveFails(r, a)

Main == ShutdownDone \/ ShutdownTimeout \/ Exit

Next ==
  \/ \E r \in Run : Trigger(r) \/ Handler(r)
  \/ \E a \in Api : CreateApi(a)
  \/ Main \/ Start \/ Signal \/ Kill \/ Land

Spec == Init /\ [][Next]_vars

\* The Go scheduler runs main and every goroutine that can run, a Get ends
\* within its 5 second timeout and Shutdown within its 30 second context.
\* Nothing is assumed of the database.
WorkerFairness ==
  /\ WF_vars(Main)
  /\ \A r \in Run :
       /\ WF_vars(Answer(r))
       /\ \A a \in Api : WF_vars(Spawn(r, a)) /\ WF_vars(Probe(r, a))

\* Every call to the database returns, with or without an error.
DatabaseFairness ==
  \A r \in Run :
    /\ WF_vars(FindJobs(r) \/ FindFails(r))
    /\ WF_vars(CursorDone(r) \/ \E a \in Api : CursorNext(r, a))
    /\ \A a \in Api : WF_vars(Save(r, a) \/ SaveFails(r, a))

FairSpec == Spec /\ WorkerFairness
-----------------------------------------------------------------------------
(* Correctness.                                                            *)

\* "Cron job executed" (main.go:30-31) tells the truth about what was
\* fetched: a run is over only when every job FetchJobs returned has its
\* response in the collection.  wg.Add before `go`, the deferred wg.Done and
\* log.Fatal on a failed insert each have a part in it.
AnsweredMeansRecorded ==
  \A r \in Run : Over(r) => \A a \in Jobs(r) : Recorded(r, a)

\* A run never stores two responses for one API, however its goroutines
\* interleave and whatever a failed insert left behind.
AtMostOneResponse ==
  \A x, y \in responses : x.run = y.run /\ x.api = y.api => x = y

\* A run that is answered, and whose cursor reached the end, has a response
\* for every decodable API that was registered when its Find began: one bad
\* document costs its own probe and no other.
SweepComplete ==
  \A r \in Run :
    Over(r) /\ ~ cursorErr[r] =>
      \A a \in due[r] \ Undecodable : Recorded(r, a)

\* Once the caller of /run-cron has its answer, or has been cut off by the
\* WriteTimeout, nothing more is stored in the name of that run: a dashboard
\* read after the answer will not see the sweep grow.  A run that died with
\* its process may still grow by the inserts it had sent.
OverRunIsQuiet ==
  [][\A x \in responses' \ responses : ~ Over(x.run)]_vars

\* Every call of /run-cron is answered or dies with the process, provided the
\* database calls return.
EveryRunSettles ==
  DatabaseFairness => \A r \in Run : InFlight(r) ~> ~ InFlight(r)

\* After SIGTERM the process ends even when an insert hangs for ever (it runs
\* under context.Background, without a deadline): the 30 second context of
\* main does not depend on the handlers.
DrainEnds == proc = "draining" ~> proc = "down"

\* The worker logs "All API jobs processed successfully"
\* (process_jobs.go:83) and answers 200 "Cron job executed" (main.go:31): no
\* API that was registered when the sweep began has been left out.
AllApiJobsProcessed ==
  \A r \in Run :
    pc[r] = "answered" => \A a \in due[r] \ Undecodable : Recorded(r, a)

-----------------------------------------------------------------------------
(* The inductive invariant.                                                *)

Active(r) == {a \in Api : routine[r][a] \in {"calling", "saving"}}

\* The wait group counts the goroutines that have yet to return.
WaitGroupCounts == \A r \in Run : wg[r] = Cardinality(Active(r))

\* Goroutines exist only for the jobs of a run that is processing them.
RoutinesServeJobs ==
  \A r \in Run, a \in Api :
    routine[r][a] # "none" => pc[r] = "processing" /\ a \in Jobs(r)

\* A goroutine that has returned has stored its response.
ReturnedMeansRecorded ==
  \A r \in Run, a \in Api : routine[r][a] = "done" => Recorded(r, a)

\* Where a response can come from: a goroutine of its run that has returned,
\* or a run that is no longer under way.
ResponsesHaveOrigin ==
  \A x \in responses :
    \/ routine[x.run][x.api] = "done"
    \/ Over(x.run)
    \/ pc[x.run] = "lost"

\* An insert without a sender belongs to a run that died, and is the only one
\* of its run and API.
SentIsLost ==
  /\ \A x \in sent : pc[x.run] = "lost" /\ x.success = Success(x.statuscode)
  /\ \A x, y \in responses \union sent :
       x.run = y.run /\ x.api = y.api => x = y

\* A cursor that ended without error has returned what it owed.
CursorComplete ==
  \A r \in Run :
    /\ pc[r] = "processing" \/ Over(r)
    /\ ~ cursorErr[r]
    => due[r] \subseteq read[r]

\* A dead process has no run under way.
DownIsQuiet == proc = "down" => \A r \in Run : ~ InFlight(r)

\* What the worker's variables have to do with one another after any number
\* of steps of any number of runs: wait group, goroutines, responses and
\* cursors agree.
IInv ==
  /\ TypeOK
  /\ WaitGroupCounts
  /\ RoutinesServeJobs
  /\ ReturnedMeansRecorded
  /\ ResponsesHaveOrigin
  /\ CursorComplete
  /\ DownIsQuiet
  /\ AnsweredMeansRecorded
  /\ AtMostOneResponse
  /\ SentIsLost
-----------------------------------------------------------------------------
(* Refinement.                                                             *)

\* Fetching is open, processing is probing, and the plan of a run is the jobs
\* FetchJobs returned; of a run that died, those whose insert was sent.
LedgerStatus(r) ==
  CASE pc[r] \in {"started", "fetching"} -> "open"
    [] pc[r] = "processing" -> "probing"
    [] Over(r) -> "closed"
    [] OTHER -> pc[r]

LedgerPlan(r) ==
  CASE pc[r] = "processing" \/ Over(r) -> Jobs(r)
    [] pc[r] = "lost" -> {x.api : x \in {y \in sent : y.run = r}}
    [] OTHER -> {}

Ledger == INSTANCE ProbeLedger WITH
  status <- [r \in Run |-> LedgerStatus(r)],
  planned <- [r \in Run |-> LedgerPlan(r)]

\* Every behaviour of the worker is one the ledger of probes allows.
LedgerSpec == Ledger!Spec
=============================================================================
