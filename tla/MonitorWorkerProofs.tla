------------------------ MODULE MonitorWorkerProofs ------------------------
(***************************************************************************)
(* Proofs about MonitorWorker: IInv is inductive, hence the safety         *)
(* properties hold for any number of APIs, runs and goroutines, and the    *)
(* worker implements ProbeLedger.                                          *)
(***************************************************************************)
EXTENDS MonitorWorker, FiniteSetTheorems, TLAPS

\* The goroutines of a run are finite in number, so the wait group counts
\* with a natural number.
LEMMA ActiveFinite ==
  ASSUME NEW r \in Run
  PROVE  IsFiniteSet(Active(r)) /\ Cardinality(Active(r)) \in Nat
<1>1. Active(r) \subseteq Api
  BY DEF Active
<1>2. IsFiniteSet(Active(r))
  BY <1>1, ApiAssumption, FS_Subset
<1> QED
  BY <1>2, FS_CardinalityType

\* A wait group at zero has no goroutine left to wait for.
LEMMA NoneActive ==
  ASSUME NEW r \in Run, WaitGroupCounts, wg[r] = 0
  PROVE  \A a \in Api : routine[r][a] \notin {"calling", "saving"}
<1>1. Active(r) = {}
  BY ActiveFinite, FS_EmptySet DEF WaitGroupCounts
<1> QED
  BY <1>1 DEF Active

\* What a goroutine stores is a response of its own run and API.
LEMMA ResponseType ==
  ASSUME TypeOK, NEW r \in Run, NEW a \in Api
  PROVE  Response(r, a, got[r][a]) \in
           [run : Run, api : Api, success : BOOLEAN,
            statuscode : Code \union {NoAnswer}]
<1>1. got[r][a] \in Code \union {NoAnswer}
  BY DEF TypeOK
<1>2. Success(got[r][a]) \in BOOLEAN
  BY DEF Success
<1> QED
  BY <1>1, <1>2 DEF Response

Stored == [run : Run, api : Api, success : BOOLEAN,
           statuscode : Code \union {NoAnswer}]

\* A goroutine about to store its response finds none of its run and API in
\* the collection, so storing it keeps responses unique and well typed.
LEMMA StoreOnce ==
  ASSUME IInv, NEW r \in Run, NEW a \in Api, routine[r][a] = "saving",
         responses' = responses \union {Response(r, a, got[r][a])}
  PROVE  /\ ~ Recorded(r, a)
         /\ responses' \subseteq Stored
         /\ AtMostOneResponse'
         /\ sent' = sent => \A x, y \in responses' \union sent' :
              x.run = y.run /\ x.api = y.api => x = y
<1> DEFINE new == Response(r, a, got[r][a])
<1>1. pc[r] = "processing"
  BY DEF IInv, RoutinesServeJobs
<1>2. ~ Recorded(r, a)
  BY <1>1 DEF IInv, ResponsesHaveOrigin, Recorded, Over
<1>3. new \in Stored /\ new.run = r /\ new.api = a
  BY ResponseType DEF IInv, Stored, Response
<1>4. responses' \subseteq Stored
  BY <1>3 DEF IInv, TypeOK, Stored
<1>5. \A x \in responses : ~ (x.run = new.run /\ x.api = new.api)
  BY <1>2, <1>3 DEF Recorded
<1>6. AtMostOneResponse'
  BY <1>5 DEF IInv, AtMostOneResponse
<1>7. \A x \in sent : x.run # new.run
  BY <1>1, <1>3 DEF IInv, SentIsLost
<1>8. ASSUME sent' = sent
      PROVE  \A x, y \in responses' \union sent' :
               x.run = y.run /\ x.api = y.api => x = y
  BY <1>5, <1>7, <1>8 DEF IInv, SentIsLost
<1> QED
  BY <1>2, <1>4, <1>6, <1>8

\* What a process that dies leaves behind: inserts of its own goroutines, none
\* of which is in the collection or had been sent before.
LEMMA LeftBehind ==
  ASSUME IInv, Die, NEW x \in sent' \ sent
  PROVE  /\ x \in Stored
         /\ routine[x.run][x.api] = "saving"
         /\ pc[x.run] = "processing" /\ x.api \in Jobs(x.run)
         /\ x = Response(x.run, x.api, got[x.run][x.api])
         /\ \A y \in responses \union sent :
              ~ (y.run = x.run /\ y.api = x.api)
<1>1. PICK i \in Inserting : x = Response(i[1], i[2], got[i[1]][i[2]])
  BY DEF Die
<1> DEFINE r == i[1]
           a == i[2]
<1>2. r \in Run /\ a \in Api /\ routine[r][a] = "saving"
  BY DEF Inserting
<1>3. pc[r] = "processing" /\ a \in Jobs(r)
  BY <1>2 DEF IInv, RoutinesServeJobs
<1>4. ~ Recorded(r, a)
  BY <1>2, <1>3 DEF IInv, ResponsesHaveOrigin, Recorded, Over
<1>5. x \in Stored /\ x.run = r /\ x.api = a
  BY <1>1, <1>2, ResponseType DEF IInv, Stored, Response
<1>6. \A y \in sent : y.run # r
  BY <1>3 DEF IInv, SentIsLost
<1> QED
  BY <1>1, <1>2, <1>3, <1>4, <1>5, <1>6 DEF Recorded

LEMMA InitInvariant == Init => IInv
<1> SUFFICES ASSUME Init PROVE IInv
  OBVIOUS
<1> USE DEF Init
<1>1. TypeOK
  BY DEF TypeOK, NoRoutine, NoCode
<1>2. WaitGroupCounts
  <2> SUFFICES ASSUME NEW r \in Run PROVE wg[r] = Cardinality(Active(r))
    BY DEF WaitGroupCounts
  <2>1. Active(r) = {}
    BY DEF Active, NoRoutine
  <2> QED
    BY <2>1, FS_EmptySet
<1>3. RoutinesServeJobs /\ ReturnedMeansRecorded
  BY DEF RoutinesServeJobs, ReturnedMeansRecorded, NoRoutine
<1>4. ResponsesHaveOrigin /\ AtMostOneResponse
  BY DEF ResponsesHaveOrigin, AtMostOneResponse
<1>5. CursorComplete /\ DownIsQuiet /\ AnsweredMeansRecorded
  BY DEF CursorComplete, DownIsQuiet, AnsweredMeansRecorded, Over, InFlight
<1>6. SentIsLost
  BY DEF SentIsLost
<1> QED
  BY <1>1, <1>2, <1>3, <1>4, <1>5, <1>6 DEF IInv

\* The process may die at any point: wait groups and goroutines go together,
\* the responses stored so far belong to runs that are over or lost, and the
\* inserts left behind to runs that are lost.
LEMMA DieInvariant ==
  ASSUME IInv, Die
  PROVE  IInv'
<1> USE DEF IInv
<1>0. responses' = responses
  BY DEF Die
<1>1. TypeOK'
  <2>1. sent' \subseteq Stored
    BY LeftBehind DEF TypeOK, Stored
  <2>2. cursorErr' \in [Run -> BOOLEAN]
    BY DEF Die
  <2>3. routine' \in [Run -> [Api -> {"none", "calling", "saving", "done"}]]
    BY DEF Die, NoRoutine
  <2>4. got' \in [Run -> [Api -> Code \union {NoAnswer}]]
    BY DEF Die, NoCode
  <2> QED
    BY <1>0, <2>1, <2>2, <2>3, <2>4 DEF TypeOK, Stored, Die
<1>2. WaitGroupCounts'
  <2> SUFFICES ASSUME NEW r \in Run PROVE wg'[r] = Cardinality(Active(r)')
    BY DEF WaitGroupCounts
  <2>1. Active(r)' = {}
    BY DEF Active, Die, NoRoutine
  <2> QED
    BY <2>1, FS_EmptySet DEF Die
<1>3. RoutinesServeJobs' /\ ReturnedMeansRecorded'
  BY DEF RoutinesServeJobs, ReturnedMeansRecorded, Die, NoRoutine
<1>4. ResponsesHaveOrigin'
  BY <1>0 DEF ResponsesHaveOrigin, RoutinesServeJobs, Die, TypeOK, InFlight,
              Over
<1>5. AtMostOneResponse'
  BY <1>0 DEF AtMostOneResponse
<1>6. CursorComplete' /\ DownIsQuiet'
  BY DEF CursorComplete, DownIsQuiet, Die, TypeOK, InFlight, Over
<1>7. AnsweredMeansRecorded'
  BY DEF AnsweredMeansRecorded, Die, TypeOK, InFlight, Over, Jobs, Recorded
<1>8. SentIsLost'
  <2>1. ASSUME NEW x \in sent'
        PROVE  pc'[x.run] = "lost" /\ x.success = Success(x.statuscode)
    <3>1. CASE x \in sent
      BY <3>1 DEF SentIsLost, Die, TypeOK, InFlight
    <3>2. CASE x \notin sent
      <4>1. x \in Stored /\ pc[x.run] = "processing"
            /\ x = Response(x.run, x.api, got[x.run][x.api])
        BY <3>2, LeftBehind
      <4>2. pc'[x.run] = "lost"
        BY <4>1 DEF Die, InFlight, Stored
      <4>3. x.success = Success(x.statuscode)
        BY <4>1 DEF Response
      <4> QED
        BY <4>2, <4>3
    <3> QED
      BY <3>1, <3>2
  <2>2. ASSUME NEW x \in responses' \union sent',
               NEW y \in responses' \union sent',
               x.run = y.run, x.api = y.api
        PROVE  x = y
    <3>1. CASE x \in responses \union sent /\ y \in responses \union sent
      BY <2>2, <3>1 DEF SentIsLost
    <3>2. CASE x \notin responses \union sent /\ y \in responses \union sent
      BY <1>0, <2>2, <3>2, LeftBehind
    <3>3. CASE x \in responses \union sent /\ y \notin responses \union sent
      BY <1>0, <2>2, <3>3, LeftBehind
    <3>4. CASE x \notin responses \union sent /\ y \notin responses \union sent
      <4>1. /\ x = Response(x.run, x.api, got[x.run][x.api])
            /\ y = Response(y.run, y.api, got[y.run][y.api])
        BY <1>0, <3>4, LeftBehind
      <4> QED
        BY <2>2, <4>1
    <3> QED
      BY <3>1, <3>2, <3>3, <3>4
  <2> QED
    BY <2>1, <2>2 DEF SentIsLost
<1> QED
  BY <1>1, <1>2, <1>3, <1>4, <1>5, <1>6, <1>7, <1>8

\* An insert left behind is applied: it is the only one of its run and API,
\* and its run died.
LEMMA LandInvariant ==
  ASSUME IInv, Land
  PROVE  IInv'
<1> USE DEF IInv, Land, fetch, jobs
<1>1. PICK x \in sent \ responses : responses' = responses \union {x}
  OBVIOUS
<1>2. TypeOK'
  BY <1>1 DEF TypeOK
<1>3. WaitGroupCounts' /\ RoutinesServeJobs'
  BY DEF WaitGroupCounts, Active, RoutinesServeJobs, Jobs
<1>4. \A r \in Run, a \in Api : Recorded(r, a) => Recorded(r, a)'
  BY <1>1 DEF Recorded
<1>5. ReturnedMeansRecorded'
  BY <1>4 DEF ReturnedMeansRecorded
<1>6. AnsweredMeansRecorded'
  BY <1>4 DEF AnsweredMeansRecorded, Over, Jobs, TypeOK
<1>7. ResponsesHaveOrigin'
  BY <1>1 DEF ResponsesHaveOrigin, SentIsLost, Over
<1>8. CursorComplete' /\ DownIsQuiet'
  BY DEF CursorComplete, DownIsQuiet, Over, InFlight
<1>9. SentIsLost' /\ AtMostOneResponse'
  BY <1>1 DEF SentIsLost, AtMostOneResponse
<1> QED
  BY <1>2, <1>3, <1>5, <1>6, <1>7, <1>8, <1>9

\* Steps that move only the process: no run of a dead process is under way.
LEMMA ProcessInvariant ==
  ASSUME IInv, Start \/ Signal \/ ShutdownDone \/ ShutdownTimeout
  PROVE  IInv'
<1> USE DEF IInv, Start, Signal, ShutdownDone, ShutdownTimeout, store, fetch,
            jobs
<1>1. TypeOK'
  BY DEF TypeOK
<1>2. WaitGroupCounts' /\ RoutinesServeJobs' /\ ReturnedMeansRecorded'
  BY DEF WaitGroupCounts, Active, RoutinesServeJobs, ReturnedMeansRecorded,
         Jobs, Recorded
<1>3. ResponsesHaveOrigin' /\ CursorComplete' /\ AnsweredMeansRecorded'
  BY DEF ResponsesHaveOrigin, CursorComplete, AnsweredMeansRecorded, Over,
         Jobs, Recorded
<1>4. DownIsQuiet' /\ SentIsLost'
  BY DEF DownIsQuiet, SentIsLost, InFlight, TypeOK
<1>5. AtMostOneResponse'
  BY DEF AtMostOneResponse
<1> QED
  BY <1>1, <1>2, <1>3, <1>4, <1>5

\* The backend may register an API at any time: no invariant of the worker
\* looks at the collection itself.
LEMMA CreateApiInvariant ==
  ASSUME IInv, NEW a \in Api, CreateApi(a)
  PROVE  IInv'
<1> USE DEF IInv, CreateApi, fetch, jobs
<1>1. TypeOK'
  BY DEF TypeOK
<1>2. WaitGroupCounts' /\ RoutinesServeJobs' /\ ReturnedMeansRecorded'
  BY DEF WaitGroupCounts, Active, RoutinesServeJobs, ReturnedMeansRecorded,
         Jobs, Recorded
<1>3. ResponsesHaveOrigin' /\ CursorComplete' /\ AnsweredMeansRecorded'
  BY DEF ResponsesHaveOrigin, CursorComplete, AnsweredMeansRecorded, Over,
         Jobs, Recorded
<1>4. DownIsQuiet' /\ SentIsLost'
  BY DEF DownIsQuiet, SentIsLost, InFlight, TypeOK
<1>5. AtMostOneResponse'
  BY DEF AtMostOneResponse
<1> QED
  BY <1>1, <1>2, <1>3, <1>4, <1>5

\* Fetching: the goroutines of a run come after its cursor, and a cursor that
\* ended well has returned everything its Find owed.
LEMMA FetchInvariant ==
  ASSUME IInv, NEW r \in Run,
         \/ Trigger(r) \/ FindJobs(r) \/ CursorDone(r)
         \/ \E a \in Api : CursorNext(r, a)
  PROVE  IInv'
<1> USE DEF IInv, Trigger, FindJobs, CursorDone, CursorNext, store, fetch,
            jobs, Alive
<1>0. UNCHANGED <<store, proc, wg, routine, got>>
  OBVIOUS
<1>1. TypeOK'
  <2>1. CASE Trigger(r)
    BY <2>1 DEF TypeOK
  <2>2. CASE FindJobs(r)
    BY <2>2 DEF TypeOK
  <2>3. CASE \E a \in Api : CursorNext(r, a)
    BY <2>3 DEF TypeOK
  <2>4. CASE CursorDone(r)
    BY <2>4 DEF TypeOK
  <2> QED
    BY <2>1, <2>2, <2>3, <2>4
<1>2. WaitGroupCounts' /\ ReturnedMeansRecorded'
  BY <1>0 DEF WaitGroupCounts, Active, ReturnedMeansRecorded, Recorded
<1>3. RoutinesServeJobs'
  BY DEF RoutinesServeJobs, Jobs, TypeOK
<1>4. ResponsesHaveOrigin'
  BY DEF ResponsesHaveOrigin, Over, TypeOK
<1>5. CursorComplete'
  BY DEF CursorComplete, Over, TypeOK
<1>6. AnsweredMeansRecorded'
  <2>1. \A s \in Run : Over(s)' => Over(s) /\ Jobs(s)' = Jobs(s)
    BY DEF Over, Jobs, TypeOK
  <2>2. \A s \in Run, b \in Api : Recorded(s, b)' = Recorded(s, b)
    BY <1>0 DEF Recorded, store
  <2>3. \A s \in Run : Jobs(s) \subseteq Api
    BY DEF Jobs, TypeOK
  <2> QED
    BY <2>1, <2>2, <2>3 DEF AnsweredMeansRecorded
<1>7. DownIsQuiet' /\ SentIsLost'
  BY DEF DownIsQuiet, SentIsLost, InFlight, TypeOK
<1>8. AtMostOneResponse'
  BY DEF AtMostOneResponse
<1> QED
  BY <1>1, <1>2, <1>3, <1>4, <1>5, <1>6, <1>7, <1>8

\* wg.Add(1) and the new goroutine belong to one step.
LEMMA SpawnInvariant ==
  ASSUME IInv, NEW r \in Run, NEW a \in Api, Spawn(r, a)
  PROVE  IInv'
<1> USE DEF IInv, Spawn, store, fetch, Alive
<1>1. TypeOK'
  BY DEF TypeOK
<1>2. WaitGroupCounts'
  <2> SUFFICES ASSUME NEW s \in Run PROVE wg'[s] = Cardinality(Active(s)')
    BY DEF WaitGroupCounts
  <2>1. CASE s = r
    <3>1. Active(r)' = Active(r) \union {a} /\ a \notin Active(r)
      BY DEF Active, TypeOK
    <3>2. wg'[r] = wg[r] + 1
      BY DEF TypeOK
    <3>3. IsFiniteSet(Active(r)) /\ wg[r] = Cardinality(Active(r))
      BY ActiveFinite DEF WaitGroupCounts
    <3>4. Cardinality(Active(r) \union {a}) = Cardinality(Active(r)) + 1
      BY <3>1, <3>3, FS_AddElement
    <3> QED
      BY <2>1, <3>1, <3>2, <3>3, <3>4
  <2>2. CASE s # r
    <3>1. Active(s)' = Active(s) /\ wg'[s] = wg[s]
      BY <2>2 DEF Active, TypeOK
    <3> QED
      BY <3>1 DEF WaitGroupCounts
  <2> QED
    BY <2>1, <2>2
<1>3. RoutinesServeJobs' /\ ReturnedMeansRecorded'
  BY DEF RoutinesServeJobs, ReturnedMeansRecorded, Jobs, Recorded, TypeOK
<1>4. ResponsesHaveOrigin'
  BY DEF ResponsesHaveOrigin, Over, TypeOK
<1>5. CursorComplete' /\ AnsweredMeansRecorded'
  BY DEF CursorComplete, AnsweredMeansRecorded, Over, Jobs, Recorded
<1>6. DownIsQuiet' /\ SentIsLost'
  BY DEF DownIsQuiet, SentIsLost, InFlight, TypeOK
<1>7. AtMostOneResponse'
  BY DEF AtMostOneResponse
<1> QED
  BY <1>1, <1>2, <1>3, <1>4, <1>5, <1>6, <1>7

\* A goroutine whose Get has returned is still counted.
LEMMA ProbeInvariant ==
  ASSUME IInv, NEW r \in Run, NEW a \in Api, Probe(r, a)
  PROVE  IInv'
<1> USE DEF IInv, Probe, store, fetch, Alive
<1>1. TypeOK'
  BY DEF TypeOK
<1>2. WaitGroupCounts'
  <2>1. \A s \in Run : Active(s)' = Active(s)
    BY DEF Active, TypeOK
  <2> QED
    BY <2>1 DEF WaitGroupCounts
<1>3. RoutinesServeJobs' /\ ReturnedMeansRecorded'
  BY DEF RoutinesServeJobs, ReturnedMeansRecorded, Jobs, Recorded, TypeOK
<1>4. ResponsesHaveOrigin'
  BY DEF ResponsesHaveOrigin, Over, TypeOK
<1>5. CursorComplete' /\ AnsweredMeansRecorded'
  BY DEF CursorComplete, AnsweredMeansRecorded, Over, Jobs, Recorded
<1>6. DownIsQuiet' /\ SentIsLost'
  BY DEF DownIsQuiet, SentIsLost, InFlight, TypeOK
<1>7. AtMostOneResponse'
  BY DEF AtMostOneResponse
<1> QED
  BY <1>1, <1>2, <1>3, <1>4, <1>5, <1>6, <1>7

\* A goroutine returns, and leaves the wait group, only with its response
\* stored.
LEMMA SaveInvariant ==
  ASSUME IInv, NEW r \in Run, NEW a \in Api, Save(r, a)
  PROVE  IInv'
<1> USE DEF IInv, Save, fetch, Alive
<1> DEFINE new == Response(r, a, got[r][a])
<1>1. a \in Active(r) /\ Active(r)' = Active(r) \ {a}
  BY DEF Active, TypeOK
<1>2. Cardinality(Active(r)') = wg[r] - 1 /\ wg[r] - 1 \in Nat
  <2>1. Cardinality(Active(r) \ {a}) = Cardinality(Active(r)) - 1
    BY <1>1, ActiveFinite, FS_RemoveElement
  <2>2. IsFiniteSet(Active(r) \ {a})
    BY ActiveFinite, FS_RemoveElement
  <2> QED
    BY <1>1, <2>1, <2>2, FS_CardinalityType DEF WaitGroupCounts
<1>3. TypeOK'
  BY <1>2, StoreOnce DEF TypeOK, Stored
<1>4. WaitGroupCounts'
  <2> SUFFICES ASSUME NEW s \in Run PROVE wg'[s] = Cardinality(Active(s)')
    BY DEF WaitGroupCounts
  <2>1. CASE s = r
    BY <1>2, <2>1 DEF TypeOK
  <2>2. CASE s # r
    <3>1. Active(s)' = Active(s) /\ wg'[s] = wg[s]
      BY <2>2 DEF Active, TypeOK
    <3> QED
      BY <3>1 DEF WaitGroupCounts
  <2> QED
    BY <2>1, <2>2
<1>5. \A s \in Run, b \in Api : Recorded(s, b) => Recorded(s, b)'
  BY DEF Recorded
<1>6. Recorded(r, a)'
  <2>1. new \in responses' /\ new.run = r /\ new.api = a
    BY DEF Response
  <2> QED
    BY <2>1 DEF Recorded
<1>7. RoutinesServeJobs'
  BY DEF RoutinesServeJobs, Jobs, TypeOK
<1>8. ReturnedMeansRecorded'
  BY <1>5, <1>6 DEF ReturnedMeansRecorded, TypeOK
<1>9. ResponsesHaveOrigin'
  <2>1. routine'[new.run][new.api] = "done"
    BY DEF Response, TypeOK
  <2>2. \A s \in Run, b \in Api :
          routine[s][b] = "done" => routine'[s][b] = "done"
    BY DEF TypeOK
  <2> QED
    BY <2>1, <2>2 DEF ResponsesHaveOrigin, Over, TypeOK
<1>10. CursorComplete'
  BY DEF CursorComplete, Over
<1>11. AnsweredMeansRecorded'
  BY <1>5 DEF AnsweredMeansRecorded, Over, Jobs, TypeOK
<1>12. DownIsQuiet'
  BY DEF DownIsQuiet, InFlight
<1>13. SentIsLost'
  BY StoreOnce DEF SentIsLost
<1> QED
  BY <1>3, <1>4, <1>7, <1>8, <1>9, <1>10, <1>11, <1>12, <1>13, StoreOnce

\* A run is over only when the wait group has seen every goroutine return,
\* hence every job recorded.
LEMMA AnswerInvariant ==
  ASSUME IInv, NEW r \in Run, Answer(r)
  PROVE  IInv'
<1> USE DEF IInv, Answer, store, fetch, Alive
<1>1. \A a \in Jobs(r) : Recorded(r, a)
  <2>1. \A a \in Jobs(r) : routine[r][a] = "done"
    BY NoneActive DEF WaitOver, AllSpawned, TypeOK, Jobs
  <2> QED
    BY <2>1 DEF ReturnedMeansRecorded, Jobs, TypeOK
<1>2. TypeOK'
  <2>1. routine' \in [Run -> [Api -> {"none", "calling", "saving", "done"}]]
    BY DEF TypeOK
  <2> QED
    BY <2>1 DEF TypeOK
<1>3. \A a \in Api : routine'[r][a] = "none"
  <2>1. \A a \in Api : routine[r][a] \in {"none", "done"}
    BY NoneActive DEF WaitOver, TypeOK
  <2> QED
    BY <2>1 DEF TypeOK
<1>4. \A s \in Run \ {r} : routine'[s] = routine[s]
  BY DEF TypeOK
<1>5. WaitGroupCounts'
  <2>1. \A s \in Run : Active(s)' = Active(s)
    BY <1>3, <1>4, NoneActive DEF Active, WaitOver
  <2> QED
    BY <2>1 DEF WaitGroupCounts
<1>6. RoutinesServeJobs' /\ ReturnedMeansRecorded'
  BY <1>3, <1>4 DEF RoutinesServeJobs, ReturnedMeansRecorded, Jobs,
                      Recorded, TypeOK
<1>7. ResponsesHaveOrigin'
  BY DEF ResponsesHaveOrigin, Over, TypeOK
<1>8. CursorComplete'
  BY DEF CursorComplete, Over, TypeOK
<1>9. AnsweredMeansRecorded'
  BY <1>1 DEF AnsweredMeansRecorded, Over, Jobs, Recorded, TypeOK
<1>10. DownIsQuiet' /\ SentIsLost'
  BY DEF DownIsQuiet, SentIsLost, InFlight, TypeOK
<1>11. AtMostOneResponse'
  BY DEF AtMostOneResponse
<1> QED
  BY <1>2, <1>5, <1>6, <1>7, <1>8, <1>9, <1>10, <1>11

\* A step of any other part of the worker, stuttering included.
LEMMA StepInvariant == IInv /\ [Next]_vars => IInv'
<1> SUFFICES ASSUME IInv, [Next]_vars PROVE IInv'
  OBVIOUS
<1>1. CASE Start \/ Signal \/ ShutdownDone \/ ShutdownTimeout
  BY <1>1, ProcessInvariant
<1>2. CASE Exit \/ Kill
  BY <1>2, DieInvariant DEF Exit, Kill
<1>3. CASE \E a \in Api : CreateApi(a)
  BY <1>3, CreateApiInvariant
<1>4. ASSUME NEW r \in Run,
             \/ Trigger(r) \/ FindJobs(r) \/ CursorDone(r)
             \/ \E a \in Api : CursorNext(r, a)
      PROVE  IInv'
  BY <1>4, FetchInvariant
<1>5. ASSUME NEW r \in Run, FindFails(r)
      PROVE  IInv'
  BY <1>5, DieInvariant DEF FindFails
<1>6. ASSUME NEW r \in Run, NEW a \in Api, Spawn(r, a)
      PROVE  IInv'
  BY <1>6, SpawnInvariant
<1>7. ASSUME NEW r \in Run, NEW a \in Api, Probe(r, a)
      PROVE  IInv'
  BY <1>7, ProbeInvariant
<1>8. ASSUME NEW r \in Run, NEW a \in Api, Save(r, a)
      PROVE  IInv'
  BY <1>8, SaveInvariant
<1>9. ASSUME NEW r \in Run, NEW a \in Api, SaveFails(r, a)
      PROVE  IInv'
  BY <1>9, DieInvariant DEF SaveFails
<1>10. ASSUME NEW r \in Run, Answer(r)
       PROVE  IInv'
  BY <1>10, AnswerInvariant
<1>11. CASE Land
  BY <1>11, LandInvariant
<1>12. CASE UNCHANGED vars
  <2> USE <1>12 DEF vars, IInv
  <2>1. TypeOK'
    BY DEF TypeOK
  <2>2. WaitGroupCounts' /\ RoutinesServeJobs' /\ ReturnedMeansRecorded'
    BY DEF WaitGroupCounts, Active, RoutinesServeJobs,
           ReturnedMeansRecorded, Jobs, Recorded
  <2>3. ResponsesHaveOrigin' /\ CursorComplete' /\ AnsweredMeansRecorded'
    BY DEF ResponsesHaveOrigin, CursorComplete, AnsweredMeansRecorded, Over,
           Jobs, Recorded
  <2>4. DownIsQuiet' /\ SentIsLost' /\ AtMostOneResponse'
    BY DEF DownIsQuiet, SentIsLost, InFlight, AtMostOneResponse
  <2> QED
    BY <2>1, <2>2, <2>3, <2>4
<1> QED
  BY <1>1, <1>2, <1>3, <1>4, <1>5, <1>6, <1>7, <1>8, <1>9, <1>10, <1>11, <1>12
  DEF Next, Handler, Main

\* IInv holds in every reachable state, whatever the number of APIs, of
\* overlapping runs, of failures and of restarts.
THEOREM Invariance == Spec => []IInv
<1> QED
  BY InitInvariant, StepInvariant, PTL DEF Spec

\* Type correctness.
THEOREM TypeCorrect == Spec => []TypeOK
<1>1. IInv => TypeOK
  BY DEF IInv
<1> QED
  BY <1>1, Invariance, PTL

\* Every job FetchJobs returned has its response once the run is over.
THEOREM AnsweredIsRecorded == Spec => []AnsweredMeansRecorded
<1>1. IInv => AnsweredMeansRecorded
  BY DEF IInv
<1> QED
  BY <1>1, Invariance, PTL

\* No run stores two responses for one API.
THEOREM ResponsesAreUnique == Spec => []AtMostOneResponse
<1>1. IInv => AtMostOneResponse
  BY DEF IInv
<1> QED
  BY <1>1, Invariance, PTL

\* A run that is over and whose cursor reached the end has a response for
\* every decodable API its Find saw, by CursorComplete and
\* AnsweredMeansRecorded.
THEOREM SweepIsComplete == Spec => []SweepComplete
<1>1. IInv => SweepComplete
  BY DEF IInv, SweepComplete, CursorComplete, AnsweredMeansRecorded, Jobs
<1> QED
  BY <1>1, Invariance, PTL

\* Who stores a response: a goroutine of a run under way, or the database on
\* behalf of one that died with its process.
LEMMA WhoStores ==
  ASSUME IInv, [Next]_vars, NEW x \in responses' \ responses
  PROVE  pc[x.run] \in {"processing", "lost"}
<1>1. CASE Land
  BY <1>1 DEF Land, IInv, SentIsLost
<1>2. ASSUME NEW r \in Run, NEW a \in Api, Save(r, a)
      PROVE  pc[x.run] = "processing"
  <2>1. x.run = r
    BY <1>2 DEF Save, Response
  <2>2. pc[r] = "processing"
    BY <1>2 DEF Save, IInv, RoutinesServeJobs
  <2> QED
    BY <2>1, <2>2
<1>3. \/ responses' = responses
      \/ Land
      \/ \E r \in Run, a \in Api : Save(r, a)
  BY DEF vars, Next, Handler, Main, Start, Signal, Kill, Exit, Die,
     ShutdownDone, ShutdownTimeout, Trigger, FindJobs, FindFails, SaveFails,
     CursorNext, CursorDone, Spawn, Probe, Answer, CreateApi, store
<1> QED
  BY <1>1, <1>2, <1>3

\* Nothing is stored in the name of a run after its caller was answered or
\* cut off.
THEOREM OverRunsAreQuiet == Spec => OverRunIsQuiet
<1>1. ASSUME IInv, [Next]_vars
      PROVE  [\A x \in responses' \ responses : ~ Over(x.run)]_vars
  BY <1>1, WhoStores DEF Over
<1> QED
  BY <1>1, Invariance, PTL DEF Spec, OverRunIsQuiet
-----------------------------------------------------------------------------
(* The worker implements the ledger of probes.                             *)

\* The two modules mean the same by a response.
LEMMA SameEntry ==
  ASSUME NEW r \in Run, NEW a \in Api, NEW c \in Code \union {NoAnswer}
  PROVE  Response(r, a, c) = Ledger!Entry(r, a, c)
<1>1. c \in Code \union {0}
  BY DEF NoAnswer
<1>2. c \in Nat
  <2>1. \A x \in Code : x \in 100 .. 599
    BY CodeAssumption
  <2>2. CASE c = 0
    BY <2>2
  <2>3. CASE c \in Code
    <3>1. c \in 100 .. 599
      BY <2>1, <2>3
    <3> QED
      BY <3>1
  <2> QED
    BY <1>1, <2>2, <2>3
<1>3. Success(c) <=> c \in 1 .. 499
  <2>1. Success(c) <=> c # 0 /\ c < 500
    BY DEF Success, NoAnswer
  <2>2. c # 0 /\ c < 500 <=> 1 <= c /\ c <= 499
    BY <1>2
  <2> QED
    BY <1>2, <2>1, <2>2
<1>4. Success(c) \in BOOLEAN
  BY DEF Success
<1>5. Success(c) = (c \in 1 .. 499)
  BY <1>3, <1>4
<1> QED
  BY <1>5 DEF Response, Ledger!Entry

\* A goroutine about to store its response is one the ledger waits for.
LEMMA SavingMayRecord ==
  ASSUME IInv, NEW r \in Run, NEW a \in Api, routine[r][a] = "saving"
  PROVE  Ledger!MayRecord(r, a)
<1>1. pc[r] = "processing" /\ a \in Jobs(r)
  BY DEF IInv, RoutinesServeJobs
<1>2. ~ Ledger!Recorded(r, a)
  BY <1>1 DEF IInv, ResponsesHaveOrigin, Ledger!Recorded, Over
<1>3. LedgerStatus(r) = "probing" /\ LedgerPlan(r) = Jobs(r)
  BY <1>1 DEF LedgerStatus, LedgerPlan, Over
<1> QED
  BY <1>1, <1>2, <1>3 DEF Ledger!MayRecord

\* A process that dies is the crash of the ledger, and the inserts it leaves
\* behind are ones the ledger still waited for.
LEMMA DieIsCrash ==
  ASSUME IInv, Die
  PROVE  Ledger!Crash
<1>0. IInv'
  BY DieInvariant
<1>1. \A r \in Run :
        LedgerStatus(r)' = IF Ledger!Unsettled(r) THEN "lost"
                           ELSE LedgerStatus(r)
  BY DEF Die, LedgerStatus, Ledger!Unsettled, InFlight, Over, IInv, TypeOK
<1>2. ASSUME NEW r \in Run
      PROVE  /\ LedgerPlan(r)' \in SUBSET Api
             /\ IF Ledger!Unsettled(r)
                  THEN LedgerPlan(r)' \subseteq LedgerPlan(r)
                  ELSE LedgerPlan(r)' = LedgerPlan(r)
  <2>1. \A x \in sent' : x.api \in Api /\ x.run \in Run
    BY <1>0 DEF IInv, TypeOK
  <2>2. CASE InFlight(r)
    <3>1. LedgerPlan(r)' = {x.api : x \in {y \in sent' : y.run = r}}
      BY <2>2 DEF LedgerPlan, Die, InFlight, Over
    <3>2. ASSUME NEW x \in sent', x.run = r
          PROVE  x.api \in Jobs(r) /\ pc[r] = "processing"
      <4>1. x \notin sent
        BY <2>2, <3>2 DEF IInv, SentIsLost, InFlight
      <4> QED
        BY <3>2, <4>1, LeftBehind
    <3>3. LedgerPlan(r)' \subseteq LedgerPlan(r)
      <4>1. CASE \E x \in sent' : x.run = r
        <5>1. LedgerPlan(r) = Jobs(r)
          BY <3>2, <4>1 DEF LedgerPlan
        <5> QED
          BY <3>1, <3>2, <5>1
      <4>2. CASE ~ \E x \in sent' : x.run = r
        BY <3>1, <4>2
      <4> QED
        BY <4>1, <4>2
    <3>4. Ledger!Unsettled(r)
      BY <2>2 DEF InFlight, LedgerStatus, Ledger!Unsettled, Over
    <3> QED
      BY <2>1, <3>1, <3>3, <3>4
  <2>3. CASE ~ InFlight(r)
    <3>1. pc'[r] = pc[r] /\ read'[r] = read[r]
      BY <2>3 DEF Die
    <3>2. {y \in sent' : y.run = r} = {y \in sent : y.run = r}
      <4>1. \A y \in sent' \ sent : y.run # r
        BY <2>3, LeftBehind DEF InFlight
      <4>2. sent \subseteq sent'
        BY DEF Die
      <4> QED
        BY <4>1, <4>2
    <3>3. LedgerPlan(r)' = LedgerPlan(r)
      BY <3>1, <3>2 DEF LedgerPlan, Over, Jobs
    <3>4. ~ Ledger!Unsettled(r)
      BY <2>3 DEF InFlight, LedgerStatus, Over, Ledger!Unsettled, IInv, TypeOK
    <3>5. LedgerPlan(r) \in SUBSET Api
      BY DEF LedgerPlan, Jobs, IInv, TypeOK
    <3> QED
      BY <3>3, <3>4, <3>5
  <2> QED
    BY <2>2, <2>3
<1>3. UNCHANGED responses
  BY DEF Die
<1> QED
  BY <1>1, <1>2, <1>3 DEF Ledger!Crash

\* An insert left behind that is applied is one the ledger still waited for.
LEMMA LandRecords ==
  ASSUME IInv, Land
  PROVE  \E r \in Run, a \in Api, c \in Code \union {Ledger!NoAnswer} :
           Ledger!Record(r, a, c)
<1> USE DEF Land, fetch
<1>1. PICK x \in sent \ responses : responses' = responses \union {x}
  OBVIOUS
<1> DEFINE r == x.run
           a == x.api
           c == x.statuscode
<1>2. x \in [run : Run, api : Api, success : BOOLEAN,
              statuscode : Code \union {NoAnswer}]
  BY <1>1 DEF IInv, TypeOK
<1>3. r \in Run /\ a \in Api /\ c \in Code \union {NoAnswer}
  BY <1>2
<1>4. x = Response(r, a, c)
  <2>1. x.success = Success(c)
    BY <1>1 DEF IInv, SentIsLost
  <2> QED
    BY <1>2, <2>1 DEF Response
<1>5. x = Ledger!Entry(r, a, c)
  BY <1>3, <1>4, SameEntry
<1>6. Ledger!MayRecord(r, a)
  <2>1. pc[r] = "lost"
    BY <1>1 DEF IInv, SentIsLost
  <2>2. LedgerStatus(r) = "lost" /\ a \in LedgerPlan(r)
    BY <1>1, <2>1 DEF LedgerStatus, LedgerPlan, Over
  <2>3. ~ Ledger!Recorded(r, a)
    BY <1>1 DEF IInv, SentIsLost, Ledger!Recorded
  <2> QED
    BY <1>3, <2>2, <2>3 DEF Ledger!MayRecord
<1>7. \A q \in Run : LedgerStatus(q)' = LedgerStatus(q)
  BY DEF LedgerStatus, Over
<1>8. \A q \in Run : LedgerPlan(q)' = LedgerPlan(q)
  BY DEF LedgerPlan, Over, Jobs
<1>9. Ledger!Record(r, a, c)
  BY <1>1, <1>5, <1>6, <1>7, <1>8 DEF Ledger!Record
<1> QED
  BY <1>3, <1>9 DEF NoAnswer, Ledger!NoAnswer

\* Steps of the process or the backend that the ledger does not see.
LEMMA UnseenByLedger ==
  ASSUME UNCHANGED <<responses, sent, pc, read>>
  PROVE  UNCHANGED Ledger!vars
<1>1. \A r \in Run : LedgerStatus(r)' = LedgerStatus(r)
  BY DEF LedgerStatus, Over
<1>2. \A r \in Run : LedgerPlan(r)' = LedgerPlan(r)
  BY DEF LedgerPlan, Over, Jobs
<1> QED
  BY <1>1, <1>2 DEF Ledger!vars

\* Accepting a call opens its run.
LEMMA TriggerOpens ==
  ASSUME IInv, NEW r \in Run, Trigger(r)
  PROVE  Ledger!Open(r)
<1> USE DEF Trigger, store, fetch, jobs
<1>1. LedgerStatus(r) = "idle"
  BY DEF LedgerStatus, Over
<1>2. \A s \in Run :
        LedgerStatus(s)' = IF s = r THEN "open" ELSE LedgerStatus(s)
  BY DEF LedgerStatus, Over, IInv, TypeOK
<1>3. \A s \in Run : LedgerPlan(s)' = LedgerPlan(s)
  BY DEF LedgerPlan, Over, Jobs, IInv, TypeOK
<1> QED
  BY <1>1, <1>2, <1>3 DEF Ledger!Open

\* While a run is fetching, the ledger sees it open and sees nothing else.
LEMMA FetchingIsUnseen ==
  ASSUME IInv, NEW r \in Run,
         FindJobs(r) \/ \E a \in Api : CursorNext(r, a)
  PROVE  UNCHANGED Ledger!vars
<1>1. \A s \in Run : LedgerStatus(s)' = LedgerStatus(s)
  BY DEF FindJobs, CursorNext, LedgerStatus, Over, IInv, TypeOK
<1>2. \A s \in Run : LedgerPlan(s)' = LedgerPlan(s)
  BY DEF FindJobs, CursorNext, LedgerPlan, Over, Jobs, store, IInv, TypeOK
<1>3. UNCHANGED responses
  BY DEF FindJobs, CursorNext, store
<1> QED
  BY <1>1, <1>2, <1>3 DEF Ledger!vars

\* The end of the cursor settles what the run undertakes.
LEMMA CursorDonePlans ==
  ASSUME IInv, NEW r \in Run, CursorDone(r)
  PROVE  \E S \in SUBSET Api : Ledger!Plan(r, S)
<1> USE DEF CursorDone, store
<1>1. LedgerStatus(r) = "open"
  BY DEF LedgerStatus, Over
<1>2. \A s \in Run :
        LedgerStatus(s)' = IF s = r THEN "probing" ELSE LedgerStatus(s)
  BY DEF LedgerStatus, Over, IInv, TypeOK
<1>3. \A s \in Run :
        LedgerPlan(s)' = IF s = r THEN Jobs(r) ELSE LedgerPlan(s)
  BY DEF LedgerPlan, Over, Jobs, IInv, TypeOK
<1>4. Jobs(r) \in SUBSET Api
  BY DEF Jobs, IInv, TypeOK
<1>5. Ledger!Plan(r, Jobs(r))
  BY <1>1, <1>2, <1>3 DEF Ledger!Plan
<1> QED
  BY <1>4, <1>5

\* A stored response is an entry of the ledger.
LEMMA SaveRecords ==
  ASSUME IInv, NEW r \in Run, NEW a \in Api, Save(r, a)
  PROVE  \E c \in Code \union {Ledger!NoAnswer} : Ledger!Record(r, a, c)
<1>1. got[r][a] \in Code \union {Ledger!NoAnswer}
  BY DEF IInv, TypeOK, NoAnswer, Ledger!NoAnswer
<1>2. Ledger!MayRecord(r, a)
  BY SavingMayRecord DEF Save
<1>3. responses' = responses \union {Ledger!Entry(r, a, got[r][a])}
  BY <1>1, SameEntry DEF Save, NoAnswer, Ledger!NoAnswer
<1>4. \A s \in Run : LedgerStatus(s)' = LedgerStatus(s)
  BY DEF Save, LedgerStatus, Over
<1>5. \A s \in Run : LedgerPlan(s)' = LedgerPlan(s)
  BY DEF Save, LedgerPlan, Over, Jobs, fetch
<1> QED
  BY <1>1, <1>2, <1>3, <1>4, <1>5 DEF Ledger!Record

\* The answer closes a run the ledger allows to be closed.
LEMMA AnswerCloses ==
  ASSUME IInv, NEW r \in Run, Answer(r)
  PROVE  Ledger!Close(r)
<1> USE DEF Answer, store, fetch
<1>1. LedgerStatus(r) = "probing" /\ LedgerPlan(r) = Jobs(r)
  BY DEF LedgerStatus, LedgerPlan, Over
<1>2. \A a \in Jobs(r) : Ledger!Recorded(r, a)
  <2>1. IInv' /\ Over(r)' /\ UNCHANGED <<responses, read>>
    BY AnswerInvariant DEF Over, IInv, TypeOK
  <2>2. \A a \in Jobs(r)' : Recorded(r, a)'
    BY <2>1 DEF IInv, AnsweredMeansRecorded
  <2> QED
    BY <2>1, <2>2 DEF Jobs, Recorded, Ledger!Recorded
<1>3. \A s \in Run :
        LedgerStatus(s)' = IF s = r THEN "closed" ELSE LedgerStatus(s)
  BY DEF LedgerStatus, Over, IInv, TypeOK
<1>4. \A s \in Run : LedgerPlan(s)' = LedgerPlan(s)
  BY DEF LedgerPlan, Over, Jobs, IInv, TypeOK
<1> QED
  BY <1>1, <1>2, <1>3, <1>4 DEF Ledger!Close

LEMMA InitRefines == Init => Ledger!Init
<1> SUFFICES ASSUME Init PROVE Ledger!Init
  OBVIOUS
<1>1. \A r \in Run : LedgerStatus(r) = "idle" /\ LedgerPlan(r) = {}
  BY DEF Init, LedgerStatus, LedgerPlan, Over
<1> QED
  BY <1>1 DEF Ledger!Init, Init

LEMMA StepRefines == IInv /\ [Next]_vars => [Ledger!Next]_(Ledger!vars)
<1> SUFFICES ASSUME IInv, [Next]_vars
             PROVE  Ledger!Next \/ UNCHANGED Ledger!vars
  OBVIOUS
<1>1. CASE \/ Start \/ Signal \/ ShutdownDone \/ ShutdownTimeout
           \/ \E a \in Api : CreateApi(a)
           \/ UNCHANGED vars
  BY <1>1, UnseenByLedger DEF Start, Signal, ShutdownDone, ShutdownTimeout,
                              CreateApi, vars, store, fetch
<1>2. CASE Exit \/ Kill
  BY <1>2, DieIsCrash DEF Exit, Kill, Ledger!Next
<1>3. ASSUME NEW r \in Run, Trigger(r)
      PROVE  Ledger!Next
  BY <1>3, TriggerOpens DEF Ledger!Next
<1>4. ASSUME NEW r \in Run, FindJobs(r) \/ \E a \in Api : CursorNext(r, a)
      PROVE  UNCHANGED Ledger!vars
  BY <1>4, FetchingIsUnseen
<1>5. ASSUME NEW r \in Run, FindFails(r)
      PROVE  Ledger!Next
  BY <1>5, DieIsCrash DEF FindFails, Ledger!Next
<1>6. ASSUME NEW r \in Run, CursorDone(r)
      PROVE  Ledger!Next
  BY <1>6, CursorDonePlans DEF Ledger!Next
<1>7. ASSUME NEW r \in Run, NEW a \in Api, Spawn(r, a) \/ Probe(r, a)
      PROVE  UNCHANGED Ledger!vars
  BY <1>7, UnseenByLedger DEF Spawn, Probe, store, fetch
<1>8. ASSUME NEW r \in Run, NEW a \in Api, Save(r, a)
      PROVE  Ledger!Next
  BY <1>8, SaveRecords DEF Ledger!Next
<1>9. ASSUME NEW r \in Run, NEW a \in Api, SaveFails(r, a)
      PROVE  Ledger!Next
  BY <1>9, DieIsCrash DEF SaveFails, Ledger!Next
<1>10. ASSUME NEW r \in Run, Answer(r)
       PROVE  Ledger!Next
  BY <1>10, AnswerCloses DEF Ledger!Next
<1>11. CASE Land
  BY <1>11, LandRecords DEF Ledger!Next
<1> QED
  BY <1>1, <1>2, <1>3, <1>4, <1>5, <1>6, <1>7, <1>8, <1>9, <1>10, <1>11
  DEF Next, Handler, Main

\* Every behaviour of the worker is one the ledger of probes allows.
THEOREM Refinement == Spec => LedgerSpec
<1> QED
  BY InitRefines, StepRefines, Invariance, PTL
  DEF Spec, LedgerSpec, Ledger!Spec
=============================================================================
