---------------------------- MODULE ProbeLedger ----------------------------
(***************************************************************************)
(* What one call of the worker's /run-cron endpoint promises about the     *)
(* apiresponses collection, without goroutines, cursors, wait groups or    *)
(* shutdown: a run plans a set of APIs, records one response for each of   *)
(* them, and is answered only when none is missing.  A process that dies   *)
(* loses every run it had open; the responses already recorded stay, and   *)
(* of those not yet recorded some may still come.                          *)
(***************************************************************************)
EXTENDS Naturals

CONSTANTS Api,    \* identifiers of documents of the apis collection
          Run,    \* calls of /run-cron
          Code    \* HTTP status codes an endpoint can answer with

VARIABLES responses,  \* the apiresponses collection
          status,     \* where each run is
          planned     \* the APIs a run has still to record, or may

vars == <<responses, status, planned>>

NoAnswer == 0

\* A response counts as a success when the endpoint answered below 500.
Entry(r, a, c) ==
  [run |-> r, api |-> a, statuscode |-> c, success |-> c \in 1 .. 499]

Recorded(r, a) == \E x \in responses : x.run = r /\ x.api = a

Unsettled(r) == status[r] \in {"open", "probing"}

Init ==
  /\ responses = {}
  /\ status = [r \in Run |-> "idle"]
  /\ planned = [r \in Run |-> {}]

Open(r) ==
  /\ status[r] = "idle"
  /\ status' = [status EXCEPT ![r] = "open"]
  /\ UNCHANGED <<responses, planned>>

Plan(r, S) ==
  /\ status[r] = "open"
  /\ status' = [status EXCEPT ![r] = "probing"]
  /\ planned' = [planned EXCEPT ![r] = S]
  /\ UNCHANGED responses

MayRecord(r, a) ==
  /\ status[r] \in {"probing", "lost"}
  /\ a \in planned[r]
  /\ ~ Recorded(r, a)

Record(r, a, c) ==
  /\ MayRecord(r, a)
  /\ responses' = responses \union {Entry(r, a, c)}
  /\ UNCHANGED <<status, planned>>

Close(r) ==
  /\ status[r] = "probing"
  /\ \A a \in planned[r] : Recorded(r, a)
  /\ status' = [status EXCEPT ![r] = "closed"]
  /\ UNCHANGED <<responses, planned>>

\* Every unsettled run is lost; of what it had planned, the writes that were
\* under way may still arrive.
Crash ==
  /\ status' = [r \in Run |-> IF Unsettled(r) THEN "lost" ELSE status[r]]
  /\ planned' \in [Run -> SUBSET Api]
  /\ \A r \in Run : IF Unsettled(r) THEN planned'[r] \subseteq planned[r]
                                   ELSE planned'[r] = planned[r]
  /\ UNCHANGED responses

Next ==
  \/ \E r \in Run :
       \/ Open(r)
       \/ \E S \in SUBSET Api : Plan(r, S)
       \/ \E a \in Api, c \in Code \union {NoAnswer} : Record(r, a, c)
       \/ Close(r)
  \/ Crash

Spec == Init /\ [][Next]_vars
=============================================================================
