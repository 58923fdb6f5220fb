---------------------------- MODULE MetricsCache ----------------------------
(***************************************************************************)
(* AnalyticsService: metrics of an API over a range of days, computed from *)
(* apiresponses and kept in Redis.  Requests interleave at their awaits,   *)
(* every Redis and database call may fail, the worker goes on storing      *)
(* responses, and time passes.                                             *)
(*                                                                         *)
(* All ranges of an instance end on the same day.  What matters of the     *)
(* time is where it stands to the end of that day:                         *)
(*   0  the day is not over                                                *)
(*   1  over, and a response created on it may still be on its way         *)
(*   2  no response can come any more, less than 1 hour has passed         *)
(*   3  less than 24 hours   4  less than 168 hours   5  later             *)
(* Metrics are abstracted to the number of responses they were computed    *)
(* from: two computations differ exactly when that number does.            *)
(***************************************************************************)
EXTENDS Naturals

CONSTANTS Api,            \* APIs that are asked about
          Start,          \* start dates of ranges
          Req,            \* requests being handled at once
          MaxResponses,   \* bound on the responses of the last day
          RedisMayFail    \* whether Redis calls can fail

ASSUME MaxResponsesAssumption == MaxResponses \in Nat
ASSUME SwitchAssumption == RedisMayFail \in BOOLEAN

VARIABLES phase,   \* where the time stands to the end of the ranges
          stored,  \* responses of each API that the ranges count
          cache,   \* Redis, by key
          req      \* the requests being handled

vars == <<phase, stored, cache, req>>

\* generateCacheKey: metrics:<apiId>:<startDate>:<endDate>.
Key == Api \X Start
KeysOf(a) == {a} \X Start

NoEntry == [ttl |-> 0]
Ttl == {60, 300, 1800, 3600}

\* A cached value, its TTL in seconds, and how many phases ago it was set.
Entry == [n : 0 .. MaxResponses, ttl : Ttl, age : 0 .. 1]

Idle == [at |-> "idle"]

Request ==
  {Idle}
  \union [at : {"lookup", "compute"}, key : Key]
  \union [at : {"store"}, key : Key, n : 0 .. MaxResponses, age : 0 .. 1]
  \union [at : {"answered"}, key : Key, n : 0 .. MaxResponses]
  \union [at : {"failed"}]
  \union [at : {"scan", "invalidated"}, api : Api, had : 0 .. MaxResponses]
  \union [at : {"delete"}, api : Api, had : 0 .. MaxResponses,
          keys : SUBSET Key]

TypeOK ==
  /\ phase \in 0 .. 5
  /\ stored \in [Api -> 0 .. MaxResponses]
  /\ cache \in [Key -> Entry \union {NoEntry}]
  /\ req \in [Req -> Request]

Init ==
  /\ phase = 0
  /\ stored = [a \in Api |-> 0]
  /\ cache = [k \in Key |-> NoEntry]
  /\ req = [q \in Req |-> Idle]

Cached(k) == cache[k] # NoEntry

Become(q, r) == req' = [req EXCEPT ![q] = r]
-----------------------------------------------------------------------------
(* The world around the backend.                                           *)

\* The worker stores a response created on the last day.
StoreResponse(a) ==
  /\ phase <= 1
  /\ stored[a] < MaxResponses
  /\ stored' = [stored EXCEPT ![a] = @ + 1]
  /\ UNCHANGED <<phase, cache, req>>

\* Redis drops an entry when its TTL is over.
Expire(k) ==
  /\ Cached(k)
  /\ cache' = [cache EXCEPT ![k] = NoEntry]
  /\ UNCHANGED <<phase, stored, req>>

\* Time reaches the next phase.  Phases are longer than a call to Redis or to
\* the database and than the TTLs set in them, none of which exceeds an hour:
\* no call in flight and no such entry outlives two ends of a phase.
Tick ==
  /\ phase < 5
  /\ \A k \in Key : Cached(k) /\ cache[k].ttl <= 3600 => cache[k].age = 0
  /\ \A q \in Req : req[q].at = "store" => req[q].age = 0
  /\ phase' = phase + 1
  /\ cache' = [k \in Key |->
                 IF Cached(k) THEN [cache[k] EXCEPT !.age = 1] ELSE NoEntry]
  /\ req' = [q \in Req |-> IF req[q].at = "store"
                             THEN [req[q] EXCEPT !.age = 1] ELSE req[q]]
  /\ UNCHANGED stored
-----------------------------------------------------------------------------
(* POST /api/monitoring/metrics.                                           *)

GetMetrics(q) ==
  /\ req[q] = Idle
  /\ \E k \in Key : Become(q, [at |-> "lookup", key |-> k])
  /\ UNCHANGED <<phase, stored, cache>>

\* A failed GET counts as a miss.
GetCachedMetrics(q) ==
  /\ req[q].at = "lookup"
  /\ LET k == req[q].key IN
       \/ Cached(k)
          /\ Become(q, [at |-> "answered", key |-> k, n |-> cache[k].n])
       \/ (~ Cached(k) \/ RedisMayFail)
          /\ Become(q, [at |-> "compute", key |-> k])
  /\ UNCHANGED <<phase, stored, cache>>

\* The aggregation sees the responses stored so far, or fails the request.
ComputeMetrics(q) ==
  /\ req[q].at = "compute"
  /\ LET k == req[q].key IN
       \/ Become(q, [at |-> "store", key |-> k, n |-> stored[k[1]], age |-> 0])
       \/ Become(q, [at |-> "failed"])
  /\ UNCHANGED <<phase, stored, cache>>

DetermineCacheTTLMillis == CASE phase <= 2 -> 60000
                             [] phase = 3 -> 300000
                             [] phase = 4 -> 1800000
                             [] phase = 5 -> 3600000

DetermineCacheTTLByDay == IF phase = 0 THEN 300
                          ELSE IF phase <= 3 THEN 1800 ELSE 3600

\* determineCacheTTL: hours since the end of the last day, which are negative
\* while it lasts.
DetermineCacheTTL == CASE phase <= 2 -> 60
                       [] phase = 3 -> 300
                       [] phase = 4 -> 1800
                       [] phase = 5 -> 3600

\* cacheMetrics, then the answer: a failed SETEX is only logged.
CacheMetrics(q) ==
  /\ req[q].at = "store"
  /\ LET r == req[q] IN
       /\ \/ cache' = [cache EXCEPT ![r.key] =
                         [n |-> r.n, ttl |-> DetermineCacheTTL, age |-> 0]]
          \/ RedisMayFail /\ UNCHANGED cache
       /\ Become(q, [at |-> "answered", key |-> r.key, n |-> r.n])
  /\ UNCHANGED <<phase, stored>>

\* The answer has reached the client.
Done(q) ==
  /\ req[q].at \in {"answered", "failed", "invalidated"}
  /\ Become(q, Idle)
  /\ UNCHANGED <<phase, stored, cache>>
-----------------------------------------------------------------------------
(* POST /api/monitoring/invalidate-cache/:apiId.                           *)

InvalidateApiCache(q) ==
  /\ req[q] = Idle
  /\ \E a \in Api :
       Become(q, [at |-> "scan", api |-> a, had |-> stored[a]])
  /\ UNCHANGED <<phase, stored, cache>>

\* KEYS metrics:<apiId>:*, with the apiId of the body.  A failed KEYS finds
\* nothing.
ScanKeys(q) ==
  /\ req[q].at = "scan"
  /\ LET r == req[q]
         found == {k \in KeysOf(r.api) : Cached(k)}
     IN \E keys \in {found} \union (IF RedisMayFail THEN {{}} ELSE {}) :
          Become(q, [at |-> "delete", api |-> r.api, had |-> r.had,
                     keys |-> keys])
  /\ UNCHANGED <<phase, stored, cache>>

\* One DEL for each key found; a failed one is only logged.
Del(q) ==
  /\ req[q].at = "delete"
  /\ \E k \in req[q].keys :
       /\ \/ cache' = [cache EXCEPT ![k] = NoEntry]
          \/ RedisMayFail /\ UNCHANGED cache
       /\ req' = [req EXCEPT ![q].keys = @ \ {k}]
  /\ UNCHANGED <<phase, stored>>

\* "Cache invalidated successfully".
Invalidated(q) ==
  /\ req[q].at = "delete"
  /\ req[q].keys = {}
  /\ Become(q, [at |-> "invalidated", api |-> req[q].api, had |-> req[q].had])
  /\ UNCHANGED <<phase, stored, cache>>
-----------------------------------------------------------------------------
Next ==
  \/ Tick
  \/ \E a \in Api : StoreResponse(a)
  \/ \E k \in Key : Expire(k)
  \/ \E q \in Req :
       \/ GetMetrics(q) \/ GetCachedMetrics(q) \/ ComputeMetrics(q)
       \/ CacheMetrics(q) \/ Done(q)
       \/ InvalidateApiCache(q) \/ ScanKeys(q) \/ Del(q) \/ Invalidated(q)

Spec == Init /\ [][Next]_vars
-----------------------------------------------------------------------------
(* The inductive invariant.                                                *)

\* What a request computed after the last response came is final.
ComputedIsFinal ==
  \A q \in Req :
    req[q].at = "store" /\ phase >= 2 + req[q].age
      => req[q].n = stored[req[q].key[1]]

\* So is what was set a phase later, however late its request was.
CachedIsFinal ==
  \A k \in Key :
    Cached(k) /\ phase >= 3 + cache[k].age => cache[k].n = stored[k[1]]

\* The TTL of an entry tells when it was set.
TtlTellsPhase ==
  \A k \in Key : Cached(k) /\ cache[k].ttl > 60 => phase >= 3 + cache[k].age

\* Requests, cache and data agree at every moment of the life of an entry.
IInv == TypeOK /\ ComputedIsFinal /\ CachedIsFinal /\ TtlTellsPhase
-----------------------------------------------------------------------------
(* Correctness.                                                            *)

\* An entry that is kept longer than a minute is final: when it was computed
\* no response of its range was still to come.  determineCacheTTL runs after
\* the aggregation, and by then the last day may have ended.
LongLivedEntriesAreFinal ==
  \A k \in Key : Cached(k) /\ cache[k].ttl > 60 => cache[k].n = stored[k[1]]

\* Once a range has been over for a day, whoever asks is given its final
\* metrics, whatever was cached while it lasted and however slow the requests
\* that cached it were.
HistoryIsExact ==
  [][\A q \in Req :
       phase >= 4 /\ req[q].at # "answered" /\ req'[q].at = "answered"
         => req'[q].n = stored[req'[q].key[1]]]_vars

\* "Cache invalidated successfully" (monitoring.controller.ts:37): from the
\* answer on, what the cache holds for the API counts at least the responses
\* stored when the request came.
InvalidationTakesEffect ==
  \A q \in Req :
    req[q].at = "invalidated" =>
      \A k \in KeysOf(req[q].api) : Cached(k) => cache[k].n >= req[q].had
=============================================================================
