------------------------- MODULE MetricsCacheProofs -------------------------
(***************************************************************************)
(* Proofs about MetricsCache: IInv is inductive, hence a long-lived entry  *)
(* is final and old ranges are answered exactly, for any number of APIs,   *)
(* ranges, requests and responses.                                         *)
(***************************************************************************)
EXTENDS MetricsCache, TLAPS

\* A key names one of the APIs.
LEMMA KeyApi == \A k \in Key : k[1] \in Api
  BY DEF Key

LEMMA TtlRange ==
  ASSUME phase \in 0 .. 5
  PROVE  DetermineCacheTTL \in Ttl /\ (DetermineCacheTTL > 60 => phase >= 3)
  BY DEF DetermineCacheTTL, Ttl

LEMMA InitInvariant == Init => IInv
<1> SUFFICES ASSUME Init PROVE IInv
  OBVIOUS
<1>1. TypeOK
  BY MaxResponsesAssumption DEF Init, TypeOK, Request
<1>2. ComputedIsFinal /\ CachedIsFinal /\ TtlTellsPhase
  BY DEF Init, ComputedIsFinal, CachedIsFinal, TtlTellsPhase, Cached, Idle
<1> QED
  BY <1>1, <1>2 DEF IInv

\* Steps that give one request a new state and touch nothing else keep the
\* invariant when what they carry is final.
LEMMA RequestStep ==
  ASSUME IInv, NEW q \in Req, NEW r \in Request, Become(q, r),
         UNCHANGED <<phase, stored, cache>>,
         r.at = "store" => r.age = 0 /\ r.n = stored[r.key[1]]
  PROVE  IInv'
<1>1. TypeOK'
  BY DEF IInv, TypeOK, Become
<1>2. \A p \in Req : req'[p] = IF p = q THEN r ELSE req[p]
  BY DEF IInv, TypeOK, Become
<1>3. ComputedIsFinal'
  BY <1>2 DEF IInv, ComputedIsFinal
<1>4. CachedIsFinal' /\ TtlTellsPhase'
  BY DEF IInv, CachedIsFinal, TtlTellsPhase, Cached
<1> QED
  BY <1>1, <1>3, <1>4 DEF IInv

\* The end of a phase ages what is in flight and what is cached by one.
LEMMA TickInvariant ==
  ASSUME IInv, Tick
  PROVE  IInv'
<1> USE DEF Tick
<1>1. \A k \in Key : Cached(k) => /\ cache[k] \in Entry
                                  /\ cache[k].age = 0
                                  /\ cache'[k] = [cache[k] EXCEPT !.age = 1]
  BY DEF IInv, TypeOK, Cached, Entry, Ttl
<1>2. \A k \in Key : ~ Cached(k) => cache'[k] = NoEntry
  BY DEF IInv, TypeOK, Cached
<1>3. TypeOK'
  <2>1. phase' \in 0 .. 5
    BY DEF IInv, TypeOK
  <2>2. cache' \in [Key -> Entry \union {NoEntry}]
    BY <1>1 DEF Entry
  <2>3. req' \in [Req -> Request]
    BY DEF IInv, TypeOK, Request, Idle
  <2> QED
    BY <2>1, <2>2, <2>3 DEF IInv, TypeOK
<1>4. ComputedIsFinal'
  BY DEF IInv, TypeOK, ComputedIsFinal, Request, Idle
<1>5. CachedIsFinal' /\ TtlTellsPhase'
  BY <1>1, <1>2 DEF IInv, TypeOK, CachedIsFinal, TtlTellsPhase, Cached, Entry,
                    NoEntry
<1> QED
  BY <1>3, <1>4, <1>5 DEF IInv

\* A response may still come only before phase 2, when nothing is final yet.
LEMMA StoreResponseInvariant ==
  ASSUME IInv, NEW a \in Api, StoreResponse(a)
  PROVE  IInv'
<1> USE DEF StoreResponse
<1>1. TypeOK'
  BY MaxResponsesAssumption DEF IInv, TypeOK
<1>2. \A q \in Req : req[q].at = "store" => ~ (phase >= 2 + req[q].age)
  BY DEF IInv, TypeOK, Request, Idle
<1>3. \A k \in Key : Cached(k) => ~ (phase >= 3 + cache[k].age)
  BY DEF IInv, TypeOK, Cached, Entry
<1>4. ComputedIsFinal' /\ CachedIsFinal' /\ TtlTellsPhase'
  BY <1>2, <1>3 DEF IInv, ComputedIsFinal, CachedIsFinal, TtlTellsPhase,
                    Cached
<1> QED
  BY <1>1, <1>4 DEF IInv

\* An entry that goes takes nothing from the others.
LEMMA DropInvariant ==
  ASSUME IInv, NEW k \in Key, cache' = [cache EXCEPT ![k] = NoEntry],
         UNCHANGED <<phase, stored>>,
         \/ UNCHANGED req
         \/ \E q \in Req : /\ req[q].at = "delete"
                          /\ req' = [req EXCEPT ![q].keys = @ \ {k}]
  PROVE  IInv'
<1>1. TypeOK'
  <2>1. req' \in [Req -> Request]
    BY DEF IInv, TypeOK, Request, Idle
  <2> QED
    BY <2>1 DEF IInv, TypeOK
<1>2. ComputedIsFinal'
  <2>1. ASSUME NEW q \in Req, req'[q].at = "store"
        PROVE  req'[q] = req[q]
    <3>1. CASE UNCHANGED req
      BY <3>1
    <3>2. ASSUME NEW p \in Req, req[p].at = "delete",
                 req' = [req EXCEPT ![p].keys = @ \ {k}]
          PROVE  req'[q] = req[q]
      <4>1. req'[p].at = "delete"
        BY <3>2 DEF IInv, TypeOK, Request, Idle
      <4>2. q # p
        BY <2>1, <4>1
      <4> QED
        BY <3>2, <4>2 DEF IInv, TypeOK
    <3> QED
      BY <3>1, <3>2
  <2> QED
    BY <2>1 DEF IInv, ComputedIsFinal
<1>3. CachedIsFinal' /\ TtlTellsPhase'
  BY DEF IInv, TypeOK, CachedIsFinal, TtlTellsPhase, Cached
<1> QED
  BY <1>1, <1>2, <1>3 DEF IInv

\* An entry set in phase 3 or later was computed in phase 2 or later.
LEMMA CacheMetricsInvariant ==
  ASSUME IInv, NEW q \in Req, CacheMetrics(q)
  PROVE  IInv'
<1> DEFINE r == req[q]
           answer == [at |-> "answered", key |-> r.key, n |-> r.n]
           entry == [n |-> r.n, ttl |-> DetermineCacheTTL, age |-> 0]
<1>1. r.at = "store" /\ r.key \in Key /\ r.n \in 0 .. MaxResponses
      /\ r.age \in 0 .. 1
  BY DEF CacheMetrics, IInv, TypeOK, Request, Idle
<1>2. answer \in Request
  BY <1>1 DEF Request
<1>3. CASE UNCHANGED cache
  BY <1>2, <1>3, RequestStep DEF CacheMetrics
<1>4. CASE cache' = [cache EXCEPT ![r.key] = entry]
  <2>1. entry \in Entry
    BY <1>1, TtlRange DEF Entry, IInv, TypeOK
  <2>2. TypeOK'
    BY <1>1, <1>2, <1>4, <2>1 DEF CacheMetrics, Become, IInv, TypeOK
  <2>3. ComputedIsFinal'
    BY DEF CacheMetrics, Become, IInv, TypeOK, ComputedIsFinal
  <2>4. \A k \in Key : cache'[k] = IF k = r.key THEN entry ELSE cache[k]
    BY <1>4 DEF IInv, TypeOK
  <2>5. phase >= 3 => r.n = stored[r.key[1]]
    BY <1>1 DEF IInv, TypeOK, ComputedIsFinal
  <2>6. DetermineCacheTTL > 60 => phase >= 3
    BY TtlRange DEF IInv, TypeOK
  <2>7. UNCHANGED <<phase, stored>>
    BY DEF CacheMetrics
  <2>8. CachedIsFinal'
    BY <2>4, <2>5, <2>7 DEF IInv, CachedIsFinal, Cached
  <2>9. TtlTellsPhase'
    BY <2>4, <2>6, <2>7 DEF IInv, TtlTellsPhase, Cached
  <2> QED
    BY <2>2, <2>3, <2>8, <2>9 DEF IInv
<1> QED
  BY <1>3, <1>4 DEF CacheMetrics

\* Every other step of a request carries nothing or what it has just
\* computed.
LEMMA HandlerInvariant ==
  ASSUME IInv, NEW q \in Req,
         \/ GetMetrics(q) \/ GetCachedMetrics(q) \/ ComputeMetrics(q)
         \/ Done(q) \/ InvalidateApiCache(q) \/ ScanKeys(q)
         \/ Invalidated(q)
  PROVE  IInv'
<1>1. CASE GetMetrics(q)
  <2>1. PICK k \in Key : Become(q, [at |-> "lookup", key |-> k])
    BY <1>1 DEF GetMetrics
  <2> QED
    BY <1>1, <2>1, RequestStep DEF GetMetrics, Request
<1>2. CASE GetCachedMetrics(q)
  <2>1. req[q].key \in Key
    BY <1>2 DEF GetCachedMetrics, IInv, TypeOK, Request, Idle
  <2>2. Cached(req[q].key) => cache[req[q].key].n \in 0 .. MaxResponses
    BY <2>1 DEF IInv, TypeOK, Cached, Entry
  <2>3. ASSUME Cached(req[q].key),
               Become(q, [at |-> "answered", key |-> req[q].key,
                          n |-> cache[req[q].key].n])
        PROVE  IInv'
    BY <1>2, <2>1, <2>2, <2>3, RequestStep DEF GetCachedMetrics, Request
  <2>4. ASSUME Become(q, [at |-> "compute", key |-> req[q].key])
        PROVE  IInv'
    BY <1>2, <2>1, <2>4, RequestStep DEF GetCachedMetrics, Request
  <2> QED
    BY <1>2, <2>3, <2>4 DEF GetCachedMetrics
<1>3. CASE ComputeMetrics(q)
  <2> DEFINE k == req[q].key
             computed == [at |-> "store", key |-> k, n |-> stored[k[1]],
                          age |-> 0]
  <2>1. k \in Key
    BY <1>3 DEF ComputeMetrics, IInv, TypeOK, Request, Idle
  <2>2. stored[k[1]] \in 0 .. MaxResponses
    BY <2>1, KeyApi DEF IInv, TypeOK
  <2>3. computed \in Request /\ [at |-> "failed"] \in Request
    BY <2>1, <2>2 DEF Request
  <2> QED
    BY <1>3, <2>3, RequestStep DEF ComputeMetrics
<1>4. CASE Done(q)
  BY <1>4, RequestStep DEF Done, Request, Idle
<1>5. CASE InvalidateApiCache(q)
  <2>1. PICK a \in Api :
          Become(q, [at |-> "scan", api |-> a, had |-> stored[a]])
    BY <1>5 DEF InvalidateApiCache
  <2>2. stored[a] \in 0 .. MaxResponses
    BY DEF IInv, TypeOK
  <2> QED
    BY <1>5, <2>1, <2>2, RequestStep DEF InvalidateApiCache, Request
<1>6. CASE ScanKeys(q)
  <2>1. req[q].api \in Api /\ req[q].had \in 0 .. MaxResponses
    BY <1>6 DEF ScanKeys, IInv, TypeOK, Request, Idle
  <2>2. PICK keys \in SUBSET Key :
          Become(q, [at |-> "delete", api |-> req[q].api,
                     had |-> req[q].had, keys |-> keys])
    BY <1>6, <2>1 DEF ScanKeys, KeysOf, Key
  <2> QED
    BY <1>6, <2>1, <2>2, RequestStep DEF ScanKeys, Request
<1>7. CASE Invalidated(q)
  <2>1. req[q].api \in Api /\ req[q].had \in 0 .. MaxResponses
    BY <1>7 DEF Invalidated, IInv, TypeOK, Request, Idle
  <2> QED
    BY <1>7, <2>1, RequestStep DEF Invalidated, Request
<1> QED
  BY <1>1, <1>2, <1>3, <1>4, <1>5, <1>6, <1>7

LEMMA DelInvariant ==
  ASSUME IInv, NEW q \in Req, Del(q)
  PROVE  IInv'
<1>1. PICK k \in req[q].keys :
        /\ \/ cache' = [cache EXCEPT ![k] = NoEntry]
           \/ RedisMayFail /\ UNCHANGED cache
        /\ req' = [req EXCEPT ![q].keys = @ \ {k}]
  BY DEF Del
<1>2. req[q].at = "delete" /\ k \in Key
  BY <1>1 DEF Del, IInv, TypeOK, Request, Idle
<1>3. CASE cache' = [cache EXCEPT ![k] = NoEntry]
  BY <1>1, <1>2, <1>3, DropInvariant DEF Del
<1>4. CASE UNCHANGED cache
  <2> DEFINE r == [req[q] EXCEPT !.keys = @ \ {k}]
  <2>1. r \in Request /\ r.at = "delete"
    BY <1>2 DEF IInv, TypeOK, Request, Idle
  <2>2. Become(q, r)
    BY <1>1 DEF Become
  <2> QED
    BY <1>4, <2>1, <2>2, RequestStep DEF Del
<1> QED
  BY <1>1, <1>3, <1>4

LEMMA StepInvariant == IInv /\ [Next]_vars => IInv'
<1> SUFFICES ASSUME IInv, [Next]_vars PROVE IInv'
  OBVIOUS
<1>1. CASE Tick
  BY <1>1, TickInvariant
<1>2. ASSUME NEW a \in Api, StoreResponse(a) PROVE IInv'
  BY <1>2, StoreResponseInvariant
<1>3. ASSUME NEW k \in Key, Expire(k) PROVE IInv'
  BY <1>3, DropInvariant DEF Expire
<1>4. ASSUME NEW q \in Req, CacheMetrics(q) PROVE IInv'
  BY <1>4, CacheMetricsInvariant
<1>5. ASSUME NEW q \in Req, Del(q) PROVE IInv'
  BY <1>5, DelInvariant
<1>6. ASSUME NEW q \in Req,
             \/ GetMetrics(q) \/ GetCachedMetrics(q) \/ ComputeMetrics(q)
             \/ Done(q) \/ InvalidateApiCache(q) \/ ScanKeys(q)
             \/ Invalidated(q)
      PROVE  IInv'
  BY <1>6, HandlerInvariant
<1>7. CASE UNCHANGED vars
  BY <1>7 DEF vars, IInv, TypeOK, ComputedIsFinal, CachedIsFinal,
              TtlTellsPhase, Cached
<1> QED
  BY <1>1, <1>2, <1>3, <1>4, <1>5, <1>6, <1>7 DEF Next

\* IInv holds in every reachable state.
THEOREM Invariance == Spec => []IInv
<1> QED
  BY InitInvariant, StepInvariant, PTL DEF Spec

\* Type correctness.
THEOREM TypeCorrect == Spec => []TypeOK
<1>1. IInv => TypeOK
  BY DEF IInv
<1> QED
  BY <1>1, Invariance, PTL

\* An entry kept longer than a minute is final.
THEOREM LongLivedAreFinal == Spec => []LongLivedEntriesAreFinal
<1>1. IInv => LongLivedEntriesAreFinal
  BY DEF IInv, CachedIsFinal, TtlTellsPhase, LongLivedEntriesAreFinal
<1> QED
  BY <1>1, Invariance, PTL

\* A range that has been over for a day is answered with its final metrics,
\* from the cache or not.
THEOREM HistoryExact == Spec => HistoryIsExact
<1>1. ASSUME IInv, [Next]_vars
      PROVE  [\A q \in Req :
                phase >= 4 /\ req[q].at # "answered"
                /\ req'[q].at = "answered"
                  => req'[q].n = stored[req'[q].key[1]]]_vars
  <2> SUFFICES ASSUME NEW q \in Req, phase >= 4, req[q].at # "answered",
                      req'[q].at = "answered"
               PROVE  req'[q].n = stored[req'[q].key[1]]
    OBVIOUS
  <2>1. CASE GetCachedMetrics(q)
    <3> DEFINE k == req[q].key
    <3>1. k \in Key
      BY <1>1, <2>1 DEF GetCachedMetrics, IInv, TypeOK, Request, Idle
    <3>2. req'[q] = [at |-> "answered", key |-> k, n |-> cache[k].n]
          /\ Cached(k)
      BY <1>1, <2>1 DEF GetCachedMetrics, Become, IInv, TypeOK
    <3>3. cache[k].age \in 0 .. 1 /\ phase \in 0 .. 5
      BY <1>1, <3>1, <3>2 DEF IInv, TypeOK, Cached, Entry
    <3>4. cache[k].n = stored[k[1]]
      BY <1>1, <3>1, <3>2, <3>3 DEF IInv, CachedIsFinal
    <3> QED
      BY <3>2, <3>4
  <2>2. CASE CacheMetrics(q)
    <3>1. req'[q] = [at |-> "answered", key |-> req[q].key, n |-> req[q].n]
      BY <1>1, <2>2 DEF CacheMetrics, Become, IInv, TypeOK
    <3>2. req[q].age \in 0 .. 1 /\ phase \in 0 .. 5
      BY <1>1, <2>2 DEF CacheMetrics, IInv, TypeOK, Request, Idle
    <3>3. req[q].n = stored[req[q].key[1]]
      BY <1>1, <2>2, <3>2 DEF CacheMetrics, IInv, ComputedIsFinal
    <3> QED
      BY <3>1, <3>3
  <2>3. CASE UNCHANGED req
    BY <2>3
  <2>4. CASE Tick
    BY <1>1, <2>4 DEF Tick, IInv, TypeOK, Request, Idle
  <2>5. ASSUME NEW p \in Req, NEW r, Become(p, r),
               r.at # "answered"
        PROVE  FALSE
    BY <1>1, <2>5 DEF Become, IInv, TypeOK
  <2>6. ASSUME NEW p \in Req, Del(p) PROVE FALSE
    <3>1. req'[p].at = "delete"
      BY <1>1, <2>6 DEF Del, IInv, TypeOK, Request, Idle
    <3>2. p # q => req'[q] = req[q]
      BY <1>1, <2>6 DEF Del, IInv, TypeOK
    <3> QED
      BY <3>1, <3>2
  <2>7. ASSUME NEW p \in Req,
               \/ GetMetrics(p) \/ ComputeMetrics(p) \/ Done(p)
               \/ InvalidateApiCache(p) \/ ScanKeys(p) \/ Invalidated(p)
        PROVE  FALSE
    BY <2>5, <2>7 DEF GetMetrics, ComputeMetrics, Done, InvalidateApiCache,
                      ScanKeys, Invalidated, Idle
  <2>8. ASSUME NEW p \in Req, p # q, GetCachedMetrics(p) \/ CacheMetrics(p)
        PROVE  FALSE
    BY <1>1, <2>8 DEF GetCachedMetrics, CacheMetrics, Become, IInv, TypeOK
  <2> QED
    BY <1>1, <2>1, <2>2, <2>3, <2>4, <2>6, <2>7, <2>8
       DEF Next, vars, StoreResponse, Expire
<1> QED
  BY <1>1, Invariance, PTL DEF Spec, HistoryIsExact
=============================================================================
