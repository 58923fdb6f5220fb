--------------------------- MODULE ReportsProofs ---------------------------
(***************************************************************************)
(* Proofs about Reports, for any APIs, codes, times and lengths of day and *)
(* year.                                                                   *)
(***************************************************************************)
EXTENDS Reports, StatusBoardProofs, SumLemmas

(* The responses of a range.                                               *)

LEMMA GrowthType == Growth => []TypeOK
<1>1. TypeOK /\ [Tick \/ StoreResponse]_vars => TypeOK'
  BY TypeNext DEF Next
<1> QED
  BY <1>1, TypeInit, PTL DEF Growth

LEMMA PairMin ==
  \A x, y \in Int : /\ Min({x, y}) \in {x, y}
                    /\ Min({x, y}) <= x /\ Min({x, y}) <= y
<1> TAKE x, y \in Int
<1>1. \E m \in {x, y} : \A z \in {x, y} : m <= z
  OBVIOUS
<1> QED
  BY <1>1 DEF Min

LEMMA InIsFinite ==
  ASSUME TypeOK, NEW a, NEW s, NEW e
  PROVE  /\ In(a, s, e) \in SUBSET DOMAIN responses
         /\ IsFiniteSet(In(a, s, e))
         /\ Cardinality(In(a, s, e)) \in Nat
<1>1. In(a, s, e) \in SUBSET DOMAIN responses
  BY DEF In
<1>2. IsFiniteSet(In(a, s, e))
  BY <1>1, ResponsesType, FS_Subset
<1> QED
  BY <1>1, <1>2, FS_CardinalityType

\* Successes and failures part the responses of a set: the two conditions of
\* the $group are each other's negation.
LEMMA CountedOnce ==
  ASSUME TypeOK, NEW S \in SUBSET DOMAIN responses, IsFiniteSet(S)
  PROVE  /\ Cardinality(Succeeded(S)) \in Nat
         /\ Cardinality(FailedRequests(S)) \in Nat
         /\ Cardinality(S) \in Nat
         /\ Cardinality(Succeeded(S)) + Cardinality(FailedRequests(S))
              = Cardinality(S)
<1>1. \A i \in S : /\ responses[i].statuscode >= 200
                       <=> ~ (responses[i].statuscode < 200)
                   /\ responses[i].statuscode < 300
                       <=> ~ (responses[i].statuscode >= 300)
  <2>1. \A x \in Response : x.statuscode \in Nat
    <3>1. Code \union {NoAnswer} \subseteq Nat
      BY CodeAssumption DEF NoAnswer
    <3>2. \A x \in Response : x.statuscode \in Code \union {NoAnswer}
      BY DEF Response
    <3> QED
      BY <3>1, <3>2
  <2>2. \A i \in S : responses[i].statuscode \in Nat
    BY <2>1, ResponsesType
  <2> QED
    BY <2>2
<1>2. /\ Succeeded(S) \union FailedRequests(S) = S
      /\ Succeeded(S) \intersect FailedRequests(S) = {}
  <2>1. \A i \in S : i \in FailedRequests(S) <=> i \notin Succeeded(S)
    BY <1>1 DEF Succeeded, FailedRequests
  <2>2. Succeeded(S) \subseteq S /\ FailedRequests(S) \subseteq S
    BY DEF Succeeded, FailedRequests
  <2> QED
    BY <2>1, <2>2
<1>3. IsFiniteSet(Succeeded(S)) /\ IsFiniteSet(FailedRequests(S))
  <2>1. Succeeded(S) \in SUBSET S /\ FailedRequests(S) \in SUBSET S
    BY DEF Succeeded, FailedRequests
  <2> QED
    BY <2>1, FS_Subset
<1>4. /\ Cardinality(Succeeded(S)) \in Nat
      /\ Cardinality(FailedRequests(S)) \in Nat
      /\ Cardinality(S) \in Nat
  BY <1>3, FS_CardinalityType
<1>5. Cardinality(S) = Cardinality(Succeeded(S)) + Cardinality(FailedRequests(S))
                         - Cardinality({})
  BY <1>2, <1>3, FS_Union
<1> QED
  BY <1>4, <1>5, FS_EmptySet

\* What the counters of a report are, of an empty range too.
LEMMA ReportCounts ==
  ASSUME TypeOK, NEW a, NEW s \in Nat, NEW e \in Nat, s <= e
  PROVE  LET S == In(a, s, e)
             failed == Cardinality(FailedRequests(S))
         IN /\ Report(a, s, e).totalRequests = Cardinality(S)
            /\ Report(a, s, e).failedRequests = failed
            /\ Report(a, s, e).totalDowntime = Downtime(failed, s, e)
<1> DEFINE S == In(a, s, e)
           failed == Cardinality(FailedRequests(S))
<1>1. CASE S = {}
  <2>1. Report(a, s, e) = Empty
    BY <1>1 DEF Report
  <2>2. FailedRequests(S) = {}
    BY <1>1 DEF FailedRequests
  <2>3. Cardinality(S) = 0 /\ failed = 0
    BY <1>1, <2>2, FS_EmptySet
  <2>4. Downtime(0, s, e) = 0
    <3>1. ((e - s) * DayMinutes) \div 10 \in Nat
      <4>1. (e - s) * DayMinutes \in Nat
        BY YearAssumption
      <4> QED
        BY <4>1
    <3> QED
      BY <3>1, PairMin DEF Downtime
  <2> QED
    BY <2>1, <2>3, <2>4 DEF Empty
<1>2. CASE S # {}
  BY <1>2 DEF Report
<1> QED
  BY <1>1, <1>2
\* The downtime is capped, and no less for a longer range.
LEMMA DowntimeGrows ==
  ASSUME NEW s \in Nat, NEW e \in Nat, NEW f \in Nat, s <= e, e <= f,
         NEW x \in Nat, NEW y \in Nat, x <= y
  PROVE  /\ Downtime(y, s, f) <= y
         /\ 10 * Downtime(y, s, f) <= (f - s) * DayMinutes
         /\ Downtime(x, s, e) <= Downtime(y, s, f)
<1> DEFINE p == (e - s) * DayMinutes
           q == (f - s) * DayMinutes
<1>1. p \in Nat /\ q \in Nat /\ p <= q
  <2>1. e - s \in Nat /\ f - s \in Nat /\ e - s <= f - s
    OBVIOUS
  <2>2. \A m, n \in Nat : m <= n => /\ m * DayMinutes \in Nat /\ n * DayMinutes \in Nat
                                    /\ m * DayMinutes <= n * DayMinutes
    BY YearAssumption
  <2> QED
    BY <2>1, <2>2
<1> HIDE DEF p, q
<1> DEFINE u == p \div 10
           v == q \div 10
<1>2. u \in Nat /\ v \in Nat /\ u <= v /\ 10 * v <= q
  BY <1>1
<1>3. Downtime(x, s, e) = Min({x, u}) /\ Downtime(y, s, f) = Min({y, v})
  BY DEF Downtime, p, q
<1> HIDE DEF u, v
<1>4. /\ Min({x, u}) \in {x, u} /\ Min({x, u}) <= x /\ Min({x, u}) <= u
      /\ Min({y, v}) \in {y, v} /\ Min({y, v}) <= y /\ Min({y, v}) <= v
  <2>1. x \in Int /\ u \in Int /\ y \in Int /\ v \in Int
    BY <1>2
  <2> QED
    BY <2>1, PairMin, Zenon
<1>5. (f - s) * DayMinutes = q
  BY DEF q
<1> QED
  BY <1>1, <1>2, <1>3, <1>4, <1>5

LEMMA RangesType ==
  \A r \in Ranges : r[1] \in Nat /\ r[2] \in Nat /\ r[1] <= r[2]
BY DaysAreNat DEF Ranges, Accepted

\* Days are as long as each other.
LEMMA DaysInOrder ==
  \A x, y \in Nat : /\ x * DayLength \in Nat
                    /\ x <= y => x * DayLength <= y * DayLength
                    /\ x < y => x * DayLength < y * DayLength
BY SizeAssumption

\* No two days share a moment, and none is between them.
LEMMA RangeIsCut ==
  ASSUME TypeOK, NEW a, NEW s \in Nat, NEW m \in Nat, NEW e \in Nat,
         s <= m, m < e
  PROVE  /\ In(a, s, m) \union In(a, m + 1, e) = In(a, s, e)
         /\ In(a, s, m) \intersect In(a, m + 1, e) = {}
<1> DEFINE x == s * DayLength
           y == (m + 1) * DayLength
           z == (e + 1) * DayLength
<1>1. x \in Nat /\ y \in Nat /\ z \in Nat /\ x <= y /\ y <= z
  <2>1. s \in Nat /\ m + 1 \in Nat /\ e + 1 \in Nat /\ s <= m + 1 /\ m + 1 <= e + 1
    OBVIOUS
  <2> QED
    BY <2>1, DaysInOrder
<1>2. \A i \in DOMAIN responses : responses[i].createdAt \in Nat
  BY ResponsesType, SizeAssumption DEF Response
<1>3. /\ \A i : i \in In(a, s, e) <=>
                  /\ i \in DOMAIN responses /\ responses[i].api = a
                  /\ x <= responses[i].createdAt /\ responses[i].createdAt <= z - 1
      /\ \A i : i \in In(a, s, m) <=>
                  /\ i \in DOMAIN responses /\ responses[i].api = a
                  /\ x <= responses[i].createdAt /\ responses[i].createdAt <= y - 1
      /\ \A i : i \in In(a, m + 1, e) <=>
                  /\ i \in DOMAIN responses /\ responses[i].api = a
                  /\ y <= responses[i].createdAt /\ responses[i].createdAt <= z - 1
  BY DEF In
<1> HIDE DEF x, y, z
<1>4. \A i : i \in In(a, s, e) <=> i \in In(a, s, m) \/ i \in In(a, m + 1, e)
  BY <1>1, <1>2, <1>3
<1>5. \A i : ~ (i \in In(a, s, m) /\ i \in In(a, m + 1, e))
  BY <1>1, <1>2, <1>3
<1> QED
  BY <1>4, <1>5

LEMMA DisjointCount ==
  ASSUME NEW S, NEW T, IsFiniteSet(S), IsFiniteSet(T), S \intersect T = {}
  PROVE  Cardinality(S) + Cardinality(T) = Cardinality(S \union T)
<1>1. Cardinality(S) \in Nat /\ Cardinality(T) \in Nat
  BY FS_CardinalityType
<1>2. Cardinality(S \union T) = Cardinality(S) + Cardinality(T) - Cardinality({})
  BY FS_Union
<1> QED
  BY <1>1, <1>2, FS_EmptySet

LEMMA CutCounts ==
  ASSUME TypeOK, NEW a, NEW s \in Nat, NEW m \in Nat, NEW e \in Nat,
         s <= m, m < e
  PROVE  /\ Cardinality(In(a, s, m)) + Cardinality(In(a, m + 1, e))
              = Cardinality(In(a, s, e))
         /\ Cardinality(FailedRequests(In(a, s, m)))
              + Cardinality(FailedRequests(In(a, m + 1, e)))
              = Cardinality(FailedRequests(In(a, s, e)))
<1> DEFINE L == In(a, s, m)
           R == In(a, m + 1, e)
<1>1. L \union R = In(a, s, e) /\ L \intersect R = {}
  BY RangeIsCut
<1>2. IsFiniteSet(L) /\ IsFiniteSet(R)
  BY InIsFinite
<1> HIDE DEF L, R
<1>3. /\ FailedRequests(L) \union FailedRequests(R) = FailedRequests(L \union R)
      /\ FailedRequests(L) \intersect FailedRequests(R) = {}
  BY <1>1 DEF FailedRequests
<1>4. IsFiniteSet(FailedRequests(L)) /\ IsFiniteSet(FailedRequests(R))
  <2>1. FailedRequests(L) \in SUBSET L /\ FailedRequests(R) \in SUBSET R
    BY DEF FailedRequests
  <2> QED
    BY <1>2, <2>1, FS_Subset
<1>5. Cardinality(L) + Cardinality(R) = Cardinality(In(a, s, e))
  BY <1>1, <1>2, DisjointCount
<1>6. Cardinality(FailedRequests(L)) + Cardinality(FailedRequests(R))
        = Cardinality(FailedRequests(In(a, s, e)))
  BY <1>1, <1>3, <1>4, DisjointCount
<1> QED
  BY <1>5, <1>6 DEF L, R

LEMMA CountsOnce == TypeOK => EveryResponseCountsOnce
<1> SUFFICES ASSUME TypeOK, NEW a \in Api, NEW r \in Ranges, NEW m \in r[1] .. r[2]
             PROVE
      LET S == In(a, r[1], r[2])
          whole == Report(a, r[1], r[2])
          left == Report(a, r[1], m)
          right == IF m = r[2] THEN Empty ELSE Report(a, m + 1, r[2])
      IN /\ Cardinality(Succeeded(S)) + whole.failedRequests = whole.totalRequests
         /\ left.totalRequests + right.totalRequests = whole.totalRequests
         /\ left.failedRequests + right.failedRequests = whole.failedRequests
  BY DEF EveryResponseCountsOnce
<1> DEFINE s == r[1]
           e == r[2]
           S == In(a, s, e)
<1>1. s \in Nat /\ e \in Nat /\ m \in Nat /\ s <= m /\ m <= e /\ s <= e
  BY RangesType
<1> HIDE DEF s, e
<1>2. /\ Report(a, s, e).totalRequests = Cardinality(S)
      /\ Report(a, s, e).failedRequests = Cardinality(FailedRequests(S))
      /\ Report(a, s, m).totalRequests = Cardinality(In(a, s, m))
      /\ Report(a, s, m).failedRequests = Cardinality(FailedRequests(In(a, s, m)))
  BY <1>1, ReportCounts
<1>3. /\ Cardinality(S) \in Nat /\ Cardinality(FailedRequests(S)) \in Nat
      /\ Cardinality(Succeeded(S)) + Cardinality(FailedRequests(S)) = Cardinality(S)
  BY InIsFinite, CountedOnce
<1>4. CASE m = e
  <2>1. Empty.totalRequests = 0 /\ Empty.failedRequests = 0
    BY DEF Empty
  <2>2. In(a, s, m) = S
    BY <1>4
  <2> QED
    BY <1>2, <1>3, <1>4, <2>1, <2>2 DEF s, e
<1>5. CASE m # e
  <2>1. m < e /\ m + 1 \in Nat /\ m + 1 <= e
    BY <1>1, <1>5
  <2>2. /\ Report(a, m + 1, e).totalRequests = Cardinality(In(a, m + 1, e))
        /\ Report(a, m + 1, e).failedRequests
             = Cardinality(FailedRequests(In(a, m + 1, e)))
    BY <1>1, <2>1, ReportCounts
  <2> QED
    BY <1>1, <1>2, <1>3, <1>5, <2>1, <2>2, CutCounts DEF s, e
<1> QED
  BY <1>4, <1>5

\* A range that is cut in two loses no response and counts none twice, and each
\* is a success or a failure.
THEOREM ResponsesCountOnce == Growth => []EveryResponseCountsOnce
<1> QED
  BY GrowthType, CountsOnce, PTL
-----------------------------------------------------------------------------
(* The range and the downtime.                                             *)

\* validateDateRange: a range spans a year at most, and the year whole only at
\* the midnight of its last day.
THEOREM RangesFitAYear == Growth => []RangeFitsAYear
<1>1. TypeOK => RangeFitsAYear
  <2> SUFFICES ASSUME TypeOK, NEW r \in Ranges
               PROVE  \/ r[2] - r[1] < Year
                      \/ r[2] - r[1] = Year /\ now = r[2] * DayLength
    BY DEF RangeFitsAYear
  <2>1. r[1] \in Nat /\ r[2] \in Nat /\ Year \in Nat /\ now \in Nat
    BY RangesType, YearAssumption DEF TypeOK
  <2>2. r[2] * DayLength <= now /\ now <= (r[1] + Year) * DayLength
    BY DEF Ranges, Accepted
  <2>3. r[2] * DayLength \in Nat /\ (r[1] + Year) * DayLength \in Nat
    BY <2>1, SizeAssumption
  <2>4. r[2] <= r[1] + Year
    <3>1. ~ (r[1] + Year < r[2])
      <4>1. r[1] + Year < r[2] => (r[1] + Year) * DayLength < r[2] * DayLength
        BY <2>1, DaysInOrder
      <4> QED
        BY <2>1, <2>2, <2>3, <4>1
    <3> QED
      BY <2>1, <3>1
  <2>5. CASE r[2] = r[1] + Year
    BY <2>1, <2>2, <2>3, <2>5
  <2>6. CASE r[2] # r[1] + Year
    BY <2>1, <2>4, <2>6
  <2> QED
    BY <2>5, <2>6
<1> QED
  BY <1>1, GrowthType, PTL

LEMMA FailuresGrow ==
  ASSUME TypeOK, NEW a, NEW s \in Nat, NEW e \in Nat, NEW f \in Nat,
         s <= e, e <= f
  PROVE  Cardinality(FailedRequests(In(a, s, e)))
           <= Cardinality(FailedRequests(In(a, s, f)))
<1> DEFINE S == In(a, s, e)
           T == In(a, s, f)
<1>1. /\ Cardinality(FailedRequests(S)) \in Nat
      /\ Cardinality(FailedRequests(T)) \in Nat
  BY InIsFinite, CountedOnce
<1>2. CASE e = f
  BY <1>1, <1>2
<1>3. CASE e # f
  <2>1. Cardinality(FailedRequests(In(a, e + 1, f))) \in Nat
    BY InIsFinite, CountedOnce
  <2>2. e < f
    BY <1>3
  <2> QED
    BY <1>1, <2>1, <2>2, CutCounts
<1> QED
  BY <1>2, <1>3

\* calculateDowntime: no more than the failures, nor than a tenth of the days
\* between, and a longer range has no less.
THEOREM DowntimesAreBounded == Growth => []DowntimeIsBounded
<1>1. TypeOK => DowntimeIsBounded
  <2> SUFFICES ASSUME TypeOK, NEW a \in Api, NEW r \in Ranges
               PROVE  LET t == Report(a, r[1], r[2])
                      IN /\ t.totalDowntime <= t.failedRequests
                         /\ 10 * t.totalDowntime <= (r[2] - r[1]) * DayMinutes
                         /\ \A e \in r[1] .. r[2] :
                              Report(a, r[1], e).totalDowntime <= t.totalDowntime
    BY DEF DowntimeIsBounded
  <2> DEFINE Failures(e) == Cardinality(FailedRequests(In(a, r[1], e)))
  <2>1. r[1] \in Nat /\ r[2] \in Nat /\ r[1] <= r[2]
    BY RangesType
  <2>2. \A e \in r[1] .. r[2] :
          /\ e \in Nat /\ r[1] <= e /\ e <= r[2]
          /\ Failures(e) \in Nat /\ Failures(e) <= Failures(r[2])
          /\ Report(a, r[1], e).totalDowntime = Downtime(Failures(e), r[1], e)
          /\ Report(a, r[1], e).failedRequests = Failures(e)
    <3> TAKE e \in r[1] .. r[2]
    <3>1. e \in Nat /\ r[1] <= e /\ e <= r[2]
      BY <2>1
    <3>2. Failures(e) \in Nat
      BY InIsFinite, CountedOnce
    <3> QED
      BY <2>1, <3>1, <3>2, FailuresGrow, ReportCounts
  <2>3. r[2] \in r[1] .. r[2] /\ Failures(r[2]) \in Nat
    BY <2>1, <2>2
  <2> HIDE DEF Failures
  <2>4. \A e \in r[1] .. r[2] :
          /\ Downtime(Failures(r[2]), r[1], r[2]) <= Failures(r[2])
          /\ 10 * Downtime(Failures(r[2]), r[1], r[2]) <= (r[2] - r[1]) * DayMinutes
          /\ Downtime(Failures(e), r[1], e) <= Downtime(Failures(r[2]), r[1], r[2])
    BY <2>1, <2>2, <2>3, DowntimeGrows
  <2> QED
    BY <2>2, <2>3, <2>4
<1> QED
  BY <1>1, GrowthType, PTL
-----------------------------------------------------------------------------
(* Outages.                                                                *)

\* A failure of the board is a failure of every report whose range has its day.
LEMMA OutageIsIn ==
  ASSUME TypeOK, NEW a \in Api, NEW s \in Nat, NEW e \in Nat, NEW d \in s .. e,
         NEW i \in Failed(Selected(a, d, Day(now)))
  PROVE  i \in FailedRequests(In(a, s, e))
<1>1. i \in On(a, d) /\ ~ responses[i].success
  BY SelectedIsOn DEF Failed
<1>2. /\ i \in DOMAIN responses /\ responses[i].api = a
      /\ Day(responses[i].createdAt) = d
  BY <1>1 DEF On
<1>3. responses[i].createdAt \in Nat
  BY <1>2, ResponsesType, SizeAssumption DEF Response
<1>4. d * DayLength <= responses[i].createdAt
      /\ responses[i].createdAt < (d + 1) * DayLength
  BY <1>2, <1>3, DayBounds
<1>5. /\ s * DayLength <= d * DayLength
      /\ (d + 1) * DayLength <= (e + 1) * DayLength
  <2>1. s \in Nat /\ d \in Nat /\ d + 1 \in Nat /\ e + 1 \in Nat /\ s <= d /\ d + 1 <= e + 1
    OBVIOUS
  <2> QED
    BY <2>1, DaysInOrder
<1>6. /\ s * DayLength \in Nat /\ d * DayLength \in Nat
      /\ (d + 1) * DayLength \in Nat /\ (e + 1) * DayLength \in Nat
  BY DaysInOrder
<1>7. /\ s * DayLength <= responses[i].createdAt
      /\ responses[i].createdAt <= (e + 1) * DayLength - 1
  BY <1>3, <1>4, <1>5, <1>6
<1>8. i \in In(a, s, e)
  BY <1>2, <1>7 DEF In
<1> QED
  BY <1>1, <1>8 DEF FailedRequests

\* Two digits show a failure among fewer than 20 000 responses.
LEMMA FailureShows ==
  ASSUME NEW good \in Nat, NEW all \in Nat, good < all, all < 20000
  PROVE  Hundredths(100 * good, all) < 10000
<1>1. 200 * (100 * good) + all < 10000 * (2 * all)
  OBVIOUS
<1>2. \A x \in Nat, y \in Nat : y > 0 /\ x < 10000 * y => x \div y < 10000
  <2> SUFFICES ASSUME NEW x \in Nat, NEW y \in Nat, y > 0, x < 10000 * y
               PROVE  x \div y < 10000
    OBVIOUS
  <2>1. y * (x \div y) <= x /\ x \div y \in Nat
    OBVIOUS
  <2>2. \A q \in Nat : 10000 <= q => 10000 * y <= y * q
    OBVIOUS
  <2> QED
    BY <2>1, <2>2
<1> QED
  BY <1>1, <1>2 DEF Hundredths

\* However many responses there are, an outage on the board is counted in every
\* report whose range has its day.
THEOREM OutagesAreCounted ==
  Growth => [](\A a \in Api : \A r \in Ranges : \A d \in r[1] .. r[2] :
                 Failed(Selected(a, d, Day(now)))
                   \subseteq FailedRequests(In(a, r[1], r[2])))
<1>1. TypeOK => \A a \in Api : \A r \in Ranges : \A d \in r[1] .. r[2] :
                  Failed(Selected(a, d, Day(now)))
                    \subseteq FailedRequests(In(a, r[1], r[2]))
  BY RangesType, OutageIsIn
<1> QED
  BY <1>1, GrowthType, PTL

\* The board and the reports do not conflict: an outage on the board, whichever
\* row MongoDB takes, is a failure in every report whose range has its day, and
\* the uptime of the report is not 100.
THEOREM OutagesAreReported ==
  ASSUME MaxResponses < 20000
  PROVE  Growth => []OutageIsReported
<1>1. TypeOK => OutageIsReported
  <2> SUFFICES ASSUME TypeOK, NEW a \in Api, NEW r \in Ranges,
                      NEW d \in r[1] .. r[2],
                      NEW i \in Failed(Selected(a, d, Day(now)))
               PROVE  /\ Report(a, r[1], r[2]).failedRequests > 0
                      /\ Report(a, r[1], r[2]).uptimePercentage < 10000
    BY DEF OutageIsReported
  <2> DEFINE S == In(a, r[1], r[2])
  <2>1. r[1] \in Nat /\ r[2] \in Nat /\ r[1] <= r[2]
    BY RangesType
  <2>2. i \in FailedRequests(S) /\ i \in S
    BY <2>1, OutageIsIn DEF FailedRequests
  <2>3. /\ S \in SUBSET DOMAIN responses /\ IsFiniteSet(S)
        /\ Cardinality(S) \in Nat
    BY InIsFinite
  <2>4. Report(a, r[1], r[2]).failedRequests = Cardinality(FailedRequests(S))
    BY <2>1, ReportCounts
  <2>5. Report(a, r[1], r[2]).uptimePercentage
          = Hundredths(100 * Cardinality(Succeeded(S)), Cardinality(S))
    BY <2>2 DEF Report, Uptime
  <2> HIDE DEF S
  <2>6. /\ Cardinality(Succeeded(S)) \in Nat
        /\ Cardinality(FailedRequests(S)) \in Nat
        /\ Cardinality(Succeeded(S)) + Cardinality(FailedRequests(S))
             = Cardinality(S)
    BY <2>3, CountedOnce
  <2>7. Cardinality(FailedRequests(S)) > 0
    <3>1. IsFiniteSet(FailedRequests(S))
      <4>1. FailedRequests(S) \in SUBSET S
        BY DEF FailedRequests
      <4> QED
        BY <2>3, <4>1, FS_Subset
    <3>2. Cardinality(FailedRequests(S)) # 0
      BY <2>2, <3>1, FS_EmptySet
    <3> QED
      BY <2>6, <3>2
  <2>8. Cardinality(S) < 20000
    <3>1. Cardinality(S) <= Cardinality(1 .. Len(responses))
      BY <2>3, ResponsesType, FS_Subset
    <3>2. Cardinality(1 .. Len(responses)) = Len(responses)
      BY ResponsesType, FirstNumbers
    <3> QED
      BY <2>3, <3>1, <3>2, ResponsesType, SizeAssumption
  <2>9. Hundredths(100 * Cardinality(Succeeded(S)), Cardinality(S)) < 10000
    BY <2>3, <2>6, <2>7, <2>8, FailureShows
  <2> QED
    BY <2>4, <2>5, <2>7, <2>9
<1> QED
  BY <1>1, GrowthType, PTL
-----------------------------------------------------------------------------
(* Reports settle.                                                         *)

\* What a report is computed from.
LEMMA SameReport ==
  ASSUME NEW a, NEW s, NEW e, In(a, s, e)' = In(a, s, e),
         \A i \in In(a, s, e) : responses'[i] = responses[i]
  PROVE  Report(a, s, e)' = Report(a, s, e)
<1> DEFINE S == In(a, s, e)
<1>1. S' = S
  OBVIOUS
<1>2. \A i \in S : responses'[i] = responses[i]
  OBVIOUS
<1> HIDE DEF S
<1>3. Succeeded(S)' = Succeeded(S) /\ FailedRequests(S)' = FailedRequests(S)
  BY <1>1, <1>2 DEF Succeeded, FailedRequests
<1>4. Succeeded(S) \subseteq S
  BY DEF Succeeded
<1>5. Times(S)' = Times(S)
  BY <1>2, <1>3, <1>4 DEF Times
<1>6. TotalTime(S)' = TotalTime(S)
  BY <1>2, <1>3, <1>4 DEF TotalTime
<1>7. Average(S)' = Average(S) /\ Uptime(S)' = Uptime(S)
  BY <1>1, <1>3, <1>6 DEF Average, Uptime
<1>8. MinTime(S)' = MinTime(S) /\ MaxTimeOf(S)' = MaxTimeOf(S)
  BY <1>5 DEF MinTime, MaxTimeOf
<1> QED
  BY <1>1, <1>3, <1>7, <1>8 DEF Report, S

\* What is stored when the lag of the last day is over is of a later day.
LEMMA RangeIsOver ==
  ASSUME TypeOK, [Tick \/ StoreResponse]_vars,
         NEW a, NEW s \in Nat, NEW e \in Nat, now > (e + 1) * DayLength - 1 + Lag
  PROVE  /\ In(a, s, e)' = In(a, s, e)
         /\ \A i \in In(a, s, e) : responses'[i] = responses[i]
<1>1. CASE StoreResponse
  <2>1. PICK x \in Response : now <= x.createdAt + Lag /\ Stored(x)
    BY <1>1, StoreAppends
  <2>2. x.createdAt > (e + 1) * DayLength - 1
    <3>1. x.createdAt \in Nat /\ now \in Nat
      BY SizeAssumption DEF TypeOK, Response
    <3>2. (e + 1) * DayLength \in Nat
      BY DaysInOrder
    <3> QED
      BY <2>1, <3>1, <3>2, LagAssumption
  <2>3. ~ (x.createdAt <= (e + 1) * DayLength - 1)
    <3>1. x.createdAt \in Nat
      BY SizeAssumption DEF Response
    <3>2. (e + 1) * DayLength \in Nat
      BY DaysInOrder
    <3> QED
      BY <2>2, <3>1, <3>2
  <2>4. \A i \in DOMAIN responses' :
          \/ i \in DOMAIN responses /\ responses'[i] = responses[i]
          \/ responses'[i] = x
    BY <2>1, ResponsesType DEF Stored
  <2>5. \A i \in DOMAIN responses : i \in DOMAIN responses'
                                    /\ responses'[i] = responses[i]
    BY <2>1, ResponsesType DEF Stored
  <2>6. \A i \in In(a, s, e)' : i \in In(a, s, e)
    BY <2>3, <2>4 DEF In
  <2>7. \A i \in In(a, s, e) : i \in In(a, s, e)'
    BY <2>5 DEF In
  <2>8. In(a, s, e) \subseteq DOMAIN responses
    BY DEF In
  <2> QED
    BY <2>5, <2>6, <2>7, <2>8
<1>2. CASE Tick \/ UNCHANGED vars
  BY <1>2 DEF Tick, vars, In
<1> QED
  BY <1>1, <1>2

\* The report of a range that is over, with what was under way then, does not
\* change any more.
THEOREM ReportsDoSettle == Growth => ReportsSettle
<1>1. TypeOK /\ [Tick \/ StoreResponse]_vars =>
        [\A a \in Api : \A r \in Ranges :
           now > (r[2] + 1) * DayLength - 1 + Lag
             => Report(a, r[1], r[2])' = Report(a, r[1], r[2])]_vars
  BY RangesType, RangeIsOver, SameReport
<1> QED
  BY <1>1, GrowthType, PTL DEF Growth, ReportsSettle
-----------------------------------------------------------------------------
(* The times.                                                              *)

\* Rounding to two digits keeps to an upper bound.
LEMMA RoundedAtMost ==
  ASSUME NEW x \in Nat, NEW n \in Nat \ {0}, NEW high \in Nat, x <= high * n
  PROVE  Hundredths(x, n) <= 100 * high
<1> DEFINE h == high * n
           y == 200 * x + n
           m == 2 * n
           q == y \div m
<1>1. /\ h \in Nat /\ x <= h
      /\ (100 * high + 1) * m = 200 * h + 2 * n
  OBVIOUS
<1>2. y \in Nat /\ m \in Nat /\ m > 0 /\ y < (100 * high + 1) * m
  <2> HIDE DEF h
  <2> QED
    BY <1>1
<1>3. q \in Nat /\ q * m <= y
  <2> HIDE DEF y, m
  <2> QED
    BY <1>2
<1> HIDE DEF y, m, q
<1>4. q * m < (100 * high + 1) * m
  <2>1. q * m \in Nat /\ (100 * high + 1) * m \in Nat
    BY <1>2, <1>3
  <2> QED
    BY <1>2, <1>3, <2>1
<1>5. q < 100 * high + 1
  <2>1. \A i, j, k \in Nat : i * k < j * k => i < j
    OBVIOUS
  <2> QED
    BY <1>2, <1>3, <1>4, <2>1
<1>6. q <= 100 * high
  BY <1>3, <1>5
<1> QED
  BY <1>6 DEF Hundredths, q, y, m

\* It takes off half of the last digit at most.
LEMMA RoundedAtLeast ==
  ASSUME NEW x \in Nat, NEW n \in Nat \ {0}
  PROVE  /\ Hundredths(x, n) \in Nat
         /\ 200 * x <= (2 * Hundredths(x, n) + 1) * n
<1> DEFINE y == 200 * x + n
           m == 2 * n
           q == y \div m
<1>1. y \in Nat /\ m \in Nat /\ m > 0
  OBVIOUS
<1>2. q \in Nat /\ y < (q + 1) * m
  <2> HIDE DEF y, m
  <2> QED
    BY <1>1
<1> HIDE DEF q
<1>3. /\ (q + 1) * m = (2 * (q * n)) + 2 * n
      /\ (2 * q + 1) * n = (2 * (q * n)) + n
      /\ q * n \in Nat
  BY <1>2
<1>4. 200 * x <= (2 * q + 1) * n
  <2> DEFINE k == q * n
  <2>1. 200 * x + n < (2 * k) + 2 * n /\ (2 * q + 1) * n = (2 * k) + n /\ k \in Nat
    BY <1>2, <1>3
  <2> HIDE DEF k
  <2> QED
    BY <2>1
<1> QED
  BY <1>2, <1>4 DEF Hundredths, q

\* The times of the successes, and the extremes that the report shows of them.
LEMMA TimesOfSuccesses ==
  ASSUME TypeOK, NEW S \in SUBSET DOMAIN responses, IsFiniteSet(S),
         Succeeded(S) # {}
  PROVE  /\ Times(S) \in SUBSET Nat
         /\ MaxTimeOf(S) \in Times(S)
         /\ \A t \in Times(S) : t <= MaxTimeOf(S)
         /\ MinTime(S) \in Nat /\ MinTime(S) <= MaxTimeOf(S)
         /\ \A t \in Times(S) \ {0} : MinTime(S) <= t
<1> DEFINE G == Succeeded(S)
           f == [i \in G |-> responses[i].responsetime]
<1>1. IsFiniteSet(G) /\ G \subseteq DOMAIN responses
  <2>1. G \in SUBSET S
    BY DEF Succeeded
  <2> QED
    BY <2>1, FS_Subset
<1>2. \A i \in G : responses[i].responsetime \in Nat
  <2>1. \A x \in Response : x.responsetime \in Nat
    BY CodeAssumption DEF Response
  <2> QED
    BY <1>1, <2>1, ResponsesType
<1>3. Times(S) = {f[i] : i \in G} /\ Times(S) \in SUBSET Nat
  BY <1>2 DEF Times
<1>4. PICK i \in G : \A j \in G : f[j] <= f[i]
  <2>1. f \in [G -> Nat]
    BY <1>2
  <2> HIDE DEF f, G
  <2>2. G # {}
    BY DEF G
  <2> QED
    BY <1>1, <2>1, <2>2, GreatestValue
<1> HIDE DEF f
<1>5. f[i] \in Times(S) /\ \A t \in Times(S) : t <= f[i]
  BY <1>3, <1>4
<1>6. MaxTimeOf(S) \in Times(S) /\ \A t \in Times(S) : t <= MaxTimeOf(S)
  <2>1. \E t \in Times(S) : \A u \in Times(S) : t >= u
    BY <1>3, <1>5
  <2>2. /\ Max(Times(S)) \in Times(S)
        /\ \A t \in Times(S) : Max(Times(S)) >= t
    BY <2>1 DEF Max
  <2>3. MaxTimeOf(S) = Max(Times(S))
    BY <1>5 DEF MaxTimeOf
  <2> QED
    BY <1>3, <2>2, <2>3
<1>7. MaxTimeOf(S) \in Nat
  BY <1>3, <1>6
<1> DEFINE P == Times(S) \ {0}
<1>8. CASE P = {}
  <2>1. MinTime(S) = 0
    BY <1>8 DEF MinTime
  <2> QED
    BY <1>3, <1>6, <1>7, <2>1
<1>9. CASE P # {}
  <2>1. P \in SUBSET Nat
    BY <1>3
  <2>2. MinTime(S) = Min(P)
    BY <1>9 DEF MinTime
  <2> HIDE DEF P
  <2>3. \E t \in P : \A u \in P : t <= u
    BY <1>9, <2>1, LeastIndex
  <2>4. Min(P) \in P /\ \A u \in P : Min(P) <= u
    BY <2>3 DEF Min
  <2>5. MinTime(S) \in Times(S) /\ MinTime(S) \in Nat
    BY <2>1, <2>2, <2>4 DEF P
  <2>6. \A t \in Times(S) \ {0} : MinTime(S) <= t
    BY <2>2, <2>4 DEF P
  <2> QED
    BY <1>3, <1>6, <2>5, <2>6
<1> QED
  BY <1>8, <1>9

\* The successes whose time $min sees.
Timed(S) == {i \in Succeeded(S) : responses[i].responsetime > 0}

\* The average is at most the longest time, and of the shortest at least what
\* the successes with a time above 0 ms are of all.
LEMMA AverageBetween ==
  ASSUME TypeOK, NEW S \in SUBSET DOMAIN responses, IsFiniteSet(S),
         Succeeded(S) # {}
  PROVE  /\ Average(S) <= 100 * MaxTimeOf(S)
         /\ 200 * MinTime(S) * Cardinality(Timed(S))
              <= (2 * Average(S) + 1) * Cardinality(Succeeded(S))
<1> DEFINE G == Succeeded(S)
           W == Timed(S)
           f == [i \in G |-> responses[i].responsetime]
           n == Cardinality(G)
           high == MaxTimeOf(S)
           low == MinTime(S)
<1>1. /\ IsFiniteSet(G) /\ n \in Nat \ {0}
      /\ W \in SUBSET G /\ Cardinality(W) \in Nat
  <2>1. G \in SUBSET S /\ W \in SUBSET S /\ W \in SUBSET G
    BY DEF Succeeded, Timed
  <2>2. IsFiniteSet(G) /\ IsFiniteSet(W)
    BY <2>1, FS_Subset
  <2> QED
    BY <2>1, <2>2, FS_CardinalityType, FS_EmptySet
<1>2. low \in Nat /\ high \in Nat
  BY TimesOfSuccesses
<1>3. /\ \A i \in G : f[i] \in Nat /\ f[i] <= high
      /\ \A i \in W : low <= f[i]
  <2>1. \A i \in G : f[i] \in Times(S)
    BY DEF Times
  <2>2. \A i \in W : i \in G /\ f[i] > 0
    BY DEF Timed
  <2>3. \A i \in W : f[i] \in Times(S) \ {0}
    <3>1. \A t \in Times(S) : t > 0 => t # 0
      BY TimesOfSuccesses
    <3> HIDE DEF f, G, W
    <3> QED
      BY <2>1, <2>2, <3>1
  <2> HIDE DEF f, G, W
  <2> QED
    BY <2>1, <2>3, TimesOfSuccesses
<1>4. DOMAIN f = G /\ TotalTime(S) = SumFunction(f)
  BY DEF TotalTime
<1>5. Average(S) = Hundredths(TotalTime(S), n)
  BY DEF Average
<1> DEFINE w == Cardinality(W)
           z == SumFunction(f)
           q == Average(S)
<1> HIDE DEF G, W, f, n, high, low
<1>6. z \in Nat /\ low * w <= z /\ z <= high * n
  <2>1. Cardinality(DOMAIN f) = n
    BY <1>4 DEF n
  <2> QED
    BY <1>1, <1>2, <1>3, <1>4, <2>1, SumBounds
<1>7. q <= 100 * high
  BY <1>1, <1>2, <1>4, <1>5, <1>6, RoundedAtMost
<1>8. q \in Nat /\ 200 * z <= (2 * q + 1) * n
  BY <1>1, <1>4, <1>5, <1>6, RoundedAtLeast
<1>9. w \in Nat
  BY <1>1
<1> HIDE DEF w, z, q
<1>10. 200 * low * w <= (2 * q + 1) * n
  <2>1. 200 * low * w = 200 * (low * w) /\ low * w \in Nat
        /\ (2 * q + 1) * n \in Nat
    BY <1>1, <1>2, <1>8, <1>9
  <2> QED
    BY <1>6, <1>8, <2>1
<1> QED
  BY <1>7, <1>10 DEF high, low, q, w, W, n, G

\* The times of a report agree: the shortest and the average are not above the
\* longest, and the average is not below the shortest but for the successes
\* that took no millisecond, which only the average counts.
THEOREM TimesDoAgree == Growth => []TimesAgree
<1>1. TypeOK => TimesAgree
  <2> SUFFICES ASSUME TypeOK, NEW a \in Api, NEW r \in Ranges
               PROVE  LET t == Report(a, r[1], r[2])
                          S == In(a, r[1], r[2])
                      IN /\ t.minResponseTime <= t.maxResponseTime
                         /\ t.averageResponseTime <= 100 * t.maxResponseTime
                         /\ 200 * t.minResponseTime * Cardinality(Timed(S))
                              <= (2 * t.averageResponseTime + 1)
                                 * Cardinality(Succeeded(S))
    BY DEF TimesAgree, Timed
  <2> DEFINE S == In(a, r[1], r[2])
             t == Report(a, r[1], r[2])
  <2>1. S \in SUBSET DOMAIN responses /\ IsFiniteSet(S)
    BY InIsFinite
  <2>2. IsFiniteSet(Succeeded(S)) /\ IsFiniteSet(Timed(S))
    <3>1. Succeeded(S) \in SUBSET S /\ Timed(S) \in SUBSET S
      BY DEF Succeeded, Timed
    <3> QED
      BY <2>1, <3>1, FS_Subset
  <2>3. Cardinality(Succeeded(S)) \in Nat /\ Cardinality(Timed(S)) \in Nat
    BY <2>2, FS_CardinalityType
  <2>4. CASE Succeeded(S) = {}
    <3>1. Times(S) = {} /\ Average(S) = 0
      BY <2>4 DEF Times, Average
    <3>2. MinTime(S) = 0 /\ MaxTimeOf(S) = 0
      BY <3>1 DEF MinTime, MaxTimeOf
    <3>3. /\ t.minResponseTime = 0 /\ t.maxResponseTime = 0
          /\ t.averageResponseTime = 0
      BY <3>1, <3>2 DEF Report, Empty
    <3> HIDE DEF S, t
    <3> QED
      BY <2>3, <3>3 DEF S, t
  <2>5. CASE Succeeded(S) # {}
    <3>1. S # {}
      BY <2>5 DEF Succeeded
    <3>2. /\ t.minResponseTime = MinTime(S) /\ t.maxResponseTime = MaxTimeOf(S)
          /\ t.averageResponseTime = Average(S)
      BY <3>1 DEF Report
    <3> HIDE DEF S, t
    <3>3. MinTime(S) <= MaxTimeOf(S)
      BY <2>1, <2>5, TimesOfSuccesses
    <3> QED
      BY <2>1, <2>5, <3>2, <3>3, AverageBetween DEF S, t
  <2> QED
    BY <2>4, <2>5
<1> QED
  BY <1>1, GrowthType, PTL
=============================================================================
