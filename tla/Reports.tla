------------------------------ MODULE Reports ------------------------------
(***************************************************************************)
(* AnalyticsService.computeMetrics: the report of an API over a range of   *)
(* days, computed by one aggregation over the responses that the board of  *)
(* StatusBoard is made from.  MetricsCache has the request around it.      *)
(*                                                                         *)
(* A range is named by its first and last day.  Percentages and averages   *)
(* are counted in hundredths, to which the code rounds them.               *)
(***************************************************************************)
EXTENDS StatusBoard, FiniteSetsExt

CONSTANTS Year,       \* days in a year
          DayMinutes  \* minutes in a day: 1440

ASSUME YearAssumption == Year \in Nat /\ DayMinutes \in Nat

AcceptedByEnd(s, e) ==
  /\ s <= e
  /\ e * DayLength <= now
  /\ now <= (e + Year) * DayLength

\* validateDateRange: both dates stand for their midnight, and a year ago is
\* the same time of the day.
Accepted(s, e) ==
  /\ s <= e
  /\ e * DayLength <= now
  /\ now <= (s + Year) * DayLength

Ranges == {r \in Days \X Days : Accepted(r[1], r[2])}

InExclusive(a, s, e) ==
  {i \in DOMAIN responses :
     /\ responses[i].api = a
     /\ s * DayLength <= responses[i].createdAt
     /\ responses[i].createdAt < (e + 1) * DayLength - 1}

InPastMidnight(a, s, e) ==
  {i \in DOMAIN responses :
     /\ responses[i].api = a
     /\ s * DayLength <= responses[i].createdAt
     /\ responses[i].createdAt <= (e + 1) * DayLength}

\* $match, from T00:00:00.000 of the first day to T23:59:59.999 of the last.
In(a, s, e) ==
  {i \in DOMAIN responses :
     /\ responses[i].api = a
     /\ s * DayLength <= responses[i].createdAt
     /\ responses[i].createdAt <= (e + 1) * DayLength - 1}

\* The two conditions of the $group, written out separately in the code.
Succeeded(S) == {i \in S : /\ responses[i].success
                           /\ responses[i].statuscode >= 200
                           /\ responses[i].statuscode < 300}

Counted(S) == {i \in S : \/ ~ responses[i].success
                         \/ responses[i].statuscode < 200
                         \/ responses[i].statuscode > 300}

FailedRequests(S) == {i \in S : \/ ~ responses[i].success
                                \/ responses[i].statuscode < 200
                                \/ responses[i].statuscode >= 300}

\* x / y in hundredths, rounded half up: toFixed(2).
Hundredths(x, y) == (200 * x + y) \div (2 * y)

Uptime(S) == Hundredths(100 * Cardinality(Succeeded(S)), Cardinality(S))

Times(S) == {responses[i].responsetime : i \in Succeeded(S)}

TotalTime(S) == SumFunction([i \in Succeeded(S) |-> responses[i].responsetime])

AverageOfAll(S) ==
  IF Succeeded(S) = {} THEN 0 ELSE Hundredths(TotalTime(S), Cardinality(S))

Average(S) ==
  IF Succeeded(S) = {} THEN 0
                       ELSE Hundredths(TotalTime(S), Cardinality(Succeeded(S)))

\* $min sees only times above 0; without one it gives null, which becomes 0.
MinTime(S) == IF Times(S) \ {0} = {} THEN 0 ELSE Min(Times(S) \ {0})
MaxTimeOf(S) == IF Times(S) = {} THEN 0 ELSE Max(Times(S))

DowntimeUncapped(failed, s, e) == failed

\* calculateDowntime: a minute for each failure, at most a tenth of the minutes
\* from the midnight of the first day to that of the last.
Downtime(failed, s, e) == Min({failed, ((e - s) * DayMinutes) \div 10})

Empty == [uptimePercentage |-> 0, averageResponseTime |-> 0,
          totalRequests |-> 0, failedRequests |-> 0, totalDowntime |-> 0,
          minResponseTime |-> 0, maxResponseTime |-> 0]

\* computeMetrics.
Report(a, s, e) ==
  LET S == In(a, s, e)
      failed == Cardinality(FailedRequests(S))
  IN IF S = {} THEN Empty
     ELSE [uptimePercentage |-> Uptime(S),
           averageResponseTime |-> Average(S),
           totalRequests |-> Cardinality(S),
           failedRequests |-> failed,
           totalDowntime |-> Downtime(failed, s, e),
           minResponseTime |-> MinTime(S),
           maxResponseTime |-> MaxTimeOf(S)]

\* The collection grows and time passes; a report is one read of both.
Growth == Init /\ [][Tick \/ StoreResponse]_vars
-----------------------------------------------------------------------------
(* Correctness.                                                            *)

\* Every response of a range is counted once, as a success or as a failure,
\* and a range that is cut in two loses and shares none: the two conditions
\* of the $group are each other's negation, the ends of days meet.
EveryResponseCountsOnce ==
  \A a \in Api : \A r \in Ranges : \A m \in r[1] .. r[2] :
    LET S == In(a, r[1], r[2])
        whole == Report(a, r[1], r[2])
        left == Report(a, r[1], m)
        right == IF m = r[2] THEN Empty ELSE Report(a, m + 1, r[2])
    IN /\ Cardinality(Succeeded(S)) + whole.failedRequests = whole.totalRequests
       /\ left.totalRequests + right.totalRequests = whole.totalRequests
       /\ left.failedRequests + right.failedRequests = whole.failedRequests

\* What findApiResponses and computeMetrics say of a day does not conflict:
\* an outage on the board, under any choice MongoDB makes, is a failure in
\* every report whose range has the day, and its uptime is not 100.  (The two
\* digits hide a single failure among more than 20 000 responses only.)
OutageIsReported ==
  \A a \in Api : \A r \in Ranges : \A d \in r[1] .. r[2] :
    Failed(Selected(a, d, Day(now))) # {} =>
      LET report == Report(a, r[1], r[2])
      IN report.failedRequests > 0 /\ report.uptimePercentage < 10000

\* Once a range is over and what was under way has arrived, its report stays
\* as it is: the moment MetricsCache counts on when it keeps an entry long.
ReportsSettle ==
  [][\A a \in Api : \A r \in Ranges :
       now > (r[2] + 1) * DayLength - 1 + Lag
         => Report(a, r[1], r[2])' = Report(a, r[1], r[2])]_vars

\* The times of a report agree, although $min leaves out the successes of 0 ms
\* and $avg does not: neither the shortest nor the average is above the
\* longest, and the shortest is above the average by no more than the share of
\* those successes (and half of the last digit) accounts for.
TimesAgree ==
  \A a \in Api : \A r \in Ranges :
    LET t == Report(a, r[1], r[2])
        succeeded == Succeeded(In(a, r[1], r[2]))
        timed == {i \in succeeded : responses[i].responsetime > 0}
    IN /\ t.minResponseTime <= t.maxResponseTime
       /\ t.averageResponseTime <= 100 * t.maxResponseTime
       /\ 200 * t.minResponseTime * Cardinality(timed)
            <= (2 * t.averageResponseTime + 1) * Cardinality(succeeded)

\* The downtime of a report is at most its failures and, per day of the range,
\* a tenth of a day; a longer range has no less of it.
DowntimeIsBounded ==
  \A a \in Api : \A r \in Ranges :
    LET t == Report(a, r[1], r[2]) IN
      /\ t.totalDowntime <= t.failedRequests
      /\ 10 * t.totalDowntime <= (r[2] - r[1]) * DayMinutes
      /\ \A e \in r[1] .. r[2] :
           Report(a, r[1], e).totalDowntime <= t.totalDowntime

\* "Limit to max 1 year range": an accepted range spans a year at most, and
\* the day more that its last day adds only when the clock shows midnight.
RangeFitsAYear ==
  \A r \in Ranges :
    r[2] - r[1] < Year \/ (r[2] - r[1] = Year /\ now = r[2] * DayLength)

\* process_jobs.go:56, "if unauthorized, it means the api is still active": what
\* the worker stores as a success for that reason does not lower the uptime.
ActiveIsNotFailed ==
  \A i \in DOMAIN responses :
    responses[i].success => i \notin FailedRequests(DOMAIN responses)
=============================================================================
