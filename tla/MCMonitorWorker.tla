-------------------------- MODULE MCMonitorWorker --------------------------
(* TLC instances of MonitorWorker.                                         *)
EXTENDS MonitorWorker, TLC

CONSTANTS a1, a2, bad, r1, r2

OneRun == {r1}
TwoRuns == {r1, r2}

\* A document that decodes beside one that does not.
GoodAndBad == {a1, bad}
OneBad == {bad}

\* Two goroutines in a run.
TwoGood == {a1, a2}
NoneBad == {}

\* An answer that counts as a success; NoAnswer is always possible.
OneCode == {200}

OverlapSymmetry == Permutations(TwoGood) \union Permutations(TwoRuns)
=============================================================================
