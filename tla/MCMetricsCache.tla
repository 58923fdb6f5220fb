--------------------------- MODULE MCMetricsCache ---------------------------
(* TLC instances of MetricsCache.                                          *)
EXTENDS MetricsCache

CONSTANTS api1, s1, q1, q2

OneApi == {api1}
OneStart == {s1}
TwoReqs == {q1, q2}
=============================================================================
