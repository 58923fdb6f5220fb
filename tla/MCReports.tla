----------------------------- MODULE MCReports -----------------------------
(* TLC instances of Reports.                                               *)
EXTENDS Reports

CONSTANTS a1

OneApi == {a1}

\* A success, and the first code that is one for the worker only.
TwoCodes == {200, 300}
TwoTimes == {0, 5}

Unauthorized == {401}
OneTime == {5}
=============================================================================
