--------------------------- MODULE MCRequestGate ---------------------------
(* TLC instances of RequestGate.                                           *)
EXTENDS RequestGate, TLC

CONSTANTS e1, e2, b1, q1

TwoEmails == {e1, e2}
OneBiz == {b1}
OneReq == {q1}

AllRoutes == DOMAIN Required \union Excluded

EmailSymmetry == Permutations(TwoEmails)
=============================================================================
