---------------------------- MODULE MCMembership ----------------------------
(* TLC instances of Membership.                                            *)
EXTENDS Membership, TLC

CONSTANTS e1, e2, b1, b2, q1, q2

MCEmail == {e1, e2}
TwoBiz == {b1, b2}
TwoReq == {q1, q2}
OneBiz == {b1}
OneReq == {q1}

RaceSymmetry == Permutations(TwoReq) \union Permutations(MCEmail)
=============================================================================
