--------------------------- MODULE MCStatusBoard ---------------------------
(* TLC instances of StatusBoard.                                           *)
EXTENDS StatusBoard, TLC

CONSTANTS a1, a2

OneApi == {a1}
TwoApis == {a1, a2}

\* One code for success beside NoAnswer; times are of no matter to the board.
OneCode == {200}
NoTime == {0}

ApiSymmetry == Permutations(Api)
=============================================================================
