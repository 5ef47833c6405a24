--------------------------- MODULE MCConnection ---------------------------
(* A small instance of Connection: requests and answers of one to three      *)
(* pieces, so that either may be cut in the middle.                         *)
EXTENDS Connection

CONSTANTS login, puzzle

AskSizes == (login :> 2) @@ (puzzle :> 1)
AnswerSizes == (login :> 1) @@ (puzzle :> 3)
=============================================================================
