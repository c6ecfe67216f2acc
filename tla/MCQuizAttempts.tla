--------------------------- MODULE MCQuizAttempts ---------------------------
(* Small instance of QuizAttempts for TLC. *)
EXTENDS QuizAttempts
=============================================================================
