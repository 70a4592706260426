---------------------------- MODULE MCQuizClient ----------------------------
(* QuizClient for TLC: its constants are numbers, given in the .cfg files. *)
EXTENDS QuizClient

=============================================================================
