--------------------------- MODULE MCLeaderboard ---------------------------
(* Values of the constants of Leaderboard for TLC. *)
EXTENDS Leaderboard

\* Ids as BIGSERIAL hands them out.
ThreeUsers == 1 .. 3

\* 0 is a rating the clamp produces and also what a missing cursor parses to.
ThreeRatings == 0 .. 2

=============================================================================
