---------------------------- MODULE MCRateLimit ----------------------------
(* Values of the constants of RateLimit for TLC. *)
EXTENDS RateLimit, TLC

CONSTANTS g, a, r1, r2, r3, l1, l2

\* One address: its global key and its key for /auth/login.
TwoKeys == {g, a}
Costs == (g :> 1) @@ (a :> 2)
Fulls == (g :> 2) @@ (a :> 4)
Routes == {<<g>>, <<g, a>>}
ThreeRequests == {r1, r2, r3}
TwoLimiters == {l1, l2}

Symmetry == Permutations(ThreeRequests) \cup Permutations(TwoLimiters)

=============================================================================
