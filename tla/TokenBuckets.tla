---------------------------- MODULE TokenBuckets ----------------------------
(***************************************************************************)
(* What a rate limiter promises: every key has a bucket, for ever, that    *)
(* fills as time passes and from which each request that passes takes a    *)
(* token.  A request is refused only when there is no token.               *)
(*                                                                         *)
(* Contents are counted in the ticks it takes to fill them: a token of key *)
(* k is worth Cost[k] ticks (1 / rate), a full bucket Full[k].             *)
(***************************************************************************)
EXTENDS Integers

CONSTANTS Keys, Cost, Full

VARIABLES
    level,   \* what is in the bucket of each key
    passed,  \* number of requests each key has let through
    refused  \* number of requests it has refused

vars == <<level, passed, refused>>

Init ==
    /\ level = Full
    /\ passed = [k \in Keys |-> 0]
    /\ refused = [k \in Keys |-> 0]

Fill ==
    /\ level' = [k \in Keys |-> IF level[k] < Full[k] THEN level[k] + 1 ELSE Full[k]]
    /\ UNCHANGED <<passed, refused>>

Pass(k) ==
    /\ level[k] >= Cost[k]
    /\ level' = [level EXCEPT ![k] = @ - Cost[k]]
    /\ passed' = [passed EXCEPT ![k] = @ + 1]
    /\ UNCHANGED refused

Refuse(k) ==
    /\ level[k] < Cost[k]
    /\ refused' = [refused EXCEPT ![k] = @ + 1]
    /\ UNCHANGED <<level, passed>>

Next == Fill \/ \E k \in Keys : Pass(k) \/ Refuse(k)

Spec == Init /\ [][Next]_vars

=============================================================================
