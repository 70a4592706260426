----------------------------- MODULE RateLimit -----------------------------
(***************************************************************************)
(* The rate limiter (middleware/ratelimit.go): a map of token buckets by   *)
(* key, behind one mutex, in front of every route.                         *)
(*                                                                         *)
(* A request gets the limiter of its key under the mutex and calls Allow   *)
(* on it after the mutex is released.  A goroutine deletes entries nobody  *)
(* has asked for in a while; the limiter of a deleted entry lives on as    *)
(* long as a request holds it, and the next request gets a new, full one.  *)
(* /auth/login and /auth/register pass two middlewares: the global one,    *)
(* then one of their own, each with its key.                               *)
(*                                                                         *)
(* The limiter itself (golang.org/x/time/rate) is external: Allow adds     *)
(* what has accrued since its last success, up to the burst, and takes a   *)
(* token if there is one.  Contents are counted in ticks, as in            *)
(* TokenBuckets; of one tick's length it is only assumed that it divides   *)
(* the times involved.                                                     *)
(***************************************************************************)
EXTENDS Integers, Sequences, FiniteSets

CONSTANTS
    Keys,      \* "global:<ip>" and "auth:<path>:<ip>"
    Cost,      \* [Keys -> ticks it takes to accrue a token]: 1 / rps
    Full,      \* [Keys -> ticks it takes to fill a bucket]: burst / rps
    IdleTime,  \* an entry idle for longer is deleted (10 minutes)
    MaxStall,  \* longest time a request is held up before Allow, see Tick
    Requests,  \* the requests considered
    Chains,    \* the keys a request must pass, in order, by route
    Limiters,  \* addresses of limiters
    MaxTime,   \* bound: the last tick considered
    NoEntry, NoLimiter

ASSUME CostAssumption ==
    /\ Cost \in [Keys -> Nat \ {0}]
    /\ Full \in [Keys -> Nat]
    /\ \A k \in Keys : Cost[k] =< Full[k]

\* An idle entry has long been full: 10 minutes against 1 and 5 seconds.
ASSUME IdleAssumption ==
    /\ IdleTime \in Nat /\ MaxStall \in Nat
    /\ \A k \in Keys : Full[k] + MaxStall =< IdleTime + 1

ASSUME ChainsAssumption == Chains \subseteq Seq(Keys)

ASSUME MaxTimeAssumption == MaxTime \in Nat

VARIABLES
    now,      \* the clock
    limiters, \* the map: limiter and last use of each key, or NoEntry
    bucket,   \* the state of each limiter, NoLimiter if the address is free
    held,     \* what getLimiter returned to each request, until it calls Allow
    todo,     \* the keys each request has still to pass
    \* History variables: no action reads them.
    passed,   \* [Keys -> number of requests let through]
    refused,  \* [Keys -> number of requests refused with 429]
    since,    \* when the observed window of time was opened
    spent     \* ticks' worth of tokens each key has taken in it

counts == <<passed, refused>>
window == <<since, spent>>
vars == <<now, limiters, bucket, held, todo, counts, window>>

Times == 0 .. MaxTime

Bucket == [content : Nat, last : Times]

Entry == [limiter : Limiters, lastSeen : Times]

Held == [key : Keys, limiter : Limiters, got : Times]

ASSUME NullAssumption ==
    NoLimiter \notin Bucket \cup Held /\ NoEntry \notin Entry

TypeOK ==
    /\ now \in Times
    /\ limiters \in [Keys -> Entry \cup {NoEntry}]
    /\ bucket \in [Limiters -> Bucket \cup {NoLimiter}]
    /\ held \in [Requests -> Held \cup {NoLimiter}]
    /\ todo \in [Requests -> Seq(Keys)]
    /\ passed \in [Keys -> Nat]
    /\ refused \in [Keys -> Nat]
    /\ since \in Times
    /\ spent \in [Keys -> Nat]

Init ==
    /\ now = 0
    /\ limiters = [k \in Keys |-> NoEntry]
    /\ bucket = [l \in Limiters |-> NoLimiter]
    /\ held = [r \in Requests |-> NoLimiter]
    /\ todo \in [Requests -> Chains]
    /\ passed = [k \in Keys |-> 0]
    /\ refused = [k \in Keys |-> 0]
    /\ since = 0
    /\ spent = [k \in Keys |-> 0]

-----------------------------------------------------------------------------
(* golang.org/x/time/rate *)

\* What limiter state b of a key k amounts to at time t.
Content(b, k, t) ==
    IF b.content + (t - b.last) < Full[k] THEN b.content + (t - b.last) ELSE Full[k]

NewLimiter(k) == [content |-> Full[k], last |-> now]

-----------------------------------------------------------------------------
(* middleware/ratelimit.go *)

\* lastSeen is only set when the entry is made.
GetLimiterNotSeen(r) ==
    /\ todo[r] # <<>>
    /\ held[r] = NoLimiter
    /\ LET k == Head(todo[r])
       IN  \E l \in Limiters :
              /\ IF limiters[k] = NoEntry
                 THEN /\ bucket[l] = NoLimiter
                      /\ bucket' = [bucket EXCEPT ![l] = NewLimiter(k)]
                      /\ limiters' = [limiters EXCEPT ![k] = [limiter |-> l, lastSeen |-> now]]
                 ELSE l = limiters[k].limiter /\ UNCHANGED <<bucket, limiters>>
              /\ held' = [held EXCEPT ![r] = [key |-> k, limiter |-> l, got |-> now]]
    /\ UNCHANGED <<now, todo, counts, window>>

\* getLimiter, under mu; the limiter it returns is used after mu is released.
GetLimiter(r) ==
    /\ todo[r] # <<>>
    /\ held[r] = NoLimiter
    /\ LET k == Head(todo[r])
       IN  \E l \in Limiters :
              /\ IF limiters[k] = NoEntry
                 THEN /\ bucket[l] = NoLimiter
                      /\ bucket' = [bucket EXCEPT ![l] = NewLimiter(k)]
                 ELSE l = limiters[k].limiter /\ UNCHANGED bucket
              /\ limiters' = [limiters EXCEPT ![k] = [limiter |-> l, lastSeen |-> now]]
              /\ held' = [held EXCEPT ![r] = [key |-> k, limiter |-> l, got |-> now]]
    /\ UNCHANGED <<now, todo, counts, window>>

HasPartOfToken(b, k) == Content(b, k, now) > 0

HasToken(b, k) == Content(b, k, now) >= Cost[k]

\* What has accrued is stored with the time it was computed for.
TakeToken(k, l) ==
    /\ bucket' = [bucket EXCEPT ![l] =
                    [content |-> Content(@, k, now) - Cost[k], last |-> now]]
    /\ passed' = [passed EXCEPT ![k] = @ + 1]
    /\ spent' = [spent EXCEPT ![k] = @ + Cost[k]]

\* Allow, and c.Next() or 429.  A request refused by its second limiter keeps
\* the token of the first one spent.
Allow(r) ==
    /\ held[r] # NoLimiter
    /\ LET k == held[r].key
           l == held[r].limiter
       IN  IF HasToken(bucket[l], k)
           THEN /\ TakeToken(k, l)
                /\ todo' = [todo EXCEPT ![r] = Tail(@)]
                /\ UNCHANGED refused
           ELSE /\ refused' = [refused EXCEPT ![k] = @ + 1]
                /\ todo' = [todo EXCEPT ![r] = <<>>]
                /\ UNCHANGED <<bucket, passed, spent>>
    /\ held' = [held EXCEPT ![r] = NoLimiter]
    /\ UNCHANGED <<now, limiters, since>>

IdleSooner(k) == limiters[k] # NoEntry /\ now - limiters[k].lastSeen >= Cost[k]

Idle(k) == limiters[k] # NoEntry /\ now - limiters[k].lastSeen > IdleTime

\* One round of a cleanup goroutine, under mu.  Each of the middlewares starts
\* one, all over the same map; when their tickers fire is left open.
Cleanup ==
    /\ \E k \in Keys : Idle(k)
    /\ limiters' = [k \in Keys |-> IF Idle(k) THEN NoEntry ELSE limiters[k]]
    /\ bucket' = [l \in Limiters |->
                    IF /\ \E k \in Keys : Idle(k) /\ limiters[k].limiter = l
                       /\ \A r \in Requests : held[r] # NoLimiter => held[r].limiter # l
                    THEN NoLimiter ELSE bucket[l]]
    /\ UNCHANGED <<now, held, todo, counts, window>>

-----------------------------------------------------------------------------

\* Time passes, but a request that has its limiter is not held up for more
\* than MaxStall ticks before it calls Allow, two lines further on.
Tick ==
    /\ now < MaxTime
    /\ \A r \in Requests : held[r] # NoLimiter => now < held[r].got + MaxStall
    /\ now' = now + 1
    /\ UNCHANGED <<limiters, bucket, held, todo, counts, window>>

\* Somebody starts to watch: a step of the history variables only.
OpenWindow ==
    /\ since' = now
    /\ spent' = [k \in Keys |-> 0]
    /\ UNCHANGED <<now, limiters, bucket, held, todo, counts>>

Next ==
    \/ \E r \in Requests : GetLimiter(r) \/ Allow(r)
    \/ Cleanup
    \/ Tick
    \/ OpenWindow

Spec == Init /\ [][Next]_vars

-----------------------------------------------------------------------------
(* Properties *)

\* In no window of time does a key let through more than a full bucket and
\* what accrues during the window, although the limiter of the key may be
\* forgotten and replaced by a full one in it (ratelimit.go:39-62).
NoMoreThanBurstAndRate ==
    \A k \in Keys : spent[k] =< Full[k] + (now - since)

\* What a limiter that forgets nothing would hold for each key.
Level == [k \in Keys |->
            IF limiters[k] = NoEntry THEN Full[k]
            ELSE Content(bucket[limiters[k].limiter], k, now)]

Buckets == INSTANCE TokenBuckets WITH level <- Level

\* Deleting idle entries cannot be noticed: requests pass and are refused as
\* by buckets that exist for ever, so that in particular nobody is refused
\* who has a token (ratelimit.go:54-65).
BucketsAreRemembered == Buckets!Init /\ [][Buckets!Next]_<<Level, passed, refused>>

\* A request only ever uses the limiter the map has for its key: two limiters
\* of one key never let requests through side by side (ratelimit.go:39).
OneLimiterPerKey ==
    \A r \in Requests : held[r] # NoLimiter =>
        /\ limiters[held[r].key] # NoEntry
        /\ limiters[held[r].key].limiter = held[r].limiter
        /\ bucket[held[r].limiter] # NoLimiter

=============================================================================
