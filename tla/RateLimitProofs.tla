-------------------------- MODULE RateLimitProofs --------------------------
(* Forgetting idle limiters cannot be noticed, for any keys, rates, bursts  *)
(* and routes, as long as an entry is kept until its bucket is surely full. *)
EXTENDS RateLimit, TLAPS

\* The limiters of the map: one for each key, with what is known of when it
\* was last used.  A token is taken at most MaxStall after lastSeen.
MapInv ==
    \A k \in Keys : limiters[k] # NoEntry =>
        /\ bucket[limiters[k].limiter] # NoLimiter
        /\ bucket[limiters[k].limiter].content =< Full[k]
        /\ bucket[limiters[k].limiter].last =< now
        /\ bucket[limiters[k].limiter].last =< limiters[k].lastSeen + MaxStall
        /\ limiters[k].lastSeen =< now
        /\ \A other \in Keys \ {k} : limiters[other] # NoEntry =>
              limiters[other].limiter # limiters[k].limiter

\* A request that holds a limiter got it a short while ago.
HeldInv ==
    \A r \in Requests : held[r] # NoLimiter =>
        /\ limiters[held[r].key] # NoEntry
        /\ limiters[held[r].key].limiter = held[r].limiter
        /\ held[r].got =< limiters[held[r].key].lastSeen
        /\ now =< held[r].got + MaxStall
        /\ todo[r] # <<>>

WindowInv ==
    /\ since =< now
    /\ \A k \in Keys : spent[k] + Level[k] =< Full[k] + (now - since)

Inv == TypeOK /\ MapInv /\ HeldInv /\ WindowInv

LEMMA Constants ==
    /\ \A k \in Keys : /\ Cost[k] \in Int /\ 0 < Cost[k] /\ Cost[k] =< Full[k]
                       /\ Full[k] \in Int /\ 0 =< Full[k]
                       /\ Full[k] + MaxStall =< IdleTime + 1
    /\ IdleTime \in Int /\ MaxStall \in Int /\ 0 =< MaxStall
    /\ MaxTime \in Int
    /\ \A t \in Times : t \in Int /\ 0 =< t /\ t =< MaxTime
  BY CostAssumption, IdleAssumption, MaxTimeAssumption DEF Times

LEMMA EntryType ==
    ASSUME TypeOK, NEW k \in Keys, limiters[k] # NoEntry
    PROVE  /\ limiters[k] \in Entry
           /\ limiters[k].limiter \in Limiters
           /\ limiters[k].lastSeen \in Int
  BY Constants DEF TypeOK, Entry

LEMMA BucketType ==
    ASSUME TypeOK, NEW l \in Limiters, bucket[l] # NoLimiter
    PROVE  /\ bucket[l] \in Bucket
           /\ bucket[l].content \in Int /\ 0 =< bucket[l].content
           /\ bucket[l].last \in Int
  BY Constants DEF TypeOK, Bucket

LEMMA HeldType ==
    ASSUME TypeOK, NEW r \in Requests, held[r] # NoLimiter
    PROVE  /\ held[r] \in Held
           /\ held[r].key \in Keys /\ held[r].limiter \in Limiters
           /\ held[r].got \in Times /\ held[r].got \in Int
  BY Constants DEF TypeOK, Held

LEMMA Clock == TypeOK => now \in Int /\ 0 =< now /\ now =< MaxTime /\ since \in Int
  BY Constants DEF TypeOK

\* What a limiter holds, as a number between nothing and a full bucket.
LEMMA ContentBounds ==
    ASSUME TypeOK, MapInv, NEW k \in Keys, limiters[k] # NoEntry
    PROVE  LET b == bucket[limiters[k].limiter]
           IN  /\ Content(b, k, now) \in Int
               /\ 0 =< Content(b, k, now) /\ Content(b, k, now) =< Full[k]
               /\ b.content + (now - b.last) < Full[k] =>
                     Content(b, k, now) = b.content + (now - b.last)
  <1> DEFINE b == bucket[limiters[k].limiter]
  <1>1. /\ b.content \in Int /\ 0 =< b.content /\ b.last \in Int /\ b.last =< now
    BY EntryType, BucketType DEF MapInv
  <1>2. now \in Int /\ Full[k] \in Int /\ 0 =< Full[k]
    BY Clock, Constants
  <1> QED
    BY <1>1, <1>2 DEF Content

LEMMA LevelBounds ==
    ASSUME TypeOK, MapInv, NEW k \in Keys
    PROVE  /\ Level[k] \in Int /\ 0 =< Level[k] /\ Level[k] =< Full[k]
           /\ limiters[k] = NoEntry => Level[k] = Full[k]
           /\ limiters[k] # NoEntry =>
                 Level[k] = Content(bucket[limiters[k].limiter], k, now)
  <1>1. /\ limiters[k] = NoEntry => Level[k] = Full[k]
        /\ limiters[k] # NoEntry => Level[k] = Content(bucket[limiters[k].limiter], k, now)
    BY DEF Level
  <1> QED
    BY <1>1, ContentBounds, Constants

\* The heart of the matter: an entry that is deleted is that of a full bucket.
LEMMA IdleIsFull ==
    ASSUME TypeOK, MapInv, NEW k \in Keys, Idle(k)
    PROVE  Level[k] = Full[k]
  <1> DEFINE b == bucket[limiters[k].limiter]
  <1>1. limiters[k] # NoEntry /\ now - limiters[k].lastSeen > IdleTime
    BY DEF Idle
  <1>2. /\ b.content \in Int /\ 0 =< b.content /\ b.last \in Int
        /\ b.last =< limiters[k].lastSeen + MaxStall /\ limiters[k].lastSeen \in Int
    BY <1>1, EntryType, BucketType DEF MapInv
  <1>3. Full[k] + MaxStall =< IdleTime + 1 /\ Full[k] \in Int /\ IdleTime \in Int
        /\ MaxStall \in Int /\ now \in Int
    BY Constants, Clock
  <1>4. ~ (b.content + (now - b.last) < Full[k])
    BY <1>1, <1>2, <1>3
  <1> QED
    BY <1>1, <1>4, LevelBounds DEF Content

\* The mapped state agrees key by key.
LEMMA LevelByKey ==
    ASSUME \A k \in Keys : Level'[k] = Level[k]
    PROVE  Level' = Level
  BY DEF Level

-----------------------------------------------------------------------------
(* The steps *)

LEMMA InvInit == Init => Inv /\ Buckets!Init
  <1> SUFFICES ASSUME Init PROVE Inv /\ Buckets!Init
    OBVIOUS
  <1>1. TypeOK
    BY ChainsAssumption, MaxTimeAssumption DEF Init, TypeOK, Times
  <1>2. MapInv /\ HeldInv
    BY DEF Init, MapInv, HeldInv
  <1>3. \A k \in Keys : Level[k] = Full[k]
    BY DEF Init, Level
  <1>4. WindowInv
    BY <1>3, Constants DEF Init, WindowInv
  <1>5. Level = Full
    BY <1>3, CostAssumption DEF Level
  <1> QED
    BY <1>1, <1>2, <1>4, <1>5 DEF Inv, Buckets!Init, Init

\* A key that has no entry gets a full limiter, which it had in effect.
LEMMA GetLimiterStep ==
    ASSUME Inv, NEW r \in Requests, GetLimiter(r)
    PROVE  Inv' /\ UNCHANGED <<Level, passed, refused>>
  <1> USE DEF Inv
  <1> DEFINE k == Head(todo[r])
  <1>1. k \in Keys /\ held[r] = NoLimiter
    BY DEF GetLimiter, TypeOK
  <1>2. PICK l \in Limiters :
           /\ IF limiters[k] = NoEntry
              THEN /\ bucket[l] = NoLimiter
                   /\ bucket' = [bucket EXCEPT ![l] = NewLimiter(k)]
              ELSE l = limiters[k].limiter /\ UNCHANGED bucket
           /\ limiters' = [limiters EXCEPT ![k] = [limiter |-> l, lastSeen |-> now]]
           /\ held' = [held EXCEPT ![r] = [key |-> k, limiter |-> l, got |-> now]]
    BY DEF GetLimiter
  <1>3. UNCHANGED <<now, todo, passed, refused, since, spent>>
    BY DEF GetLimiter, counts, window
  <1>4. /\ now \in Times /\ now \in Int /\ Full[k] \in Nat /\ Full[k] \in Int
        /\ MaxStall \in Int /\ 0 =< MaxStall
    BY <1>1, Clock, Constants, CostAssumption DEF TypeOK
  <1> DEFINE e == [limiter |-> l, lastSeen |-> now]
             h == [key |-> k, limiter |-> l, got |-> now]
             b == [content |-> Full[k], last |-> now]
  <1>5. /\ e \in Entry /\ e # NoEntry /\ e.limiter = l /\ e.lastSeen = now
        /\ h \in Held /\ h # NoLimiter /\ h.key = k /\ h.limiter = l /\ h.got = now
        /\ b \in Bucket /\ b # NoLimiter /\ b.content = Full[k] /\ b.last = now
    BY <1>1, <1>4, NullAssumption DEF Entry, Held, Bucket
  <1>6. /\ limiters'[k] = e /\ \A other \in Keys \ {k} : limiters'[other] = limiters[other]
        /\ held'[r] = h /\ \A q \in Requests \ {r} : held'[q] = held[q]
    BY <1>1, <1>2 DEF TypeOK
  <1>7. TypeOK'
    BY <1>2, <1>3, <1>5 DEF TypeOK, NewLimiter
  \* The addresses the other keys have are not l.
  <1>8. \A other \in Keys \ {k} : limiters[other] # NoEntry =>
           /\ limiters[other].limiter # l
           /\ limiters[other].limiter \in Limiters
           /\ bucket'[limiters[other].limiter] = bucket[limiters[other].limiter]
    <2> SUFFICES ASSUME NEW other \in Keys \ {k}, limiters[other] # NoEntry
                 PROVE  /\ limiters[other].limiter # l
                        /\ limiters[other].limiter \in Limiters
                        /\ bucket'[limiters[other].limiter] = bucket[limiters[other].limiter]
      OBVIOUS
    <2>1. limiters[other].limiter \in Limiters
      BY EntryType
    <2>2. CASE limiters[k] = NoEntry
      BY <1>2, <2>1, <2>2 DEF MapInv, TypeOK
    <2>3. CASE limiters[k] # NoEntry
      BY <1>1, <1>2, <2>1, <2>3 DEF MapInv
    <2> QED
      BY <2>2, <2>3
  <1>9. /\ bucket'[l] # NoLimiter /\ bucket'[l].content =< Full[k]
        /\ bucket'[l].last =< now
        /\ Content(bucket'[l], k, now) = Level[k]
    <2>1. CASE limiters[k] = NoEntry
      <3>1. bucket'[l] = b /\ Level[k] = Full[k]
        BY <1>1, <1>2, <2>1, LevelBounds DEF TypeOK, NewLimiter
      <3> QED
        BY <1>4, <1>5, <3>1 DEF Content
    <2>2. CASE limiters[k] # NoEntry
      <3>1. bucket'[l] = bucket[limiters[k].limiter] /\ l = limiters[k].limiter
        BY <1>2, <2>2
      <3> QED
        BY <1>1, <2>2, <3>1, LevelBounds DEF MapInv
    <2> QED
      BY <2>1, <2>2
  <1>10. MapInv'
    <2> SUFFICES ASSUME NEW j \in Keys, limiters'[j] # NoEntry
                 PROVE  /\ bucket'[limiters'[j].limiter] # NoLimiter
                        /\ bucket'[limiters'[j].limiter].content =< Full[j]
                        /\ bucket'[limiters'[j].limiter].last =< now
                        /\ bucket'[limiters'[j].limiter].last =< limiters'[j].lastSeen + MaxStall
                        /\ limiters'[j].lastSeen =< now
                        /\ \A other \in Keys \ {j} : limiters'[other] # NoEntry =>
                              limiters'[other].limiter # limiters'[j].limiter
      BY <1>3 DEF MapInv
    <2>1. \A other \in Keys \ {j} : limiters'[other] # NoEntry =>
             limiters'[other].limiter # limiters'[j].limiter
      BY <1>5, <1>6, <1>8 DEF MapInv
    <2>2. CASE j = k
      <3>1. bucket'[l].last \in Int
        BY <1>2, <1>7, <1>9 DEF TypeOK, Bucket, Times
      <3> QED
        BY <1>4, <1>5, <1>6, <1>9, <2>1, <2>2, <3>1
    <2>3. CASE j # k
      BY <1>6, <1>8, <2>1, <2>3 DEF MapInv
    <2> QED
      BY <2>2, <2>3
  <1>11. HeldInv'
    <2> SUFFICES ASSUME NEW q \in Requests, held'[q] # NoLimiter
                 PROVE  /\ limiters'[held'[q].key] # NoEntry
                        /\ limiters'[held'[q].key].limiter = held'[q].limiter
                        /\ held'[q].got =< limiters'[held'[q].key].lastSeen
                        /\ now =< held'[q].got + MaxStall
                        /\ todo[q] # <<>>
      BY <1>3 DEF HeldInv
    <2>1. CASE q = r
      BY <1>4, <1>5, <1>6, <2>1 DEF GetLimiter
    <2>2. CASE q # r
      <3>1. /\ held'[q] = held[q] /\ held[q].key \in Keys /\ held[q].got \in Int
            /\ held[q].got =< now
        <4>1. held'[q] = held[q]
          BY <1>6, <2>2
        <4>2. /\ held[q].key \in Keys /\ held[q].got \in Int
              /\ held[q].got =< limiters[held[q].key].lastSeen
              /\ limiters[held[q].key] # NoEntry
          BY <4>1, HeldType DEF HeldInv
        <4>3. limiters[held[q].key].lastSeen =< now /\ limiters[held[q].key].lastSeen \in Int
          BY <4>2, EntryType DEF MapInv
        <4> QED
          BY <1>4, <4>1, <4>2, <4>3
      <3>2. CASE held[q].key = k
        <4>1. limiters[k] # NoEntry /\ limiters[k].limiter = held[q].limiter
          BY <3>1, <3>2 DEF HeldInv
        <4> QED
          BY <1>2, <1>5, <1>6, <3>1, <3>2, <4>1 DEF HeldInv
      <3>3. CASE held[q].key # k
        BY <1>6, <3>1, <3>3 DEF HeldInv
      <3> QED
        BY <3>2, <3>3
    <2> QED
      BY <2>1, <2>2
  <1>12. \A j \in Keys : Level'[j] = Level[j]
    <2> SUFFICES ASSUME NEW j \in Keys PROVE Level'[j] = Level[j]
      OBVIOUS
    <2>1. CASE j = k
      <3>1. Level'[j] = Content(bucket'[l], k, now)
        BY <1>3, <1>5, <1>6, <2>1 DEF Level, Content
      <3> QED
        BY <1>9, <2>1, <3>1
    <2>2. CASE j # k
      BY <1>3, <1>6, <1>8, <2>2 DEF Level, Content
    <2> QED
      BY <2>1, <2>2
  <1>13. WindowInv'
    BY <1>3, <1>12 DEF WindowInv
  <1> QED
    BY <1>3, <1>7, <1>10, <1>11, <1>12, <1>13, LevelByKey

\* A token is taken from the bucket of the key, or there is none.
LEMMA AllowStep ==
    ASSUME Inv, NEW r \in Requests, Allow(r)
    PROVE  Inv' /\ [Buckets!Next]_<<Level, passed, refused>>
  <1> USE DEF Inv
  <1> DEFINE k == held[r].key
             l == held[r].limiter
             c == Content(bucket[l], k, now)
  <1>1. /\ held[r] # NoLimiter /\ k \in Keys /\ l \in Limiters
        /\ limiters[k] # NoEntry /\ limiters[k].limiter = l
        /\ held[r].got =< limiters[k].lastSeen /\ now =< held[r].got + MaxStall
        /\ held[r].got \in Int /\ limiters[k].lastSeen \in Int
    BY HeldType, EntryType DEF Allow, HeldInv
  <1>2. /\ Level[k] = c /\ c \in Int /\ 0 =< c /\ c =< Full[k]
    BY <1>1, LevelBounds
  <1>3. /\ now \in Int /\ now \in Times /\ Cost[k] \in Int /\ 0 < Cost[k] /\ Full[k] \in Int
        /\ MaxStall \in Int
    BY <1>1, Clock, Constants DEF TypeOK
  <1>4. /\ UNCHANGED <<now, limiters, since>>
        /\ held' = [held EXCEPT ![r] = NoLimiter]
    BY DEF Allow
  <1>5. HeldInv'
    <2>1. \A q \in Requests : held'[q] # NoLimiter => held'[q] = held[q] /\ q # r
      BY <1>4 DEF TypeOK
    <2>2. \A q \in Requests \ {r} : todo'[q] = todo[q]
      BY DEF Allow, TypeOK
    <2> QED
      BY <1>4, <2>1, <2>2 DEF HeldInv
  <1>6. held' \in [Requests -> Held \cup {NoLimiter}]
    BY <1>4 DEF TypeOK
  <1>7. CASE HasToken(bucket[l], k)
    <2> DEFINE b == [content |-> c - Cost[k], last |-> now]
    <2>1. /\ bucket' = [bucket EXCEPT ![l] = b]
          /\ passed' = [passed EXCEPT ![k] = @ + 1]
          /\ spent' = [spent EXCEPT ![k] = @ + Cost[k]]
          /\ todo' = [todo EXCEPT ![r] = Tail(@)]
          /\ UNCHANGED refused
      BY <1>1, <1>7 DEF Allow, TakeToken, TypeOK
    <2>2. c >= Cost[k]
      BY <1>7 DEF HasToken
    <2>3. /\ b \in Bucket /\ b # NoLimiter /\ b.content = c - Cost[k] /\ b.last = now
      BY <1>2, <1>3, <2>2, NullAssumption DEF Bucket
    <2>4. /\ bucket'[l] = b /\ \A m \in Limiters \ {l} : bucket'[m] = bucket[m]
      BY <1>1, <2>1 DEF TypeOK
    <2>5. TypeOK'
      <3>1. passed' \in [Keys -> Nat] /\ spent' \in [Keys -> Nat]
        <4>1. Cost[k] \in Nat
          BY <1>1, CostAssumption
        <4>2. passed[k] + 1 \in Nat /\ spent[k] + Cost[k] \in Nat
          BY <1>1, <4>1 DEF TypeOK
        <4> QED
          BY <1>1, <2>1, <4>2 DEF TypeOK
      <3>2. todo[r] \in Seq(Keys) /\ todo[r] # <<>> => Tail(todo[r]) \in Seq(Keys)
        BY DEF TypeOK
      <3>3. Tail(todo[r]) \in Seq(Keys)
        BY <1>1, <3>2 DEF TypeOK, HeldInv
      <3>4. todo' \in [Requests -> Seq(Keys)]
        BY <2>1, <3>3 DEF TypeOK
      <3> QED
        BY <1>4, <1>6, <2>1, <2>3, <3>1, <3>4 DEF TypeOK
    <2>6. \A j \in Keys \ {k} : limiters[j] # NoEntry =>
             /\ limiters[j].limiter # l /\ limiters[j].limiter \in Limiters
             /\ bucket'[limiters[j].limiter] = bucket[limiters[j].limiter]
      BY <1>1, <2>4, EntryType DEF MapInv
    <2>7. MapInv'
      <3>1. /\ bucket'[l] # NoLimiter /\ bucket'[l].content =< Full[k]
            /\ bucket'[l].last =< now /\ bucket'[l].last =< limiters[k].lastSeen + MaxStall
        BY <1>1, <1>2, <1>3, <2>3, <2>4
      <3> QED
        BY <1>1, <1>4, <2>6, <3>1 DEF MapInv
    <2>8. /\ Level'[k] = Level[k] - Cost[k]
          /\ \A j \in Keys \ {k} : Level'[j] = Level[j]
      <3>1. Content(b, k, now) = c - Cost[k]
        BY <1>2, <1>3, <2>3 DEF Content
      <3>2. Level'[k] = Content(b, k, now)
        BY <1>1, <1>4, <2>4 DEF Level, Content
      <3>3. \A j \in Keys \ {k} : Level'[j] = Level[j]
        BY <1>4, <2>6 DEF Level, Content
      <3> QED
        BY <1>2, <3>1, <3>2, <3>3
    <2>9. WindowInv'
      <3>1. /\ spent'[k] = spent[k] + Cost[k] /\ spent[k] \in Int
            /\ \A j \in Keys \ {k} : spent'[j] = spent[j]
        BY <1>1, <2>1 DEF TypeOK
      <3>2. spent'[k] + Level'[k] = spent[k] + Level[k]
        BY <1>2, <1>3, <2>8, <3>1
      <3> QED
        BY <1>4, <2>8, <3>1, <3>2 DEF WindowInv
    <2>10. Level' = [Level EXCEPT ![k] = @ - Cost[k]]
      BY <1>1, <2>8 DEF Level
    <2>11. Buckets!Pass(k)
      BY <1>2, <2>1, <2>2, <2>10 DEF Buckets!Pass
    <2> QED
      BY <1>1, <1>5, <2>5, <2>7, <2>9, <2>11 DEF Buckets!Next
  <1>8. CASE ~ HasToken(bucket[l], k)
    <2>1. /\ refused' = [refused EXCEPT ![k] = @ + 1]
          /\ todo' = [todo EXCEPT ![r] = <<>>]
          /\ UNCHANGED <<bucket, passed, spent>>
      BY <1>8 DEF Allow
    <2>2. TypeOK'
      BY <1>1, <1>4, <1>6, <2>1 DEF TypeOK
    <2>3. MapInv' /\ Level' = Level
      BY <1>4, <2>1 DEF MapInv, Level, Content
    <2>4. WindowInv'
      BY <1>4, <2>1, <2>3 DEF WindowInv
    <2>5. Buckets!Refuse(k)
      BY <1>2, <1>3, <1>8, <2>1, <2>3 DEF Buckets!Refuse, HasToken
    <2> QED
      BY <1>1, <1>5, <2>2, <2>3, <2>4, <2>5 DEF Buckets!Next
  <1> QED
    BY <1>7, <1>8

\* Whatever is deleted is full, and nobody holds it.
LEMMA CleanupStep ==
    ASSUME Inv, Cleanup
    PROVE  Inv' /\ UNCHANGED <<Level, passed, refused>>
  <1> USE DEF Inv
  <1>1. /\ limiters' = [k \in Keys |-> IF Idle(k) THEN NoEntry ELSE limiters[k]]
        /\ UNCHANGED <<now, held, todo, passed, refused, since, spent>>
    BY DEF Cleanup, counts, window
  <1>2. \A l \in Limiters : bucket'[l] = bucket[l]
           \/ \E k \in Keys : Idle(k) /\ limiters[k].limiter = l
    BY DEF Cleanup
  <1>3. TypeOK'
    BY <1>1 DEF Cleanup, TypeOK
  <1>4. \A j \in Keys : limiters'[j] # NoEntry =>
           /\ limiters'[j] = limiters[j] /\ limiters[j] # NoEntry
           /\ limiters[j].limiter \in Limiters
           /\ bucket'[limiters[j].limiter] = bucket[limiters[j].limiter]
    <2> SUFFICES ASSUME NEW j \in Keys, limiters'[j] # NoEntry
                 PROVE  /\ limiters'[j] = limiters[j] /\ limiters[j] # NoEntry
                        /\ limiters[j].limiter \in Limiters
                        /\ bucket'[limiters[j].limiter] = bucket[limiters[j].limiter]
      OBVIOUS
    <2>1. ~ Idle(j) /\ limiters'[j] = limiters[j] /\ limiters[j] # NoEntry
      BY <1>1
    <2>2. limiters[j].limiter \in Limiters
      BY <2>1, EntryType
    <2>3. ~ \E k \in Keys : Idle(k) /\ limiters[k].limiter = limiters[j].limiter
      BY <2>1 DEF MapInv, Idle
    <2> QED
      BY <1>2, <2>1, <2>2, <2>3
  <1>5. MapInv'
    BY <1>1, <1>4 DEF MapInv
  <1>6. HeldInv'
    <2> SUFFICES ASSUME NEW r \in Requests, held[r] # NoLimiter
                 PROVE  ~ Idle(held[r].key) /\ held[r].key \in Keys
      BY <1>1 DEF HeldInv
    <2>1. /\ held[r].key \in Keys /\ held[r].got \in Int
          /\ held[r].got =< limiters[held[r].key].lastSeen
          /\ now =< held[r].got + MaxStall
          /\ limiters[held[r].key].lastSeen \in Int
      BY HeldType, EntryType DEF HeldInv
    <2>2. /\ now \in Int /\ MaxStall \in Int /\ IdleTime \in Int
          /\ 0 < Full[held[r].key] /\ Full[held[r].key] \in Int
          /\ Full[held[r].key] + MaxStall =< IdleTime + 1
      <3>1. /\ 0 < Cost[held[r].key] /\ Cost[held[r].key] =< Full[held[r].key]
            /\ Cost[held[r].key] \in Int /\ Full[held[r].key] \in Int
        BY <2>1, Constants
      <3> QED
        BY <2>1, <3>1, Clock, Constants
    <2> QED
      BY <2>1, <2>2 DEF Idle
  <1>7. \A k \in Keys : Level'[k] = Level[k]
    <2> SUFFICES ASSUME NEW k \in Keys PROVE Level'[k] = Level[k]
      OBVIOUS
    <2>1. CASE Idle(k)
      <3>1. Level'[k] = Full[k]
        BY <1>1, <2>1 DEF Level
      <3> QED
        BY <2>1, <3>1, IdleIsFull
    <2>2. CASE ~ Idle(k)
      BY <1>1, <1>4, <2>2 DEF Level, Content
    <2> QED
      BY <2>1, <2>2
  <1>8. WindowInv'
    BY <1>1, <1>7 DEF WindowInv
  <1> QED
    BY <1>1, <1>3, <1>5, <1>6, <1>7, <1>8, LevelByKey

\* Time fills the buckets.
LEMMA TickStep ==
    ASSUME Inv, Tick
    PROVE  Inv' /\ Buckets!Fill
  <1> USE DEF Inv
  <1>1. /\ now' = now + 1 /\ now < MaxTime
        /\ UNCHANGED <<limiters, bucket, held, todo, passed, refused, since, spent>>
        /\ now \in Int /\ since \in Int /\ MaxStall \in Int
    BY Clock, Constants DEF Tick, counts, window
  <1>2. TypeOK'
    <2>1. now' \in Times
      BY <1>1, MaxTimeAssumption DEF TypeOK, Times
    <2> QED
      BY <1>1, <2>1 DEF TypeOK
  <1>3. MapInv'
    <2>1. \A k \in Keys : limiters[k] # NoEntry =>
             /\ limiters[k].lastSeen \in Int
             /\ bucket[limiters[k].limiter].last \in Int
      BY EntryType, BucketType DEF MapInv
    <2> QED
      BY <1>1, <2>1 DEF MapInv
  <1>4. HeldInv'
    <2>1. \A r \in Requests : held[r] # NoLimiter =>
             held[r].got \in Int /\ now < held[r].got + MaxStall
      BY HeldType DEF Tick
    <2> QED
      BY <1>1, <2>1 DEF HeldInv
  <1>5. \A k \in Keys :
           /\ Level'[k] = IF Level[k] < Full[k] THEN Level[k] + 1 ELSE Full[k]
           /\ Level[k] \in Int /\ Full[k] \in Int
    <2> SUFFICES ASSUME NEW k \in Keys
                 PROVE  /\ Level'[k] = IF Level[k] < Full[k] THEN Level[k] + 1 ELSE Full[k]
                        /\ Level[k] \in Int /\ Full[k] \in Int
      OBVIOUS
    <2>1. Level[k] \in Int /\ Level[k] =< Full[k] /\ Full[k] \in Int
      BY LevelBounds, Constants
    <2>2. CASE limiters[k] = NoEntry
      BY <1>1, <2>1, <2>2 DEF Level
    <2>3. CASE limiters[k] # NoEntry
      <3> DEFINE b == bucket[limiters[k].limiter]
      <3>1. b.content \in Int /\ b.last \in Int
        BY <2>3, EntryType, BucketType DEF MapInv
      <3>2. /\ Level[k] = Content(b, k, now)
            /\ Level'[k] = Content(b, k, now + 1)
        BY <1>1, <2>3 DEF Level, Content
      <3>3. Content(b, k, now + 1) =
               IF Content(b, k, now) < Full[k] THEN Content(b, k, now) + 1 ELSE Full[k]
        <4> DEFINE s == b.content + (now - b.last)
        <4>1. s \in Int /\ b.content + ((now + 1) - b.last) = s + 1
          BY <1>1, <3>1
        <4>2. /\ Content(b, k, now) = IF s < Full[k] THEN s ELSE Full[k]
              /\ Content(b, k, now + 1) = IF s + 1 < Full[k] THEN s + 1 ELSE Full[k]
          BY <4>1 DEF Content
        <4> HIDE DEF s
        <4> QED
          BY <2>1, <4>1, <4>2
      <3> QED
        BY <2>1, <3>2, <3>3
    <2> QED
      BY <2>2, <2>3
  <1>6. WindowInv'
    <2>1. \A k \in Keys : spent[k] \in Int
      BY DEF TypeOK
    <2> QED
      BY <1>1, <1>5, <2>1 DEF WindowInv
  <1>7. Buckets!Fill
    BY <1>1, <1>5 DEF Buckets!Fill, Level
  <1> QED
    BY <1>2, <1>3, <1>4, <1>6, <1>7

LEMMA OpenWindowStep ==
    ASSUME Inv, OpenWindow
    PROVE  Inv' /\ UNCHANGED <<Level, passed, refused>>
  <1> USE DEF Inv
  <1>1. /\ since' = now /\ spent' = [k \in Keys |-> 0]
        /\ UNCHANGED <<now, limiters, bucket, held, todo, passed, refused>>
    BY DEF OpenWindow, counts
  <1>2. TypeOK' /\ MapInv' /\ HeldInv' /\ Level' = Level
    BY <1>1 DEF TypeOK, MapInv, HeldInv, Level, Content
  <1>3. WindowInv'
    BY <1>1, <1>2, LevelBounds, Clock, Constants DEF WindowInv
  <1> QED
    BY <1>1, <1>2, <1>3

LEMMA InvStep == Inv /\ [Next]_vars => Inv' /\ [Buckets!Next]_<<Level, passed, refused>>
  <1> SUFFICES ASSUME Inv, [Next]_vars
               PROVE  Inv' /\ [Buckets!Next]_<<Level, passed, refused>>
    OBVIOUS
  <1>1. ASSUME NEW r \in Requests, GetLimiter(r)
        PROVE  Inv' /\ [Buckets!Next]_<<Level, passed, refused>>
    BY <1>1, GetLimiterStep
  <1>2. ASSUME NEW r \in Requests, Allow(r)
        PROVE  Inv' /\ [Buckets!Next]_<<Level, passed, refused>>
    BY <1>2, AllowStep
  <1>3. CASE Cleanup
    BY <1>3, CleanupStep
  <1>4. CASE Tick
    BY <1>4, TickStep DEF Buckets!Next
  <1>5. CASE OpenWindow
    BY <1>5, OpenWindowStep
  <1>6. CASE UNCHANGED vars
    BY <1>6 DEF vars, counts, window, Inv, TypeOK, MapInv, HeldInv, WindowInv, Level, Content
  <1> QED
    BY <1>1, <1>2, <1>3, <1>4, <1>5, <1>6 DEF Next

LEMMA Invariance == Spec => []Inv
  <1>1. Inv /\ [Next]_vars => Inv'
    BY InvStep
  <1> QED
    BY <1>1, InvInit, PTL DEF Spec

-----------------------------------------------------------------------------
(* The theorems *)

\* Every variable of the rate limiter keeps its type.
THEOREM RateLimitTypeCorrect == Spec => []TypeOK
  <1>1. Inv => TypeOK
    BY DEF Inv
  <1> QED
    BY <1>1, Invariance, PTL

\* No window of time sees more than a full bucket and what accrues in it.
THEOREM WindowsAreBounded == Spec => []NoMoreThanBurstAndRate
  <1>1. Inv => NoMoreThanBurstAndRate
    <2> SUFFICES ASSUME Inv, NEW k \in Keys
                 PROVE  spent[k] =< Full[k] + (now - since)
      BY DEF NoMoreThanBurstAndRate
    <2>1. /\ spent[k] + Level[k] =< Full[k] + (now - since)
          /\ Level[k] \in Int /\ 0 =< Level[k]
          /\ spent[k] \in Int /\ Full[k] \in Int /\ now \in Int /\ since \in Int
      BY LevelBounds, Clock, Constants DEF Inv, WindowInv, TypeOK
    <2> QED
      BY <2>1
  <1> QED
    BY <1>1, Invariance, PTL

\* No request uses another limiter than its key has.
THEOREM LimitersAreNotDuplicated == Spec => []OneLimiterPerKey
  <1>1. Inv => OneLimiterPerKey
    BY HeldType DEF Inv, HeldInv, MapInv, OneLimiterPerKey
  <1> QED
    BY <1>1, Invariance, PTL

\* The map with its cleanup implements buckets that are kept for ever.
THEOREM ForgettingIsInvisible == Spec => BucketsAreRemembered
  <1>1. Inv /\ [Next]_vars => [Buckets!Next]_<<Level, passed, refused>>
    BY InvStep
  <1> QED
    BY <1>1, InvInit, Invariance, PTL DEF Spec, BucketsAreRemembered

=============================================================================
