---------------------------- MODULE Leaderboard ----------------------------
(***************************************************************************)
(* The leaderboard (handlers/leaderboard.go, ListLeaderboardPage and       *)
(* GetUserRank in database/postgres.go) as one client reads it.            *)
(*                                                                         *)
(* The client asks for page after page, sending back the cursor of the     *)
(* last reply.  The server keeps nothing between two pages: each is a      *)
(* SELECT over the users table as it is by then, and in between ratings    *)
(* move, users register and users start their first quiz in the subject    *)
(* the list is filtered by.  Meanwhile the client may also ask for the     *)
(* rank of a user, which takes two statements.                             *)
(*                                                                         *)
(* A behaviour starts when the first page is asked for.                    *)
(***************************************************************************)
EXTENDS Integers, FiniteSets

CONSTANTS
    Users,       \* ids the table users hands out (BIGSERIAL: from 1)
    Ratings,     \* values of users.current_elo
    DefaultElo,  \* rating of a new row
    MaxLimit,    \* greatest page size the handler accepts
    MaxRanks,    \* bound: rank requests the client makes
    MaxChanges,  \* bound: changes others make to the tables meanwhile
    NoRating,    \* the rating of an id that has no row yet
    NoRequest    \* no rank request is being served

ASSUME UsersAssumption == IsFiniteSet(Users) /\ Users \subseteq Nat \ {0}

ASSUME RatingsAssumption ==
    /\ Ratings \subseteq Nat
    /\ DefaultElo \in Ratings
    /\ NoRating \notin Ratings

ASSUME BoundsAssumption ==
    MaxLimit \in Nat \ {0} /\ MaxRanks \in Nat /\ MaxChanges \in Nat

Row == [elo : Ratings, id : Users]

ASSUME NoRequestAssumption == NoRequest \notin Row

VARIABLES
    elo,      \* table users: the rating of each id, NoRating without a row
    played,   \* users with a row in quiz_sessions for the subject of the list
    filtered, \* the client reads the list of the subject, not the global one
    pc,       \* "asking", "failed" or "done": where the client stands
    cursor,   \* the cursor it sends with its next request
    page,     \* the rows of the last page it got
    listed,   \* the rows of the pages before that
    request,  \* the row GetUserByID returned to the rank request being served
    ranks,    \* replies to rank requests: <<row, rank>>
    \* History variables: no action reads them.
    rose,     \* users whose rating has risen since the first page was asked
    fell,     \* users whose rating has fallen since
    joined,   \* users who have registered or started a quiz since
    changes   \* number of changes others have made

client  == <<pc, cursor, page, listed>>
history == <<rose, fell, joined, changes>>
vars == <<elo, played, filtered, client, request, ranks, history>>

\* What parseLeaderboardCursor returns when no cursor was sent.
NoCursor == [elo |-> 0, id |-> 0]

Cursors == Row \cup {NoCursor}

TypeOK ==
    /\ elo \in [Users -> Ratings \cup {NoRating}]
    /\ played \subseteq {u \in Users : elo[u] # NoRating}
    /\ filtered \in BOOLEAN
    /\ pc \in {"asking", "failed", "done"}
    /\ cursor \in Cursors
    /\ page \subseteq Row
    /\ listed \subseteq Row
    /\ request \in Row \cup {NoRequest}
    /\ ranks \subseteq Row \X Nat
    /\ rose \subseteq Users
    /\ fell \subseteq Users
    /\ joined \subseteq Users
    /\ changes \in 0 .. MaxChanges

Init ==
    /\ elo \in [Users -> Ratings \cup {NoRating}]
    /\ played \in SUBSET {u \in Users : elo[u] # NoRating}
    /\ filtered \in BOOLEAN
    /\ pc = "asking"
    /\ cursor = NoCursor
    /\ page = {}
    /\ listed = {}
    /\ request = NoRequest
    /\ ranks = {}
    /\ rose = {}
    /\ fell = {}
    /\ joined = {}
    /\ changes = 0

-----------------------------------------------------------------------------
(* The two statements *)

HasRow(u) == elo[u] # NoRating

RowOf(u) == [elo |-> elo[u], id |-> u]

\* ORDER BY current_elo DESC, id DESC: r comes before s.
Above(r, s) == r.elo > s.elo \/ (r.elo = s.elo /\ r.id > s.id)

\* (Faulty variants stand before the definition they are variants of.)
AfterCursorOrAtIt(r, c) ==
    \/ c.elo = 0 /\ c.id = 0
    \/ r.elo < c.elo
    \/ r.elo = c.elo /\ r.id =< c.id

AfterCursorUnlessZero(r, c) ==
    \/ c.elo = 0
    \/ r.elo < c.elo
    \/ r.elo = c.elo /\ r.id < c.id

\* The keyset condition of the WHERE clause.
AfterCursor(r, c) ==
    \/ c.elo = 0 /\ c.id = 0
    \/ r.elo < c.elo
    \/ r.elo = c.elo /\ r.id < c.id

\* The users the list is about: all, or those with a session in the subject.
OnList(u) == HasRow(u) /\ (filtered => u \in played)

\* The rows the WHERE clause leaves.
Candidates(c) == {r \in {RowOf(u) : u \in {v \in Users : OnList(v)}} : AfterCursor(r, c)}

\* LIMIT n on ordered rows: n of them, or all if there are no more, and none
\* comes after one that is left out.  There is exactly one such set.
FirstRows(rows, n) ==
    {first \in SUBSET rows :
        /\ \A r \in first : \A s \in rows \ first : Above(r, s)
        /\ IF Cardinality(rows) > n THEN Cardinality(first) = n ELSE first = rows}

\* Equal ratings share a rank.
RankByRating(u) == 1 + Cardinality({v \in Users : HasRow(v) /\ elo[v] > elo[u]})

\* ROW_NUMBER() OVER (ORDER BY current_elo DESC, id DESC) of the user's row.
RankOf(u) == 1 + Cardinality({v \in Users : HasRow(v) /\ Above(RowOf(v), RowOf(u))})

-----------------------------------------------------------------------------
(* The client's requests *)

\* The cursor is taken from the row that shows there are more.
ListPageCursorOfExtraRow(limit) ==
    /\ pc = "asking"
    /\ limit \in 1 .. MaxLimit
    /\ \E fetched \in FirstRows(Candidates(cursor), limit + 1) :
       \E reply \in FirstRows(fetched, limit) :
          /\ page' = reply
          /\ IF Cardinality(fetched) > limit
             THEN /\ pc' = "asking"
                  /\ \E last \in fetched :
                        /\ \A r \in fetched \ {last} : Above(r, last)
                        /\ cursor' = last
             ELSE pc' = "done" /\ UNCHANGED cursor
    /\ listed' = listed \cup page
    /\ UNCHANGED <<elo, played, filtered, request, ranks, history>>

\* One row is fetched beyond the page to learn whether there are more; the
\* next cursor is the last row of the page, and only sent if there are.
ListPage(limit) ==
    /\ pc = "asking"
    /\ limit \in 1 .. MaxLimit
    /\ \E fetched \in FirstRows(Candidates(cursor), limit + 1) :
       \E reply \in FirstRows(fetched, limit) :
          /\ page' = reply
          /\ IF Cardinality(fetched) > limit
             THEN /\ pc' = "asking"
                  /\ \E last \in reply :
                        /\ \A r \in reply \ {last} : Above(r, last)
                        /\ cursor' = last
             ELSE pc' = "done" /\ UNCHANGED cursor
    /\ listed' = listed \cup page
    /\ UNCHANGED <<elo, played, filtered, request, ranks, history>>

\* 400 for the limit, or 500: the query failed or took more than two seconds.
\* Either way the client keeps the cursor it had.
RefusePage ==
    /\ pc = "asking"
    /\ pc' = "failed"
    /\ UNCHANGED <<elo, played, filtered, cursor, page, listed, request, ranks, history>>

\* The client asks for the same page again.
RetryPage ==
    /\ pc = "failed"
    /\ pc' = "asking"
    /\ UNCHANGED <<elo, played, filtered, cursor, page, listed, request, ranks, history>>

\* UserRank, first statement: GetUserByID (404 if there is no row).  A client
\* that has read the list asks for the rank of a user.
AskRank(u) ==
    /\ pc = "done"
    /\ request = NoRequest
    /\ Cardinality(ranks) < MaxRanks
    /\ HasRow(u)
    /\ request' = RowOf(u)
    /\ UNCHANGED <<elo, played, filtered, client, ranks, history>>

\* UserRank, second statement: GetUserRank, and the reply with both results.
ReplyRank ==
    /\ request # NoRequest
    /\ ranks' = ranks \cup {<<request, RankOf(request.id)>>}
    /\ request' = NoRequest
    /\ UNCHANGED <<elo, played, filtered, client, history>>

\* The second statement fails: 500.
FailRank ==
    /\ request # NoRequest
    /\ request' = NoRequest
    /\ UNCHANGED <<elo, played, filtered, client, ranks, history>>

-----------------------------------------------------------------------------
(* What others do to the table meanwhile *)

Change == changes < MaxChanges /\ changes' = changes + 1

\* An answer of u is recorded: current_elo is assigned.
SetRating(u, e) ==
    /\ Change
    /\ HasRow(u)
    /\ e # elo[u]
    /\ elo' = [elo EXCEPT ![u] = e]
    /\ rose' = IF e > elo[u] THEN rose \cup {u} ELSE rose
    /\ fell' = IF e < elo[u] THEN fell \cup {u} ELSE fell
    /\ UNCHANGED <<played, filtered, client, request, ranks, joined>>

\* u registers.
AddUser(u) ==
    /\ Change
    /\ ~ HasRow(u)
    /\ elo' = [elo EXCEPT ![u] = DefaultElo]
    /\ joined' = joined \cup {u}
    /\ UNCHANGED <<played, filtered, client, request, ranks, rose, fell>>

StartQuizUnregistered(u) ==
    /\ Change
    /\ u \notin played
    /\ played' = played \cup {u}
    /\ joined' = joined \cup {u}
    /\ UNCHANGED <<elo, filtered, client, request, ranks, rose, fell>>

\* u, who must have a row (a foreign key), starts a quiz in the subject.
StartQuiz(u) ==
    /\ Change
    /\ HasRow(u)
    /\ u \notin played
    /\ played' = played \cup {u}
    /\ joined' = joined \cup {u}
    /\ UNCHANGED <<elo, filtered, client, request, ranks, rose, fell>>

Next ==
    \/ \E limit \in 0 .. MaxLimit + 1 : ListPage(limit)
    \/ RefusePage
    \/ RetryPage
    \/ \E u \in Users : AskRank(u) \/ AddUser(u) \/ StartQuiz(u)
    \/ ReplyRank
    \/ FailRank
    \/ \E u \in Users, e \in Ratings : SetRating(u, e)

\* A client that keeps asking gets its pages; what others do is never forced.
Spec == Init /\ [][Next]_vars /\ WF_vars(\E limit \in 1 .. MaxLimit : ListPage(limit))

-----------------------------------------------------------------------------
(* Properties *)

Shown == listed \cup page

\* The pages read so far are disjoint and every row ranks below all rows of
\* earlier pages, whatever happened to the ratings in between: no row is ever
\* handed out twice (the strict keyset condition, postgres.go:292).
PagesDescend == \A r \in listed, s \in page : Above(r, s)

\* When the list has ended, the only users on it that no page showed are those
\* who rose past the cursor, or came in above it, while it was being read.  A
\* user whose rating stayed or fell is never skipped (postgres.go:284-351).
OnlyRisersAreMissed ==
    pc = "done" =>
        \A u \in Users \ (rose \cup joined) :
            OnList(u) => \E r \in Shown : r.id = u

\* The only users shown in two places of the list are those who fell below the
\* cursor while it was being read; together with OnlyRisersAreMissed and
\* PagesDescend: a user whose rating stays is shown exactly once.
OnlyFallersAreRepeated ==
    \A u \in Users \ fell : \A r, s \in Shown : r.id = u /\ s.id = u => r = s

\* The list and the rank query, two statements with an ORDER BY each, and the
\* user read by a third, agree on a table nobody changes: the rank of a user is
\* its position in the list, ties included (postgres.go:293 and 357).
RanksAgreeWithList ==
    (pc = "done" /\ ~ filtered /\ rose \cup fell \cup joined = {}) =>
        \A reply \in ranks :
            /\ reply[1] \in Shown
            /\ reply[2] = 1 + Cardinality({s \in Shown : Above(s, reply[1])})

\* A client whose requests do not keep failing comes to the last page, whatever
\* the MaxChanges changes others make under it (postgres.go:292, 339).
PagingEnds == []<>(pc = "failed") \/ <>(pc = "done")

=============================================================================
