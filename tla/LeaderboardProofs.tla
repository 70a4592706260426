------------------------- MODULE LeaderboardProofs -------------------------
(* What the leaderboard's pages promise, for any users, ratings and limits. *)
EXTENDS Leaderboard, FiniteSetTheorems, TLAPS

\* What the cursor says of the rows shown and of those still to come, for a
\* client that has not reached the last page.
CursorInv ==
    pc # "done" =>
        /\ \A r \in Shown : ~ AfterCursor(r, cursor)
        /\ \A u \in Users \ (rose \cup joined) :
              OnList(u) => \/ \E r \in Shown : r.id = u
                           \/ AfterCursor(RowOf(u), cursor)

\* What a row shown says of the rating its user has by now.
ShownInv ==
    /\ \A r \in Shown : HasRow(r.id)
    /\ \A u \in Users \ fell : \A r \in Shown : r.id = u => r.elo =< elo[u]

Inv ==
    /\ TypeOK
    /\ PagesDescend
    /\ CursorInv
    /\ ShownInv
    /\ OnlyRisersAreMissed
    /\ OnlyFallersAreRepeated

LEMMA Numbers ==
    /\ \A u \in Users : u \in Int /\ u # 0
    /\ \A e \in Ratings : e \in Int
    BY UsersAssumption, RatingsAssumption

LEMMA RowNumbers ==
    ASSUME NEW r \in Row
    PROVE  /\ r.elo \in Ratings /\ r.elo \in Int
           /\ r.id \in Users /\ r.id \in Int /\ r.id # 0
  <1>1. r.elo \in Ratings /\ r.id \in Users
    BY DEF Row
  <1> QED
    BY <1>1, Numbers

\* The keyset condition splits ordered rows: what is not after the cursor
\* ranks above what is, and what ranks below a row after the cursor is after it.
LEMMA CursorSplits ==
    ASSUME NEW r \in Row, NEW s \in Row, NEW c \in Cursors,
           AfterCursor(s, c)
    PROVE  /\ ~ AfterCursor(r, c) => Above(r, s)
           /\ r.id = s.id /\ r.elo =< s.elo => AfterCursor(r, c)
  <1>1. /\ r.elo \in Int /\ r.id \in Int /\ r.id # 0
        /\ s.elo \in Int /\ s.id \in Int /\ s.id # 0
    BY RowNumbers
  <1>2. c.elo \in Int /\ c.id \in Int
    BY RowNumbers DEF Cursors, NoCursor
  <1> QED
    BY <1>1, <1>2 DEF AfterCursor, Above

\* A row is a usable cursor: exactly the rows below it are after it.
LEMMA RowAsCursor ==
    ASSUME NEW r \in Row, NEW c \in Row
    PROVE  AfterCursor(r, c) <=> Above(c, r)
  <1>1. /\ r.elo \in Int /\ r.id \in Int
        /\ c.elo \in Int /\ c.id \in Int /\ c.id # 0
    BY RowNumbers
  <1> QED
    BY <1>1 DEF AfterCursor, Above

LEMMA AboveIsOrder ==
    ASSUME NEW r \in Row, NEW s \in Row, NEW t \in Row
    PROVE  /\ ~ Above(r, r)
           /\ Above(r, s) => ~ Above(s, r)
           /\ Above(r, s) /\ Above(s, t) => Above(r, t)
  <1>1. /\ r.elo \in Int /\ r.id \in Int /\ s.elo \in Int
        /\ s.id \in Int /\ t.elo \in Int /\ t.id \in Int
    BY RowNumbers
  <1> QED
    BY <1>1 DEF Above

\* The rows a page is taken from.
LEMMA CandidateRows ==
    ASSUME TypeOK
    PROVE  \A s : s \in Candidates(cursor) <=>
              \E u \in Users : OnList(u) /\ s = RowOf(u) /\ AfterCursor(s, cursor)
    BY DEF Candidates

LEMMA RowOfUser ==
    ASSUME TypeOK, NEW u \in Users, HasRow(u)
    PROVE  RowOf(u) \in Row /\ RowOf(u).id = u /\ RowOf(u).elo = elo[u]
    BY DEF TypeOK, HasRow, RowOf, Row

-----------------------------------------------------------------------------
(* What one page is *)

\* A page consists of candidates.  If no more are announced these are all of
\* them; otherwise the others rank below the row the next cursor is made of.
LEMMA PageFacts ==
    ASSUME TypeOK, NEW limit \in Nat, ListPage(limit)
    PROVE  /\ pc = "asking" /\ listed' = Shown
           /\ page' \subseteq Candidates(cursor)
           /\ \/ pc' = "done" /\ cursor' = cursor /\ page' = Candidates(cursor)
              \/ /\ pc' = "asking"
                 /\ cursor' \in page'
                 /\ \A r \in page' \ {cursor'} : Above(r, cursor')
                 /\ \A r \in Candidates(cursor) \ page' : Above(cursor', r)
  <1> DEFINE Cand == Candidates(cursor)
  <1>1. PICK fetched \in FirstRows(Cand, limit + 1) :
           \E reply \in FirstRows(fetched, limit) :
              /\ page' = reply
              /\ IF Cardinality(fetched) > limit
                 THEN /\ pc' = "asking"
                      /\ \E last \in reply :
                            /\ \A r \in reply \ {last} : Above(r, last)
                            /\ cursor' = last
                 ELSE pc' = "done" /\ UNCHANGED cursor
    BY DEF ListPage
  <1>2. /\ page' \in FirstRows(fetched, limit)
        /\ IF Cardinality(fetched) > limit
           THEN /\ pc' = "asking"
                /\ cursor' \in page'
                /\ \A r \in page' \ {cursor'} : Above(r, cursor')
           ELSE pc' = "done" /\ cursor' = cursor
    BY <1>1
  <1>3. fetched \subseteq Cand /\ page' \subseteq fetched
    BY <1>1, <1>2 DEF FirstRows
  <1>4. /\ \A r \in fetched : \A s \in Cand \ fetched : Above(r, s)
        /\ \A r \in page' : \A s \in fetched \ page' : Above(r, s)
    BY <1>1, <1>2 DEF FirstRows
  <1>5. pc = "asking" /\ listed' = Shown
    BY DEF ListPage, Shown
  <1>6. CASE Cardinality(fetched) > limit
    BY <1>2, <1>3, <1>4, <1>5, <1>6
  <1>7. CASE ~ (Cardinality(fetched) > limit)
    <2>1. page' = fetched
      BY <1>2, <1>7 DEF FirstRows
    <2>2. ~ (Cardinality(fetched) = limit + 1)
      BY <1>7
    <2>3. fetched = Cand
      BY <1>1, <2>2 DEF FirstRows
    <2> QED
      BY <1>2, <1>5, <1>7, <2>1, <2>3
  <1> QED
    BY <1>6, <1>7

LEMMA PageRows ==
    ASSUME TypeOK, NEW limit \in Nat, ListPage(limit)
    PROVE  /\ \A s \in page' : /\ s \in Row /\ HasRow(s.id) /\ s = RowOf(s.id)
                               /\ s.elo = elo[s.id] /\ AfterCursor(s, cursor)
           /\ Shown' = Shown \cup page'
           /\ UNCHANGED <<elo, played, filtered, request, ranks, rose, fell, joined, changes>>
  <1>1. \A s \in Candidates(cursor) : /\ s \in Row /\ HasRow(s.id) /\ s = RowOf(s.id)
                                      /\ s.elo = elo[s.id] /\ AfterCursor(s, cursor)
    BY CandidateRows, RowOfUser DEF OnList
  <1> QED
    BY <1>1, PageFacts DEF ListPage, Shown, history

-----------------------------------------------------------------------------
(* Type correctness *)

LEMMA TypeInit == Init => TypeOK
    BY BoundsAssumption DEF Init, TypeOK, Cursors

LEMMA TypeStep == TypeOK /\ [Next]_vars => TypeOK'
  <1> SUFFICES ASSUME TypeOK, [Next]_vars PROVE TypeOK'
    OBVIOUS
  <1>1. ASSUME NEW limit \in 0 .. MaxLimit + 1, ListPage(limit) PROVE TypeOK'
    <2>1. limit \in Nat
      BY BoundsAssumption
    <2>2. page' \subseteq Row
      BY <1>1, <2>1, PageRows
    <2>3. cursor' \in Cursors /\ pc' \in {"asking", "failed", "done"}
      BY <1>1, <2>1, <2>2, PageFacts DEF TypeOK, Cursors
    <2>4. listed' \subseteq Row
      BY <1>1 DEF ListPage, TypeOK
    <2> QED
      BY <1>1, <2>2, <2>3, <2>4 DEF ListPage, TypeOK, history
  <1>2. CASE RefusePage \/ RetryPage
    BY <1>2 DEF RefusePage, RetryPage, TypeOK, history
  <1>3. ASSUME NEW u \in Users, AskRank(u) PROVE TypeOK'
    BY <1>3, RowOfUser DEF AskRank, TypeOK, client, history
  <1>4. CASE ReplyRank \/ FailRank
    <2>1. CASE ReplyRank
      <3>1. request \in Row /\ request.id \in Users
        BY <2>1 DEF ReplyRank, TypeOK, Row
      <3>2. RankOf(request.id) \in Nat
        <4>1. IsFiniteSet({v \in Users : HasRow(v) /\ Above(RowOf(v), RowOf(request.id))})
          BY UsersAssumption, FS_Subset
        <4> QED
          BY <4>1, FS_CardinalityType DEF RankOf
      <3> QED
        BY <2>1, <3>1, <3>2 DEF ReplyRank, TypeOK, client, history
    <2>2. CASE FailRank
      BY <2>2 DEF FailRank, TypeOK, client, history
    <2> QED
      BY <1>4, <2>1, <2>2
  <1>5. ASSUME NEW u \in Users, NEW e \in Ratings, SetRating(u, e) PROVE TypeOK'
    <2>1. changes' \in 0 .. MaxChanges
      BY <1>5, BoundsAssumption DEF SetRating, Change, TypeOK
    <2>2. elo' \in [Users -> Ratings \cup {NoRating}]
      BY <1>5 DEF SetRating, TypeOK
    <2>3. played' \subseteq {v \in Users : elo'[v] # NoRating}
      BY <1>5, RatingsAssumption DEF SetRating, HasRow, TypeOK
    <2>4. rose' \subseteq Users /\ fell' \subseteq Users
      BY <1>5 DEF SetRating, TypeOK
    <2> QED
      BY <1>5, <2>1, <2>2, <2>3, <2>4 DEF SetRating, TypeOK, client
  <1>6. ASSUME NEW u \in Users, AddUser(u) PROVE TypeOK'
    <2>1. changes' \in 0 .. MaxChanges
      BY <1>6, BoundsAssumption DEF AddUser, Change, TypeOK
    <2>2. elo' \in [Users -> Ratings \cup {NoRating}]
      BY <1>6, RatingsAssumption DEF AddUser, TypeOK
    <2>3. played' \subseteq {v \in Users : elo'[v] # NoRating}
      BY <1>6, RatingsAssumption DEF AddUser, HasRow, TypeOK
    <2> QED
      BY <1>6, <2>1, <2>2, <2>3 DEF AddUser, TypeOK, client
  <1>7. ASSUME NEW u \in Users, StartQuiz(u) PROVE TypeOK'
    <2>1. changes' \in 0 .. MaxChanges
      BY <1>7, BoundsAssumption DEF StartQuiz, Change, TypeOK
    <2>2. played' \subseteq {v \in Users : elo'[v] # NoRating}
      BY <1>7 DEF StartQuiz, HasRow, TypeOK
    <2> QED
      BY <1>7, <2>1, <2>2 DEF StartQuiz, TypeOK, client
  <1>8. CASE UNCHANGED vars
    BY <1>8 DEF vars, client, history, TypeOK
  <1> QED
    BY <1>1, <1>2, <1>3, <1>4, <1>5, <1>6, <1>7, <1>8 DEF Next

-----------------------------------------------------------------------------
(* The list *)

LEMMA InvInit == Init => Inv
  <1> SUFFICES ASSUME Init PROVE Inv
    OBVIOUS
  <1>1. TypeOK
    BY TypeInit
  <1>2. Shown = {} /\ pc = "asking" /\ cursor = NoCursor
    BY DEF Init, Shown
  <1>3. \A u \in Users : AfterCursor(RowOf(u), cursor)
    BY <1>2 DEF AfterCursor, NoCursor
  <1> QED
    BY <1>1, <1>2, <1>3 DEF Inv, PagesDescend, CursorInv, ShownInv, Shown,
        OnlyRisersAreMissed, OnlyFallersAreRepeated

\* A page keeps the order, leaves out nobody it passes, and repeats nobody who
\* has not fallen.
LEMMA PageStep ==
    ASSUME Inv, NEW limit \in Nat, ListPage(limit), TypeOK'
    PROVE  Inv'
  <1> USE DEF Inv
  <1>1. /\ pc = "asking" /\ listed' = Shown /\ Shown' = Shown \cup page'
        /\ UNCHANGED <<elo, played, filtered, rose, fell, joined>>
    BY PageFacts, PageRows
  <1>2. \A s \in page' : /\ s \in Row /\ HasRow(s.id) /\ s.elo = elo[s.id]
                         /\ AfterCursor(s, cursor)
    BY PageRows
  <1>3. Shown \subseteq Row /\ cursor \in Cursors
    BY DEF TypeOK, Shown
  <1>4. \A r \in Shown : ~ AfterCursor(r, cursor)
    BY <1>1 DEF CursorInv
  <1>5. \A r \in Shown, s \in page' : Above(r, s)
    BY <1>2, <1>3, <1>4, CursorSplits
  <1>6. \A u \in Users : OnList(u) <=> OnList(u)'
    BY <1>1 DEF OnList, HasRow
  <1>7. PagesDescend'
    BY <1>1, <1>5 DEF PagesDescend
  <1>8. ShownInv'
    <2>1. \A r \in Shown' : HasRow(r.id)'
      BY <1>1, <1>2 DEF ShownInv, HasRow
    <2>2. \A u \in Users : \A s \in page' : s.id = u => s.elo =< elo[u]
      BY <1>2, RowNumbers
    <2> QED
      BY <1>1, <2>1, <2>2 DEF ShownInv
  <1>9. OnlyFallersAreRepeated'
    <2> SUFFICES ASSUME NEW u \in Users \ fell, NEW r \in Shown', NEW s \in Shown',
                        r.id = u, s.id = u
                 PROVE  r = s
      BY <1>1 DEF OnlyFallersAreRepeated
    <2>1. \A x \in Shown, y \in page' : x.id = u /\ y.id = u => FALSE
      <3> SUFFICES ASSUME NEW x \in Shown, NEW y \in page', x.id = u, y.id = u
                   PROVE  FALSE
        OBVIOUS
      <3>1. x.elo =< y.elo
        BY <1>2 DEF ShownInv
      <3> QED
        BY <3>1, <1>2, <1>3, <1>4, CursorSplits
    <2>2. CASE r \in Shown /\ s \in Shown
      BY <2>2 DEF OnlyFallersAreRepeated
    <2>3. CASE r \in page' /\ s \in page'
      <3>1. r \in Row /\ s \in Row /\ r.elo = s.elo /\ r.id = s.id
        BY <1>2, <2>3
      <3> QED
        BY <3>1 DEF Row
    <2> QED
      BY <1>1, <2>1, <2>2, <2>3
  <1>10. \A u \in Users \ (rose \cup joined) :
            OnList(u) => \/ \E r \in Shown : r.id = u
                         \/ RowOf(u) \in Candidates(cursor)
    BY <1>1, CandidateRows DEF CursorInv
  <1>11. CASE pc' = "done"
    <2>1. page' = Candidates(cursor)
      BY <1>11, PageFacts
    <2>2. \A u \in Users : OnList(u) => RowOf(u).id = u
      BY RowOfUser DEF OnList
    <2>3. OnlyRisersAreMissed'
      BY <1>1, <1>6, <1>10, <2>1, <2>2 DEF OnlyRisersAreMissed
    <2> QED
      BY <1>7, <1>8, <1>9, <1>11, <2>3 DEF CursorInv
  <1>12. CASE pc' # "done"
    <2>1. /\ cursor' \in page' /\ cursor' \in Row
          /\ \A r \in page' \ {cursor'} : Above(r, cursor')
          /\ \A r \in Candidates(cursor) \ page' : Above(cursor', r)
      BY <1>2, <1>12, PageFacts
    <2>2. \A r \in Shown' : ~ AfterCursor(r, cursor')
      <3>1. \A r \in Shown' \ {cursor'} : Above(r, cursor')
        BY <1>1, <1>5, <2>1
      <3>2. \A r \in Shown' : r \in Row
        BY <1>1, <1>2, <1>3
      <3> QED
        BY <2>1, <3>1, <3>2, RowAsCursor, AboveIsOrder
    <2>3. \A u \in Users \ (rose \cup joined) :
             OnList(u) => \/ \E r \in Shown' : r.id = u
                          \/ AfterCursor(RowOf(u), cursor')
      <3> SUFFICES ASSUME NEW u \in Users \ (rose \cup joined), OnList(u)
                   PROVE  \/ \E r \in Shown' : r.id = u
                          \/ AfterCursor(RowOf(u), cursor')
        OBVIOUS
      <3>1. RowOf(u) \in Row /\ RowOf(u).id = u
        BY RowOfUser DEF OnList
      <3>2. CASE RowOf(u) \in Candidates(cursor) \ page'
        BY <2>1, <3>1, <3>2, RowAsCursor
      <3> QED
        BY <1>1, <1>10, <3>1, <3>2
    <2>4. CursorInv'
      <3>1. \A u \in Users : RowOf(u)' = RowOf(u)
        BY <1>1 DEF RowOf
      <3>2. \A u \in Users \ (rose' \cup joined') :
               OnList(u)' => \/ \E r \in Shown' : r.id = u
                             \/ AfterCursor(RowOf(u)', cursor')
        BY <1>1, <1>6, <2>3, <3>1
      <3> QED
        BY <2>2, <3>2 DEF CursorInv, AfterCursor, RowOf
    <2> QED
      BY <1>7, <1>8, <1>9, <1>12, <2>4 DEF OnlyRisersAreMissed
  <1> QED
    BY <1>11, <1>12

\* A step that leaves the tables and what the client has alone.
LEMMA QuietStep ==
    ASSUME Inv, TypeOK',
           UNCHANGED <<elo, played, filtered, cursor, page, listed, rose, fell, joined>>,
           pc' = pc \/ (pc # "done" /\ pc' # "done")
    PROVE  Inv'
  BY DEF Inv, PagesDescend, CursorInv, ShownInv, OnlyRisersAreMissed,
      OnlyFallersAreRepeated, Shown, AfterCursor, OnList, HasRow, RowOf

\* A rating moves: who falls stays after the cursor, who rises is noted.
LEMMA RatingStep ==
    ASSUME Inv, NEW u \in Users, NEW e \in Ratings, SetRating(u, e), TypeOK'
    PROVE  Inv'
  <1> USE DEF Inv
  <1>1. /\ UNCHANGED <<played, filtered, pc, cursor, page, listed, joined>>
        /\ HasRow(u) /\ Shown' = Shown
        /\ elo' = [elo EXCEPT ![u] = e]
        /\ rose \subseteq rose' /\ fell \subseteq fell'
    BY DEF SetRating, client, Shown
  <1>2. /\ elo[u] \in Int /\ e \in Int /\ e # elo[u]
        /\ elo[u] \in Ratings
        /\ elo'[u] = e /\ \A v \in Users \ {u} : elo'[v] = elo[v]
        /\ u \notin rose' => e < elo[u]
        /\ u \notin fell' => elo[u] < e
    <2>1. elo[u] \in Ratings
      BY DEF SetRating, HasRow, TypeOK
    <2>2. elo[u] \in Int /\ e \in Int
      BY <2>1, Numbers
    <2> QED
      BY <1>1, <2>1, <2>2 DEF SetRating, TypeOK
  <1>3. \A v \in Users : HasRow(v)' <=> HasRow(v)
    BY <1>1, <1>2, RatingsAssumption DEF HasRow
  <1>4. \A v \in Users : OnList(v)' <=> OnList(v)
    BY <1>1, <1>3 DEF OnList
  <1>5. PagesDescend'
    BY <1>1 DEF PagesDescend, Above
  <1>6. OnlyRisersAreMissed' /\ OnlyFallersAreRepeated'
    BY <1>1, <1>4 DEF OnlyRisersAreMissed, OnlyFallersAreRepeated
  <1>7. ShownInv'
    <2>1. \A r \in Shown' : HasRow(r.id)'
      BY <1>1, <1>3, RowNumbers DEF ShownInv, TypeOK, Shown
    <2>2. ASSUME NEW v \in Users \ fell', NEW r \in Shown', r.id = v
          PROVE  r.elo =< elo'[v]
      <3>1. r.elo =< elo[v] /\ r.elo \in Int
        BY <1>1, <2>2, RowNumbers DEF ShownInv, TypeOK, Shown
      <3>2. CASE v = u
        BY <1>2, <2>2, <3>1, <3>2
      <3> QED
        BY <1>2, <3>1, <3>2
    <2> QED
      BY <2>1, <2>2 DEF ShownInv
  <1>8. CursorInv'
    <2> SUFFICES ASSUME pc' # "done"
                 PROVE  /\ \A r \in Shown' : ~ AfterCursor(r, cursor')
                        /\ \A v \in Users \ (rose' \cup joined') :
                              OnList(v)' => \/ \E r \in Shown' : r.id = v
                                            \/ AfterCursor(RowOf(v)', cursor')
      BY DEF CursorInv, AfterCursor
    <2>1. \A r \in Shown' : ~ AfterCursor(r, cursor')
      BY <1>1 DEF CursorInv
    <2>2. ASSUME NEW v \in Users \ (rose' \cup joined'), OnList(v)',
                 ~ \E r \in Shown' : r.id = v
          PROVE  AfterCursor(RowOf(v)', cursor')
      <3>1. AfterCursor(RowOf(v), cursor) /\ HasRow(v)
        BY <1>1, <1>4, <2>2 DEF CursorInv, OnList
      <3>2. CASE v # u
        BY <1>1, <1>2, <3>1, <3>2 DEF RowOf
      <3>3. CASE v = u
        <4>1. RowOf(u) \in Row /\ RowOf(u).id = u /\ RowOf(u).elo = elo[u]
          BY <1>1, RowOfUser
        <4>2. RowOf(u)' \in Row /\ RowOf(u)'.id = u /\ RowOf(u)'.elo = e
          BY <1>2 DEF RowOf, Row
        <4>3. e =< elo[u] /\ cursor \in Cursors
          BY <1>2, <2>2, <3>3 DEF TypeOK
        <4> QED
          BY <1>1, <3>1, <3>3, <4>1, <4>2, <4>3, CursorSplits
      <3> QED
        BY <3>2, <3>3
    <2> QED
      BY <2>1, <2>2
  <1> QED
    BY <1>5, <1>6, <1>7, <1>8

\* A user enters the list, and is noted.
LEMMA JoinStep ==
    ASSUME Inv, NEW u \in Users, AddUser(u) \/ StartQuiz(u), TypeOK'
    PROVE  Inv'
  <1> USE DEF Inv
  <1>1. /\ UNCHANGED <<filtered, pc, cursor, page, listed, rose, fell>>
        /\ Shown' = Shown /\ joined' = joined \cup {u}
    BY DEF AddUser, StartQuiz, client, Shown
  <1>2. \A v \in Users \ {u} : elo'[v] = elo[v] /\ (v \in played' <=> v \in played)
    BY DEF AddUser, StartQuiz, TypeOK
  <1>3. \A v \in Users : HasRow(v) => HasRow(v)' /\ elo'[v] = elo[v]
    BY <1>2 DEF AddUser, StartQuiz, HasRow
  <1>4. \A v \in Users \ {u} : (OnList(v)' <=> OnList(v)) /\ RowOf(v)' = RowOf(v)
    BY <1>1, <1>2 DEF OnList, HasRow, RowOf
  <1>5. PagesDescend' /\ OnlyFallersAreRepeated'
    BY <1>1 DEF PagesDescend, Above, OnlyFallersAreRepeated
  <1>6. OnlyRisersAreMissed'
    BY <1>1, <1>4 DEF OnlyRisersAreMissed
  <1>7. ShownInv'
    BY <1>1, <1>3, RowNumbers DEF ShownInv, TypeOK, Shown
  <1>8. CursorInv'
    <2>1. \A v \in Users \ (rose' \cup joined') :
             pc # "done" /\ OnList(v)' => \/ \E r \in Shown' : r.id = v
                                         \/ AfterCursor(RowOf(v)', cursor')
      BY <1>1, <1>4 DEF CursorInv
    <2> QED
      BY <1>1, <2>1 DEF CursorInv, AfterCursor
  <1> QED
    BY <1>5, <1>6, <1>7, <1>8

LEMMA InvStep == Inv /\ [Next]_vars => Inv'
  <1> SUFFICES ASSUME Inv, [Next]_vars PROVE Inv'
    OBVIOUS
  <1>1. TypeOK'
    BY TypeStep DEF Inv
  <1>2. ASSUME NEW limit \in 0 .. MaxLimit + 1, ListPage(limit) PROVE Inv'
    BY <1>1, <1>2, BoundsAssumption, PageStep
  <1>3. CASE RefusePage \/ RetryPage
    BY <1>1, <1>3, QuietStep DEF RefusePage, RetryPage, history
  <1>4. ASSUME NEW u \in Users, AskRank(u) PROVE Inv'
    BY <1>1, <1>4, QuietStep DEF AskRank, client, history
  <1>5. CASE ReplyRank \/ FailRank
    BY <1>1, <1>5, QuietStep DEF ReplyRank, FailRank, client, history
  <1>6. ASSUME NEW u \in Users, NEW e \in Ratings, SetRating(u, e) PROVE Inv'
    BY <1>1, <1>6, RatingStep
  <1>7. ASSUME NEW u \in Users, AddUser(u) \/ StartQuiz(u) PROVE Inv'
    BY <1>1, <1>7, JoinStep
  <1>8. CASE UNCHANGED vars
    BY <1>1, <1>8, QuietStep DEF vars, client, history
  <1> QED
    BY <1>2, <1>3, <1>4, <1>5, <1>6, <1>7, <1>8 DEF Next

LEMMA Invariance == Spec => []Inv
  <1> QED
    BY InvInit, InvStep, PTL DEF Spec

\* Every variable of the leaderboard keeps its type.
THEOREM LeaderboardTypeCorrect == Spec => []TypeOK
  <1>1. Inv => TypeOK
    BY DEF Inv
  <1> QED
    BY <1>1, Invariance, PTL

\* No row is handed out twice, and pages descend.
THEOREM PagesAlwaysDescend == Spec => []PagesDescend
  <1>1. Inv => PagesDescend
    BY DEF Inv
  <1> QED
    BY <1>1, Invariance, PTL

\* Whoever did not rise while the list was read is on it.
THEOREM NobodyElseMissed == Spec => []OnlyRisersAreMissed
  <1>1. Inv => OnlyRisersAreMissed
    BY DEF Inv
  <1> QED
    BY <1>1, Invariance, PTL

\* Whoever did not fall while the list was read is on it once at most.
THEOREM NobodyElseRepeated == Spec => []OnlyFallersAreRepeated
  <1>1. Inv => OnlyFallersAreRepeated
    BY DEF Inv
  <1> QED
    BY <1>1, Invariance, PTL

-----------------------------------------------------------------------------
(* The rank *)

\* While nobody moves, everything the client was told is what the table says.
RankInv ==
    rose \cup fell \cup joined = {} =>
        /\ \A r \in Shown : r = RowOf(r.id)
        /\ request # NoRequest => HasRow(request.id) /\ request = RowOf(request.id)
        /\ \A reply \in ranks :
              /\ HasRow(reply[1].id)
              /\ reply[1] = RowOf(reply[1].id)
              /\ reply[2] = RankOf(reply[1].id)

\* Whatever a user does to the table is noted.
LEMMA TableStandsStill ==
    ASSUME TypeOK, [Next]_vars, rose' \cup fell' \cup joined' = {}
    PROVE  elo' = elo /\ rose \cup fell \cup joined = {}
  <1>1. ASSUME NEW u \in Users, NEW e \in Ratings, SetRating(u, e) PROVE FALSE
    <2>1. elo[u] \in Int /\ e \in Int /\ e # elo[u]
      BY <1>1, Numbers DEF SetRating, HasRow, TypeOK
    <2> QED
      BY <1>1, <2>1 DEF SetRating
  <1>2. ASSUME NEW u \in Users, AddUser(u) \/ StartQuiz(u) PROVE FALSE
    BY <1>2 DEF AddUser, StartQuiz
  <1> QED
    BY <1>1, <1>2 DEF Next, ListPage, RefusePage, RetryPage, AskRank, ReplyRank,
        FailRank, vars, history

LEMMA RankStep == TypeOK /\ RankInv /\ [Next]_vars => RankInv'
  <1> SUFFICES ASSUME TypeOK, RankInv, [Next]_vars, rose' \cup fell' \cup joined' = {}
               PROVE  RankInv'
    BY DEF RankInv
  <1>1. elo' = elo /\ rose \cup fell \cup joined = {}
    BY TableStandsStill
  <1>2. \A u : /\ RowOf(u)' = RowOf(u) /\ HasRow(u)' = HasRow(u)
               /\ RankOf(u)' = RankOf(u)
    BY <1>1 DEF RowOf, HasRow, RankOf, Above
  <1>3. \A r \in Shown' : r = RowOf(r.id)
    <2>1. ASSUME NEW limit \in 0 .. MaxLimit + 1, ListPage(limit)
          PROVE  \A r \in Shown' : r = RowOf(r.id)
      <3>1. limit \in Nat
        BY BoundsAssumption
      <3> QED
        BY <1>1, <2>1, <3>1, PageRows DEF RankInv
    <2>2. CASE \A limit \in 0 .. MaxLimit + 1 : ~ ListPage(limit)
      <3>1. Shown' = Shown
        BY <2>2 DEF Next, RefusePage, RetryPage, AskRank, ReplyRank, FailRank,
            SetRating, AddUser, StartQuiz, vars, client, Shown
      <3> QED
        BY <1>1, <3>1 DEF RankInv
    <2> QED
      BY <2>1, <2>2
  <1>4. request' # NoRequest => HasRow(request'.id) /\ request' = RowOf(request'.id)
    <2>1. ASSUME NEW u \in Users, AskRank(u)
          PROVE  HasRow(request'.id) /\ request' = RowOf(request'.id)
      <3>1. HasRow(u) /\ request' = RowOf(u) /\ RowOf(u).id = u
        BY <2>1, RowOfUser DEF AskRank
      <3> QED
        BY <3>1
    <2>2. CASE \A u \in Users : ~ AskRank(u)
      <3>1. request' \in {request, NoRequest}
        BY <2>2 DEF Next, ListPage, RefusePage, RetryPage, ReplyRank, FailRank,
            SetRating, AddUser, StartQuiz, vars
      <3> QED
        BY <1>1, <3>1 DEF RankInv
    <2> QED
      BY <2>1, <2>2
  <1>5. \A reply \in ranks' : /\ HasRow(reply[1].id)
                              /\ reply[1] = RowOf(reply[1].id)
                              /\ reply[2] = RankOf(reply[1].id)
    <2>1. CASE ReplyRank
      <3>1. /\ ranks' = ranks \cup {<<request, RankOf(request.id)>>}
            /\ request # NoRequest
        BY <2>1 DEF ReplyRank
      <3> QED
        BY <1>1, <3>1 DEF RankInv
    <2>2. CASE ~ ReplyRank
      <3>1. ranks' = ranks
        BY <2>2 DEF Next, ListPage, RefusePage, RetryPage, AskRank, FailRank,
            SetRating, AddUser, StartQuiz, vars
      <3> QED
        BY <1>1, <3>1 DEF RankInv
    <2> QED
      BY <2>1, <2>2
  <1> QED
    BY <1>2, <1>3, <1>4, <1>5 DEF RankInv

\* Ids and rows correspond: as many users rank above a row as rows do.
LEMMA RowsAreUsers ==
    ASSUME TypeOK, NEW U \in SUBSET {u \in Users : HasRow(u)}
    PROVE  Cardinality({RowOf(u) : u \in U}) = Cardinality(U)
  <1> DEFINE f == [u \in U |-> RowOf(u)]
             T == {RowOf(u) : u \in U}
  <1>1. IsFiniteSet(U)
    <2>1. U \in SUBSET Users
      OBVIOUS
    <2> QED
      BY <2>1, UsersAssumption, FS_Subset
  <1>2. f \in Surjection(U, T)
    BY DEF Surjection
  <1>3. f \in Injection(U, T)
    BY RowOfUser DEF Injection, IsInjective
  <1> QED
    BY <1>1, <1>2, <1>3, FS_Surjection

LEMMA RanksAreRight ==
    ASSUME Inv, RankInv
    PROVE  RanksAgreeWithList
  <1> SUFFICES ASSUME pc = "done", ~ filtered, rose \cup fell \cup joined = {},
                      NEW reply \in ranks
               PROVE  /\ reply[1] \in Shown
                      /\ reply[2] = 1 + Cardinality({s \in Shown : Above(s, reply[1])})
    BY DEF RanksAgreeWithList
  <1> DEFINE row == reply[1]
             U == {v \in Users : HasRow(v) /\ Above(RowOf(v), row)}
  <1>1. row \in Row /\ HasRow(row.id) /\ row = RowOf(row.id) /\ reply[2] = RankOf(row.id)
    BY DEF Inv, TypeOK, RankInv
  <1>2. \A u \in Users : HasRow(u) => RowOf(u) \in Shown
    <2> SUFFICES ASSUME NEW u \in Users, HasRow(u) PROVE RowOf(u) \in Shown
      OBVIOUS
    <2>1. PICK r \in Shown : r.id = u
      BY DEF Inv, OnlyRisersAreMissed, OnList
    <2> QED
      BY <2>1 DEF RankInv
  <1>3. \A r \in Shown : r.id \in Users /\ HasRow(r.id) /\ r = RowOf(r.id)
    BY RowNumbers DEF Inv, TypeOK, ShownInv, RankInv, Shown
  <1>4. {s \in Shown : Above(s, row)} = {RowOf(u) : u \in U}
    <2> HIDE DEF row
    <2> QED
      BY <1>2, <1>3
  <1>5. Cardinality({RowOf(u) : u \in U}) = Cardinality(U)
    <2>1. U \in SUBSET {u \in Users : HasRow(u)}
      OBVIOUS
    <2> QED
      BY <2>1, RowsAreUsers DEF Inv
  <1>6. RankOf(row.id) = 1 + Cardinality(U)
    BY <1>1 DEF RankOf
  <1>7. row \in Shown
    BY <1>1, <1>2 DEF Row
  <1> QED
    BY <1>1, <1>4, <1>5, <1>6, <1>7

\* The rank of a user is its position in the list that no change disturbed,
\* although the two come from different statements (postgres.go:293 and 357).
THEOREM RanksAlwaysAgree == Spec => []RanksAgreeWithList
  <1>1. Init => RankInv
    BY DEF Init, RankInv, Shown
  <1>2. Inv => TypeOK
    BY DEF Inv
  <1>3. Inv /\ RankInv => RanksAgreeWithList
    BY RanksAreRight
  <1> QED
    BY <1>1, <1>2, <1>3, RankStep, Invariance, PTL DEF Spec

=============================================================================
