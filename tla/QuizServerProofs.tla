-------------------------- MODULE QuizServerProofs --------------------------
(***************************************************************************)
(* Safety of QuizServer for any number of users, sessions, questions,      *)
(* submissions and connections.                                            *)
(*                                                                         *)
(* The inductive invariant is built in layers: TypeOK with Flow (what a    *)
(* handler run has in memory at each pc), then, on top of them, the row    *)
(* lock, the grades that are still fresh, and the conclusions.             *)
(***************************************************************************)
EXTENDS QuizServer, EloEngineProofs, FiniteSetTheorems

-----------------------------------------------------------------------------
(* Types *)

\* What the memory of a handler run holds, by pc.
Flow ==
    \A r \in Requests :
        /\ pc[r] # "idle" => owner[r] \in Users /\ body[r] \in Bodies
        /\ pc[r] \notin {"idle", "done"} => ValidBody(body[r])
        /\ r \in Graded \cup recorded => grade[r] \in Grade
        /\ pc[r] = "commit" => pending[r] \in UserRow
        /\ r \in recorded => pc[r] = "done"

TypeInv == TypeOK /\ Flow

LEMMA TypeInit == Init => TypeInv
<1> SUFFICES ASSUME Init PROVE TypeInv
  OBVIOUS
<1>1. DefaultElo \in Elos
  BY DefaultEloAssumption, EloBoundsAssumption DEF ValidElo, Elos
<1>2. TypeOK
  BY <1>1 DEF Init, TypeOK, PCs, NewUser, UserRow
<1>3. Flow
  BY DEF Init, Flow, Graded
<1>4. QED
  BY <1>2, <1>3 DEF TypeInv

\* Grading turns a checked user and question into a well-formed grade.
LEMMA GradeType ==
    ASSUME TypeInv, NEW r \in Requests, pc[r] = "user",
           ValidElo(QuestionRow[body[r].question].elo)
    PROVE  GradeOf(r) \in Grade
<1> DEFINE b == body[r]
           q == QuestionRow[b.question]
           elo == users[owner[r]].current_elo
           correct == Matches(b.selected, q.correct_answers)
           new == NewElo(elo, q, correct, b.time, b.skips)
<1>1. b \in Bodies /\ owner[r] \in Users /\ ValidBody(b)
  BY DEF TypeInv, Flow
<1>2. elo \in MinUserElo .. MaxUserElo
  BY <1>1 DEF TypeInv, TypeOK, UserRow, Elos
<1>3. b.question \in Questions /\ b.time \in Int /\ b.skips \in Nat
  BY <1>1, BodyAssumption DEF ValidBody
<1>4. correct \in BOOLEAN
  BY DEF Matches
<1>5. GradeOf(r) = [correct |-> correct, elo_change |-> new - elo, new_elo |-> new]
  BY DEF GradeOf
<1>6. GradedQuestion(q)
  BY <1>3, QuestionAssumption, EloBoundsAssumption DEF ValidElo, GradedQuestion
<1>7. new \in MinUserElo .. MaxUserElo
  <2> HIDE DEF b, q, elo, correct
  <2>1. QED
    BY <1>2, <1>3, <1>4, <1>6, NewEloFacts
<1>8. QED
  <2> HIDE DEF new, elo, correct
  <2>1. QED
    BY <1>2, <1>4, <1>5, <1>7, EloBoundsAssumption DEF Grade, Elos
\* The UPDATE turns a well-formed row into a well-formed row.
LEMMA UpdatedRowType ==
    ASSUME NEW row \in UserRow, NEW g \in Grade, NEW t \in Nat
    PROVE  UpdatedRow(row, g, t) \in UserRow
BY EloBoundsAssumption DEF UpdatedRow, UserRow, Grade, Elos

LEMMA InsertedRowType ==
    ASSUME TypeInv, NEW r \in Requests, pc[r] = "commit"
    PROVE  InsertedRow(r) \in AnswerRow
<1>1. owner[r] \in Users /\ body[r] \in Bodies /\ ValidBody(body[r]) /\ grade[r] \in Grade
  BY DEF TypeInv, Flow, Graded
<1>2. body[r].session \in Sessions /\ body[r].question \in Questions /\ body[r].time \in Nat
  BY <1>1, BodyAssumption DEF ValidBody, ValidTimeTaken
<1>3. Matches(body[r].selected, QuestionRow[body[r].question].correct_answers) \in BOOLEAN
  BY DEF Matches
<1>4. grade[r].elo_change \in Int
  BY <1>1 DEF Grade
<1>5. QED
  BY <1>1, <1>2, <1>3, <1>4 DEF InsertedRow, AnswerRow

LEMMA TypeStep == TypeInv /\ [Next]_vars => TypeInv'
<1> SUFFICES ASSUME TypeInv, [Next]_vars PROVE TypeInv'
  OBVIOUS
<1> USE DEF TypeInv
<1>1. ASSUME NEW u \in Users, StartSession(u) PROVE TypeInv'
  BY <1>1 DEF StartSession, tables, memory, history, TypeOK, Flow, Graded
<1>2. ASSUME NEW r \in Requests, NEW u \in Users, NEW b \in Bodies, Submit(r, u, b)
      PROVE  TypeInv'
  <2>1. TypeOK'
    BY <1>2 DEF Submit, Goto, Respond, tables, history, TypeOK, PCs
  <2>2. Flow'
    BY <1>2 DEF Submit, Goto, Respond, tables, history, TypeOK, PCs, Flow, Graded
  <2>3. QED
    BY <2>1, <2>2
<1>3. ASSUME NEW r \in Requests, FindSession(r) PROVE TypeInv'
  <2>1. TypeOK'
    BY <1>3 DEF FindSession, Goto, Respond, tables, memory, history, TypeOK, PCs
  <2>2. Flow'
    BY <1>3 DEF FindSession, Goto, Respond, tables, memory, history, TypeOK, PCs, Flow, Graded
  <2>3. QED
    BY <2>1, <2>2
<1>4. ASSUME NEW r \in Requests, LoadQuestion(r) PROVE TypeInv'
  <2>1. TypeOK'
    BY <1>4 DEF LoadQuestion, Goto, Respond, tables, memory, history, TypeOK, PCs
  <2>2. Flow'
    BY <1>4 DEF LoadQuestion, Goto, Respond, tables, memory, history, TypeOK, PCs, Flow, Graded
  <2>3. QED
    BY <2>1, <2>2
<1>5. ASSUME NEW r \in Requests, LoadUserAndGrade(r) PROVE TypeInv'
  <2>1. CASE grade' = [grade EXCEPT ![r] = GradeOf(r)] /\ Goto(r, "begin") /\ reply' = reply
             /\ ValidElo(QuestionRow[body[r].question].elo)
    <3>1. GradeOf(r) \in Grade
      BY <1>5, <2>1, GradeType DEF LoadUserAndGrade
    <3>2. TypeOK'
      BY <1>5, <2>1, <3>1 DEF LoadUserAndGrade, Goto, tables, history, TypeOK, PCs
    <3>3. Flow'
      BY <1>5, <2>1, <3>1 DEF LoadUserAndGrade, Goto, tables, history, TypeOK, PCs, Flow, Graded
    <3>4. QED
      BY <3>2, <3>3
  <2>2. CASE Respond(r, "400") /\ grade' = grade
    <3>1. TypeOK'
      BY <1>5, <2>2 DEF LoadUserAndGrade, Goto, Respond, tables, history, TypeOK, PCs
    <3>2. Flow'
      BY <1>5, <2>2 DEF LoadUserAndGrade, Goto, Respond, tables, history, TypeOK, PCs, Flow, Graded
    <3>3. QED
      BY <3>1, <3>2
  <2>3. QED
    BY <1>5, <2>1, <2>2 DEF LoadUserAndGrade
<1>6. ASSUME NEW r \in Requests, BeginTx(r) PROVE TypeInv'
  <2>1. TypeOK'
    BY <1>6 DEF BeginTx, Goto, tables, memory, history, TypeOK, PCs
  <2>2. Flow'
    BY <1>6 DEF BeginTx, Goto, tables, memory, history, TypeOK, PCs, Flow, Graded
  <2>3. QED
    BY <2>1, <2>2
<1>7. ASSUME NEW r \in Requests, InsertAnswer(r) PROVE TypeInv'
  <2>1. TypeOK'
    BY <1>7 DEF InsertAnswer, Goto, Respond, tables, memory, history, TypeOK, PCs
  <2>2. Flow'
    BY <1>7 DEF InsertAnswer, Goto, Respond, tables, memory, history, TypeOK, PCs, Flow, Graded
  <2>3. QED
    BY <2>1, <2>2
<1>8. ASSUME NEW r \in Requests, UpdateUser(r) PROVE TypeInv'
  <2>1. owner[r] \in Users /\ body[r].time \in Nat /\ grade[r] \in Grade
    BY <1>8, BodyAssumption DEF UpdateUser, Flow, Graded, ValidBody, ValidTimeTaken
  <2>2. UpdatedRow(users[owner[r]], grade[r], body[r].time) \in UserRow
    BY <2>1, UpdatedRowType DEF TypeOK
  <2>3. TypeOK'
    BY <1>8, <2>2 DEF UpdateUser, Goto, tables, history, TypeOK, PCs
  <2>4. Flow'
    BY <1>8, <2>2 DEF UpdateUser, Goto, tables, history, TypeOK, PCs, Flow, Graded
  <2>5. QED
    BY <2>3, <2>4
<1>9. ASSUME NEW r \in Requests, Commit(r) PROVE TypeInv'
  <2>1. /\ owner[r] \in Users /\ grade[r].elo_change \in Int
        /\ pending[r] \in UserRow /\ InsertedRow(r) \in AnswerRow
    BY <1>9, InsertedRowType DEF Commit, Flow, Graded, Grade
  <2>2. PICK status \in {"200", "500", "none"} : Respond(r, status)
    BY <1>9 DEF Commit
  <2>3. TypeOK'
    BY <1>9, <2>1, <2>2 DEF Commit, Goto, Respond, TypeOK, PCs, Graded
  <2>4. Flow'
    BY <1>9, <2>1, <2>2 DEF Commit, Goto, Respond, TypeOK, PCs, Flow, Graded
  <2>5. QED
    BY <2>3, <2>4
<1>10. ASSUME NEW r \in Requests, Abort(r) PROVE TypeInv'
  <2>1. PICK status \in {"404", "500"} : Respond(r, status)
    BY <1>10 DEF Abort
  <2>2. TypeOK'
    BY <1>10, <2>1 DEF Abort, Goto, Respond, tables, history, TypeOK, PCs
  <2>3. Flow'
    BY <1>10, <2>1 DEF Abort, Goto, Respond, tables, history, TypeOK, PCs, Flow, Graded
  <2>4. QED
    BY <2>2, <2>3
<1>11. CASE Crash
  <2>1. TypeOK'
    BY <1>11 DEF Crash, tables, history, TypeOK, PCs
  <2>2. Flow'
    BY <1>11 DEF Crash, tables, history, TypeOK, PCs, Flow, Graded
  <2>3. QED
    BY <2>1, <2>2
<1>12. ASSUME NEW q \in Questions, DeleteQuestion(q) PROVE TypeInv'
  <2>1. TypeOK'
    BY <1>12 DEF DeleteQuestion, memory, history, TypeOK
  <2>2. Flow'
    BY <1>12 DEF DeleteQuestion, memory, history, TypeOK, Flow, Graded
  <2>3. QED
    BY <2>1, <2>2
<1>13. CASE UNCHANGED vars
  BY <1>13 DEF vars, tables, memory, history, TypeOK, Flow, Graded
<1>14. QED
  BY <1>1, <1>2, <1>3, <1>4, <1>5, <1>6, <1>7, <1>8, <1>9, <1>10, <1>11, <1>12, <1>13
     DEF Next, Handle

LEMMA TypeInvariant == Spec => []TypeInv
BY TypeInit, TypeStep, PTL DEF Spec

\* Every table and every handler's memory stays well-formed; in particular
\* current_elo and peak_elo stay within MinUserElo..MaxUserElo although the
\* UPDATE writes a rating computed from an earlier read.
THEOREM TypeCorrect == Spec => []TypeOK
<1>1. TypeInv => TypeOK
  BY DEF TypeInv
<1>2. QED
  BY <1>1, TypeInvariant, PTL
-----------------------------------------------------------------------------
(* Replies *)

\* Before the end nothing has been said; afterwards 200 goes with a recorded
\* answer and 400 and 404 with an unrecorded one.
ReplyInv ==
    \A r \in Requests :
        /\ pc[r] # "done" => reply[r] = "none"
        /\ reply[r] = "200" => r \in recorded
        /\ reply[r] \in {"400", "404"} => r \notin recorded

LEMMA ReplyStep == TypeInv /\ ReplyInv /\ [Next]_vars => ReplyInv'
<1> SUFFICES ASSUME TypeInv, ReplyInv, [Next]_vars PROVE ReplyInv'
  OBVIOUS
<1> USE DEF TypeInv, ReplyInv
<1>1. ASSUME NEW u \in Users, StartSession(u) PROVE ReplyInv'
  BY <1>1 DEF StartSession, history
<1>2. ASSUME NEW r \in Requests, NEW u \in Users, NEW b \in Bodies, Submit(r, u, b)
      PROVE  ReplyInv'
  BY <1>2 DEF Submit, Goto, Respond, history, TypeOK, Flow
<1>3. ASSUME NEW r \in Requests, FindSession(r) PROVE ReplyInv'
  BY <1>3 DEF FindSession, Goto, Respond, history, TypeOK, Flow
<1>4. ASSUME NEW r \in Requests, LoadQuestion(r) PROVE ReplyInv'
  BY <1>4 DEF LoadQuestion, Goto, Respond, history, TypeOK, Flow
<1>5. ASSUME NEW r \in Requests, LoadUserAndGrade(r) PROVE ReplyInv'
  BY <1>5 DEF LoadUserAndGrade, Goto, Respond, history, TypeOK, Flow
<1>6. ASSUME NEW r \in Requests, BeginTx(r) PROVE ReplyInv'
  BY <1>6 DEF BeginTx, Goto, history, TypeOK, Flow
<1>7. ASSUME NEW r \in Requests, InsertAnswer(r) PROVE ReplyInv'
  BY <1>7 DEF InsertAnswer, Goto, Respond, history, TypeOK, Flow
<1>8. ASSUME NEW r \in Requests, UpdateUser(r) PROVE ReplyInv'
  BY <1>8 DEF UpdateUser, Goto, history, TypeOK, Flow
<1>9. ASSUME NEW r \in Requests, Commit(r) PROVE ReplyInv'
  BY <1>9 DEF Commit, Goto, Respond, TypeOK, Flow
<1>10. ASSUME NEW r \in Requests, Abort(r) PROVE ReplyInv'
  BY <1>10 DEF Abort, Goto, Respond, history, TypeOK, Flow
<1>11. CASE Crash
  BY <1>11 DEF Crash, history, TypeOK, Flow
<1>12. ASSUME NEW q \in Questions, DeleteQuestion(q) PROVE ReplyInv'
  BY <1>12 DEF DeleteQuestion, history
<1>13. CASE UNCHANGED vars
  BY <1>13 DEF vars, history
<1>14. QED
  BY <1>1, <1>2, <1>3, <1>4, <1>5, <1>6, <1>7, <1>8, <1>9, <1>10, <1>11, <1>12, <1>13
     DEF Next, Handle

\* A reply tells the truth about the database at whatever point the handler
\* stopped (quiz.go:119-189): the client may believe 200, 400 and 404.
THEOREM RepliesTruthful == Spec => []RepliesAreTruthful
<1>1. Init => ReplyInv
  BY DEF Init, ReplyInv
<1>2. TypeInv /\ ReplyInv => RepliesAreTruthful
  BY DEF TypeInv, Flow, ReplyInv, RepliesAreTruthful
<1>3. QED
  BY <1>1, <1>2, ReplyStep, TypeInvariant, PTL DEF Spec

-----------------------------------------------------------------------------
(* The lock of the user's row *)

\* At most one transaction of a user is past its UPDATE, and it wrote the row
\* that the other transactions still see, with its own answer added.
LockInv ==
    \A r \in Requests :
        pc[r] = "commit" =>
            /\ \A other \in Requests :
                  pc[other] = "commit" /\ owner[other] = owner[r] => other = r
            /\ pending[r] = UpdatedRow(users[owner[r]], grade[r], body[r].time)

LEMMA LockStep == TypeInv /\ LockInv /\ [Next]_vars => LockInv'
<1> SUFFICES ASSUME TypeInv, LockInv, [Next]_vars PROVE LockInv'
  OBVIOUS
<1> USE DEF TypeInv, LockInv
<1>1. ASSUME NEW u \in Users, StartSession(u) PROVE LockInv'
  BY <1>1 DEF StartSession, memory
<1>2. ASSUME NEW r \in Requests, NEW u \in Users, NEW b \in Bodies, Submit(r, u, b)
      PROVE  LockInv'
  BY <1>2 DEF Submit, Goto, Respond, tables, TypeOK
<1>3. ASSUME NEW r \in Requests, FindSession(r) PROVE LockInv'
  BY <1>3 DEF FindSession, Goto, Respond, tables, memory, TypeOK
<1>4. ASSUME NEW r \in Requests, LoadQuestion(r) PROVE LockInv'
  BY <1>4 DEF LoadQuestion, Goto, Respond, tables, memory, TypeOK
<1>5. ASSUME NEW r \in Requests, LoadUserAndGrade(r) PROVE LockInv'
  BY <1>5 DEF LoadUserAndGrade, Goto, Respond, tables, TypeOK
<1>6. ASSUME NEW r \in Requests, BeginTx(r) PROVE LockInv'
  BY <1>6 DEF BeginTx, Goto, tables, memory, TypeOK
<1>7. ASSUME NEW r \in Requests, InsertAnswer(r) PROVE LockInv'
  BY <1>7 DEF InsertAnswer, Goto, Respond, tables, memory, TypeOK
<1>8. ASSUME NEW r \in Requests, UpdateUser(r) PROVE LockInv'
  BY <1>8 DEF UpdateUser, UserRowLocked, Goto, tables, TypeOK
<1>9. ASSUME NEW r \in Requests, Commit(r) PROVE LockInv'
  <2>1. PICK status \in {"200", "500", "none"} : Respond(r, status)
    BY <1>9 DEF Commit
  <2>2. \A x \in Requests : pc'[x] = "commit" => x # r /\ pc[x] = "commit"
    BY <2>1 DEF Goto, Respond, TypeOK
  <2>3. \A x \in Requests : pc'[x] = "commit" => owner[x] # owner[r] /\ owner[x] \in Users
    BY <1>9, <2>2 DEF Commit, Flow
  <2>4. \A x \in Requests : pc'[x] = "commit" =>
           /\ users'[owner[x]] = users[owner[x]]
           /\ pending'[x] = pending[x]
    BY <1>9, <2>2, <2>3 DEF Commit, TypeOK
  <2>5. UNCHANGED <<owner, body, grade>>
    BY <1>9 DEF Commit
  <2>6. QED
    BY <2>2, <2>4, <2>5
<1>10. ASSUME NEW r \in Requests, Abort(r) PROVE LockInv'
  BY <1>10 DEF Abort, Goto, Respond, tables, TypeOK
<1>11. CASE Crash
  BY <1>11 DEF Crash
<1>12. ASSUME NEW q \in Questions, DeleteQuestion(q) PROVE LockInv'
  BY <1>12 DEF DeleteQuestion, memory
<1>13. CASE UNCHANGED vars
  BY <1>13 DEF vars, tables, memory
<1>14. QED
  BY <1>1, <1>2, <1>3, <1>4, <1>5, <1>6, <1>7, <1>8, <1>9, <1>10, <1>11, <1>12, <1>13
     DEF Next, Handle

LEMMA LockInvariant == Spec => []LockInv
<1>1. Init => LockInv
  BY DEF Init, LockInv
<1>2. QED
  BY <1>1, LockStep, TypeInvariant, PTL DEF Spec
-----------------------------------------------------------------------------
(* What a step can do to the statistics *)

\* COMMIT replaces the user's row by the row it had when nothing else could
\* touch it, with one answer added.
LEMMA CommitEffect ==
    ASSUME TypeInv, LockInv, NEW r \in Requests, Commit(r)
    PROVE  /\ owner[r] \in Users /\ grade[r] \in Grade /\ body[r].time \in Nat
           /\ r \notin recorded /\ r \in Graded
           /\ users' = [users EXCEPT ![owner[r]] =
                           UpdatedRow(users[owner[r]], grade[r], body[r].time)]
           /\ recorded' = recorded \cup {r}
           /\ UNCHANGED <<sessions, questions, owner, body, grade>>
<1>1. pc[r] = "commit"
  BY DEF Commit
<1>2. owner[r] \in Users /\ grade[r] \in Grade /\ body[r].time \in Nat /\ r \notin recorded
  BY <1>1, BodyAssumption DEF TypeInv, Flow, Graded, ValidBody, ValidTimeTaken
<1>3. QED
  BY <1>1, <1>2 DEF Commit, LockInv, Graded

\* Only COMMIT touches the statistics and the history.
LEMMA OtherSteps ==
    ASSUME [Next]_vars, \A r \in Requests : ~Commit(r)
    PROVE  UNCHANGED <<users, recorded, applied, stale, overwrote>>
BY DEF Next, Handle, StartSession, Submit, FindSession, LoadQuestion, LoadUserAndGrade,
       BeginTx, InsertAnswer, UpdateUser, Abort, Crash, DeleteQuestion,
       vars, tables, history

\* The request of a recorded answer, and the grade it was given, are final.
LEMMA RecordedIsFinal ==
    ASSUME TypeInv, [Next]_vars, NEW r \in recorded
    PROVE  owner'[r] = owner[r] /\ body'[r] = body[r] /\ grade'[r] = grade[r]
<1>1. r \in Requests /\ pc[r] = "done"
  BY DEF TypeInv, TypeOK, Flow
<1>2. QED
  BY <1>1 DEF Next, Handle, StartSession, Submit, FindSession, LoadQuestion,
       LoadUserAndGrade, BeginTx, InsertAnswer, UpdateUser, Commit, Abort, Crash,
       DeleteQuestion, vars, memory, TypeInv, TypeOK

-----------------------------------------------------------------------------
(* The rating and the answers that explain it *)

\* A grade that no commit has made stale still fits the rating it was computed
\* from; and the rating is the sum of the changes unless a stale grade has
\* overwritten it.
FreshInv ==
    /\ \A r \in Graded \ stale :
          grade[r].new_elo = users[owner[r]].current_elo + grade[r].elo_change
    /\ LedgerExplainsRating

LEMMA FreshStep == TypeInv /\ LockInv /\ FreshInv /\ [Next]_vars => FreshInv'
<1> SUFFICES ASSUME TypeInv, LockInv, FreshInv, [Next]_vars PROVE FreshInv'
  OBVIOUS
<1>1. ASSUME NEW r \in Requests, Commit(r) PROVE FreshInv'
  <2> DEFINE u == owner[r]
             row == UpdatedRow(users[u], grade[r], body[r].time)
  <2>1. /\ u \in Users /\ grade[r] \in Grade /\ r \in Graded
        /\ users' = [users EXCEPT ![u] = row]
        /\ UNCHANGED <<owner, grade>>
    BY <1>1, CommitEffect
  <2>2. row.current_elo = grade[r].new_elo
    BY DEF UpdatedRow
  <2>3. users'[u].current_elo = grade[r].new_elo
    BY <2>1, <2>2 DEF TypeInv, TypeOK
  <2>4. \A v \in Users \ {u} : users'[v] = users[v]
    BY <2>1 DEF TypeInv, TypeOK
  <2>5. Graded' = Graded \ {r}
    <3>1. PICK status \in {"200", "500", "none"} : Respond(r, status)
      BY <1>1 DEF Commit
    <3>2. QED
      BY <3>1 DEF Respond, Goto, Graded, TypeInv, TypeOK
  <2>6. ASSUME NEW x \in Graded' \ stale'
        PROVE  grade'[x].new_elo = users'[owner'[x]].current_elo + grade'[x].elo_change
    <3>1. x \in Graded \ stale /\ owner[x] # u
      BY <1>1, <2>5 DEF Commit
    <3>2. owner[x] \in Users
      BY <3>1 DEF Graded, TypeInv, Flow
    <3>3. QED
      BY <2>1, <2>4, <3>1, <3>2 DEF FreshInv
  <2>7. ASSUME NEW v \in Users \ overwrote'
        PROVE  users'[v].current_elo = DefaultElo + applied'[v]
    <3>1. v \in Users \ overwrote
      BY <1>1 DEF Commit
    <3>2. users[v].current_elo = DefaultElo + applied[v]
      BY <3>1 DEF FreshInv, LedgerExplainsRating
    <3>3. CASE v # u
      BY <1>1, <2>4, <3>1, <3>2, <3>3 DEF Commit, TypeInv, TypeOK
    <3>4. CASE v = u
      <4>1. r \notin stale
        BY <1>1, <3>4 DEF Commit
      <4>2. grade[r].new_elo = users[u].current_elo + grade[r].elo_change
        BY <2>1, <4>1 DEF FreshInv
      <4>3. applied'[u] = applied[u] + grade[r].elo_change
        BY <1>1, <2>1 DEF Commit, TypeInv, TypeOK
      <4>4. /\ grade[r].elo_change \in Int /\ applied[u] \in Int /\ DefaultElo \in Int
            /\ users[u].current_elo \in Int
        BY <2>1, DefaultEloAssumption, EloBoundsAssumption
           DEF Grade, TypeInv, TypeOK, UserRow, Elos
      <4>5. QED
        BY <2>3, <3>2, <3>4, <4>2, <4>3, <4>4
    <3>5. QED
      BY <3>3, <3>4
  <2>8. QED
    BY <2>6, <2>7 DEF FreshInv, LedgerExplainsRating
<1>2. ASSUME NEW r \in Requests, LoadUserAndGrade(r) PROVE FreshInv'
  <2>1. UNCHANGED <<users, owner, applied, stale, overwrote>>
    BY <1>2 DEF LoadUserAndGrade, tables, history
  <2>2. \A x \in Graded' \ {r} : x \in Graded /\ grade'[x] = grade[x]
    BY <1>2 DEF LoadUserAndGrade, Goto, Respond, Graded, TypeInv, TypeOK
  <2>3. r \in Graded' =>
           grade'[r].new_elo = users[owner[r]].current_elo + grade'[r].elo_change
    <3> SUFFICES ASSUME r \in Graded'
                 PROVE  grade'[r].new_elo = users[owner[r]].current_elo + grade'[r].elo_change
      OBVIOUS
    <3> DEFINE elo == users[owner[r]].current_elo
    <3>1. grade'[r] = GradeOf(r) /\ ValidElo(QuestionRow[body[r].question].elo)
      BY <1>2 DEF LoadUserAndGrade, Goto, Respond, Graded, TypeInv, TypeOK
    <3>2. GradeOf(r) \in Grade
      BY <1>2, <3>1, GradeType DEF LoadUserAndGrade
    <3>3. GradeOf(r).elo_change = GradeOf(r).new_elo - elo
      BY DEF GradeOf
    <3>4. elo \in Int
      BY <1>2, EloBoundsAssumption DEF LoadUserAndGrade, TypeInv, Flow, TypeOK, UserRow, Elos
    <3>5. GradeOf(r).new_elo \in Int
      BY <3>2, EloBoundsAssumption DEF Grade, Elos
    <3> HIDE DEF elo
    <3>6. GradeOf(r).new_elo = elo + GradeOf(r).elo_change
      BY <3>3, <3>4, <3>5
    <3>7. QED
      BY <3>1, <3>6 DEF elo
  <2>4. QED
    BY <2>1, <2>2, <2>3 DEF FreshInv, LedgerExplainsRating
<1>3. CASE \A r \in Requests : ~Commit(r) /\ ~LoadUserAndGrade(r)
  <2>1. UNCHANGED <<users, recorded, applied, stale, overwrote>>
    BY <1>3, OtherSteps
  <2>2. grade' = grade
    BY <1>3 DEF Next, Handle, StartSession, Submit, FindSession, LoadQuestion, BeginTx,
         InsertAnswer, UpdateUser, Abort, Crash, DeleteQuestion, vars, memory
  <2>3. \A x \in Graded' : x \in Graded /\ owner'[x] = owner[x]
    BY <1>3 DEF Next, Handle, StartSession, Submit, FindSession, LoadQuestion, BeginTx,
         InsertAnswer, UpdateUser, Abort, Crash, DeleteQuestion, vars, memory,
         Goto, Respond, Graded, TypeInv, TypeOK
  <2>4. QED
    BY <2>1, <2>2, <2>3 DEF FreshInv, LedgerExplainsRating
<1>4. QED
  BY <1>1, <1>2, <1>3

\* As long as no two submissions of a user overlapped between reading the
\* rating (quiz.go:129) and COMMIT (postgres.go:273), the stored rating is the
\* default plus every recorded elo_change, whatever failed or was retried.
THEOREM LedgerExact == Spec => []LedgerExplainsRating
<1>1. Init => FreshInv
  <2> SUFFICES ASSUME Init PROVE FreshInv
    OBVIOUS
  <2>1. Graded = {}
    BY DEF Init, Graded
  <2>2. \A u \in Users : users[u].current_elo = DefaultElo /\ applied[u] = 0
    BY DEF Init, NewUser
  <2>3. QED
    BY <2>1, <2>2, DefaultEloAssumption DEF FreshInv, LedgerExplainsRating
<1>2. FreshInv => LedgerExplainsRating
  BY DEF FreshInv
<1>3. QED
  BY <1>1, <1>2, FreshStep, TypeInvariant, LockInvariant, PTL DEF Spec
-----------------------------------------------------------------------------
(* What a wrong answer does to the stored rating *)

\* A grade that no commit has made stale is what grading would compute again
\* now; and grading only happened for a question with a valid rating.
CurrentInv ==
    \A r \in Graded :
        /\ ValidElo(QuestionRow[body[r].question].elo)
        /\ r \notin stale => grade[r] = GradeOf(r)

LEMMA CurrentStep == TypeInv /\ LockInv /\ CurrentInv /\ [Next]_vars => CurrentInv'
<1> SUFFICES ASSUME TypeInv, LockInv, CurrentInv, [Next]_vars PROVE CurrentInv'
  OBVIOUS
<1>1. ASSUME NEW r \in Requests, Commit(r) PROVE CurrentInv'
  <2>1. /\ owner[r] \in Users
        /\ users' = [users EXCEPT ![owner[r]] =
                        UpdatedRow(users[owner[r]], grade[r], body[r].time)]
        /\ UNCHANGED <<owner, body, grade>>
    BY <1>1, CommitEffect
  <2>2. Graded' \subseteq Graded \ {r}
    <3>1. PICK status \in {"200", "500", "none"} : Respond(r, status)
      BY <1>1 DEF Commit
    <3>2. QED
      BY <3>1 DEF Respond, Goto, Graded, TypeInv, TypeOK
  <2>3. ASSUME NEW x \in Graded', x \notin stale'
        PROVE  x \notin stale /\ GradeOf(x)' = GradeOf(x)
    <3>1. x \notin stale /\ owner[x] # owner[r]
      BY <1>1, <2>2, <2>3 DEF Commit
    <3>2. owner[x] \in Users
      BY <2>2 DEF Graded, TypeInv, Flow
    <3>3. users'[owner[x]] = users[owner[x]]
      BY <2>1, <3>1, <3>2 DEF TypeInv, TypeOK
    <3>4. QED
      BY <2>1, <3>1, <3>3 DEF GradeOf
  <2>4. QED
    BY <2>1, <2>2, <2>3 DEF CurrentInv
<1>2. ASSUME NEW r \in Requests, LoadUserAndGrade(r) PROVE CurrentInv'
  <2>1. UNCHANGED <<users, owner, body, stale>>
    BY <1>2 DEF LoadUserAndGrade, tables, history
  <2>2. \A x \in Graded' \ {r} : x \in Graded /\ grade'[x] = grade[x]
    BY <1>2 DEF LoadUserAndGrade, Goto, Respond, Graded, TypeInv, TypeOK
  <2>3. r \in Graded' => /\ grade'[r] = GradeOf(r)
                         /\ ValidElo(QuestionRow[body[r].question].elo)
    BY <1>2 DEF LoadUserAndGrade, Goto, Respond, Graded, TypeInv, TypeOK
  <2>4. \A x \in Requests : GradeOf(x)' = GradeOf(x)
    BY <2>1 DEF GradeOf
  <2>5. Graded' \subseteq Requests
    BY DEF Graded
  <2>6. QED
    BY <2>1, <2>2, <2>3, <2>4, <2>5 DEF CurrentInv
<1>3. CASE \A r \in Requests : ~Commit(r) /\ ~LoadUserAndGrade(r)
  <2>1. UNCHANGED <<users, recorded, applied, stale, overwrote>>
    BY <1>3, OtherSteps
  <2>2. grade' = grade
    BY <1>3 DEF Next, Handle, StartSession, Submit, FindSession, LoadQuestion, BeginTx,
         InsertAnswer, UpdateUser, Abort, Crash, DeleteQuestion, vars, memory
  <2>3. \A x \in Graded' : x \in Graded /\ owner'[x] = owner[x] /\ body'[x] = body[x]
    BY <1>3 DEF Next, Handle, StartSession, Submit, FindSession, LoadQuestion, BeginTx,
         InsertAnswer, UpdateUser, Abort, Crash, DeleteQuestion, vars, memory,
         Goto, Respond, Graded, TypeInv, TypeOK
  <2>4. \A x \in Graded' : GradeOf(x)' = GradeOf(x)
    BY <2>1, <2>3 DEF GradeOf
  <2>5. QED
    BY <2>1, <2>2, <2>3, <2>4 DEF CurrentInv
<1>4. QED
  BY <1>1, <1>2, <1>3

LEMMA CurrentInvariant == Spec => []CurrentInv
<1>1. Init => CurrentInv
  BY DEF Init, CurrentInv, Graded
<1>2. QED
  BY <1>1, CurrentStep, TypeInvariant, LockInvariant, PTL DEF Spec

\* A wrong answer is graded below the rating it was graded on, or at the floor.
LEMMA WrongGrade ==
    ASSUME TypeInv, CurrentInv, NEW r \in Graded \ stale,
           ~ grade[r].correct, body[r].skips =< MaxInt - 36
    PROVE  \/ grade[r].new_elo < users[owner[r]].current_elo
           \/ grade[r].new_elo = MinUserElo
<1> DEFINE b == body[r]
           q == QuestionRow[b.question]
           elo == users[owner[r]].current_elo
           correct == Matches(b.selected, q.correct_answers)
           new == NewElo(elo, q, correct, b.time, b.skips)
<1>1. r \in Requests /\ pc[r] \notin {"idle", "done"}
  BY DEF Graded
<1>2. b \in Bodies /\ owner[r] \in Users /\ ValidBody(b)
  BY <1>1 DEF TypeInv, Flow
<1>3. elo \in MinUserElo .. MaxUserElo
  BY <1>2 DEF TypeInv, TypeOK, UserRow, Elos
<1>4. b.question \in Questions /\ b.time \in Int /\ b.skips \in Nat
  BY <1>2, BodyAssumption DEF ValidBody
<1>5. correct \in BOOLEAN
  BY DEF Matches
<1>6. grade[r].correct = correct /\ grade[r].new_elo = new
  <2>1. grade[r] = GradeOf(r)
    BY DEF CurrentInv
  <2>2. GradeOf(r) = [correct |-> correct, elo_change |-> new - elo, new_elo |-> new]
    BY DEF GradeOf
  <2>3. QED
    <3> HIDE DEF correct, new, elo
    <3>1. QED
      BY <2>1, <2>2
<1>7. GradedQuestion(q)
  BY <1>4, QuestionAssumption, EloBoundsAssumption DEF CurrentInv, ValidElo, GradedQuestion
<1>8. b.skips =< MaxInt - 36 /\ ~ correct
  BY <1>6
<1>9. new < elo \/ new = MinUserElo
  <2> HIDE DEF b, q, elo, correct
  <2>1. QED
    BY <1>3, <1>4, <1>5, <1>7, <1>8, NewEloFacts
<1>10. QED
  BY <1>6, <1>9

\* A wrong answer whose grading no commit of the same user overlapped leaves
\* the stored rating lower than it was, or at the lowest there is, whatever
\* other users, administrators and failures do (elo.go:56-59, postgres.go:257).
THEOREM WrongAnswersAlwaysCost == Spec => WrongAnswerCosts
<1> DEFINE Costs ==
        \A r \in (recorded' \ recorded) \ stale :
           ~grade[r].correct /\ body[r].skips =< MaxInt - 36 =>
             LET u == owner[r]
             IN  \/ users'[u].current_elo < users[u].current_elo
                 \/ users'[u].current_elo = MinUserElo
<1>1. TypeInv /\ LockInv /\ CurrentInv /\ [Next]_vars => [Costs]_vars
  <2> SUFFICES ASSUME TypeInv, LockInv, CurrentInv, [Next]_vars,
                      NEW r \in (recorded' \ recorded) \ stale,
                      ~grade[r].correct, body[r].skips =< MaxInt - 36
               PROVE  \/ users'[owner[r]].current_elo < users[owner[r]].current_elo
                      \/ users'[owner[r]].current_elo = MinUserElo
    OBVIOUS
  <2>1. PICK x \in Requests : Commit(x)
    BY OtherSteps
  <2>2. x = r
    BY <2>1, CommitEffect
  <2>3. /\ owner[r] \in Users /\ r \in Graded
        /\ users' = [users EXCEPT ![owner[r]] =
                        UpdatedRow(users[owner[r]], grade[r], body[r].time)]
    BY <2>1, <2>2, CommitEffect
  <2>4. users'[owner[r]].current_elo = grade[r].new_elo
    BY <2>3 DEF UpdatedRow, TypeInv, TypeOK
  <2>5. QED
    BY <2>3, <2>4, WrongGrade
<1>2. QED
  BY <1>1, TypeInvariant, LockInvariant, CurrentInvariant, PTL DEF Spec, WrongAnswerCosts

-----------------------------------------------------------------------------
(* The counters *)

RightOf(u) == {r \in RecordedOf(u) : grade[r].correct}

LEMMA RecordedSetsFinite ==
    ASSUME TypeInv, NEW u
    PROVE  IsFiniteSet(RecordedOf(u)) /\ IsFiniteSet(RightOf(u))
<1>1. RecordedOf(u) \subseteq Requests /\ RightOf(u) \subseteq Requests
  BY DEF TypeInv, TypeOK, RecordedOf, RightOf
<1>2. QED
  BY <1>1, RequestsAssumption, FS_Subset

\* How COMMIT changes the sets that the counters count.
LEMMA CommitCounts ==
    ASSUME TypeInv, LockInv, NEW r \in Requests, Commit(r), NEW v \in Users
    PROVE  /\ v # owner[r] => RecordedOf(v)' = RecordedOf(v) /\ RightOf(v)' = RightOf(v)
           /\ v = owner[r] =>
                /\ RecordedOf(v)' = RecordedOf(v) \cup {r}
                /\ RightOf(v)' = IF grade[r].correct THEN RightOf(v) \cup {r} ELSE RightOf(v)
           /\ r \notin RecordedOf(v) /\ r \notin RightOf(v)
BY CommitEffect DEF RecordedOf, RightOf

LEMMA OtherStepsCount ==
    ASSUME TypeInv, [Next]_vars, \A r \in Requests : ~Commit(r), NEW v \in Users
    PROVE  RecordedOf(v)' = RecordedOf(v) /\ RightOf(v)' = RightOf(v)
<1>1. recorded' = recorded
  BY OtherSteps
<1>2. \A r \in recorded : owner'[r] = owner[r] /\ grade'[r] = grade[r]
  BY RecordedIsFinal
<1>3. QED
  BY <1>1, <1>2 DEF RecordedOf, RightOf

LEMMA CountStep ==
    TypeInv /\ LockInv /\ StatsCountEveryAnswer /\ [Next]_vars => StatsCountEveryAnswer'
<1> SUFFICES ASSUME TypeInv, LockInv, StatsCountEveryAnswer, [Next]_vars, NEW v \in Users
             PROVE  /\ users'[v].total = Cardinality(RecordedOf(v)')
                    /\ users'[v].accuracy_sum = 100 * Cardinality(RightOf(v)')
  BY DEF StatsCountEveryAnswer, RightOf
<1>1. /\ users[v].total = Cardinality(RecordedOf(v))
      /\ users[v].accuracy_sum = 100 * Cardinality(RightOf(v))
  BY DEF StatsCountEveryAnswer, RightOf
<1>2. ASSUME NEW r \in Requests, Commit(r), v = owner[r]
      PROVE  /\ users'[v].total = Cardinality(RecordedOf(v)')
             /\ users'[v].accuracy_sum = 100 * Cardinality(RightOf(v)')
  <2> DEFINE n == Cardinality(RecordedOf(v))
             k == Cardinality(RightOf(v))
             row == users[v]
             hit == IF grade[r].correct THEN 100 ELSE 0
  <2>1. IsFiniteSet(RecordedOf(v)) /\ IsFiniteSet(RightOf(v)) /\ n \in Nat /\ k \in Nat
    BY RecordedSetsFinite, FS_CardinalityType
  <2>2. /\ RecordedOf(v)' = RecordedOf(v) \cup {r} /\ r \notin RecordedOf(v)
        /\ RightOf(v)' = IF grade[r].correct THEN RightOf(v) \cup {r} ELSE RightOf(v)
        /\ r \notin RightOf(v)
    BY <1>2, CommitCounts
  <2>3. Cardinality(RecordedOf(v)') = n + 1
    BY <2>1, <2>2, FS_AddElement
  <2>4. Cardinality(RightOf(v)') = IF grade[r].correct THEN k + 1 ELSE k
    BY <2>1, <2>2, FS_AddElement
  <2>5. users'[v] = UpdatedRow(row, grade[r], body[r].time)
    BY <1>2, CommitEffect DEF TypeInv, TypeOK
  <2>6. /\ users'[v].total = row.total + 1
        /\ users'[v].accuracy_sum = IF row.total = 0 THEN hit ELSE row.accuracy_sum + hit
    BY <2>5 DEF UpdatedRow
  <2>7. n = 0 => k = 0
    <3>1. RightOf(v) \subseteq RecordedOf(v)
      BY DEF RightOf
    <3>2. k =< n
      BY <2>1, <3>1, FS_Subset
    <3>3. QED
      BY <2>1, <3>2
  <2>8. row.total = n /\ row.accuracy_sum = 100 * k
    BY <1>1
  <2> HIDE DEF n, k, row
  <2>9. QED
    BY <2>1, <2>3, <2>4, <2>6, <2>7, <2>8
<1>3. ASSUME NEW r \in Requests, Commit(r), v # owner[r]
      PROVE  /\ users'[v].total = Cardinality(RecordedOf(v)')
             /\ users'[v].accuracy_sum = 100 * Cardinality(RightOf(v)')
  <2>1. users'[v] = users[v]
    BY <1>3, CommitEffect DEF TypeInv, TypeOK
  <2>2. QED
    BY <1>1, <1>3, <2>1, CommitCounts
<1>4. CASE \A r \in Requests : ~Commit(r)
  BY <1>1, <1>4, OtherSteps, OtherStepsCount
<1>5. QED
  BY <1>2, <1>3, <1>4

\* total_questions_solved and accuracy_percentage count exactly the answers
\* whose transactions committed (postgres.go:257-272), for any number of
\* concurrent submissions, failures and deleted questions.
THEOREM StatsExact == Spec => []StatsCountEveryAnswer
<1>1. Init => StatsCountEveryAnswer
  <2> SUFFICES ASSUME Init, NEW u \in Users
               PROVE  /\ users[u].total = Cardinality(RecordedOf(u))
                      /\ users[u].accuracy_sum = 100 * Cardinality(RightOf(u))
    BY DEF StatsCountEveryAnswer, RightOf
  <2>1. RecordedOf(u) = {} /\ RightOf(u) = {}
    BY DEF Init, RecordedOf, RightOf
  <2>2. users[u].total = 0 /\ users[u].accuracy_sum = 0
    BY DEF Init, NewUser
  <2>3. QED
    BY <2>1, <2>2, FS_EmptySet
<1>2. QED
  BY <1>1, CountStep, TypeInvariant, LockInvariant, PTL DEF Spec

-----------------------------------------------------------------------------
(* The peak *)

GivenTo(u) == {DefaultElo} \cup {grade[r].new_elo : r \in RecordedOf(u)}

\* The peak is the greatest of the ratings the user was ever given.
PeakInv ==
    \A u \in Users :
        /\ users[u].peak_elo \in GivenTo(u)
        /\ \A elo \in GivenTo(u) : elo =< users[u].peak_elo

LEMMA PeakStep == TypeInv /\ LockInv /\ PeakInv /\ [Next]_vars => PeakInv'
<1> SUFFICES ASSUME TypeInv, LockInv, PeakInv, [Next]_vars, NEW v \in Users
             PROVE  /\ users'[v].peak_elo \in GivenTo(v)'
                    /\ \A elo \in GivenTo(v)' : elo =< users'[v].peak_elo
  BY DEF PeakInv
<1>1. /\ users[v].peak_elo \in GivenTo(v)
      /\ \A elo \in GivenTo(v) : elo =< users[v].peak_elo
  BY DEF PeakInv
<1>2. ASSUME NEW r \in Requests, Commit(r), v = owner[r]
      PROVE  /\ users'[v].peak_elo \in GivenTo(v)'
             /\ \A elo \in GivenTo(v)' : elo =< users'[v].peak_elo
  <2> DEFINE new == grade[r].new_elo
             peak == users[v].peak_elo
  <2>1. GivenTo(v)' = GivenTo(v) \cup {new}
    <3>1. RecordedOf(v)' = RecordedOf(v) \cup {r} /\ grade' = grade
      BY <1>2, CommitCounts, CommitEffect
    <3>2. QED
      BY <3>1 DEF GivenTo
  <2>2. users'[v].peak_elo = IF new > peak THEN new ELSE peak
    <3>1. users'[v] = UpdatedRow(users[v], grade[r], body[r].time)
      BY <1>2, CommitEffect DEF TypeInv, TypeOK
    <3>2. QED
      BY <3>1 DEF UpdatedRow
  <2>3. new \in Int /\ peak \in Int
    BY <1>2, CommitEffect, EloBoundsAssumption DEF Grade, TypeInv, TypeOK, UserRow, Elos
  <2>4. \A elo \in GivenTo(v) : elo \in Int
    BY DefaultEloAssumption, EloBoundsAssumption
       DEF GivenTo, RecordedOf, TypeInv, TypeOK, Flow, Grade, Elos
  <2> HIDE DEF new, peak
  <2>5. peak \in GivenTo(v) /\ \A elo \in GivenTo(v) : elo =< peak
    BY <1>1 DEF peak
  <2>6. users'[v].peak_elo \in GivenTo(v)'
    BY <2>1, <2>2, <2>5
  <2>7. ASSUME NEW elo \in GivenTo(v)' PROVE elo =< users'[v].peak_elo
    <3> DEFINE after == users'[v].peak_elo
    <3>1. after = IF new > peak THEN new ELSE peak
      BY <2>2
    <3> HIDE DEF after
    <3>2. elo = new \/ (elo \in Int /\ elo =< peak)
      BY <2>1, <2>4, <2>5, <2>7
    <3>3. elo =< after
      BY <2>3, <3>1, <3>2
    <3>4. QED
      BY <3>3 DEF after
  <2>8. QED
    BY <2>6, <2>7
<1>3. ASSUME UNCHANGED <<users[v], RecordedOf(v)>>
      PROVE  /\ users'[v].peak_elo \in GivenTo(v)'
             /\ \A elo \in GivenTo(v)' : elo =< users'[v].peak_elo
  <2>1. \A x \in RecordedOf(v) : grade'[x] = grade[x]
    BY RecordedIsFinal DEF RecordedOf
  <2>2. GivenTo(v)' = GivenTo(v)
    BY <1>3, <2>1 DEF GivenTo
  <2>3. QED
    BY <1>1, <1>3, <2>2
<1>4. ASSUME NEW r \in Requests, Commit(r), v # owner[r]
      PROVE  UNCHANGED <<users[v], RecordedOf(v)>>
  <2>1. users'[v] = users[v]
    BY <1>4, CommitEffect DEF TypeInv, TypeOK
  <2>2. QED
    BY <1>4, <2>1, CommitCounts
<1>5. ASSUME \A r \in Requests : ~Commit(r)
      PROVE  UNCHANGED <<users[v], RecordedOf(v)>>
  BY <1>5, OtherSteps, OtherStepsCount
<1>6. QED
  BY <1>2, <1>3, <1>4, <1>5

\* GREATEST in the UPDATE (postgres.go:259) keeps the highest rating ever
\* given, whatever the order in which concurrent submissions commit.
THEOREM PeakExact == Spec => []PeakCoversHistory
<1>1. Init => PeakInv
  <2> SUFFICES ASSUME Init, NEW u \in Users
               PROVE  /\ users[u].peak_elo \in GivenTo(u)
                      /\ \A elo \in GivenTo(u) : elo =< users[u].peak_elo
    BY DEF PeakInv
  <2>1. GivenTo(u) = {DefaultElo} /\ users[u].peak_elo = DefaultElo
    BY DEF Init, GivenTo, RecordedOf, NewUser
  <2>2. QED
    BY <2>1, DefaultEloAssumption
<1>2. TypeInv /\ PeakInv => PeakCoversHistory
  <2> SUFFICES ASSUME TypeInv, PeakInv, NEW u \in Users
               PROVE  users[u].peak_elo = Max(GivenTo(u))
    BY DEF PeakCoversHistory, GivenTo
  <2>1. \A elo \in GivenTo(u) : elo \in Int
    BY DefaultEloAssumption, EloBoundsAssumption
       DEF GivenTo, RecordedOf, TypeInv, TypeOK, Flow, Grade, Elos
  <2>2. /\ users[u].peak_elo \in GivenTo(u)
        /\ \A elo \in GivenTo(u) : users[u].peak_elo >= elo
    BY <2>1 DEF PeakInv
  <2>3. /\ Max(GivenTo(u)) \in GivenTo(u)
        /\ \A elo \in GivenTo(u) : Max(GivenTo(u)) >= elo
    BY <2>2 DEF Max
  <2>4. QED
    BY <2>1, <2>2, <2>3
<1>3. QED
  BY <1>1, <1>2, PeakStep, TypeInvariant, LockInvariant, PTL DEF Spec
-----------------------------------------------------------------------------
(* The tables *)

\* Handler runs past GetSession, and the answers they recorded.
PastSession ==
    recorded \cup {r \in Requests :
                     pc[r] \in {"question", "user", "begin", "insert", "update", "commit"}}

\* What GetSession and the foreign key checked still holds when COMMIT comes:
\* sessions are never taken back, and the question cannot be deleted while the
\* transaction shares its row.
CheckedInv ==
    /\ \A r \in PastSession : sessions[body[r].session] = owner[r]
    /\ \A r \in Requests : pc[r] \in {"update", "commit"} => body[r].question \in questions
    /\ \A r \in Graded \cup recorded :
          grade[r].correct = Matches(body[r].selected,
                                     QuestionRow[body[r].question].correct_answers)

\* The rows of quiz_answers, column by column.
RowsInv ==
    \A r \in Requests :
        /\ answers[r] # NoRow <=> r \in recorded /\ body[r].question \in questions
        /\ answers[r] # NoRow => answers[r] = InsertedRow(r)

LEMMA CheckedStep == TypeInv /\ CheckedInv /\ [Next]_vars => CheckedInv'
<1> SUFFICES ASSUME TypeInv, CheckedInv, [Next]_vars PROVE CheckedInv'
  OBVIOUS
<1> USE DEF CheckedInv, PastSession
<1>1. ASSUME NEW u \in Users, StartSession(u) PROVE CheckedInv'
  <2>1. \A s \in Sessions : sessions[s] # NoUser => sessions'[s] = sessions[s]
    BY <1>1 DEF StartSession, TypeInv, TypeOK
  <2>2. \A r \in PastSession : body[r].session \in Sessions /\ owner[r] # NoUser
    BY BodyAssumption, NullAssumption DEF TypeInv, TypeOK, Flow
  <2>3. QED
    BY <1>1, <2>1, <2>2 DEF StartSession, memory, history, Graded
<1>2. ASSUME NEW r \in Requests, NEW u \in Users, NEW b \in Bodies, Submit(r, u, b)
      PROVE  CheckedInv'
  BY <1>2 DEF Submit, Goto, Respond, tables, history, Graded, TypeInv, TypeOK, Flow
<1>3. ASSUME NEW r \in Requests, FindSession(r) PROVE CheckedInv'
  BY <1>3 DEF FindSession, Goto, Respond, tables, memory, history, Graded, TypeInv, TypeOK, Flow
<1>4. ASSUME NEW r \in Requests, LoadQuestion(r) PROVE CheckedInv'
  BY <1>4 DEF LoadQuestion, Goto, Respond, tables, memory, history, Graded, TypeInv, TypeOK, Flow
<1>5. ASSUME NEW r \in Requests, LoadUserAndGrade(r) PROVE CheckedInv'
  <2>1. GradeOf(r).correct = Matches(body[r].selected,
                                     QuestionRow[body[r].question].correct_answers)
    BY DEF GradeOf
  <2>2. QED
    BY <1>5, <2>1 DEF LoadUserAndGrade, Goto, Respond, tables, history, Graded, TypeInv, TypeOK, Flow
<1>6. ASSUME NEW r \in Requests, BeginTx(r) PROVE CheckedInv'
  BY <1>6 DEF BeginTx, Goto, tables, memory, history, Graded, TypeInv, TypeOK, Flow
<1>7. ASSUME NEW r \in Requests, InsertAnswer(r) PROVE CheckedInv'
  BY <1>7 DEF InsertAnswer, Goto, Respond, tables, memory, history, Graded, TypeInv, TypeOK, Flow
<1>8. ASSUME NEW r \in Requests, UpdateUser(r) PROVE CheckedInv'
  BY <1>8 DEF UpdateUser, Goto, tables, history, Graded, TypeInv, TypeOK, Flow
<1>9. ASSUME NEW r \in Requests, Commit(r) PROVE CheckedInv'
  BY <1>9 DEF Commit, Goto, Respond, Graded, TypeInv, TypeOK, Flow
<1>10. ASSUME NEW r \in Requests, Abort(r) PROVE CheckedInv'
  BY <1>10 DEF Abort, Goto, Respond, tables, history, Graded, TypeInv, TypeOK, Flow
<1>11. CASE Crash
  BY <1>11 DEF Crash, tables, history, Graded, TypeInv, TypeOK, Flow
<1>12. ASSUME NEW q \in Questions, DeleteQuestion(q) PROVE CheckedInv'
  BY <1>12 DEF DeleteQuestion, QuestionRowShared, memory, history, Graded, TypeInv, TypeOK, Flow
<1>13. CASE UNCHANGED vars
  BY <1>13 DEF vars, tables, memory, history, Graded
<1>14. QED
  BY <1>1, <1>2, <1>3, <1>4, <1>5, <1>6, <1>7, <1>8, <1>9, <1>10, <1>11, <1>12, <1>13
     DEF Next, Handle

LEMMA InsertedColumns ==
    ASSUME NEW r
    PROVE  /\ InsertedRow(r).user = owner[r]
           /\ InsertedRow(r).session = body[r].session
           /\ InsertedRow(r).question = body[r].question
           /\ InsertedRow(r).correct = Matches(body[r].selected,
                                    QuestionRow[body[r].question].correct_answers)
BY DEF InsertedRow

LEMMA RowsStep == TypeInv /\ CheckedInv /\ RowsInv /\ [Next]_vars => RowsInv'
<1> SUFFICES ASSUME TypeInv, CheckedInv, RowsInv, [Next]_vars PROVE RowsInv'
  OBVIOUS
<1>1. \A r \in recorded : body'[r] = body[r] /\ InsertedRow(r)' = InsertedRow(r)
  BY RecordedIsFinal DEF InsertedRow
<1>2. ASSUME NEW r \in Requests, Commit(r) PROVE RowsInv'
  <2>1. pc[r] = "commit" /\ body[r].question \in questions
    BY <1>2 DEF Commit, CheckedInv
  <2>2. InsertedRow(r) \in AnswerRow /\ InsertedRow(r)' = InsertedRow(r)
    BY <1>2, <2>1, InsertedRowType DEF Commit, InsertedRow
  <2>3. InsertedRow(r) # NoRow
    BY <2>2, NoRowAssumption
  <2>4. answers' = [answers EXCEPT ![r] = InsertedRow(r)] /\ recorded' = recorded \cup {r}
        /\ body' = body /\ questions' = questions
    BY <1>2 DEF Commit
  <2>5. QED
    BY <1>1, <2>1, <2>2, <2>3, <2>4 DEF RowsInv, TypeInv, TypeOK
<1>3. ASSUME NEW q \in Questions, DeleteQuestion(q) PROVE RowsInv'
  <2>1. UNCHANGED <<recorded, body>>
    BY <1>3 DEF DeleteQuestion, memory, history
  <2>2. \A r \in Requests : answers[r] # NoRow => answers[r].question = body[r].question
    BY InsertedColumns DEF RowsInv
  <2>3. \A r \in Requests : answers'[r] = IF answers[r] # NoRow /\ body[r].question = q
                                         THEN NoRow ELSE answers[r]
    BY <1>3, <2>2 DEF DeleteQuestion
  <2>4. questions' = questions \ {q}
    BY <1>3 DEF DeleteQuestion
  <2>5. QED
    BY <1>1, <2>1, <2>3, <2>4 DEF RowsInv
<1>4. CASE /\ \A r \in Requests : ~Commit(r)
           /\ \A q \in Questions : ~DeleteQuestion(q)
  <2>1. UNCHANGED <<answers, questions, recorded>>
    BY <1>4 DEF Next, Handle, StartSession, Submit, FindSession, LoadQuestion,
         LoadUserAndGrade, BeginTx, InsertAnswer, UpdateUser, Abort, Crash, vars, tables, history
  <2>2. QED
    BY <1>1, <2>1 DEF RowsInv
<1>5. QED
  BY <1>2, <1>3, <1>4

LEMMA TableInvariant == Spec => [](CheckedInv /\ RowsInv)
<1>1. Init => CheckedInv /\ RowsInv
  BY DEF Init, CheckedInv, PastSession, Graded, RowsInv
<1>2. QED
  BY <1>1, CheckedStep, RowsStep, TypeInvariant, PTL DEF Spec

\* quiz_answers holds the recorded answers to the questions that still exist,
\* each in a session of its user: neither a deletion racing with the
\* transaction (postgres.go:455, 245) nor one cascading over old answers
\* leaves an orphan or takes a row too many.
THEOREM TablesMatch == Spec => []AnswersMatchTables
<1>1. TypeInv /\ CheckedInv /\ RowsInv => AnswersMatchTables
  <2> SUFFICES ASSUME TypeInv, CheckedInv, RowsInv, NEW r \in Requests
               PROVE  /\ answers[r] # NoRow <=> r \in recorded /\ body[r].question \in questions
                      /\ answers[r] # NoRow => /\ sessions[answers[r].session] = answers[r].user
                                               /\ answers[r].user = owner[r]
                                               /\ answers[r].correct = grade[r].correct
    BY DEF AnswersMatchTables
  <2>1. answers[r] # NoRow <=> r \in recorded /\ body[r].question \in questions
    BY DEF RowsInv
  <2>2. ASSUME answers[r] # NoRow
        PROVE  /\ sessions[answers[r].session] = answers[r].user
               /\ answers[r].user = owner[r]
               /\ answers[r].correct = grade[r].correct
    <3>1. answers[r] = InsertedRow(r) /\ r \in recorded
      BY <2>1, <2>2 DEF RowsInv
    <3>2. QED
      BY <3>1, InsertedColumns DEF CheckedInv, PastSession
  <2>3. QED
    BY <2>1, <2>2
<1>2. QED
  BY <1>1, TypeInvariant, TableInvariant, PTL
-----------------------------------------------------------------------------
(* The answer ledger *)

(***************************************************************************)
(* QuizServer implements the safety part of AnswerLedger: seen through the *)
(* refinement mapping, every step of the statements, locks, failures and   *)
(* crashes is one atomic step of the ledger or none.                       *)
(***************************************************************************)

\* The mapping of the replies, one case per line.
LEMMA StatusValues ==
    ASSUME NEW r
    PROVE  /\ pc[r] = "idle" => Status(r) = "new"
           /\ pc[r] \notin {"idle", "done"} => Status(r) = "open"
           /\ pc[r] = "done" /\ reply[r] = "200" => Status(r) = "acknowledged"
           /\ pc[r] = "done" /\ reply[r] \in {"400", "404"} => Status(r) = "refused"
           /\ pc[r] = "done" /\ reply[r] \notin {"200", "400", "404"} => Status(r) = "unknown"
BY DEF Status

StatusMap == [r \in Requests |-> Status(r)]
LogMap == {<<r, body[r].question>> : r \in recorded}
VisibleMap ==
    {<<r, answers[r].question>> : r \in {x \in Requests : answers[x] # NoRow}}

\* The status of a request depends on its own pc and reply only.
LEMMA StatusFrame ==
    ASSUME NEW r, pc'[r] = pc[r], reply'[r] = reply[r]
    PROVE  Status(r)' = Status(r)
BY DEF Status

LEMMA StatusOneChanges ==
    ASSUME TypeInv, NEW r \in Requests, NEW label, Goto(r, label),
           \A x \in Requests \ {r} : reply'[x] = reply[x]
    PROVE  StatusMap' = [StatusMap EXCEPT ![r] = Status(r)']
<1>1. \A x \in Requests \ {r} : pc'[x] = pc[x]
  BY DEF Goto, TypeInv, TypeOK
<1>2. \A x \in Requests \ {r} : Status(x)' = Status(x)
  BY <1>1, StatusFrame
<1>3. QED
  BY <1>2 DEF StatusMap

\* The log and what is visible change only with the tables.
LEMMA LogFrame ==
    ASSUME TypeInv, [Next]_vars, recorded' = recorded
    PROVE  LogMap' = LogMap
BY RecordedIsFinal DEF LogMap

\* The steps of the ledger, written with the mapped variables.
LEMMA MappedSteps ==
    /\ \A r \in Requests :
          /\ StatusMap[r] = "new"
          /\ \E s \in {"open", "refused"} : StatusMap' = [StatusMap EXCEPT ![r] = s]
          /\ UNCHANGED <<users, LogMap, VisibleMap, questions>>
          => Ledger!Open(r)
    /\ \A r \in Requests :
          /\ StatusMap[r] = "open"
          /\ \E s \in {"refused", "unknown"} : StatusMap' = [StatusMap EXCEPT ![r] = s]
          /\ UNCHANGED <<users, LogMap, VisibleMap, questions>>
          => Ledger!Refuse(r)
    /\ UNCHANGED <<StatusMap, users, LogMap, VisibleMap, questions>> => UNCHANGED Ledger!vars
BY DEF Ledger!Open, Ledger!Refuse, Ledger!vars, StatusMap, LogMap, VisibleMap

\* A request that moves on without a reply, and one that fails.
LEMMA QuietStep ==
    ASSUME TypeInv, [Next]_vars, NEW r \in Requests, NEW label \in PCs \ {"idle", "done"},
           pc[r] \notin {"idle", "done"}, Goto(r, label),
           UNCHANGED <<users, answers, questions, recorded, reply>>
    PROVE  UNCHANGED Ledger!vars
<1>1. StatusMap' = [StatusMap EXCEPT ![r] = Status(r)']
  BY StatusOneChanges
<1>2. pc'[r] = label
  BY DEF Goto, TypeInv, TypeOK
<1>3. Status(r) = "open" /\ Status(r)' = "open"
  <2>1. Status(r) = "open"
    BY StatusValues
  <2>2. Status(r)' = "open"
    BY <1>2 DEF Status
  <2>3. QED
    BY <2>1, <2>2
<1>4. StatusMap' = StatusMap
  BY <1>1, <1>3 DEF StatusMap
<1>5. LogMap' = LogMap /\ VisibleMap' = VisibleMap
  BY LogFrame DEF VisibleMap
<1>6. QED
  BY <1>4, <1>5, MappedSteps

LEMMA FailingStep ==
    ASSUME TypeInv, [Next]_vars, NEW r \in Requests, NEW code \in {"400", "404", "500"},
           pc[r] \notin {"idle", "done"}, Respond(r, code),
           UNCHANGED <<users, answers, questions, recorded>>
    PROVE  Ledger!Refuse(r)
<1>1. StatusMap' = [StatusMap EXCEPT ![r] = Status(r)']
  BY StatusOneChanges DEF Respond, TypeInv, TypeOK
<1>2. pc'[r] = "done" /\ reply'[r] = code
  BY DEF Respond, Goto, TypeInv, TypeOK
<1>3. Status(r)' \in {"refused", "unknown"}
  BY <1>2 DEF Status
<1>4. StatusMap[r] = "open"
  BY StatusValues DEF StatusMap
<1>5. LogMap' = LogMap /\ VisibleMap' = VisibleMap
  BY LogFrame DEF VisibleMap
<1>6. QED
  BY <1>1, <1>3, <1>4, <1>5, MappedSteps

LEMMA OpenStep ==
    ASSUME TypeInv, [Next]_vars, NEW r \in Requests, NEW u \in Users, NEW b \in Bodies,
           Submit(r, u, b)
    PROVE  Ledger!Open(r)
<1>1. pc[r] = "idle" /\ UNCHANGED <<users, answers, questions, recorded>>
  BY DEF Submit, tables, history
<1>2. StatusMap[r] = "new"
  BY <1>1, StatusValues DEF StatusMap
<1>3. PICK label \in {"session", "done"} :
         /\ Goto(r, label)
         /\ \A x \in Requests \ {r} : reply'[x] = reply[x]
         /\ label = "done" => reply'[r] = "400"
  BY DEF Submit, Respond, TypeInv, TypeOK
<1>4. StatusMap' = [StatusMap EXCEPT ![r] = Status(r)']
  BY <1>3, StatusOneChanges
<1>5. Status(r)' \in {"open", "refused"}
  BY <1>3 DEF Goto, Status, TypeInv, TypeOK
<1>6. LogMap' = LogMap /\ VisibleMap' = VisibleMap
  BY <1>1, LogFrame DEF VisibleMap
<1>7. QED
  BY <1>1, <1>2, <1>4, <1>5, <1>6, MappedSteps

\* A user without answers has empty sums: the CASE of the UPDATE for the first
\* answer (postgres.go:261, 264) and the running sum agree.
ZeroInv ==
    \A u \in Users : users[u].total = 0 => users[u].accuracy_sum = 0 /\ users[u].time_sum = 0

LEMMA ZeroStep == TypeInv /\ LockInv /\ ZeroInv /\ [Next]_vars => ZeroInv'
<1> SUFFICES ASSUME TypeInv, LockInv, ZeroInv, [Next]_vars PROVE ZeroInv'
  OBVIOUS
<1>1. ASSUME NEW r \in Requests, Commit(r) PROVE ZeroInv'
  <2> DEFINE row == UpdatedRow(users[owner[r]], grade[r], body[r].time)
  <2>1. users' = [users EXCEPT ![owner[r]] = row] /\ owner[r] \in Users
    BY <1>1, CommitEffect
  <2>2. users[owner[r]].total \in Nat
    BY <2>1 DEF TypeInv, TypeOK, UserRow
  <2>3. row.total # 0
    BY <2>2 DEF UpdatedRow
  <2> HIDE DEF row
  <2>4. QED
    BY <2>1, <2>3 DEF ZeroInv, TypeInv, TypeOK
<1>2. CASE \A r \in Requests : ~Commit(r)
  BY <1>2, OtherSteps DEF ZeroInv
<1>3. QED
  BY <1>1, <1>2

\* The columns of the row folded in are those of the row written.
LEMMA FoldedIsUpdated ==
    ASSUME NEW row \in UserRow, NEW g \in Grade, NEW t \in Nat,
           row.total = 0 => row.accuracy_sum = 0 /\ row.time_sum = 0
    PROVE  UpdatedRow(row, g, t) = Ledger!Folded(row, g.new_elo, g.correct, t)
<1> DEFINE hit == IF g.correct THEN 100 ELSE 0
<1>1. /\ (IF row.total = 0 THEN hit ELSE row.accuracy_sum + hit) = row.accuracy_sum + hit
      /\ (IF row.total = 0 THEN t ELSE row.time_sum + t) = row.time_sum + t
  BY DEF UserRow
<1>2. QED
  BY <1>1 DEF UpdatedRow, Ledger!Folded

\* COMMIT is the one step at which the ledger records an answer.
LEMMA RecordStep ==
    ASSUME TypeInv, LockInv, CheckedInv, RowsInv, ZeroInv, [Next]_vars,
           NEW r \in Requests, Commit(r)
    PROVE  Ledger!Record(r)
<1> DEFINE u == owner[r]
           q == body[r].question
           g == grade[r]
           t == body[r].time
           Times == {b.time : b \in Bodies}
<1>1. /\ pc[r] = "commit" /\ u \in Users /\ g \in Grade /\ t \in Nat /\ r \notin recorded
      /\ users' = [users EXCEPT ![u] = UpdatedRow(users[u], g, t)]
      /\ recorded' = recorded \cup {r}
      /\ UNCHANGED <<questions, owner, body, grade>>
  BY CommitEffect DEF Commit
<1>2. body[r] \in Bodies /\ q \in Questions
  BY <1>1, BodyAssumption DEF TypeInv, Flow
<1>3. t \in Times
  BY <1>2
<1>4. q \in Questions \ (Questions \ questions)
  BY <1>1, <1>2 DEF CheckedInv
<1>5. \E s \in {"acknowledged", "unknown"} : StatusMap' = [StatusMap EXCEPT ![r] = s]
  <2>1. PICK code \in {"200", "500", "none"} : Respond(r, code)
    BY DEF Commit
  <2>2. StatusMap' = [StatusMap EXCEPT ![r] = Status(r)']
    BY <2>1, StatusOneChanges DEF Respond, TypeInv, TypeOK
  <2>3. Status(r)' \in {"acknowledged", "unknown"}
    BY <2>1 DEF Respond, Goto, Status, TypeInv, TypeOK
  <2>4. QED
    BY <2>2, <2>3
<1>6. StatusMap[r] = "open"
  BY <1>1, StatusValues DEF StatusMap
<1>7. LogMap' = LogMap \cup {<<r, q>>}
  BY <1>1 DEF LogMap
<1>8. VisibleMap' = VisibleMap \cup {<<r, q>>}
  <2>1. answers' = [answers EXCEPT ![r] = InsertedRow(r)] /\ answers[r] = NoRow
    BY <1>1 DEF Commit, RowsInv
  <2>2. InsertedRow(r) # NoRow /\ InsertedRow(r).question = q
    BY <1>1, InsertedRowType, InsertedColumns, NoRowAssumption
  <2>3. QED
    BY <2>1, <2>2 DEF VisibleMap, TypeInv, TypeOK
<1>9. users' = [users EXCEPT ![u] = Ledger!Folded(@, g.new_elo, g.correct, t)]
  <2>1. users[u] \in UserRow
    BY <1>1 DEF TypeInv, TypeOK
  <2>2. UpdatedRow(users[u], g, t) = Ledger!Folded(users[u], g.new_elo, g.correct, t)
    BY <1>1, <2>1, FoldedIsUpdated DEF ZeroInv
  <2>3. QED
    BY <1>1, <2>2
<1>10. g.new_elo \in MinUserElo .. MaxUserElo /\ g.correct \in BOOLEAN
  BY <1>1 DEF Grade, Elos
<1>11. UNCHANGED (Questions \ questions)
  BY <1>1
<1>12. \E p \in Questions \ (Questions \ questions) :
          LogMap' = LogMap \cup {<<r, p>>} /\ VisibleMap' = VisibleMap \cup {<<r, p>>}
  BY <1>4, <1>7, <1>8
<1>13. \E v \in Users, newElo \in MinUserElo .. MaxUserElo, correct \in BOOLEAN, time \in Times :
          users' = [users EXCEPT ![v] = Ledger!Folded(@, newElo, correct, time)]
  <2>1. u \in Users
    BY <1>1
  <2> HIDE DEF u, g, t, Times
  <2> USE <1>3, <1>10, <2>1
  <2>2. WITNESS u \in Users, g.new_elo \in MinUserElo .. MaxUserElo,
                g.correct \in BOOLEAN, t \in Times
  <2>3. QED
    BY <1>9
<1>14. QED
  BY <1>5, <1>6, <1>11, <1>12, <1>13 DEF Ledger!Record, StatusMap, LogMap, VisibleMap

\* A crash leaves every open submission in the dark, and the ledger alone.
LEMMA RestartStep ==
    ASSUME TypeInv, ReplyInv, [Next]_vars, Crash
    PROVE  Ledger!Restart
<1>1. UNCHANGED <<users, answers, questions, recorded, reply>>
  BY DEF Crash, tables, history
<1>2. ASSUME NEW r \in Requests
      PROVE  Status(r)' = IF Status(r) = "open" THEN "unknown" ELSE Status(r)
  <2>1. pc'[r] = IF pc[r] = "idle" THEN "idle" ELSE "done"
    BY DEF Crash
  <2>2. CASE pc[r] = "idle" \/ pc[r] = "done"
    <3>1. Status(r)' = Status(r)
      BY <1>1, <2>1, <2>2, StatusFrame
    <3>2. Status(r) # "open"
      BY <2>2 DEF Status
    <3>3. QED
      BY <3>1, <3>2
  <2>3. CASE pc[r] \notin {"idle", "done"}
    <3>1. Status(r) = "open"
      BY <2>3, StatusValues
    <3>2. reply'[r] = "none" /\ pc'[r] = "done"
      BY <1>1, <2>1, <2>3 DEF ReplyInv
    <3>3. Status(r)' = "unknown"
      BY <3>2 DEF Status
    <3>4. QED
      BY <3>1, <3>3
  <2>4. QED
    BY <2>2, <2>3
<1>3. StatusMap' = [r \in Requests |->
                      IF StatusMap[r] = "open" THEN "unknown" ELSE StatusMap[r]]
  BY <1>2 DEF StatusMap
<1>4. LogMap' = LogMap /\ VisibleMap' = VisibleMap
  BY <1>1, LogFrame DEF VisibleMap
<1>5. QED
  BY <1>1, <1>3, <1>4 DEF Ledger!Restart, StatusMap, LogMap, VisibleMap

\* A deletion hides the answers to its question.
LEMMA ForgetStep ==
    ASSUME TypeInv, [Next]_vars, NEW q \in Questions, DeleteQuestion(q)
    PROVE  Ledger!Forget(q)
<1>1. UNCHANGED <<users, pc, reply, recorded>> /\ q \in questions /\ questions' = questions \ {q}
  BY DEF DeleteQuestion, history
<1>2. \A r \in Requests : Status(r)' = Status(r)
  BY <1>1, StatusFrame
<1>3. StatusMap' = StatusMap
  BY <1>2 DEF StatusMap
<1>4. LogMap' = LogMap
  BY <1>1, LogFrame
<1>5. \A r \in Requests : answers'[r] = IF answers[r] # NoRow /\ answers[r].question = q
                                       THEN NoRow ELSE answers[r]
  BY DEF DeleteQuestion
<1>6. VisibleMap' = {entry \in VisibleMap : entry[2] # q}
  BY <1>5 DEF VisibleMap
<1>7. (Questions \ questions)' = (Questions \ questions) \cup {q}
  BY <1>1
<1>8. q \in Questions \ (Questions \ questions)
  BY <1>1
<1>9. QED
  BY <1>1, <1>3, <1>4, <1>6, <1>7, <1>8 DEF Ledger!Forget, StatusMap, LogMap, VisibleMap

LedgerInv == TypeInv /\ ReplyInv /\ LockInv /\ CheckedInv /\ RowsInv /\ ZeroInv

LEMMA LedgerInvariant == Spec => []LedgerInv
<1>1. Init => ReplyInv /\ ZeroInv
  BY DEF Init, ReplyInv, ZeroInv, NewUser
<1>2. QED
  BY <1>1, ReplyStep, ZeroStep, TypeInvariant, LockInvariant, TableInvariant, PTL
     DEF Spec, LedgerInv

LEMMA LedgerStep == LedgerInv /\ [Next]_vars => [Ledger!Next]_(Ledger!vars)
<1> SUFFICES ASSUME LedgerInv, [Next]_vars PROVE [Ledger!Next]_(Ledger!vars)
  OBVIOUS
<1> USE DEF LedgerInv
<1> DEFINE Fails(r) == \E code \in {"400", "404", "500"} : Respond(r, code)
           Moves(r) == reply' = reply /\ \E label \in PCs \ {"idle", "done"} : Goto(r, label)
<1>1. ASSUME NEW r \in Requests, pc[r] \notin {"idle", "done"}, Fails(r) \/ Moves(r),
             UNCHANGED <<users, answers, questions, recorded>>
      PROVE  Ledger!Refuse(r) \/ UNCHANGED Ledger!vars
  BY <1>1, FailingStep, QuietStep
<1>2. ASSUME NEW u \in Users, StartSession(u) PROVE UNCHANGED Ledger!vars
  <2>1. UNCHANGED <<users, questions, answers, pc, reply, recorded>>
    BY <1>2 DEF StartSession, history
  <2>2. StatusMap' = StatusMap
    BY <2>1, StatusFrame DEF StatusMap
  <2>3. QED
    BY <2>1, <2>2, LogFrame, MappedSteps DEF VisibleMap
<1>3. ASSUME NEW r \in Requests, FindSession(r)
      PROVE  Ledger!Refuse(r) \/ UNCHANGED Ledger!vars
  BY <1>1, <1>3 DEF FindSession, PCs, tables, history
<1>4. ASSUME NEW r \in Requests, LoadQuestion(r)
      PROVE  Ledger!Refuse(r) \/ UNCHANGED Ledger!vars
  BY <1>1, <1>4 DEF LoadQuestion, PCs, tables, history
<1>5. ASSUME NEW r \in Requests, LoadUserAndGrade(r)
      PROVE  Ledger!Refuse(r) \/ UNCHANGED Ledger!vars
  BY <1>1, <1>5 DEF LoadUserAndGrade, PCs, tables, history
<1>6. ASSUME NEW r \in Requests, BeginTx(r)
      PROVE  Ledger!Refuse(r) \/ UNCHANGED Ledger!vars
  BY <1>1, <1>6 DEF BeginTx, PCs, tables, history
<1>7. ASSUME NEW r \in Requests, InsertAnswer(r)
      PROVE  Ledger!Refuse(r) \/ UNCHANGED Ledger!vars
  BY <1>1, <1>7 DEF InsertAnswer, PCs, tables, history
<1>8. ASSUME NEW r \in Requests, UpdateUser(r)
      PROVE  Ledger!Refuse(r) \/ UNCHANGED Ledger!vars
  BY <1>1, <1>8 DEF UpdateUser, PCs, tables, history
<1>9. ASSUME NEW r \in Requests, Abort(r)
      PROVE  Ledger!Refuse(r) \/ UNCHANGED Ledger!vars
  BY <1>1, <1>9 DEF Abort, tables, history
<1>10. CASE \E r \in Requests : Commit(r)
  BY <1>10, RecordStep DEF Ledger!Next
<1>11. CASE \E r \in Requests, u \in Users, b \in Bodies : Submit(r, u, b)
  BY <1>11, OpenStep DEF Ledger!Next
<1>12. CASE Crash
  BY <1>12, RestartStep DEF Ledger!Next
<1>13. CASE \E q \in Questions : DeleteQuestion(q)
  BY <1>13, ForgetStep DEF Ledger!Next
<1>14. CASE \E r \in Requests : \/ FindSession(r) \/ LoadQuestion(r) \/ LoadUserAndGrade(r)
                                \/ BeginTx(r) \/ InsertAnswer(r) \/ UpdateUser(r) \/ Abort(r)
  BY <1>3, <1>4, <1>5, <1>6, <1>7, <1>8, <1>9, <1>14 DEF Ledger!Next
<1>15. CASE UNCHANGED vars
  <2>1. UNCHANGED <<users, questions, answers, pc, reply, recorded>>
    BY <1>15 DEF vars, tables, history
  <2>2. StatusMap' = StatusMap
    BY <2>1, StatusFrame DEF StatusMap
  <2>3. QED
    BY <2>1, <2>2, LogFrame, MappedSteps DEF VisibleMap
<1>16. QED
  BY <1>2, <1>10, <1>11, <1>12, <1>13, <1>14, <1>15 DEF Next, Handle

\* Every behaviour of the statements, locks, rollbacks and crashes of the quiz
\* path is, seen through tables and replies, a behaviour of the atomic ledger.
THEOREM ImplementsLedgerSafety == Spec => LedgerSafety
<1>1. Init => Ledger!Init
  <2> SUFFICES ASSUME Init PROVE Ledger!Init
    OBVIOUS
  <2>1. \A r \in Requests : Status(r) = "new"
    BY StatusValues DEF Init
  <2>2. QED
    BY <2>1 DEF Init, Ledger!Init, NewUser
<1>2. QED
  BY <1>1, LedgerStep, LedgerInvariant, PTL DEF Spec, LedgerSafety, Ledger!Spec
=============================================================================
