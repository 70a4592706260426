----------------------------- MODULE QuizServer -----------------------------
(***************************************************************************)
(* The server's quiz path: POST /quiz/start, POST /quiz/submit-answer and  *)
(* the admin's DELETE of a question, over the PostgreSQL tables they use.  *)
(*                                                                         *)
(* SubmitAnswer (handlers/quiz.go) is not one step.  It makes three        *)
(* SELECTs, each a statement of its own, grades the answer in memory with  *)
(* what they returned, and only then opens the transaction of              *)
(* SaveAnswerAndUpdateStats (database/postgres.go): INSERT, UPDATE, COMMIT.*)
(* Every arrow between two pc values below is a point where other          *)
(* requests, an administrator or a failure can come in between:            *)
(*                                                                         *)
(*   idle -> session -> question -> user -> begin -> insert -> update      *)
(*        -> commit -> done                                                *)
(*                                                                         *)
(* What PostgreSQL does is modelled from how the code uses it: statements  *)
(* are atomic and see committed rows only; INSERT takes a share lock on    *)
(* the rows its foreign keys name, UPDATE takes the lock of the user's     *)
(* row; both are held until the transaction ends.  The pool lends a        *)
(* connection to one statement, or to one transaction until it ends.       *)
(***************************************************************************)
EXTENDS EloEngine, FiniteSets, FiniteSetsExt

CONSTANTS
    Users,        \* ids of the rows of table users (the code deletes none)
    Sessions,     \* ids table quiz_sessions can hand out
    Questions,    \* ids of the rows table questions starts with
    QuestionRow,  \* [Questions -> contents of the row]
    Requests,     \* the submissions considered, one handler run each
    Bodies,       \* request bodies clients send to /quiz/submit-answer
    MaxConns,     \* size of the connection pool
    DefaultElo,   \* DEFAULT of users.current_elo and users.peak_elo
    NoUser, NoBody, NoRow, NoGrade

ASSUME PoolAssumption == MaxConns \in Nat \ {0}

ASSUME DefaultEloAssumption == DefaultElo \in Int /\ ValidElo(DefaultElo)

ASSUME RequestsAssumption == IsFiniteSet(Requests)

\* The columns grading reads.  No code path rewrites a question: AddQuestion
\* and EditQuestion refuse every body, so only its existence is state.
ASSUME QuestionAssumption ==
    \A q \in Questions :
        /\ QuestionRow[q].elo \in Int
        /\ QuestionRow[q].expected_time \in Int
        /\ QuestionRow[q].difficulty \in Difficulties
        /\ IsFiniteSet(QuestionRow[q].correct_answers)

ASSUME BodyAssumption ==
    \A b \in Bodies :
        /\ b.session \in Sessions
        /\ b.question \in Questions
        /\ IsFiniteSet(b.selected)
        /\ b.time \in Int
        /\ b.skips \in Int /\ b.skips =< MaxInt

ASSUME NullAssumption ==
    NoUser \notin Users /\ NoBody \notin Bodies

VARIABLES
    users,     \* table users: [Users -> UserRow]
    sessions,  \* table quiz_sessions: the owner of each id, NoUser if unused
    questions, \* table questions: the ids of the rows that exist
    answers,   \* table quiz_answers, a row named by the request that wrote it
    pc,        \* where each handler run stands
    owner,     \* the authenticated user of each request
    body,      \* the validated body of each request
    grade,     \* what grading computed, in the handler's memory
    pending,   \* the users row the open transaction has written
    reply,     \* HTTP status sent, "none" before one is (or if none ever is)
    \* History variables: no action reads them.
    recorded,  \* requests whose transaction has committed
    applied,   \* sum of the elo_change of each user's recorded answers
    stale,     \* requests graded on a rating that a commit has since replaced
    overwrote  \* users one of whose stale requests committed

tables  == <<users, sessions, questions, answers>>
memory  == <<owner, body, grade, pending>>
history == <<recorded, applied, stale, overwrote>>
vars    == <<tables, pc, memory, reply, history>>

PCs == {"idle", "session", "question", "user", "begin",
        "insert", "update", "commit", "done"}

Elos == MinUserElo .. MaxUserElo

\* accuracy_percentage and average_response_time are kept as the sums they
\* are the averages of (average * total_questions_solved): the UPDATE divides
\* by the new total what it multiplied by the old one.
UserRow == [current_elo : Elos, peak_elo : Elos, total : Nat,
            accuracy_sum : Nat, time_sum : Nat]

Grade == [correct : BOOLEAN, elo_change : Int, new_elo : Elos]

AnswerRow == [user : Users, session : Sessions, question : Questions,
              correct : BOOLEAN, time : Nat, elo_change : Int]

ASSUME NoRowAssumption == NoRow \notin AnswerRow

TypeOK ==
    /\ users \in [Users -> UserRow]
    /\ sessions \in [Sessions -> Users \cup {NoUser}]
    /\ questions \in SUBSET Questions
    /\ answers \in [Requests -> AnswerRow \cup {NoRow}]
    /\ pc \in [Requests -> PCs]
    /\ owner \in [Requests -> Users \cup {NoUser}]
    /\ body \in [Requests -> Bodies \cup {NoBody}]
    /\ grade \in [Requests -> Grade \cup {NoGrade}]
    /\ pending \in [Requests -> UserRow \cup {NoRow}]
    /\ reply \in [Requests -> {"none", "200", "400", "404", "500"}]
    /\ recorded \in SUBSET Requests
    /\ applied \in [Users -> Int]
    /\ stale \in SUBSET Requests
    /\ overwrote \in SUBSET Users

NewUser == [current_elo |-> DefaultElo, peak_elo |-> DefaultElo, total |-> 0,
            accuracy_sum |-> 0, time_sum |-> 0]

Init ==
    /\ users = [u \in Users |-> NewUser]
    /\ sessions = [s \in Sessions |-> NoUser]
    /\ questions = Questions
    /\ answers = [r \in Requests |-> NoRow]
    /\ pc = [r \in Requests |-> "idle"]
    /\ owner = [r \in Requests |-> NoUser]
    /\ body = [r \in Requests |-> NoBody]
    /\ grade = [r \in Requests |-> NoGrade]
    /\ pending = [r \in Requests |-> NoRow]
    /\ reply = [r \in Requests |-> "none"]
    /\ recorded = {}
    /\ applied = [u \in Users |-> 0]
    /\ stale = {}
    /\ overwrote = {}

-----------------------------------------------------------------------------
(* Connections and locks, as functions of where the transactions stand. *)

\* Requests whose transaction holds a connection of the pool.
InTransaction == {r \in Requests : pc[r] \in {"insert", "update", "commit"}}

\* A statement outside a transaction needs a connection for its duration.
FreeConn == Cardinality(InTransaction) < MaxConns

\* (Faulty variants stand before the definition they are variants of.)
UserRowNeverLocked(r) == FALSE

\* The UPDATE of r waits for the transaction that has updated the same row.
UserRowLocked(r) ==
    \E other \in Requests \ {r} : pc[other] = "commit" /\ owner[other] = owner[r]

\* The share lock an uncommitted answer keeps on its question.
QuestionRowShared(q) ==
    \E r \in Requests : pc[r] \in {"update", "commit"} /\ body[r].question = q

\* Requests that carry a graded answer not yet written.
Graded == {r \in Requests : pc[r] \in {"begin", "insert", "update", "commit"}}

Goto(r, label) == pc' = [pc EXCEPT ![r] = label]

\* RespondError, or the 200 of the last line: the handler run is over.
Respond(r, status) == Goto(r, "done") /\ reply' = [reply EXCEPT ![r] = status]

-----------------------------------------------------------------------------
(* handlers/quiz.go *)

\* ValidateSelectedAnswers (an empty selection), ValidateTimeTaken and the
\* sign of the streak counters.
ValidBody(b) == b.selected # {} /\ ValidTimeTaken(b.time) /\ b.skips >= 0

\* The two loops that compare the selection with the key: as many answers,
\* and every one of them in the key.
Matches(selected, key) ==
    /\ Cardinality(selected) = Cardinality(key)
    /\ selected \subseteq key

\* POST /quiz/start: one INSERT.
StartSession(u) ==
    /\ FreeConn
    /\ \E s \in Sessions :
          /\ sessions[s] = NoUser
          /\ sessions' = [sessions EXCEPT ![s] = u]
    /\ UNCHANGED <<users, questions, answers, pc, memory, reply, history>>

\* A client of u posts b: a first attempt, or a retry with the same body.
Submit(r, u, b) ==
    /\ pc[r] = "idle"
    /\ owner' = [owner EXCEPT ![r] = u]
    /\ body' = [body EXCEPT ![r] = b]
    /\ IF ValidBody(b) THEN Goto(r, "session") /\ UNCHANGED reply
                       ELSE Respond(r, "400")
    /\ UNCHANGED <<tables, grade, pending, history>>

FindSessionOfAnyone(r) ==
    /\ pc[r] = "session"
    /\ FreeConn
    /\ IF sessions[body[r].session] # NoUser
       THEN Goto(r, "question") /\ UNCHANGED reply
       ELSE Respond(r, "404")
    /\ UNCHANGED <<tables, memory, history>>

\* GetSession: the session must exist and belong to the user.
FindSession(r) ==
    /\ pc[r] = "session"
    /\ FreeConn
    /\ IF sessions[body[r].session] = owner[r]
       THEN Goto(r, "question") /\ UNCHANGED reply
       ELSE Respond(r, "404")
    /\ UNCHANGED <<tables, memory, history>>

\* GetQuestionByID
LoadQuestion(r) ==
    /\ pc[r] = "question"
    /\ FreeConn
    /\ IF body[r].question \in questions
       THEN Goto(r, "user") /\ UNCHANGED reply
       ELSE Respond(r, "404")
    /\ UNCHANGED <<tables, memory, history>>

\* quiz.go:168 left out: the change is the one before the clamp.
GradeOfUnclampedChange(r) ==
    LET b        == body[r]
        question == QuestionRow[b.question]
        elo      == users[owner[r]].current_elo
        correct  == Matches(b.selected, question.correct_answers)
        change   == ApplyAntiGuessingPenalty(
                        EloDelta(elo, question.elo, question.difficulty,
                            PerformanceScore(TimeScore(b.time, question.expected_time), correct)),
                        correct, b.time, question.expected_time, b.skips)
    IN  [correct |-> correct, elo_change |-> change, new_elo |-> ClampElo(elo + change)]

\* The rating read and the grading that follows it in memory.
GradeOf(r) ==
    LET b        == body[r]
        question == QuestionRow[b.question]
        elo      == users[owner[r]].current_elo
        correct  == Matches(b.selected, question.correct_answers)
        newElo   == NewElo(elo, question, correct, b.time, b.skips)
    IN  [correct |-> correct, elo_change |-> newElo - elo, new_elo |-> newElo]

\* GetUserByID, the three range checks, and grading (quiz.go:129-170).
LoadUserAndGrade(r) ==
    /\ pc[r] = "user"
    /\ FreeConn
    /\ IF /\ ValidElo(users[owner[r]].current_elo)
          /\ ValidElo(QuestionRow[body[r].question].elo)
          /\ ValidExpectedTime(QuestionRow[body[r].question].expected_time)
       THEN /\ Goto(r, "begin")
            /\ grade' = [grade EXCEPT ![r] = GradeOf(r)]
            /\ UNCHANGED reply
       ELSE Respond(r, "400") /\ UNCHANGED grade
    /\ UNCHANGED <<tables, owner, body, pending, history>>

-----------------------------------------------------------------------------
(* SaveAnswerAndUpdateStats, database/postgres.go *)

BeginTx(r) ==
    /\ pc[r] = "begin"
    /\ FreeConn
    /\ Goto(r, "insert")
    /\ UNCHANGED <<tables, memory, reply, history>>

InsertAnswerErrorIgnored(r) ==
    /\ pc[r] = "insert"
    /\ IF body[r].question \in questions
       THEN Goto(r, "update") /\ UNCHANGED reply
       ELSE Respond(r, "200")
    /\ UNCHANGED <<tables, memory, history>>

\* INSERT INTO quiz_answers.  The foreign keys to the user and the session
\* hold, since neither is ever deleted; the one to the question fails if an
\* administrator deleted it meanwhile, and the transaction rolls back.
InsertAnswer(r) ==
    /\ pc[r] = "insert"
    /\ IF body[r].question \in questions
       THEN Goto(r, "update") /\ UNCHANGED reply
       ELSE Respond(r, "500")
    /\ UNCHANGED <<tables, memory, history>>

UpdatedRowPeakFollows(row, g, time) ==
    LET hit == IF g.correct THEN 100 ELSE 0
    IN  [current_elo |-> g.new_elo, peak_elo |-> g.new_elo, total |-> row.total + 1,
         accuracy_sum |-> row.accuracy_sum + hit, time_sum |-> row.time_sum + time]

\* SET current_elo = $1, peak_elo = GREATEST(...), ... on the row as last
\* committed.  current_elo alone is assigned, not computed, by the statement.
UpdatedRow(row, g, time) ==
    LET hit == IF g.correct THEN 100 ELSE 0
    IN  [current_elo  |-> g.new_elo,
         peak_elo     |-> IF g.new_elo > row.peak_elo THEN g.new_elo ELSE row.peak_elo,
         total        |-> row.total + 1,
         accuracy_sum |-> IF row.total = 0 THEN hit ELSE row.accuracy_sum + hit,
         time_sum     |-> IF row.total = 0 THEN time ELSE row.time_sum + time]

\* The UPDATE sent through the pool and not through the transaction.
UpdateUserSecondConn(r) ==
    /\ pc[r] = "update"
    /\ FreeConn
    /\ ~UserRowLocked(r)
    /\ Goto(r, "commit")
    /\ pending' = [pending EXCEPT
                     ![r] = UpdatedRow(users[owner[r]], grade[r], body[r].time)]
    /\ UNCHANGED <<tables, owner, body, grade, reply, history>>

UpdateUser(r) ==
    /\ pc[r] = "update"
    /\ ~UserRowLocked(r)
    /\ Goto(r, "commit")
    /\ pending' = [pending EXCEPT
                     ![r] = UpdatedRow(users[owner[r]], grade[r], body[r].time)]
    /\ UNCHANGED <<tables, owner, body, grade, reply, history>>

InsertedRow(r) ==
    [user |-> owner[r], session |-> body[r].session, question |-> body[r].question,
     correct |-> Matches(body[r].selected, QuestionRow[body[r].question].correct_answers),
     time |-> body[r].time, elo_change |-> grade[r].elo_change]

\* COMMIT makes both rows visible at once.  The reply is the handler's 200; or
\* 500, when the connection broke before COMMIT was confirmed; or none that
\* arrives, when the client has gone or the process dies before it is sent.
Commit(r) ==
    /\ pc[r] = "commit"
    /\ users' = [users EXCEPT ![owner[r]] = pending[r]]
    /\ answers' = [answers EXCEPT ![r] = InsertedRow(r)]
    /\ pending' = [pending EXCEPT ![r] = NoRow]
    /\ \E status \in {"200", "500", "none"} : Respond(r, status)
    /\ recorded' = recorded \cup {r}
    /\ applied' = [applied EXCEPT ![owner[r]] = @ + grade[r].elo_change]
    /\ stale' = stale \cup {other \in Graded \ {r} : owner[other] = owner[r]}
    /\ overwrote' = IF r \in stale THEN overwrote \cup {owner[r]} ELSE overwrote
    /\ UNCHANGED <<sessions, questions, owner, body, grade>>

-----------------------------------------------------------------------------
(* Failures, and the administrator *)

\* No transaction: what the UPDATE wrote stays when the run then fails.
AbortHalfDone(r) ==
    /\ pc[r] \notin {"idle", "done"}
    /\ Respond(r, IF pc[r] \in {"session", "question", "user"} THEN "404" ELSE "500")
    /\ users' = IF pc[r] = "commit" THEN [users EXCEPT ![owner[r]] = pending[r]] ELSE users
    /\ pending' = [pending EXCEPT ![r] = NoRow]
    /\ UNCHANGED <<sessions, questions, answers, owner, body, grade, history>>

\* A database call of r fails, or its context is cancelled because the client
\* went away: a failed SELECT is answered with 404, a failed statement of the
\* transaction rolls it back and is answered with 500.
Abort(r) ==
    /\ pc[r] \notin {"idle", "done"}
    /\ Respond(r, IF pc[r] \in {"session", "question", "user"} THEN "404" ELSE "500")
    /\ pending' = [pending EXCEPT ![r] = NoRow]
    /\ UNCHANGED <<tables, owner, body, grade, history>>

\* The server process dies and is started again: every handler run is gone,
\* and PostgreSQL rolls their transactions back.
Crash ==
    /\ \E r \in Requests : pc[r] \notin {"idle", "done"}
    /\ pc' = [r \in Requests |-> IF pc[r] = "idle" THEN "idle" ELSE "done"]
    /\ pending' = [r \in Requests |-> NoRow]
    /\ UNCHANGED <<tables, owner, body, grade, reply, history>>

\* DELETE /admin/questions/{id}: waits for the uncommitted answers to the
\* question, and cascades to its answers.
DeleteQuestion(q) ==
    /\ q \in questions
    /\ FreeConn
    /\ ~QuestionRowShared(q)
    /\ questions' = questions \ {q}
    /\ answers' = [r \in Requests |->
                      IF answers[r] # NoRow /\ answers[r].question = q
                      THEN NoRow ELSE answers[r]]
    /\ UNCHANGED <<users, sessions, pc, memory, reply, history>>

\* What the server does by itself once a request is in.
Handle(r) ==
    \/ FindSession(r)
    \/ LoadQuestion(r)
    \/ LoadUserAndGrade(r)
    \/ BeginTx(r)
    \/ InsertAnswer(r)
    \/ UpdateUser(r)
    \/ Commit(r)

Next ==
    \/ \E u \in Users : StartSession(u)
    \/ \E r \in Requests, u \in Users, b \in Bodies : Submit(r, u, b)
    \/ \E r \in Requests : Handle(r)
    \/ \E r \in Requests : Abort(r)
    \/ Crash
    \/ \E q \in Questions : DeleteQuestion(q)

\* A handler run that can take a step takes it: a goroutine is scheduled, and
\* the pool and the lock queue of PostgreSQL serve their waiters in order.
\* Nobody has to submit, fail, crash or delete.
Fairness == \A r \in Requests : WF_vars(Handle(r))

Spec == Init /\ [][Next]_vars /\ Fairness

-----------------------------------------------------------------------------
(* Properties *)

RecordedOf(u) == {r \in recorded : owner[r] = u}

\* However submissions of one user interleave, fail or are deleted by cascade,
\* the counters of the users row tell exactly the answers whose transactions
\* committed: how many there are and how many are right.  (The UPDATE works on
\* the locked row, postgres.go:257-266; nothing is lost or counted twice.)
StatsCountEveryAnswer ==
    \A u \in Users :
        /\ users[u].total = Cardinality(RecordedOf(u))
        /\ users[u].accuracy_sum = 100 * Cardinality({r \in RecordedOf(u) : grade[r].correct})

\* peak_elo is the highest rating any answer ever gave the user, even when the
\* answers were graded concurrently and a later commit lowered current_elo.
PeakCoversHistory ==
    \A u \in Users :
        users[u].peak_elo = Max({DefaultElo} \cup {grade[r].new_elo : r \in RecordedOf(u)})

\* The rating is explained by the answers: for every user whose submissions
\* never overlapped between GetUserByID and COMMIT, current_elo is the default
\* plus the elo_change of all recorded answers.
LedgerExplainsRating ==
    \A u \in Users \ overwrote : users[u].current_elo = DefaultElo + applied[u]

\* docs/ELO.md:3 without that proviso: "updates user Elo after each answer".
EveryAnswerUpdatesRating ==
    \A u \in Users : users[u].current_elo = DefaultElo + applied[u]

\* What the client is told is what happened: 200 only for a recorded answer,
\* 400 and 404 only for one that left no trace; and no trace is left before
\* the end either.  (500 and silence tell nothing: COMMIT may have succeeded.)
RepliesAreTruthful ==
    \A r \in Requests :
        /\ reply[r] = "200" => r \in recorded
        /\ reply[r] \in {"400", "404"} => r \notin recorded
        /\ r \in recorded => pc[r] = "done"

\* The rows of quiz_answers are the recorded answers to the questions that
\* still exist, each in a session of the user who answered: no orphan survives
\* a deletion that raced with the transaction, and no row disappears otherwise.
AnswersMatchTables ==
    \A r \in Requests :
        /\ answers[r] # NoRow <=> r \in recorded /\ body[r].question \in questions
        /\ answers[r] # NoRow => /\ sessions[answers[r].session] = answers[r].user
                                 /\ answers[r].user = owner[r]
                                 /\ answers[r].correct = grade[r].correct

\* A wrong answer whose grading nothing overlapped lowers the stored rating,
\* unless it is already the lowest (or its streak counter makes the
\* subtraction of elo.go:69 wrap around).
WrongAnswerCosts ==
    [][\A r \in (recorded' \ recorded) \ stale :
          ~grade[r].correct /\ body[r].skips =< MaxInt - 36 =>
            LET u == owner[r]
            IN  \/ users'[u].current_elo < users[u].current_elo
                \/ users'[u].current_elo = MinUserElo]_vars

\* Every submission is eventually over: a pool with fewer connections than there
\* are submissions, and the row locks, never leave handlers waiting for one
\* another (postgres.go:239, 257).
EverySubmissionEnds ==
    \A r \in Requests : pc[r] # "idle" ~> pc[r] = "done"
-----------------------------------------------------------------------------
(* What the handlers and the transaction implement together. *)

Status(r) ==
    CASE pc[r] = "idle" -> "new"
      [] pc[r] = "done" -> CASE reply[r] = "200"            -> "acknowledged"
                             [] reply[r] \in {"400", "404"} -> "refused"
                             [] OTHER                       -> "unknown"
      [] OTHER          -> "open"

Ledger == INSTANCE AnswerLedger WITH
    Times     <- {b.time : b \in Bodies},
    status    <- [r \in Requests |-> Status(r)],
    profile   <- users,
    log       <- {<<r, body[r].question>> : r \in recorded},
    visible   <- {<<r, answers[r].question>> : r \in {x \in Requests : answers[x] # NoRow}},
    forgotten <- Questions \ questions

\* Seen through the tables and the replies, SubmitAnswer is atomic: rows and
\* statistics change together, once per submission, and no statement of an
\* unfinished transaction shows (postgres.go:239-273).  That every submission
\* is settled in the end is EverySubmissionEnds.
LedgerSafety == Ledger!Spec
=============================================================================
