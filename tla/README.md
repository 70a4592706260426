# QuizArena: TLA+ models and proofs

QuizArena is a Go server (gin, pgx, PostgreSQL) with a single-page browser
client. Users answer quiz questions, each answer moves the user's Elo rating,
and a leaderboard ranks users. This directory holds TLA+ modules translated from
the source (`src/`), the TLC configurations that check them, and TLAPS proofs.

Paths below are relative to `src/`. Run everything in this directory:

    tlc -workers 2 -config OneUserRace.cfg MCQuizServer
    tlapm QuizServerProofs.tla

## 1. The system

| Component | State | Operations | Talks to | What makes it correct |
|---|---|---|---|---|
| Rating arithmetic (`services/elo.go`, bounds in `utils/validation.go`) | none | TimeScore, PerformanceScore, CalculateNewElo, ApplyAntiGuessingPenalty, ClampElo; NextTargetElo, NextQuestionDifficulty, ConfidenceScore | called by the quiz handlers | ratings stay valid; wrong answers cost; the change is bounded and monotone in every input |
| Answer submission (`handlers/quiz.go`, `database/postgres.go`) | tables `users`, `quiz_sessions`, `questions`, `quiz_answers`; handler-local variables across five database round trips | POST /quiz/start, POST /quiz/submit-answer, GET /quiz/session/:id | arithmetic, PostgreSQL through a bounded pool | statistics tell exactly the recorded answers; replies are truthful; row and statistics change together; every request ends |
| Question administration (`handlers/admin.go`) | `questions` | add, edit, delete, list | races with submissions, which reference questions | no orphan answers; what is accepted is what is stored |
| Question selection (`quiz.go:73`, `GetAdaptiveQuestion`) | none | pick one of the candidates nearest a random target | reads `users`, `questions` | always nearest the target; never empty when the subject has a question |
| Leaderboard (`handlers/leaderboard.go`) | none; cursor held by the client | keyset pages, rank of a user | reads `users` while submissions change it | pages end; nobody whose rating is stable is skipped or shown twice |
| Accounts (`handlers/auth.go`, `utils/jwt.go`, `middleware/auth.go`) | `users.email`, `google_sub`, `password_hash`; stateless tokens | register, login, Google login, me, logout | every authenticated route | one account per address; a second login method never replaces the first |
| Rate limiter (`middleware/ratelimit.go`) | a map of token buckets, one cleanup goroutine per middleware instance | getLimiter, Allow, cleanup | in front of every route | a key gets no more than burst + rate * time; eviction forgets only idle keys |
| Profile and dashboard (`handlers/user.go`), statistics (`handlers/stats.go`) | none | reads; UpdateProfile | `users` | the reply shows what is stored |
| Browser client (`frontend/quizarena.html`) | one global `APP.state`: token, quiz, timer, `answered` | start, next, answer, time-out, finish | all routes, asynchronously | a reply is applied to the question it answers; a time-out counts as a skip |
| Lifecycle (`main.go`) | process, listener, pool | start, serve, signal, shutdown | everything | accepted requests finish or are cancelled within the timeout |
| Configuration, CORS, request log, health, migrations, `setup.sh`, dataset | constants, headers | run once or per request | - | see section 8 |

How they interact: gin runs every request in a goroutine of its own, so the
handlers of all users, and several of the same user, interleave between
database calls. There are no locks in the Go code around the tables: whatever
coordination there is comes from PostgreSQL (atomic statements, the row lock of
the UPDATE, foreign keys, one transaction in `SaveAnswerAndUpdateStats`) and
from the pool. A client that goes away cancels the request's context, and with it the
statement in flight. Retries are the client's business; the server has no
idempotency key.

The hard behaviours are therefore: state read in one statement and used several
statements later; commits in another order than the reads; a question deleted in
between; a transaction cut short by a failure, a cancelled context or the end of
the process; a COMMIT whose confirmation is lost; connections held while waiting
for locks; pages of a list that moves while it is read; two ways to sign in over
one table; a limiter forgotten while a request holds it; replies that reach the
page when it has moved on; and the edges of the arithmetic (rounding, clamp, width
of `int`).
`PROJECT.json` lists each as a hazard at its line, with the properties aimed at it.

## 2. Modules

| Module | Role |
|---|---|
| `EloEngine` | the arithmetic as operators; constants are the bounds, the width of `int` and the curve of expected probability |
| `EloWalk` | a state is one graded answer, a step raises one input; monotonicity is an action property |
| `LogisticTable` | rounded values of the curve, for the modules that fix it |
| `QuizServer` | start, submit and delete, one action per database round trip, over the tables; extends `EloEngine` |
| `AnswerLedger` | abstract specification: a submission is open until it is settled, once, atomically |
| `Leaderboard` | keyset pages and rank requests of one client, over a users table others change |
| `Accounts` | registration, password and Google login, tokens, profile, over the keys of the users table |
| `RateLimit` | the map of limiters, requests that hold one, the cleanup, and the clock |
| `TokenBuckets` | abstract specification: buckets that exist for ever |
| `QuestionBank` | the choice of the next question, and the admin routes that change the table it reads |
| `QuizClient` | the quiz page: its state object, timer, buttons and requests under way |
| `MC...` | values of the constants for TLC, one module per specification |
| `EloEngineProofs`, `EloWalkProofs`, `QuizServerProofs`, `LeaderboardProofs`, `AccountsProofs`, `RateLimitProofs`, `QuestionBankProofs`, `QuizClientProofs` | lemmas and theorems |

The modules meet at the tables: `Leaderboard.SetRating` and
`QuestionBank.RatingChanges` are what `QuizServer.Commit` does to `current_elo`,
`Leaderboard.AddUser` is what `Accounts.Register` and a first Google login do,
`QuestionBank.DeleteQuestion` is `QuizServer.DeleteQuestion` with its admin check,
and `QuizClient.Serve` is `QuizServer` as a page sees it: recorded or not, and
heard of or not (`RepliesAreTruthful` is what makes that abstraction true).

An operator whose name tells what is wrong in it (`ClampEloNoFloor`,
`UserRowNeverLocked`, `AbortHalfDone`, ...) is a faulty variant of the definition
that follows it: a bug one could plausibly write there. No specification uses
them. Substituting the variant for the original makes the property paired with it
in `PROJECT.json` fail, which shows that the property can tell the two apart.

### EloEngine

| Definition | Code |
|---|---|
| `ValidElo`, `ClampElo`, `ValidTimeTaken`, `ValidExpectedTime` | `utils/validation.go:88-117` |
| `TimeScore`, `PerformanceScore`, `ExpectedProbability`, `KFactor` | `services/elo.go:14-49` |
| `EloDelta`, `Round` | `CalculateNewElo`, 51-62 (its first result is not used by anybody) |
| `ApplyAntiGuessingPenalty`, `FastGuess`, `Wrap` | 64-72; `Wrap` is what an addition of two `int`s yields |
| `NewElo` | `handlers/quiz.go:163-167` |

Ratings are integers as in the code. Quantities in [0,1] are integers in
thousandths, times are whole seconds. The logistic curve cannot be written over
the integers, so it is the constant `WinChance`, of which `EloEngine` assumes only
the range; `EloWalk` adds, for the properties about order, that the curve falls
and how fast at most (`CurveAssumption`, section 5). `LogisticTable` gives TLC the curve
of `elo.go:36-38` within two thousandths; at K = 32 that moves the change by less
than 0.07 before rounding.

### QuizServer

A request `r` walks through `pc[r]`; each arrow is one database round trip, and
everybody else may act between any two.

| Action | pc | Code |
|---|---|---|
| `StartSession` | - | `quiz.go:51-71`, `CreateSession` |
| `Submit` | idle -> session, or done with 400 | `quiz.go:97-118` |
| `FindSession` | session -> question, or 404 | `GetSession` (id and owner) |
| `LoadQuestion` | question -> user, or 404 | `GetQuestionByID` |
| `LoadUserAndGrade` | user -> begin, or 400 | `quiz.go:129-170`: `GetUserByID`, three range checks, grading in memory |
| `BeginTx` | begin -> insert | `postgres.go:239` (takes a connection until the end) |
| `InsertAnswer` | insert -> update, or 500 | 245-255; fails when the question is gone |
| `UpdateUser` | update -> commit | 257-272; waits for the lock of the user's row |
| `Commit` | commit -> done | 273 and the reply, `quiz.go:173-189` |
| `Abort` | any -> done, 404 or 500 | a failed call or a cancelled context, at every point |
| `Crash` | all -> done | the process ends and is restarted |
| `DeleteQuestion` | - | `admin.go:110-124`, `postgres.go:455-464`, with `ON DELETE CASCADE` |

`users`, `sessions`, `questions`, `answers` are the tables. `owner`, `body`,
`grade` are the handler's memory; `grade` is what was computed from the rating
read in `LoadUserAndGrade` and is used, possibly stale, in `UpdateUser`.
`pending` is the row the open transaction has written. `recorded`, `applied`,
`stale`, `overwrote` are history variables for the properties; no action reads
them, except that they feed one another.

Abstractions, and why they lose nothing the properties talk about:

- Averages are kept as sums (`accuracy_percentage * total_questions_solved`): the
  UPDATE multiplies by the old count and divides by the new one. Rounding of
  doubles is left out.
- Questions never change, they only disappear: `AddQuestion` and `EditQuestion`
  refuse every body, since `CorrectAnswers` is tagged `json:"-"`
  (`models/question.go:18`) and `ValidateQuestion` wants at least one.
- A selection is a set: `ValidateSelectedAnswers` refuses duplicates.
- An answer row is named by the request that wrote it, so a retry is simply
  another request with the same body.
- Authentication has happened: `owner` is the user id of the token. Nobody
  deletes users or sessions in this code.
- `wrong_in_row` only enters the confidence score of the reply; subjects are not
  read by any step modelled. Both are left out.
- PostgreSQL is modelled from how the code uses it (READ COMMITTED, the default):
  a statement is atomic and sees committed rows; an UPDATE's row lock and a
  foreign key's share lock are held until the transaction ends. A DELETE that
  waits for a share lock is the same as one that comes later.

### Leaderboard

| Action | Code |
|---|---|
| `ListPage` | `handlers/leaderboard.go:33-64` and `ListLeaderboardPage`, `postgres.go:284-351`: one SELECT, one row more than the page, the cursor of the last row sent |
| `RefusePage`, `RetryPage` | 400 and 500; the client asks again with the cursor it has |
| `AskRank`, `ReplyRank`, `FailRank` | `UserRank`, 66-85: `GetUserByID`, then `GetUserRank` (353-367) |
| `SetRating`, `AddUser`, `StartQuiz` | what others do to `users` and `quiz_sessions` meanwhile |

`filtered` chooses between the global list and that of a subject. Pages are sets of
rows, since a row carries what orders it. `rose`, `fell`, `joined` and `changes`
are history variables. A limit of 100 is used when none is sent; the model lets
the client choose any limit for any page.

### Accounts

| Action | Code |
|---|---|
| `Register` | `handlers/auth.go:59-97`, `CreateUser` (`postgres.go:96-118`) |
| `FindAccount`, `ComparePassword` | `Login`, 99-133, before and after the row is read |
| `GoogleAuth` (`InsertGoogleUser`, `LinkGoogleUser`) | 135-179, `UpsertOAuthUser` (67-94) without and with a conflict on the address |
| `UpdateProfile` | `handlers/user.go:69-90` |
| `Me` | `auth.go:190-207`, and the profile and dashboard routes |
| `GenerateToken`, `Token`, `JWTAuth` | `utils/jwt.go`, `middleware/auth.go` |

A request that is refused changes nothing and is no step. A reply may be lost
after the row was written (`MayIssue`). The hash of a password is named by the
password; `BcryptKey` is what bcrypt compares, the first 72 bytes, so that a
longer password opens the account of its prefix. `Logout` changes nothing: tokens
are valid until they expire.

### RateLimit

| Action | Code |
|---|---|
| `GetLimiter` | `middleware/ratelimit.go:47-58`, under `mu` |
| `Allow` | 38-43, after `mu` was released |
| `Cleanup` | 60-71, under `mu`; one goroutine per middleware, over the same map |
| `Tick` | time passes |
| `OpenWindow` | no code: somebody starts to count (history) |

A route is a sequence of keys to pass (`Chains`): the global one, and for
`/auth/login` and `/auth/register` (`main.go:105-106`) the one of the route.
Contents are measured in ticks, so that they are integers. A limiter whose entry
was deleted lives as long as a request holds it. `MaxStall` bounds how long a
request may be held up between getLimiter and Allow; the code has no such bound,
and the assumption says what the design needs: fill time and stall together do
not exceed the idle time, which at 1 to 5 seconds against 10 minutes leaves
a stall of over nine minutes. `x/time/rate` is external; the fact that a failed
Allow stores nothing is taken from it.

### QuestionBank

| Definition | Code |
|---|---|
| `NextQuestion`, `GetAdaptiveQuestion`, `NextQuestionFails` | `handlers/quiz.go:73-95`, two statements |
| `LowerBand`, `UpperBand`, `Choices` | `postgres.go:188-218` |
| `NextTargetElo` | `services/elo.go:86-100`, as the set of values it can return |
| `AddQuestion`, `EditQuestion`, `DeleteQuestion` | `handlers/admin.go:50-69`, 83-124, with `UpsertQuestion` and `DeleteQuestion` |
| `IsAdmin`, `Decode`, `ValidateQuestionInput` (`Trimmed`, `Distinct`) | `admin.go:20-48`, `models/question.go:18`, `utils/validation.go:128-183` |
| `RatingChanges` | an answer of the same user commits in between |

`ListQuestions` is one read. A question's difficulty, texts and expected time
matter only for whether they are within their limits (`plain`). Texts of options are
compared trimmed by the validation (`Trim`) and kept as they came. Subjects are
validated trimmed and then used as sent; surrounding blanks make another subject
of the same name, which the model sees as a valid subject without questions.

### QuizClient

| Action | Code (`frontend/quizarena.html`) |
|---|---|
| `ClickSubject`, `Started`, `StartFails` | 1982-1997, 1658-1676 |
| `FirstQuestion`, `LaterQuestion` (`Show`), `LoadFails` | 1676-1756; the catch clauses |
| `ClickOption`, `TimeUp` (`SubmitQuizAnswer`) | 1714-1741, 1767-1778, 1780-1803 |
| `Serve` | the server, see `QuizServer` |
| `Accepted` (`Count`), `Rejected` | 1809-1850, 1804-1807 |
| `ClickNext`, `ClickFinish`, `Leave` | 1852-1869, 1095-1123 |

JavaScript runs to the next `await`, so an action is the code between two of
them. `quizzes` holds every object `APP.state.quiz` has been, because requests
keep references to old ones; `page`, `options`, `button`, `answered` and `timer`
belong to the page and are shared by all. Left out: the list of past quizzes,
`eloTotal` and `wrongInRow` (kept like the two tallies that are there), the
question's own content, and signing out on a 401. `reopened` and `overlapped` are
history variables.

## 3. What the runs show

| Run | Question | States | Result |
|---|---|---|---|
| `elo_walk` | is the arithmetic bounded and monotone? | 37,800 | holds |
| `one_user_race` | three submissions of one user: is the row exact? | 20,211 | holds |
| `two_users` | two users, every refusal: do replies, tables and the ledger agree? | 103,040 | holds |
| `progress` | does every submission end? | 14,717 | holds |
| `leaderboard` | who can be missed or repeated by paging, and does it end? | 1,255,410 | holds |
| `accounts` | can sign-ins take over, damage or mix up accounts? | 36,201 | holds |
| `rate_limit` | can anybody notice that limiters are forgotten? | 710,362 | holds |
| `question_bank` | is the question nearest, which ones are never served, and is one ever rewritten? | 110,628 | holds |
| `quiz_client` | what can late replies and errors do to the page? | 2,281,913 | holds |
| `lost_update` | is the rating updated after each answer, as `docs/ELO.md:3` says? | - | violated |
| `add_question` | can an administrator add a question, as `docs/API.md:33` says? | - | violated |
| `timeouts` | do skips count, as `docs/ELO.md:21` says? | - | violated |

What is worth knowing of the runs that hold:

- **Statistics.** The counters and `peak_elo`, which the UPDATE computes from the
  locked row, are always exact.
- **Leaderboard.** Paging is not a snapshot, and the properties say exactly how
  far it is from one: a user who rises, registers or joins the subject while the
  list is read may be missing, a user who falls may be there twice, nobody else.
  The run ends the list under at most `MaxChanges` changes; that it ends even if
  ratings never stop moving is an argument, not a run: pages descend strictly
  (`PagesDescend`, proved for any number of changes), and below a cursor there are
  finitely many ratings and ids. The cursor (0, 0), which means the first page, cannot come from a row:
  ids start at 1.
- **Accounts.** The upsert finds an account by address. A Google account whose
  address has changed therefore gets 500 (its subject is taken) or, if another
  account has the address, a login into that one; the second needs an address
  that two Google accounts have used, which is what `SubjectReachesOneAccount`
  names as its premise.
- **Rate limiter.** Eviction is invisible because an idle bucket is full; the
  relation between idle time, fill time and stall is the assumption
  `IdleAssumption`.
- **Questions.** `OnlyEdgesAreServed` says what the bands cost: of the questions of
  one rating in a subject, only the 25 with the least and the 25 with the
  greatest ids can be served. The dataset of the repository has 6433 questions
  of one subject at 9 different ratings, so that some 6050 of them are never
  asked. No document promises otherwise, so this is an observation and not a
  finding. `QuestionsOnlyDisappear` is what `QuizServer` takes for granted when it
  lets a question vanish between two statements but never change; it holds
  because of the tag that also makes POST useless (below).
- **Spaces.** Validation compares options and answers trimmed
  (`utils/validation.go:150, 164`), storing and grading use them as they came
  (`handlers/quiz.go:152-156`). Options `"A "`, `"B"` with the answer `"A"` are valid,
  and no selection the page can send would be graded right. No such row can
  come from an administrator, whose answers are not decoded, and the dataset has
  none; the mismatch would show once they are.
- **Quiz page.** An old reply may disable the options of the question now on
  screen, a stale error may unlock a question whose answer is under way, a second
  click on Next may skip a question. An answer is posted again only after such an
  unlock, and once every reply is in, the user can go on, with one exception. Two
  clicks on a subject start two quizzes. If the first question of the first is
  shown when the second becomes `APP.state.quiz`, a click on an option fails at
  `frontend/quizarena.html:1788`, outside the `try`, and leaves `answered` set; if the second quiz then
  gets no question, no option and no button leads on, and only another page does.
  `OnlyDoubleStartsStrand` says that nothing else strands a user: the history
  variable `overlapped` is set when a subject is clicked before the question of an
  earlier click has come, and the quiz must never have had a question (`index` 0).

The violations are disagreements between documents and code.

- **Lost update.** Two submissions of a user both read rating 12; the first
  commits its result, then the second assigns its own, computed from 12. Both
  answers and both `elo_change` values are stored, and the first change is gone
  from `current_elo`. `LedgerExplainsRating` shows that this is the only way the
  rating and the answers part: it holds for every user whose submissions never
  overlapped between `GetUserByID` and COMMIT.
- **Adding a question.** `CorrectAnswers` is tagged `json:"-"`
  (`models/question.go:18`), to keep the key out of replies, and is thereby not
  read from requests either: `AddQuestion` and `EditQuestion` refuse every body.
- **Time-outs.** When the timer runs out, the page posts an empty selection, which
  `ValidateSelectedAnswers` refuses. The skip is not counted, the page unlocks
  with no timer running, and the user may answer after all.

Two more divergences need no run to be seen. `docs/ELO.md:12-13` gives performance as
80% timing and 20% correctness, which is not what `elo.go:28-34` computes. And
`skips_in_row` is checked for its sign only (`quiz.go:115`): near the greatest
`int` the subtraction of `elo.go:69` wraps. The wrap is modelled: `EloWalk` states
the properties of the rating for counters up to `LongestStreak`, and
`RatingStaysValid`, which survives the wrap thanks to the clamp, for all.

### Bounds

- `elo_walk` uses the code's own bounds (0..5000, 5..600 s, 3600 s). User ratings
  are dense at 0, at the default and near 5000; gaps reach the ends of the curve;
  times straddle the guessing threshold and the expected time; skips are 0, 1, 3,
  the longest streak that fits and the greatest int. Only `MaxInt` is scaled down
  (100000 instead of 2^63-1) because TLC computes with 32 bits; nothing depends on
  its value.
- `MCQuizServer` uses ratings 0..40 with the code's K factors and a default of 12, so that
  two answers reach either end of the clamp. Three requests on one user give a
  commit between another request's read and commit, twice; more of them repeat
  the pattern. Two connections and three requests make the pool run dry; a third
  request then needs one to read. Two users and two sessions are needed for "not
  your session"; the three questions differ in key size and one has an expected time
  that grading refuses. Symmetry on requests is used in the runs without liveness. No
  counter needs a bound: a request is used once.
- `Leaderboard`: three users, ratings 0..2 and limits up to 2 (`MaxLimit`) give
  ties across the edge of a page, a full and a short last page, and a row with
  rating 0. `MaxChanges` = 2 lets a user rise and fall, or two users cross;
  `MaxRanks` = 1, since a rank request reads and remembers nothing. Every initial
  table is tried.
- `Accounts`: three rows, three usable addresses and one that is not, two
  subjects: enough for an address that moves, one that is shared, and a third row
  to go astray to. Three passwords, one too long to hash and equal to another in
  its first 72 bytes. One login at a time: logins change nothing but the tokens.
- `RateLimit`: `MaxTime` = 7 exceeds twice the fill time and the idle time of 4, so that an entry
  is deleted and made anew; the stall of 1 and a fill time of at most 4 meet
  `IdleAssumption` with nothing to spare. Three requests, one or two keys each.
- `QuestionBank`: three ids in bands of one row (`BandLimit`) stand for many in
  bands of 25: one question of a rating is then beyond both bands. Ratings 0..2
  with steps of 1 and 2 put targets below, between and above all questions. One option is
  another with spaces around it, so that the two meet only where texts are trimmed.
- `QuizClient`: two quizzes of two questions (`QuizLength`, `MaxQuizzes`), four questions
  loaded (`MaxShowings`) and four submissions (`MaxSubmits`): a reply or an error can
  reach another question and another quiz, a double click loads a question more
  (at most two are under way for a quiz), and one answer can be given again.

`CHECK_DEADLOCK FALSE` stands in the cfg of a model that ends: the walk where all
inputs are largest, the server when all requests are used up, the client of the
leaderboard after its last page, the limiter at `MaxTime`, the quiz page at its
bounds. That no handler is stuck before is `EverySubmissionEnds`, that no list is,
`PagingEnds`, and where the page is, `OnlyDoubleStartsStrand`. `Accounts` and `QuestionBank`
run with deadlock checked.

### Fairness

`QuizServer`: weak fairness of `Handle(r)` for each request, and nothing else. A runnable
goroutine is scheduled; the pool serves its waiters in order and PostgreSQL's
lock queue is a queue; with finitely many requests a step that waits for either
is enabled from some point on, so weak fairness suffices. Submitting, failing,
crashing and deleting are never forced.

`Leaderboard`: weak fairness of getting a page, for some limit. Changes by others
and failures are never forced; a page that keeps failing disables it again and
again, and `PagingEnds` exempts that client. The other modules state no liveness:
nothing in them has to happen.

## 4. Abstract specifications

`AnswerLedger` knows no statements, locks or connections: `Record` adds the answer
to the log and folds it into the statistics in one step, `Refuse` does neither,
and each may leave the client without a definite reply. `QuizServer` maps onto it
by reading the status off `pc` and `reply`, the log off `recorded`, and the rest
off the tables. `LedgerSafety` is checked and proved. The ledger promises nothing
about when a submission is settled; that is `EverySubmissionEnds`. It leaves open
which rating an answer leads to, because the code does not keep the obvious promise.

`TokenBuckets` has a bucket for every key and no map, no limiters and no cleanup.
`RateLimit` maps onto it by taking a key without an entry for a full bucket
(`Level`). Deleting an entry is then a stutter, and a refusal a refusal of the
bucket; `BucketsAreRemembered` is checked and proved.

## 5. Proofs

Assumptions are the named ASSUMEs: the order of the bounds, a `MaxInt` beyond them, a range for the
curve, a finite set of requests, at least one connection, well-typed bodies and
question rows; positive ids and natural ratings for the leaderboard; a null value outside
its column for accounts; the relation of idle and fill times for the limiter; that trimming
a text twice is trimming it once. Users, requests, connections, keys,
rates, pages, bands and quizzes are arbitrary. Two assumptions say more:

- `CurveAssumption` (`EloWalk`): between two of the gaps tried, the probability
  does not rise, and falls by less than 1000/32 = 31.25 thousandths for each point of the gap.
  The curve of `elo.go:36-38` falls by at most ln(10)/1600, 1.44 thousandths, a
  point; the table's error of two thousandths at either end leaves the sum far
  below the bound. Only `OrderIsKept` and `HarderPaysMore` use it.
- `SeedEloAssumption` (`QuestionBank`): the questions that are there before an
  administrator acts have ratings that validation would accept. The
  routes that would validate them refuse every body, so they come from elsewhere:
  the dataset of the repository, whose ratings run from 900 to 1600. Only
  `OnlyEdgesAreServed` needs it: a question rated out of reach of every target
  might not be served even from the edge of its band.

`EloEngineProofs` bounds each operator: scores and probabilities lie in 0..1000,
the rounded change within +-K, a wrong answer's change below 0, and the penalties
only subtract as long as the sums fit an int; `NewEloFacts` sums this up.
`EloWalkProofs` adds that inputs stay on the grid. The properties of order are
action properties, and each is a chain of monotone operators: `ChancesFall` for
the probability, `TimeScoreFalls` and `PerformanceFollowsScore`, `ChangeMonotone` for the rounded product (where
the rule that a wrong answer costs at least a point might have broken the order,
and does not), `Round`, penalty and clamp. `OrderIsKept` is the one
that needs the speed of the curve: a point of advantage must not cost a whole point.

`QuizServerProofs` builds the invariants in layers, each using the ones before:

1. `TypeInv` is `TypeOK` and `Flow`: which parts of a handler's memory are filled at which pc
   (a request past grading has a grade, one at commit has a pending row).
   Neither is inductive without the other.
2. `ReplyInv`: replies against `recorded` and pc.
3. `LockInv`: at most one request of a user stands between UPDATE and COMMIT, and
   its pending row was computed from the users row as it still is. This is what
   makes the counters exact, and where the row lock is used.
4. `FreshInv`: a request that is not stale was graded on the rating as it still
   is, so committing it adds exactly its `elo_change`; `LedgerExplainsRating` is a
   part of it.
5. The counters and the peak (`PeakInv`) follow from the lemmas `CommitEffect`, `OtherSteps`
   and `RecordedIsFinal`: what a commit does, that nothing else touches the users
   table, and that a recorded request never changes its grade or owner.
6. `CheckedInv` and `RowsInv`: the session was found to be the user's own, the
   question of an inserted row still exists, and the rows of `quiz_answers` are the
   recorded answers to existing questions.
7. `CurrentInv`: a grade that no commit has made stale is the grade that grading
   would give now. With `WrongGrade`, the arithmetic of a wrong answer, it gives
   the action property `WrongAnswerCosts`: the step that stores the rating takes
   it below the rating in the table, not only below the one once read.

The last part of the module adds `ZeroInv` (a user without answers has empty sums: the
UPDATE's special case for the first answer is the general rule) and maps each
action to a step of the ledger or a stutter, one step of the proof per action.

`LeaderboardProofs`: `CursorInv` says what the cursor stands for while the client
is asking: no row shown is after it, and every user on the list who has neither
risen nor joined is shown or still after it. `ShownInv` adds that a user who has
not fallen has a rating at least that of every row shown for them. A page keeps
both because the first rows of an ordered set are above the rest (`PageFacts`), a
rating keeps them by `CursorSplits`. Four properties follow. For the fifth,
`RankInv` says that as long as nobody has risen, fallen or joined, every row shown, the user
a rank request has read and every rank replied are those of the table as it is;
when the list is done, `CursorInv` makes the rows shown all rows there are,
and the rank a position among them (`RanksAreRight`).

`AccountsProofs`: `TokenInv`, `PasswordInv` and `GoogleInv` say of tokens, logins under
way, registrations and Google logins that the row they name is there with their
keys; `GoogleInv` also that the subject of a row comes from a Google login with its
address. `RowsKept`, what every step leaves of a row, carries all of them over a step.

`RateLimitProofs`: `MapInv` (each entry has a limiter of its own, last used at most
`MaxStall` after `lastSeen`), `HeldInv` (a held limiter is the one in the map, got
a short while ago) and `WindowInv` (what was spent in the window plus what is left
does not exceed the burst plus the window). `IdleIsFull` is the heart: an entry
idle for longer than `IdleTime` has a full bucket, and nobody holds it.

`QuestionBankProofs`: `BandIsNotEmpty` and `ChoiceIsNearest`: a row left out of a
band has the whole band between it and the target, so the nearest row of the two
bands is a nearest row of the subject. `DecodedIsRefused` makes `QuestionsOnlyDisappear`
a matter of deletions (`AdminTable`).
`OnlyEdgesAreServed` is an equivalence. From left to right, a row in a band has less than
`BandLimit` rows of its rating before it in the order of the ids (`ServedIsAtAnEdge`). From right
to left, a row at an edge is in the band cut at its own rating, and a target equal to
that rating can be drawn, since stored ratings stay in range (`RatingsInRange`).
That the bands the code cuts exist at all is a fact about finite sets, shown with least
elements of the strict subset order (`SmallestSet`, `LimitExists`), not by induction.

`QuizClientProofs`: `RangeInv` says that requests under way refer to quizzes and
questions that exist, and that a page with a quiz or a timer has one; it makes `TypeOK`
inductive. The tallies are kept by each step as they are (`TalliesStep`), because
a request holds the quiz object it was sent for. `UnlockInv` adds to `AnsweredOncePerUnlock` that a
question still open on the page has one answer to spare. `OnlyDoubleStartsStrand`
takes two invariants: `PageInv` says what is true while requests are under way, that an
answered question has a button or a reply to come that will bring one; `OverlapInv`
that without a double start at most one quiz is being opened, the page waits for it at home,
and a quiz on the page has had a question.

| Theorem | States |
|---|---|
| `RatingAlwaysValid`, `WrongAnswerAlwaysLoses`, `MoveAlwaysBounded` | the walk's invariants, for any bounds and curve |
| `OrderAlwaysKept`, `HarderAlwaysPaysMore`, `SlowerPaysNever`, `SkippingAlwaysCosts` | `OrderIsKept`, `HarderPaysMore`, `SlowerNeverPays`, `SkippingNeverPays` |
| `TypeCorrect` | `TypeOK` of `QuizServer` |
| `RepliesTruthful` | `RepliesAreTruthful` |
| `StatsExact` | `StatsCountEveryAnswer` |
| `PeakExact` | `PeakCoversHistory` |
| `TablesMatch` | `AnswersMatchTables` |
| `LedgerExact` | `LedgerExplainsRating` |
| `WrongAnswersAlwaysCost` | `WrongAnswerCosts` |
| `ImplementsLedgerSafety` | `LedgerSafety` |
| `LeaderboardTypeCorrect`, `PagesAlwaysDescend`, `NobodyElseMissed`, `NobodyElseRepeated`, `RanksAlwaysAgree` | `TypeOK`, `PagesDescend`, `OnlyRisersAreMissed`, `OnlyFallersAreRepeated`, `RanksAgreeWithList` |
| `AccountsTypeCorrect`, `OneAccountPerKey`, `CredentialsKept`, `PasswordNeverLost`, `TokensStayTrue`, `SubjectsKeepTheirAccount` | `TypeOK`, `KeysAreUnique`, `AccountsKeepCredentials`, `RegisteredPasswordWorks`, `TokensNameTheirAccount`, `SubjectReachesOneAccount` |
| `RateLimitTypeCorrect`, `WindowsAreBounded`, `LimitersAreNotDuplicated`, `ForgettingIsInvisible` | `TypeOK`, `NoMoreThanBurstAndRate`, `OneLimiterPerKey`, `BucketsAreRemembered` |
| `QuestionBankTypeCorrect`, `QuestionsNeverRewritten`, `ServedAlwaysNearest`, `OnlyEdgesEverServed` | `TypeOK`, `QuestionsOnlyDisappear`, `ServedIsNearest`, `OnlyEdgesAreServed` |
| `QuizClientTypeCorrect`, `TalliesStayOfTheirQuiz`, `NeverAnsweredTwice`, `StrandedOnlyByDoubleStarts` | `TypeOK`, `TalliesAreOfTheirQuiz`, `AnsweredOncePerUnlock`, `OnlyDoubleStartsStrand` |

With these, every invariant and every action property of the runs that hold is a
theorem. Checked by TLC only: the liveness `EverySubmissionEnds` and `PagingEnds`,
which is out of the prover's reach.

## 6. Plan

1. Proofs: what holds of the abstract specifications themselves, so that it is
   inherited by what implements them; what the composition of two modules gives
   (a client that posts a question again, and the ledger).
2. `Lifecycle`: startup, listener failure, signal, shutdown within the timeout.
3. A session's history read in two statements while answers commit and questions
   are deleted.

## 7. Findings

See `PROJECT.json`, "findings": the lost update, the questions that cannot be
added and the time-outs that are refused (section 3).

## 8. Not modelled, and why

Configuration loading and validation are pure and run once. CORS, the request
log and the health check keep no state. Session history, subject lists and global
statistics are read-only queries. Migrations and `setup.sh` run before the
server does. The dataset is data. bcrypt, JWT signatures, Google's token check and
`x/time/rate` are external. `NextQuestionDifficulty` and `ConfidenceScore` fill two
fields of a reply that no code reads. Of the browser client, pages other than the
quiz show what a reply holds. The lifecycle of the process is in the plan; that a
failed listener leaves the process waiting for a signal (`main.go:148`) is listed as
a hazard without a property.
