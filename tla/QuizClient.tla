----------------------------- MODULE QuizClient -----------------------------
(***************************************************************************)
(* The quiz page of frontend/quizarena.html: one state object that click   *)
(* handlers, a timer and the replies of the server all change.  A handler  *)
(* runs undisturbed up to its next await; what comes back is handled in    *)
(* whatever state the page is in by then, in any order.                    *)
(*                                                                         *)
(* APP.state.quiz is replaced when a quiz is started, while requests of    *)
(* the old one may be under way and still refer to it.  Buttons, options   *)
(* and APP.state.answered belong to the page, not to a quiz.               *)
(*                                                                         *)
(* Of the server the model keeps whether a submission is recorded and      *)
(* whether the page hears of it: QuizServer has the rest.  Left out are    *)
(* eloTotal and wrongInRow, kept the way correctCount and skipsInRow are,  *)
(* and the list of past quizzes, a copy of the tallies.                    *)
(***************************************************************************)
EXTENDS Integers, Sequences, FiniteSets

CONSTANTS
    QuizLength,   \* APP.quizLength
    MaxQuizzes,   \* bound: quizzes started
    MaxShowings,  \* bound: questions loaded
    MaxSubmits    \* bound: submissions posted

ASSUME BoundsAssumption ==
    QuizLength \in Nat /\ MaxQuizzes \in Nat /\ MaxShowings \in Nat /\ MaxSubmits \in Nat

VARIABLES
    quizzes,   \* the quiz objects, in the order they were made
    starts,    \* number of POST /quiz/start under way
    opening,   \* quizzes whose first question is under way
    loads,     \* [quizzes -> number of further questions under way]
    shown,     \* number of questions loaded so far
    submits,   \* the submissions posted
    answered,  \* APP.state.answered
    timer,     \* APP.state.timerInterval runs
    page,      \* APP.state.currentPage
    options,   \* "none", "enabled" or "disabled": the option buttons
    button,    \* "next" or "finish", whichever of the buttons shows, or "none"
    reopened,  \* history: how often each question was unlocked again
    overlapped \* history: a subject was clicked before an earlier click's question came

quizState == <<quizzes, starts, opening, loads, shown>>
pageState == <<answered, timer, page, options, button>>
vars == <<quizState, submits, pageState, reopened, overlapped>>

Quizzes == 1 .. Len(quizzes)
Current == Len(quizzes)   \* APP.state.quiz

\* question counts the questions loaded so far; 0 stands for null.
Quiz == [question : 0 .. MaxShowings, index : 0 .. MaxShowings,
         skipsInRow : Nat, correctCount : Nat]

\* "recorded": the server has stored it; "lost": it has, but the page will see
\* an error; "refused" and "failed": it has not, by a 400 or another error.
\* The others are past.
States == {"sent", "recorded", "lost", "refused", "failed",
           "counted", "aborted", "error"}

Submission == [quiz : 1 .. MaxQuizzes, question : 1 .. MaxShowings, timedOut : BOOLEAN,
               right : BOOLEAN, state : States]

TypeOK ==
    /\ quizzes \in Seq(Quiz) /\ Len(quizzes) =< MaxQuizzes
    /\ starts \in 0 .. MaxQuizzes
    /\ opening \subseteq Quizzes
    /\ loads \in [1 .. MaxQuizzes -> Nat]
    /\ shown \in 0 .. MaxShowings
    /\ submits \in Seq(Submission) /\ Len(submits) =< MaxSubmits
    /\ answered \in BOOLEAN /\ timer \in BOOLEAN
    /\ page \in {"home", "quiz"}
    /\ options \in {"none", "enabled", "disabled"}
    /\ button \in {"none", "next", "finish"}
    /\ reopened \in [1 .. MaxShowings -> Nat] /\ overlapped \in BOOLEAN

\* The object the page begins with is like one that has no question.
NewQuiz == [question |-> 0, index |-> 0, skipsInRow |-> 0, correctCount |-> 0]

Init ==
    /\ quizzes = <<>> /\ starts = 0 /\ opening = {} /\ shown = 0
    /\ loads = [q \in 1 .. MaxQuizzes |-> 0]
    /\ submits = <<>>
    /\ answered = FALSE /\ timer = FALSE /\ page = "home"
    /\ options = "none" /\ button = "none"
    /\ reopened = [n \in 1 .. MaxShowings |-> 0] /\ overlapped = FALSE

-----------------------------------------------------------------------------
(* Starting a quiz and loading questions *)

\* A click on a subject.  Nothing keeps the user from a second one.
ClickSubject ==
    /\ page = "home"
    /\ Len(quizzes) + starts < MaxQuizzes
    /\ starts' = starts + 1
    /\ overlapped' = (overlapped \/ starts > 0 \/ opening # {})
    /\ UNCHANGED <<quizzes, opening, loads, shown, submits, pageState, reopened>>

\* The reply to /quiz/start replaces APP.state.quiz and asks for a question.
Started ==
    /\ starts > 0
    /\ starts' = starts - 1
    /\ quizzes' = Append(quizzes, NewQuiz)
    /\ opening' = opening \cup {Len(quizzes) + 1}
    /\ UNCHANGED <<loads, shown, submits, pageState, reopened, overlapped>>

StartFails ==
    /\ starts > 0
    /\ starts' = starts - 1
    /\ UNCHANGED <<quizzes, opening, loads, shown, submits, pageState, reopened, overlapped>>

\* A question has arrived for quiz q: loadNextQuizQuestion from its await on,
\* with renderQuizQuestion, which draws the question of the current quiz, and
\* startTimer.
Show(q) ==
    LET new == [quizzes EXCEPT ![q].question = shown + 1, ![q].index = @ + 1]
        drawn == new[Current].question
    IN  /\ shown < MaxShowings
        /\ quizzes' = new
        /\ shown' = shown + 1
        /\ answered' = FALSE
        /\ IF drawn = 0
           THEN UNCHANGED <<options, button, reopened>>
           ELSE /\ options' = "enabled"
                /\ button' = "none"
                /\ reopened' = IF q = Current THEN reopened
                               ELSE [reopened EXCEPT ![drawn] = @ + 1]

\* The first question, after which the page turns to the quiz, or back home
\* if the current quiz has no question.
FirstQuestion(q) ==
    /\ q \in opening
    /\ opening' = opening \ {q}
    /\ Show(q)
    /\ IF quizzes'[Current].question # 0
       THEN page' = "quiz" /\ timer' = TRUE
       ELSE page' = "home" /\ timer' = FALSE
    /\ UNCHANGED <<starts, loads, submits, overlapped>>

LaterQuestion(q) ==
    /\ loads[q] > 0
    /\ loads' = [loads EXCEPT ![q] = @ - 1]
    /\ Show(q)
    /\ timer' = TRUE
    /\ UNCHANGED <<starts, opening, submits, page, overlapped>>

\* The request for a question fails: the page shows the message, no more.
LoadFails(q) ==
    /\ \/ q \in opening /\ opening' = opening \ {q} /\ UNCHANGED loads
       \/ loads[q] > 0 /\ loads' = [loads EXCEPT ![q] = @ - 1] /\ UNCHANGED opening
    /\ UNCHANGED <<quizzes, starts, shown, submits, pageState, reopened, overlapped>>

\* Nothing hides the button until the question is there: a second click loads
\* a second question.
ClickNext ==
    /\ page = "quiz" /\ button = "next"
    /\ quizzes[Current].question # 0
    /\ loads[Current] < 2   \* bound: impatience
    /\ loads' = [loads EXCEPT ![Current] = @ + 1]
    /\ UNCHANGED <<quizzes, starts, opening, shown, submits, pageState, reopened, overlapped>>

-----------------------------------------------------------------------------
(* Answering *)

\* The page does not note that an answer is under way.
SubmitQuizAnswerUnguarded(timedOut) ==
    /\ timer' = FALSE
    /\ IF quizzes[Current].question = 0
       THEN answered' = FALSE /\ UNCHANGED submits
       ELSE /\ answered' = FALSE
            /\ Len(submits) < MaxSubmits
            /\ submits' = Append(submits,
                 [quiz |-> Current, question |-> quizzes[Current].question,
                  timedOut |-> timedOut, right |-> FALSE, state |-> "sent"])

\* That there is a question is not noticed.
SubmitQuizAnswerAnything(timedOut) ==
    /\ timer' = FALSE
    /\ answered' = TRUE
    /\ Len(submits) < MaxSubmits
    /\ submits' = Append(submits,
         [quiz |-> Current, question |-> quizzes[Current].question,
          timedOut |-> timedOut, right |-> FALSE, state |-> "sent"])

\* submitQuizAnswer up to its await.  Without a question the try block fails
\* at question.id, or, in a quiz nothing was ever drawn for, already the line
\* that reads the length of selectedKeys, outside of it.
SubmitQuizAnswer(timedOut) ==
    /\ timer' = FALSE
    /\ IF quizzes[Current].question = 0
       THEN /\ answered' = (quizzes[Current].index = 0 /\ ~ timedOut)
            /\ UNCHANGED submits
       ELSE /\ answered' = TRUE
            /\ Len(submits) < MaxSubmits
            /\ submits' = Append(submits,
                 [quiz |-> Current, question |-> quizzes[Current].question,
                  timedOut |-> timedOut, right |-> FALSE, state |-> "sent"])

\* A click on an option, or on Confirm once options are selected.
ClickOption ==
    /\ page = "quiz" /\ options = "enabled" /\ ~ answered
    /\ SubmitQuizAnswer(FALSE)
    /\ UNCHANGED <<quizState, page, options, button, reopened, overlapped>>

\* The timer has run down, wherever the user is by then.
TimeUp ==
    /\ timer
    /\ IF answered THEN timer' = FALSE /\ UNCHANGED <<answered, submits>>
       ELSE SubmitQuizAnswer(TRUE)
    /\ UNCHANGED <<quizState, page, options, button, reopened, overlapped>>

\* POST /quiz/submit-answer: an empty selection is refused, anything else is
\* recorded or not, and the reply arrives or not.
Serve(s) ==
    /\ submits[s].state = "sent"
    /\ \E right \in BOOLEAN, state \in {"recorded", "lost", "refused", "failed"} :
          /\ state = "refused" <=> submits[s].timedOut
          /\ right => state \in {"recorded", "lost"}
          /\ submits' = [submits EXCEPT ![s].state = state, ![s].right = right]
    /\ UNCHANGED <<quizState, pageState, reopened, overlapped>>

\* The reply is booked on the quiz that is current by now.
CountOnCurrent(s) ==
    [quizzes EXCEPT
        ![Current].correctCount = @ + (IF submits[s].right THEN 1 ELSE 0),
        ![Current].skipsInRow = IF submits[s].timedOut THEN @ + 1 ELSE 0]

Count(s) ==
    [quizzes EXCEPT
        ![submits[s].quiz].correctCount = @ + (IF submits[s].right THEN 1 ELSE 0),
        ![submits[s].quiz].skipsInRow = IF submits[s].timedOut THEN @ + 1 ELSE 0]

\* The reply to a recorded answer: submitQuizAnswer after its await.  The
\* option buttons it disables are those of the question drawn last.  If the
\* quiz has been finished meanwhile, reading its question fails first.
Accepted(s) ==
    LET q == submits[s].quiz
    IN  /\ submits[s].state = "recorded"
        /\ IF quizzes[q].question = 0
           THEN /\ submits' = [submits EXCEPT ![s].state = "aborted"]
                /\ UNCHANGED <<quizzes, options, button>>
           ELSE /\ submits' = [submits EXCEPT ![s].state = "counted"]
                /\ quizzes' = Count(s)
                /\ options' = "disabled"
                /\ button' = IF quizzes[q].index >= QuizLength THEN "finish" ELSE "next"
        /\ UNCHANGED <<starts, opening, loads, shown, answered, timer, page, reopened, overlapped>>

\* The catch clause does not unlock the page.
RejectedLocked(s) ==
    /\ submits[s].state \in {"lost", "refused", "failed"}
    /\ submits' = [submits EXCEPT ![s].state = "error"]
    /\ UNCHANGED <<quizState, pageState, reopened, overlapped>>

\* An error: the catch clause unlocks whatever the page shows by now.
Rejected(s) ==
    /\ submits[s].state \in {"lost", "refused", "failed"}
    /\ submits' = [submits EXCEPT ![s].state = "error"]
    /\ answered' = FALSE
    /\ reopened' = IF quizzes[Current].question = 0 THEN reopened
                   ELSE [reopened EXCEPT ![quizzes[Current].question] = @ + 1]
    /\ UNCHANGED <<quizState, timer, page, options, button, overlapped>>

\* finishQuiz; that it ends on the dashboard is one more Leave.
ClickFinish ==
    /\ page = "quiz" /\ button = "finish"
    /\ quizzes' = [quizzes EXCEPT ![Current].question = 0]
    /\ UNCHANGED <<starts, opening, loads, shown, submits, pageState, reopened, overlapped>>

\* Any other page, by goto.
Leave ==
    /\ page = "quiz"
    /\ page' = "home"
    /\ timer' = FALSE
    /\ UNCHANGED <<quizState, submits, answered, options, button, reopened, overlapped>>

Next ==
    \/ ClickSubject \/ Started \/ StartFails
    \/ \E q \in Quizzes : FirstQuestion(q) \/ LaterQuestion(q) \/ LoadFails(q)
    \/ ClickNext \/ ClickOption \/ TimeUp \/ ClickFinish \/ Leave
    \/ \E s \in DOMAIN submits : Serve(s) \/ Accepted(s) \/ Rejected(s)

Spec == Init /\ [][Next]_vars

-----------------------------------------------------------------------------
(* Properties *)

\* The tally of a quiz counts the right answers given in it, each once,
\* however late the replies come and whichever quiz is current by then
\* (quizarena.html:1784, 1830).
TalliesAreOfTheirQuiz ==
    \A q \in Quizzes :
        quizzes[q].correctCount =
            Cardinality({s \in DOMAIN submits : /\ submits[s].quiz = q
                                                /\ submits[s].state = "counted"
                                                /\ submits[s].right})

\* A question is answered at most once, and once more each time an error, or
\* the late first question of another quiz, has unlocked the page while it was
\* shown (quizarena.html:1686, 1781, 1805).
AnsweredOncePerUnlock ==
    \A n \in 1 .. shown :
        Cardinality({s \in DOMAIN submits : submits[s].question = n}) =< 1 + reopened[n]

NothingUnderWay ==
    /\ starts = 0 /\ opening = {} /\ \A q \in Quizzes : loads[q] = 0
    /\ \A s \in DOMAIN submits : submits[s].state \in {"counted", "aborted", "error"}

\* The buttons of the quiz page that lead on in the quiz: an option that takes
\* a click, "next", which does nothing without a question (quizarena.html:1853),
\* "finish", or that one has been clicked and its goto is to come.
CanGoOn ==
    LET quiz == quizzes[Current]
    IN  \/ quiz.question # 0 /\ ((options = "enabled" /\ ~ answered) \/ button = "next")
        \/ button = "finish"
        \/ quiz.question = 0 /\ quiz.index > 0

\* With every reply in, the quiz page lets its user go on, whatever the order
\* of replies and errors, with one exception.  A subject clicked twice makes a
\* second quiz the current one under a question of the first.  Should no
\* question come for it, a click on an option, which posts for the current
\* quiz, fails and locks the options for good (quizarena.html:1664, 1788), and
\* all that is left is to go to another page.
OnlyDoubleStartsStrand ==
    page = "quiz" /\ NothingUnderWay =>
        CanGoOn \/ (overlapped /\ quizzes[Current].index = 0)

\* ELO.md:21 makes repeated skips cost rating, and the page has a branch that
\* counts them (quizarena.html:1825): what the page posts when the time is up
\* is not refused as invalid, so that the skip can be counted.
TimeoutsAreCounted ==
    \A s \in DOMAIN submits : submits[s].timedOut => submits[s].state # "refused"

=============================================================================
