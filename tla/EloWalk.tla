------------------------------ MODULE EloWalk ------------------------------
(***************************************************************************)
(* A walk over the inputs of the rating arithmetic.  A state is one graded *)
(* answer; a step changes one input upwards and leaves the others alone,   *)
(* so that "a slower answer", "a harder question" or "a stronger player"   *)
(* is a step and monotonicity is an action property.                       *)
(***************************************************************************)
EXTENDS EloEngine

CONSTANTS
    UserElos,      \* ratings tried for the user
    QuestionElos,  \* ratings tried for the question
    ExpectedTimes, \* expected times tried for the question
    Times,         \* answer times tried
    SkipCounts     \* values of skips_in_row tried

ASSUME GridAssumption ==
    /\ \A elo \in UserElos \cup QuestionElos : elo \in Int /\ ValidElo(elo)
    /\ \A t \in ExpectedTimes : t \in Nat /\ ValidExpectedTime(t)
    /\ \A t \in Times : t \in Nat /\ ValidTimeTaken(t)
    /\ SkipCounts \subseteq 0 .. MaxInt

\* The gaps between a question and a user.
Gaps == {gap \in EloGap : \E q \in QuestionElos, u \in UserElos : gap = q - u}

\* The curve of elo.go:36-38 falls as the gap grows, by at most 1.44 thousandths
\* a point.  What the order of ratings needs is much less: that a fall of one
\* point times the greatest K factor stays below one.
ASSUME CurveAssumption ==
    \A g, h \in Gaps :
        g < h => /\ WinChance[h] =< WinChance[g]
                 /\ 32 * (WinChance[g] - WinChance[h]) < Unit * (h - g)

VARIABLES
    elo,      \* the user's rating before the answer
    question, \* [elo, difficulty, expected_time] of the question
    correct,  \* was the answer right
    time,     \* seconds taken
    skips     \* skips_in_row as reported

vars == <<elo, question, correct, time, skips>>

Init ==
    /\ elo \in UserElos
    /\ question \in [elo : QuestionElos, difficulty : Difficulties,
                     expected_time : ExpectedTimes]
    /\ correct \in BOOLEAN
    /\ time \in Times
    /\ skips \in SkipCounts

StrongerUser ==
    /\ \E e \in UserElos : e > elo /\ elo' = e
    /\ UNCHANGED <<question, correct, time, skips>>

HarderQuestion ==
    /\ \E e \in QuestionElos :
          e > question.elo /\ question' = [question EXCEPT !.elo = e]
    /\ UNCHANGED <<elo, correct, time, skips>>

SlowerAnswer ==
    /\ \E t \in Times : t > time /\ time' = t
    /\ UNCHANGED <<elo, question, correct, skips>>

MoreSkips ==
    /\ \E s \in SkipCounts : s > skips /\ skips' = s
    /\ UNCHANGED <<elo, question, correct, time>>

Next == StrongerUser \/ HarderQuestion \/ SlowerAnswer \/ MoreSkips

Spec == Init /\ [][Next]_vars

-----------------------------------------------------------------------------
After(isCorrect) == NewElo(elo, question, isCorrect, time, skips)

\* Grading takes at most K = 32 points, 4 for a guess and the skips: up to
\* this count the sums of elo.go:64-72 and quiz.go:167 stay within an int.
LongestStreak == MaxInt - 36

InRange == skips =< LongestStreak

\* Whatever the ratings, the timing and the streak counters, even one that
\* makes the sums wrap around, a new rating is
\* one that ValidateElo accepts on the user's next submission
\* (handlers/quiz.go:134 would otherwise refuse the user for ever).
RatingStaysValid == \A c \in BOOLEAN : After(c) \in Int /\ ValidElo(After(c))

\* A wrong answer costs rating, even against a far stronger question, unless
\* the user already has the lowest rating (elo.go:56-59 and the test
\* TestNegativeEloForWrongAnswers).
WrongAnswerLoses ==
    InRange => After(FALSE) < elo \/ (elo = MinUserElo /\ After(FALSE) = elo)

\* One answer moves the rating by at most K, plus what the guessing penalty
\* may take away (elo.go:51-72).
MoveIsBounded ==
    LET k    == KFactor(question.difficulty)
        move == After(correct) - elo
    IN  InRange => /\ move =< k
                   /\ move >= -k - (IF correct THEN 0 ELSE 4) - skips

\* Answering the same question in the same way never lets a weaker player
\* overtake a stronger one, however the rounding and the clamp fall.
OrderIsKept == [][StrongerUser /\ InRange => After(correct)' >= After(correct)]_vars

\* A harder question never pays less for the same answer.
HarderPaysMore == [][HarderQuestion /\ InRange => After(correct)' >= After(correct)]_vars

\* Taking longer over a right answer never pays; taking longer over a wrong
\* one never costs (it can only escape the guessing penalty).
SlowerNeverPays ==
    [][SlowerAnswer /\ InRange =>
          IF correct THEN After(correct)' =< After(correct)
                     ELSE After(correct)' >= After(correct)]_vars

\* Reporting more consecutive skips never pays.
SkippingNeverPays ==
    [][MoreSkips /\ InRange' => After(correct)' =< After(correct)]_vars
=============================================================================
