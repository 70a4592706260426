----------------------------- MODULE EloEngine -----------------------------
(***************************************************************************)
(* The rating arithmetic of services/elo.go and the bounds of              *)
(* utils/validation.go.  Nothing here has a state: QuizServer applies      *)
(* these operators inside its grading step and EloWalk checks them over    *)
(* a grid of inputs.                                                       *)
(*                                                                         *)
(* Numbers.  Ratings and rating changes are integers, as in the code; the  *)
(* additions that a client's streak counter takes part in wrap around at   *)
(* MaxInt, as those of the type int do.  The float64 quantities in [0,1]   *)
(* (time score, performance, expected probability) are integers in         *)
(* thousandths, and times are whole seconds.                               *)
(***************************************************************************)
EXTENDS Integers

CONSTANTS
    MinUserElo,      \* lowest rating a user may have  (code: 0)
    MaxUserElo,      \* highest rating a user may have (code: 5000)
    MinExpectedTime, \* bounds of a question's expected time (code: 5 .. 600)
    MaxExpectedTime,
    MaxAnswerTime,   \* longest time a submission may report (code: 3600)
    MaxInt,          \* greatest value of the type int (Go on amd64: 2^63 - 1)
    WinChance        \* [question Elo - user Elo -> expected probability]

Unit == 1000  \* one, in thousandths

Difficulties == {"easy", "medium", "hard"}

EloGap == (MinUserElo - MaxUserElo) .. (MaxUserElo - MinUserElo)

\* 1 / (1 + 10^(gap/400)) cannot be written with integers, so the function
\* is a parameter; a module that fixes WinChance gives the rounded values.
\* Only its range is assumed here.
ASSUME EloBoundsAssumption ==
    /\ MinUserElo \in Nat
    /\ MaxUserElo \in Nat
    /\ MinUserElo =< MaxUserElo
    /\ MaxInt \in Nat
    /\ MaxInt >= MaxUserElo + 40

ASSUME TimeBoundsAssumption ==
    /\ MinExpectedTime \in Nat \ {0}
    /\ MaxExpectedTime \in Nat
    /\ MaxAnswerTime \in Nat

ASSUME WinChanceAssumption == WinChance \in [EloGap -> 0 .. Unit]

\* The sum or difference of two values of type int, as the type holds it.
Wrap(n) ==
    IF n > MaxInt THEN n - 2 * (MaxInt + 1)
    ELSE IF n < -MaxInt - 1 THEN n + 2 * (MaxInt + 1)
    ELSE n

-----------------------------------------------------------------------------
(* utils/validation.go *)

ValidElo(elo) == MinUserElo =< elo /\ elo =< MaxUserElo

\* Faulty variants (the name of each tells what is wrong in it) stand before
\* the definition they are variants of.
ClampEloNoFloor(elo) == IF elo > MaxUserElo THEN MaxUserElo ELSE elo

ClampEloSwappedBound(elo) ==
    IF elo < MinUserElo \/ elo > MaxUserElo THEN MinUserElo ELSE elo

ClampElo(elo) ==
    IF elo < MinUserElo THEN MinUserElo
    ELSE IF elo > MaxUserElo THEN MaxUserElo
    ELSE elo

ValidTimeTaken(seconds) == 0 < seconds /\ seconds =< MaxAnswerTime

ValidExpectedTime(seconds) ==
    MinExpectedTime =< seconds /\ seconds =< MaxExpectedTime

-----------------------------------------------------------------------------
(* services/elo.go *)

\* The two early returns at the end of TimeScore.
ClampUnit(score) ==
    IF score < 0 THEN 0 ELSE IF score > Unit THEN Unit ELSE score

TimeScoreNotInverted(timeTaken, expectedTime) ==
    IF expectedTime =< 0 THEN 0 ELSE ClampUnit((Unit * timeTaken) \div expectedTime)

TimeScore(timeTaken, expectedTime) ==
    IF expectedTime =< 0 THEN 0
    ELSE ClampUnit(Unit - (Unit * timeTaken) \div expectedTime)

PerformanceScoreSwapped(timeScore, correct) ==
    IF ~correct THEN Unit \div 2 + timeScore \div 2 ELSE 0

PerformanceScore(timeScore, correct) ==
    IF correct THEN Unit \div 2 + timeScore \div 2 ELSE 0

ExpectedProbabilityReversed(userElo, questionElo) == WinChance[userElo - questionElo]

ExpectedProbability(userElo, questionElo) == WinChance[questionElo - userElo]

KFactor(difficulty) ==
    CASE difficulty = "easy" -> 16
      [] difficulty = "hard" -> 32
      [] OTHER               -> 24

\* math.Round: the nearest integer, halves away from zero.
Round(thousandths) ==
    IF thousandths >= 0
    THEN (thousandths + Unit \div 2) \div Unit
    ELSE -((Unit \div 2 - thousandths) \div Unit)

EloDeltaNoFloor(userElo, questionElo, difficulty, performance) ==
    Round(KFactor(difficulty) *
          (performance - ExpectedProbability(userElo, questionElo)))

\* The delta CalculateNewElo returns; its first result is discarded by the
\* only caller (handlers/quiz.go:165).
EloDelta(userElo, questionElo, difficulty, performance) ==
    LET change == Round(KFactor(difficulty) *
                        (performance - ExpectedProbability(userElo, questionElo)))
    IN  IF performance = 0 /\ change >= 0 THEN -1 ELSE change

\* A wrong answer within 15% of the expected time counts as a guess.
FastGuess(correct, timeTaken, expectedTime) ==
    ~correct /\ expectedTime > 0 /\ 100 * timeTaken =< 15 * expectedTime

PenaltyDoubled(delta, correct, timeTaken, expectedTime, skips) ==
    delta - (IF FastGuess(correct, timeTaken, expectedTime) THEN 4 ELSE 0)
          - (IF skips >= 2 THEN 2 * skips ELSE 0)

PenaltyAdded(delta, correct, timeTaken, expectedTime, skips) ==
    delta - (IF FastGuess(correct, timeTaken, expectedTime) THEN 4 ELSE 0)
          + (IF skips >= 2 THEN skips ELSE 0)

ApplyAntiGuessingPenalty(delta, correct, timeTaken, expectedTime, skips) ==
    LET guessed == delta - (IF FastGuess(correct, timeTaken, expectedTime) THEN 4 ELSE 0)
    IN  IF skips >= 2 THEN Wrap(guessed - skips) ELSE guessed

\* Lines 163-167 of SubmitAnswer: the rating after one answer.
NewElo(userElo, question, correct, timeTaken, skips) ==
    LET performance == PerformanceScore(
            TimeScore(timeTaken, question.expected_time), correct)
        delta == EloDelta(userElo, question.elo, question.difficulty, performance)
    IN  ClampElo(Wrap(userElo +
            ApplyAntiGuessingPenalty(delta, correct, timeTaken,
                                     question.expected_time, skips)))
=============================================================================
