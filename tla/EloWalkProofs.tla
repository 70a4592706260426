--------------------------- MODULE EloWalkProofs ---------------------------
(***************************************************************************)
(* The invariants of EloWalk for every grid, all bounds and every curve of *)
(* expected probability, and its action properties about order for every   *)
(* curve that CurveAssumption admits.                                      *)
(***************************************************************************)
EXTENDS EloWalk, EloEngineProofs

\* The inputs stay on the grid: what the other invariants need to know.
OnGrid ==
    /\ elo \in UserElos
    /\ question \in [elo : QuestionElos, difficulty : Difficulties,
                     expected_time : ExpectedTimes]
    /\ correct \in BOOLEAN
    /\ time \in Times
    /\ skips \in SkipCounts

\* A step raises one input, to another value of its grid.
LEMMA RaisedInputsOnGrid == OnGrid /\ Next => OnGrid'
<1>1. OnGrid /\ (StrongerUser \/ SlowerAnswer \/ MoreSkips) => OnGrid'
  BY DEF StrongerUser, SlowerAnswer, MoreSkips, OnGrid
<1>2. OnGrid /\ HarderQuestion => OnGrid'
  \* Only the rating of the question is replaced: its other fields stay.
  BY DEF HarderQuestion, OnGrid
<1> QED
  BY <1>1, <1>2 DEF Next

LEMMA GridInvariant == Spec => []OnGrid
<1>1. Init => OnGrid
  BY DEF Init, OnGrid
<1>2. OnGrid /\ UNCHANGED vars => OnGrid'
  BY DEF vars, OnGrid
<1> QED
  BY <1>1, <1>2, RaisedInputsOnGrid, PTL DEF Spec

\* Inputs on the grid are inputs the lemmas about NewElo speak of.
LEMMA GridInputs ==
    ASSUME OnGrid
    PROVE  /\ elo \in MinUserElo .. MaxUserElo
           /\ GradedQuestion(question)
           /\ time \in Int
           /\ skips \in Nat
           /\ InRange => skips =< MaxInt - 36
<1>1. elo \in MinUserElo .. MaxUserElo /\ question.elo \in MinUserElo .. MaxUserElo
  BY GridAssumption, EloBoundsAssumption DEF OnGrid, ValidElo
<1>2. GradedQuestion(question)
  BY <1>1, GridAssumption DEF OnGrid, GradedQuestion
<1>3. QED
  BY <1>1, <1>2, GridAssumption DEF OnGrid, InRange, LongestStreak

\* Whatever the answer, the rating stays one the server accepts (quiz.go:134):
\* grading can never lock a user out of the quiz.
THEOREM RatingAlwaysValid == Spec => []RatingStaysValid
<1>1. OnGrid => RatingStaysValid
  BY GridInputs, NewEloFacts, EloBoundsAssumption DEF RatingStaysValid, After, ValidElo
<1>2. QED
  BY <1>1, GridInvariant, PTL

\* A wrong answer costs rating against any opponent (elo.go:56-59), for every
\* expected probability, down to the lowest rating.
THEOREM WrongAnswerAlwaysLoses == Spec => []WrongAnswerLoses
<1>1. OnGrid => WrongAnswerLoses
  <2> SUFFICES ASSUME OnGrid, InRange
               PROVE  After(FALSE) < elo \/ (elo = MinUserElo /\ After(FALSE) = elo)
    BY DEF WrongAnswerLoses
  <2> DEFINE new == After(FALSE)
  <2>1. new \in MinUserElo .. MaxUserElo /\ (new < elo \/ new = MinUserElo)
    BY GridInputs, NewEloFacts DEF After
  <2>2. elo \in MinUserElo .. MaxUserElo
    BY GridInputs
  <2>3. new < elo \/ (elo = MinUserElo /\ new = elo)
    <3> HIDE DEF new
    <3>1. QED
      BY <2>1, <2>2, EloBoundsAssumption
  <2>4. QED
    BY <2>3
<1>2. QED
  BY <1>1, GridInvariant, PTL

\* One answer moves the rating by at most the K factor and the penalties.
THEOREM MoveAlwaysBounded == Spec => []MoveIsBounded
<1>1. OnGrid => MoveIsBounded
  <2> SUFFICES ASSUME OnGrid
               PROVE  MoveIsBounded
    OBVIOUS
  <2>1. correct \in BOOLEAN
    BY DEF OnGrid
  <2>2. QED
    BY <2>1, GridInputs, NewEloFacts DEF MoveIsBounded, After
<1>2. QED
  BY <1>1, GridInvariant, PTL
-----------------------------------------------------------------------------
(* The order theorems: what one more point, second or skip does *)

\* The chances of two gaps of the grid (see CurveAssumption).
LEMMA ChancesFall ==
    ASSUME NEW u \in UserElos, NEW v \in UserElos,
           NEW q \in QuestionElos, NEW r \in QuestionElos, q - u < r - v
    PROVE  /\ ExpectedProbability(v, r) =< ExpectedProbability(u, q)
           /\ 32 * (ExpectedProbability(u, q) - ExpectedProbability(v, r))
                < Unit * ((r - v) - (q - u))
<1>1. /\ u \in MinUserElo .. MaxUserElo /\ v \in MinUserElo .. MaxUserElo
      /\ q \in MinUserElo .. MaxUserElo /\ r \in MinUserElo .. MaxUserElo
  BY GridAssumption, EloBoundsAssumption DEF ValidElo
<1>2. q - u \in EloGap /\ r - v \in EloGap
  BY <1>1, EloBoundsAssumption DEF EloGap
<1>3. q - u \in Gaps /\ r - v \in Gaps
  BY <1>2 DEF Gaps
<1>4. QED
  BY <1>3, CurveAssumption DEF ExpectedProbability

\* Equal answers keep the order of the players who give them: for any curve
\* that falls, and by less than one point in K per point of rating.
THEOREM OrderAlwaysKept == Spec => OrderIsKept
<1>1. OnGrid /\ StrongerUser /\ InRange => After(correct)' >= After(correct)
  <2> SUFFICES ASSUME OnGrid, StrongerUser, InRange
               PROVE  After(correct)' >= After(correct)
    OBVIOUS
  <2>1. PICK e \in UserElos : e > elo /\ elo' = e
    BY DEF StrongerUser
  <2>2. After(correct)' = NewElo(e, question, correct, time, skips)
    BY <2>1 DEF StrongerUser, After
  <2>3. /\ elo \in UserElos /\ question.elo \in QuestionElos /\ correct \in BOOLEAN
        /\ elo \in Int /\ question.elo \in Int
        /\ elo \in MinUserElo .. MaxUserElo
    BY GridInputs, EloBoundsAssumption DEF OnGrid, GradedQuestion
  <2>4. e \in MinUserElo .. MaxUserElo /\ e \in Int
    BY GridAssumption, EloBoundsAssumption DEF ValidElo
  <2>5. /\ question.elo - e < question.elo - elo
        /\ (question.elo - elo) - (question.elo - e) = e - elo
    BY <2>1, <2>3, <2>4
  <2>6. /\ ExpectedProbability(elo, question.elo) =< ExpectedProbability(e, question.elo)
        /\ 32 * (ExpectedProbability(e, question.elo) - ExpectedProbability(elo, question.elo))
             < Unit * (e - elo)
    BY <2>3, <2>5, ChancesFall
  <2>7. NewElo(e, question, correct, time, skips) >= NewElo(elo, question, correct, time, skips)
    BY <2>1, <2>3, <2>4, <2>6, GridInputs, StrongerStaysAhead
  <2>8. QED
    BY <2>2, <2>7 DEF After
<1>2. QED
  BY <1>1, GridInvariant, PTL DEF OrderIsKept

\* The same answer to a harder question pays at least as much.
THEOREM HarderAlwaysPaysMore == Spec => HarderPaysMore
<1>1. OnGrid /\ HarderQuestion /\ InRange => After(correct)' >= After(correct)
  <2> SUFFICES ASSUME OnGrid, HarderQuestion, InRange
               PROVE  After(correct)' >= After(correct)
    OBVIOUS
  <2>1. PICK e \in QuestionElos : e > question.elo /\ question' = [question EXCEPT !.elo = e]
    BY DEF HarderQuestion
  <2> DEFINE harder == [question EXCEPT !.elo = e]
  <2>2. After(correct)' = NewElo(elo, harder, correct, time, skips)
    BY <2>1 DEF HarderQuestion, After
  <2>3. /\ question \in [elo : QuestionElos, difficulty : Difficulties,
                         expected_time : ExpectedTimes]
        /\ elo \in UserElos /\ correct \in BOOLEAN
    BY DEF OnGrid
  <2>4. /\ harder.elo = e /\ harder.difficulty = question.difficulty
        /\ harder.expected_time = question.expected_time
    BY <2>3
  <2>5. /\ e \in MinUserElo .. MaxUserElo /\ e \in Int
        /\ question.elo \in QuestionElos
    BY <2>3, GridAssumption, EloBoundsAssumption DEF ValidElo
  <2> HIDE DEF harder
  <2>6. /\ GradedQuestion(question) /\ GradedQuestion(harder)
        /\ elo \in Int /\ question.elo \in Int
    BY <2>4, <2>5, GridInputs, EloBoundsAssumption DEF GradedQuestion
  <2>7. question.elo - elo < harder.elo - elo
    BY <2>1, <2>4, <2>5, <2>6
  <2>8. ExpectedProbability(elo, harder.elo) =< ExpectedProbability(elo, question.elo)
    BY <2>3, <2>4, <2>5, <2>7, ChancesFall
  <2>9. NewElo(elo, harder, correct, time, skips) >= NewElo(elo, question, correct, time, skips)
    BY <2>3, <2>4, <2>6, <2>8, GridInputs, HarderPaysNoLess
  <2>10. QED
    BY <2>2, <2>9 DEF After
<1>2. QED
  BY <1>1, GridInvariant, PTL DEF HarderPaysMore

\* Time: a right answer pays less the longer it takes, a wrong one costs less
\* once it is too slow to be taken for a guess.
THEOREM SlowerPaysNever == Spec => SlowerNeverPays
<1>1. OnGrid /\ SlowerAnswer /\ InRange =>
          IF correct THEN After(correct)' =< After(correct)
                     ELSE After(correct)' >= After(correct)
  <2> SUFFICES ASSUME OnGrid, SlowerAnswer, InRange
               PROVE  IF correct THEN After(correct)' =< After(correct)
                                 ELSE After(correct)' >= After(correct)
    OBVIOUS
  <2>1. PICK t \in Times : t > time /\ time' = t
    BY DEF SlowerAnswer
  <2>2. After(correct)' = NewElo(elo, question, correct, t, skips)
    BY <2>1 DEF SlowerAnswer, After
  <2>3. correct \in BOOLEAN /\ t \in Int /\ time \in Int /\ time =< t
    BY <2>1, GridInputs, GridAssumption DEF OnGrid
  <2>4. IF correct
        THEN NewElo(elo, question, correct, t, skips) =< NewElo(elo, question, correct, time, skips)
        ELSE NewElo(elo, question, correct, t, skips) >= NewElo(elo, question, correct, time, skips)
    BY <2>3, GridInputs, SlowerPaysNoMore
  <2>5. QED
    BY <2>2, <2>4 DEF After
<1>2. QED
  BY <1>1, GridInvariant, PTL DEF SlowerNeverPays

\* Reporting a longer streak of skips never pays.
THEOREM SkippingAlwaysCosts == Spec => SkippingNeverPays
<1>1. OnGrid /\ MoreSkips /\ InRange' => After(correct)' =< After(correct)
  <2> SUFFICES ASSUME OnGrid, MoreSkips, InRange'
               PROVE  After(correct)' =< After(correct)
    OBVIOUS
  <2>1. PICK s \in SkipCounts : s > skips /\ skips' = s
    BY DEF MoreSkips
  <2>2. After(correct)' = NewElo(elo, question, correct, time, s)
    BY <2>1 DEF MoreSkips, After
  <2>3. /\ correct \in BOOLEAN /\ s \in Nat /\ skips \in Nat
        /\ skips =< s /\ s =< MaxInt - 36
    BY <2>1, GridInputs, GridAssumption, EloBoundsAssumption DEF OnGrid, InRange, LongestStreak
  <2>4. NewElo(elo, question, correct, time, s) =< NewElo(elo, question, correct, time, skips)
    BY <2>3, GridInputs, SkippingPaysNoMore
  <2>5. QED
    BY <2>2, <2>4 DEF After
<1>2. QED
  BY <1>1, GridInvariant, PTL DEF SkippingNeverPays
=============================================================================
