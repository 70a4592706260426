-------------------------- MODULE EloEngineProofs --------------------------
(***************************************************************************)
(* Facts about the rating arithmetic for every choice of the bounds and of *)
(* the expected probability.                                               *)
(***************************************************************************)
EXTENDS EloEngine, TLAPS

\* ClampElo (utils/validation.go:95-103) lands between the bounds.
LEMMA ClampEloInRange ==
    ASSUME NEW x \in Int
    PROVE  ClampElo(x) \in MinUserElo .. MaxUserElo
BY EloBoundsAssumption DEF ClampElo

\* ClampElo keeps the order of its arguments.
LEMMA ClampEloMonotone ==
    ASSUME NEW x \in Int, NEW y \in Int, x =< y
    PROVE  ClampElo(x) =< ClampElo(y)
BY EloBoundsAssumption DEF ClampElo

\* Rounding gives an integer, and one within half a unit of its argument.
LEMMA RoundIsInt ==
    ASSUME NEW x \in Int
    PROVE  /\ Round(x) \in Int
           /\ x =< Unit * Round(x) + 500
           /\ Unit * Round(x) =< x + 500
BY DEF Round, Unit

\* A time score is a fraction of one.
LEMMA TimeScoreInUnit ==
    ASSUME NEW t \in Int, NEW e \in Int
    PROVE  TimeScore(t, e) \in 0 .. Unit
<1>1. CASE e =< 0
  BY <1>1 DEF TimeScore, Unit
<1>2. CASE e > 0
  <2>1. (Unit * t) \div e \in Int
    BY <1>2 DEF Unit
  <2>2. QED
    BY <1>2, <2>1 DEF TimeScore, ClampUnit, Unit
<1>3. QED
  BY <1>1, <1>2

\* A wrong answer performs 0; a right one performs at least a half.
LEMMA PerformanceInUnit ==
    ASSUME NEW s \in 0 .. Unit, NEW c \in BOOLEAN
    PROVE  /\ PerformanceScore(s, c) \in 0 .. Unit
           /\ ~c => PerformanceScore(s, c) = 0
           /\ c => PerformanceScore(s, c) >= 500
BY DEF PerformanceScore, Unit
\* A question as the handler has checked it before grading (quiz.go:134-145).
GradedQuestion(q) ==
    /\ q.elo \in MinUserElo .. MaxUserElo
    /\ q.difficulty \in Difficulties
    /\ q.expected_time \in Int

LEMMA KFactorValues ==
    ASSUME NEW d \in Difficulties
    PROVE  KFactor(d) \in {16, 24, 32}
BY DEF KFactor, Difficulties

LEMMA ExpectedProbabilityInUnit ==
    ASSUME NEW u \in MinUserElo .. MaxUserElo, NEW q \in MinUserElo .. MaxUserElo
    PROVE  ExpectedProbability(u, q) \in 0 .. Unit
<1>1. q - u \in EloGap
  BY EloBoundsAssumption DEF EloGap
<1>2. QED
  BY <1>1, WinChanceAssumption DEF ExpectedProbability

\* The delta of CalculateNewElo is at most K away from zero, and negative when
\* the performance is 0: the two lines at elo.go:56-59 at work.
LEMMA EloDeltaBounds ==
    ASSUME NEW u \in MinUserElo .. MaxUserElo, NEW q \in MinUserElo .. MaxUserElo,
           NEW d \in Difficulties, NEW p \in 0 .. Unit
    PROVE  /\ EloDelta(u, q, d, p) \in Int
           /\ EloDelta(u, q, d, p) =< KFactor(d)
           /\ EloDelta(u, q, d, p) >= -KFactor(d)
           /\ p = 0 => EloDelta(u, q, d, p) < 0
<1> DEFINE k == KFactor(d)
           e == ExpectedProbability(u, q)
           change == Round(k * (p - e))
<1>1. k \in {16, 24, 32}
  BY KFactorValues
<1>2. e \in 0 .. Unit
  BY ExpectedProbabilityInUnit
<1>3. /\ k * (p - e) \in Int
      /\ k * (p - e) =< Unit * k
      /\ k * (p - e) >= -(Unit * k)
  <2> HIDE DEF k, e
  <2>1. p - e \in Int /\ p - e =< Unit /\ p - e >= -Unit
    BY <1>2 DEF Unit
  <2>2. QED
    BY <1>1, <2>1 DEF Unit
<1>4. change \in Int /\ change =< k /\ change >= -k
  <2> HIDE DEF k, e
  <2>1. change \in Int /\ k * (p - e) =< Unit * change + 500
                       /\ Unit * change =< k * (p - e) + 500
    BY <1>3, RoundIsInt
  <2>2. QED
    BY <1>1, <1>3, <2>1 DEF Unit
<1>5. EloDelta(u, q, d, p) = IF p = 0 /\ change >= 0 THEN -1 ELSE change
  BY DEF EloDelta
<1> HIDE DEF k, e, change
<1>6. QED
  <2>1. /\ EloDelta(u, q, d, p) \in Int
        /\ EloDelta(u, q, d, p) =< k
        /\ EloDelta(u, q, d, p) >= -k
        /\ p = 0 => EloDelta(u, q, d, p) < 0
    BY <1>1, <1>4, <1>5
  <2>2. QED
    BY <2>1 DEF k

\* A value of type int is what it is.
LEMMA WrapInRange ==
    ASSUME NEW n \in Int, -MaxInt - 1 =< n, n =< MaxInt
    PROVE  Wrap(n) = n
BY EloBoundsAssumption DEF Wrap

LEMMA WrapIsInt ==
    ASSUME NEW n \in Int
    PROVE  Wrap(n) \in Int
BY EloBoundsAssumption DEF Wrap

\* The penalties only ever subtract, and at most 4 points and the skips, as
\* long as the difference fits in an int.
LEMMA PenaltyBounds ==
    ASSUME NEW d \in Int, NEW c \in BOOLEAN, NEW t \in Int, NEW e \in Int, NEW s \in Nat
    PROVE  /\ ApplyAntiGuessingPenalty(d, c, t, e, s) \in Int
           /\ d >= -32 /\ d =< 32 /\ s =< MaxInt - 36 =>
                /\ ApplyAntiGuessingPenalty(d, c, t, e, s) =< d
                /\ ApplyAntiGuessingPenalty(d, c, t, e, s) >= d - 4 - s
                /\ c => ApplyAntiGuessingPenalty(d, c, t, e, s) >= d - s
<1> DEFINE guessed == d - (IF FastGuess(c, t, e) THEN 4 ELSE 0)
           after   == ApplyAntiGuessingPenalty(d, c, t, e, s)
<1>1. /\ guessed \in Int /\ guessed =< d /\ guessed >= d - 4
      /\ c => guessed = d
  BY DEF FastGuess
<1>2. after = IF s >= 2 THEN Wrap(guessed - s) ELSE guessed
  BY DEF ApplyAntiGuessingPenalty
<1> HIDE DEF guessed, after
<1>3. after \in Int
  BY <1>1, <1>2, WrapIsInt
<1>4. ASSUME d >= -32, d =< 32, s =< MaxInt - 36
      PROVE  after = guessed \/ after = guessed - s
  BY <1>1, <1>2, <1>4, WrapInRange, EloBoundsAssumption
<1>5. QED
  BY <1>1, <1>3, <1>4 DEF after

\* The new rating is within the bounds whatever the streak; for one that fits,
\* it moves by at most K and the penalties, and a wrong answer lowers it unless
\* it is the lowest already.
LEMMA NewEloFacts ==
    ASSUME NEW u \in MinUserElo .. MaxUserElo, NEW q, GradedQuestion(q),
           NEW c \in BOOLEAN, NEW t \in Int, NEW s \in Nat
    PROVE  /\ NewElo(u, q, c, t, s) \in MinUserElo .. MaxUserElo
           /\ s =< MaxInt - 36 =>
                /\ NewElo(u, q, c, t, s) - u =< KFactor(q.difficulty)
                /\ NewElo(u, q, c, t, s) - u
                     >= -KFactor(q.difficulty) - (IF c THEN 0 ELSE 4) - s
                /\ ~c => NewElo(u, q, c, t, s) < u \/ NewElo(u, q, c, t, s) = MinUserElo
<1> DEFINE e == q.expected_time
           d == q.difficulty
           p == PerformanceScore(TimeScore(t, e), c)
           delta == EloDelta(u, q.elo, d, p)
           change == ApplyAntiGuessingPenalty(delta, c, t, e, s)
<1>1. e \in Int /\ d \in Difficulties /\ q.elo \in MinUserElo .. MaxUserElo
  BY DEF GradedQuestion
<1>2. p \in 0 .. Unit /\ (~c => p = 0)
  <2>1. TimeScore(t, e) \in 0 .. Unit
    BY <1>1, TimeScoreInUnit
  <2>2. QED
    BY <2>1, PerformanceInUnit
<1>3. delta \in Int /\ delta =< KFactor(d) /\ delta >= -KFactor(d) /\ (~c => delta < 0)
  <2> HIDE DEF d, p
  <2>1. QED
    BY <1>1, <1>2, EloDeltaBounds
<1>4. KFactor(d) \in {16, 24, 32}
  BY <1>1, KFactorValues
<1>5. change \in Int
  <2> HIDE DEF e, delta
  <2>1. QED
    BY <1>1, <1>3, PenaltyBounds
<1>6. NewElo(u, q, c, t, s) = ClampElo(Wrap(u + change))
  BY DEF NewElo
<1>7. u \in Int /\ u + change \in Int
  BY <1>5, EloBoundsAssumption
<1>8. NewElo(u, q, c, t, s) \in MinUserElo .. MaxUserElo
  <2> HIDE DEF change
  <2>1. QED
    BY <1>6, <1>7, WrapIsInt, ClampEloInRange
<1>9. ASSUME s =< MaxInt - 36
      PROVE  /\ NewElo(u, q, c, t, s) - u =< KFactor(d)
             /\ NewElo(u, q, c, t, s) - u >= -KFactor(d) - (IF c THEN 0 ELSE 4) - s
             /\ ~c => NewElo(u, q, c, t, s) < u \/ NewElo(u, q, c, t, s) = MinUserElo
  <2>1. /\ change =< delta /\ change >= delta - 4 - s
        /\ c => change >= delta - s
    <3> HIDE DEF e, delta, d
    <3>1. QED
      BY <1>1, <1>3, <1>4, <1>9, PenaltyBounds
  <2> HIDE DEF delta, change, d
  <2>2. NewElo(u, q, c, t, s) = ClampElo(u + change)
    <3>1. -MaxInt - 1 =< u + change /\ u + change =< MaxInt
      BY <1>3, <1>4, <1>5, <1>7, <1>9, <2>1, EloBoundsAssumption
    <3>2. Wrap(u + change) = u + change
      BY <3>1, <1>7, WrapInRange
    <3>3. QED
      BY <3>2, <1>6
  <2> DEFINE new == NewElo(u, q, c, t, s)
             k == KFactor(d)
  <2>3. new = IF u + change < MinUserElo THEN MinUserElo
              ELSE IF u + change > MaxUserElo THEN MaxUserElo ELSE u + change
    BY <2>2 DEF ClampElo
  <2>4. /\ change \in Int /\ change =< k /\ change >= -k - 4 - s
        /\ c => change >= -k - s
        /\ ~c => change < 0
        /\ k \in {16, 24, 32}
    BY <1>3, <1>4, <1>5, <2>1
  <2> HIDE DEF new, k
  <2>5. new - u =< k
    BY <1>7, <2>3, <2>4, EloBoundsAssumption
  <2>6. new - u >= -k - (IF c THEN 0 ELSE 4) - s
    BY <1>7, <2>3, <2>4, EloBoundsAssumption
  <2>7. ~c => new < u \/ new = MinUserElo
    BY <1>7, <2>3, <2>4, EloBoundsAssumption
  <2>8. QED
    BY <2>5, <2>6, <2>7 DEF new, k
<1>10. QED
  BY <1>8, <1>9 DEF d
-----------------------------------------------------------------------------
(* How the arithmetic orders two answers *)

LEMMA RoundMonotone ==
    ASSUME NEW x \in Int, NEW y \in Int, x =< y
    PROVE  Round(x) =< Round(y)
BY DEF Round, Unit

\* Halves are rounded away from zero, so that rounding moves by n at most when
\* its argument falls by less than n, but not when it falls by n.
LEMMA RoundShift ==
    ASSUME NEW x \in Int, NEW y \in Int, NEW n \in Int, x - Unit * n < y
    PROVE  Round(x) - n =< Round(y)
BY DEF Round, Unit

LEMMA DivMonotone ==
    ASSUME NEW a \in Int, NEW b \in Int, a =< b, NEW e \in Int, e > 0
    PROVE  a \div e =< b \div e
<1> DEFINE x == a \div e
           y == b \div e
<1>1. x \in Int /\ y \in Int
  BY Z3
<1>2. a >= e * x /\ b < e * (y + 1)
  BY Z3
<1> HIDE DEF x, y
<1>3. ~ (x >= y + 1)
  <2> SUFFICES ASSUME x >= y + 1
               PROVE  FALSE
    OBVIOUS
  <2>1. e * x >= e * (y + 1)
    BY <1>1, Z3
  <2>2. e * x \in Int /\ e * (y + 1) \in Int
    BY <1>1
  <2>3. QED
    BY <1>2, <2>1, <2>2
<1>4. QED
  BY <1>1, <1>3 DEF x, y

\* Taking longer never improves the time score.
LEMMA TimeScoreFalls ==
    ASSUME NEW t \in Int, NEW u \in Int, t =< u, NEW e \in Int
    PROVE  TimeScore(u, e) =< TimeScore(t, e)
<1>1. CASE e =< 0
  BY <1>1 DEF TimeScore
<1>2. CASE e > 0
  <2> DEFINE x == (Unit * t) \div e
             y == (Unit * u) \div e
  <2>1. x \in Int /\ y \in Int /\ x =< y
    <3>1. Unit * t \in Int /\ Unit * u \in Int /\ Unit * t =< Unit * u
      BY DEF Unit
    <3>2. QED
      BY <1>2, <3>1, DivMonotone
  <2>2. TimeScore(t, e) = ClampUnit(Unit - x) /\ TimeScore(u, e) = ClampUnit(Unit - y)
    BY <1>2 DEF TimeScore
  <2> HIDE DEF x, y
  <2>3. QED
    BY <2>1, <2>2 DEF ClampUnit, Unit
<1>3. QED
  BY <1>1, <1>2

LEMMA PerformanceFollowsScore ==
    ASSUME NEW a \in 0 .. Unit, NEW b \in 0 .. Unit, a =< b, NEW c \in BOOLEAN
    PROVE  PerformanceScore(a, c) =< PerformanceScore(b, c)
BY DEF PerformanceScore, Unit

\* The change before the penalties, as a function of the three numbers it is
\* made of.
Change(k, p, w) ==
    IF p = 0 /\ Round(k * (p - w)) >= 0 THEN -1 ELSE Round(k * (p - w))

LEMMA DeltaIsChange ==
    ASSUME NEW u, NEW q, NEW d, NEW p
    PROVE  EloDelta(u, q, d, p) = Change(KFactor(d), p, ExpectedProbability(u, q))
BY DEF EloDelta, Change

\* A better performance and a harder question never pay less; the rule that a
\* wrong answer costs at least a point does not disturb that.
LEMMA ChangeMonotone ==
    ASSUME NEW k \in {16, 24, 32},
           NEW p \in 0 .. Unit, NEW r \in 0 .. Unit, p =< r,
           NEW v \in 0 .. Unit, NEW w \in 0 .. Unit, v =< w
    PROVE  Change(k, p, w) =< Change(k, r, v)
<1> DEFINE x == k * (p - w)
           y == k * (r - v)
<1>1. x \in Int /\ y \in Int /\ x =< y
  BY DEF Unit
<1>2. Change(k, p, w) = IF p = 0 /\ Round(x) >= 0 THEN -1 ELSE Round(x)
  BY DEF Change
<1>3. Change(k, r, v) = IF r = 0 /\ Round(y) >= 0 THEN -1 ELSE Round(y)
  BY DEF Change
<1> HIDE DEF x, y
<1>4. Round(x) \in Int /\ Round(y) \in Int /\ Round(x) =< Round(y)
  BY <1>1, RoundIsInt, RoundMonotone
<1>5. p \in Int /\ r \in Int /\ p >= 0
  BY DEF Unit
<1>6. QED
  BY <1>2, <1>3, <1>4, <1>5

\* A user's rating grows by n: the change falls by n at most.
LEMMA ChangeShift ==
    ASSUME NEW k \in {16, 24, 32}, NEW p \in 0 .. Unit,
           NEW v \in 0 .. Unit, NEW w \in 0 .. Unit, v =< w,
           NEW n \in Nat \ {0}, 32 * (w - v) < Unit * n
    PROVE  Change(k, p, v) - n =< Change(k, p, w)
<1> DEFINE x == k * (p - v)
           y == k * (p - w)
<1>1. x \in Int /\ y \in Int /\ x - Unit * n < y
  BY DEF Unit
<1>2. Change(k, p, v) = IF p = 0 /\ Round(x) >= 0 THEN -1 ELSE Round(x)
  BY DEF Change
<1>3. Change(k, p, w) = IF p = 0 /\ Round(y) >= 0 THEN -1 ELSE Round(y)
  BY DEF Change
<1> HIDE DEF x, y
<1>4. Round(x) \in Int /\ Round(y) \in Int /\ Round(x) - n =< Round(y)
  BY <1>1, RoundIsInt, RoundShift
<1>5. QED
  BY <1>2, <1>3, <1>4

\* What the penalties take away.
Penalty(c, t, e, s) ==
    (IF FastGuess(c, t, e) THEN 4 ELSE 0) + (IF s >= 2 THEN s ELSE 0)

LEMMA PenaltyIsSubtracted ==
    ASSUME NEW d \in -32 .. 32, NEW c \in BOOLEAN, NEW t \in Int, NEW e \in Int,
           NEW s \in Nat, s =< MaxInt - 36
    PROVE  /\ ApplyAntiGuessingPenalty(d, c, t, e, s) = d - Penalty(c, t, e, s)
           /\ Penalty(c, t, e, s) \in 0 .. (4 + s)
<1> DEFINE guessed == d - (IF FastGuess(c, t, e) THEN 4 ELSE 0)
<1>1. guessed \in Int /\ guessed =< 32 /\ guessed >= -36
  OBVIOUS
<1>2. ApplyAntiGuessingPenalty(d, c, t, e, s)
        = IF s >= 2 THEN Wrap(guessed - s) ELSE guessed
  BY DEF ApplyAntiGuessingPenalty
<1>3. Penalty(c, t, e, s) = (d - guessed) + (IF s >= 2 THEN s ELSE 0)
  BY DEF Penalty
<1>4. Penalty(c, t, e, s) \in 0 .. (4 + s)
  BY DEF Penalty
<1> HIDE DEF guessed
<1>5. Wrap(guessed - s) = guessed - s
  BY <1>1, WrapInRange, EloBoundsAssumption
<1>6. QED
  BY <1>1, <1>2, <1>3, <1>4, <1>5

\* What an answer is worth before the penalties.
Points(u, q, c, t) ==
    Change(KFactor(q.difficulty), PerformanceScore(TimeScore(t, q.expected_time), c),
           ExpectedProbability(u, q.elo))

\* Grading without an overflow: one sum, clamped.
LEMMA NewEloIsClamped ==
    ASSUME NEW u \in MinUserElo .. MaxUserElo, NEW q, GradedQuestion(q),
           NEW c \in BOOLEAN, NEW t \in Int, NEW s \in Nat, s =< MaxInt - 36
    PROVE  /\ Points(u, q, c, t) \in -32 .. 32
           /\ Penalty(c, t, q.expected_time, s) \in 0 .. (4 + s)
           /\ NewElo(u, q, c, t, s)
                = ClampElo(u + Points(u, q, c, t) - Penalty(c, t, q.expected_time, s))
<1> DEFINE e == q.expected_time
           d == q.difficulty
           p == PerformanceScore(TimeScore(t, e), c)
           delta == EloDelta(u, q.elo, d, p)
           taken == Penalty(c, t, e, s)
<1>1. e \in Int /\ d \in Difficulties /\ q.elo \in MinUserElo .. MaxUserElo
  BY DEF GradedQuestion
<1>2. p \in 0 .. Unit
  BY <1>1, TimeScoreInUnit, PerformanceInUnit
<1>3. delta \in -32 .. 32
  <2> HIDE DEF d, p
  <2>1. delta \in Int /\ delta =< KFactor(d) /\ delta >= -KFactor(d)
    BY <1>1, <1>2, EloDeltaBounds
  <2>2. QED
    BY <1>1, <2>1, KFactorValues
<1>4. delta = Points(u, q, c, t)
  BY DeltaIsChange DEF Points
<1>5. /\ ApplyAntiGuessingPenalty(delta, c, t, e, s) = delta - taken
      /\ taken \in 0 .. (4 + s)
  <2> HIDE DEF delta, e
  <2>1. QED
    BY <1>1, <1>3, PenaltyIsSubtracted
<1>6. NewElo(u, q, c, t, s)
        = ClampElo(Wrap(u + ApplyAntiGuessingPenalty(delta, c, t, e, s)))
  BY DEF NewElo
<1>7. Wrap(u + (delta - taken)) = u + delta - taken
  <2> HIDE DEF delta, taken
  <2>1. /\ u + (delta - taken) \in Int
        /\ -MaxInt - 1 =< u + (delta - taken)
        /\ u + (delta - taken) =< MaxInt
        /\ u + (delta - taken) = u + delta - taken
    BY <1>3, <1>5, EloBoundsAssumption
  <2>2. QED
    BY <2>1, WrapInRange
<1>8. QED
  BY <1>3, <1>4, <1>5, <1>6, <1>7

\* The numbers an answer is worth are made of.
LEMMA AnswerNumbers ==
    ASSUME NEW u \in MinUserElo .. MaxUserElo, NEW q, GradedQuestion(q),
           NEW c \in BOOLEAN, NEW t \in Int
    PROVE  /\ u \in Int /\ q.expected_time \in Int
           /\ KFactor(q.difficulty) \in {16, 24, 32}
           /\ ExpectedProbability(u, q.elo) \in 0 .. Unit
           /\ TimeScore(t, q.expected_time) \in 0 .. Unit
           /\ PerformanceScore(TimeScore(t, q.expected_time), c) \in 0 .. Unit
<1>1. q.expected_time \in Int /\ q.difficulty \in Difficulties
      /\ q.elo \in MinUserElo .. MaxUserElo
  BY DEF GradedQuestion
<1>2. u \in Int
  BY EloBoundsAssumption
<1>3. TimeScore(t, q.expected_time) \in 0 .. Unit
  BY <1>1, TimeScoreInUnit
<1>4. QED
  BY <1>1, <1>2, <1>3, KFactorValues, ExpectedProbabilityInUnit, PerformanceInUnit

LEMMA ClampedSums ==
    ASSUME NEW x \in Int, NEW y \in Int, x =< y,
           NEW a, a = ClampElo(x), NEW b, b = ClampElo(y)
    PROVE  a =< b /\ b >= a
<1>1. ClampElo(x) \in Int /\ ClampElo(y) \in Int /\ ClampElo(x) =< ClampElo(y)
  BY ClampEloMonotone, ClampEloInRange, EloBoundsAssumption
<1>2. QED
  BY <1>1

\* A stronger user is not overtaken, if the curve falls by less than 1/32 of
\* the difference between the two.
LEMMA StrongerStaysAhead ==
    ASSUME NEW u \in MinUserElo .. MaxUserElo, NEW v \in MinUserElo .. MaxUserElo, u < v,
           NEW q, GradedQuestion(q),
           NEW c \in BOOLEAN, NEW t \in Int, NEW s \in Nat, s =< MaxInt - 36,
           ExpectedProbability(u, q.elo) =< ExpectedProbability(v, q.elo),
           32 * (ExpectedProbability(v, q.elo) - ExpectedProbability(u, q.elo))
              < Unit * (v - u)
    PROVE  NewElo(v, q, c, t, s) >= NewElo(u, q, c, t, s)
<1> DEFINE pen == Penalty(c, t, q.expected_time, s)
           n == v - u
<1>1. u \in Int /\ v \in Int /\ n \in Nat \ {0}
  BY EloBoundsAssumption
<1>2. Points(u, q, c, t) - n =< Points(v, q, c, t)
  <2> HIDE DEF n
  <2>1. QED
    BY <1>1, AnswerNumbers, ChangeShift DEF Points, n
<1>3. /\ Points(u, q, c, t) \in Int /\ Points(v, q, c, t) \in Int /\ pen \in Int
      /\ NewElo(u, q, c, t, s) = ClampElo(u + Points(u, q, c, t) - pen)
      /\ NewElo(v, q, c, t, s) = ClampElo(v + Points(v, q, c, t) - pen)
  <2>1. /\ Points(u, q, c, t) \in -32 .. 32 /\ pen \in 0 .. (4 + s)
        /\ NewElo(u, q, c, t, s) = ClampElo(u + Points(u, q, c, t) - pen)
    BY NewEloIsClamped
  <2>2. /\ Points(v, q, c, t) \in -32 .. 32
        /\ NewElo(v, q, c, t, s) = ClampElo(v + Points(v, q, c, t) - pen)
    BY NewEloIsClamped
  <2> HIDE DEF pen
  <2>3. QED
    BY <2>1, <2>2
<1> HIDE DEF pen
<1>4. /\ u + Points(u, q, c, t) - pen \in Int /\ v + Points(v, q, c, t) - pen \in Int
      /\ u + Points(u, q, c, t) - pen =< v + Points(v, q, c, t) - pen
  BY <1>1, <1>2, <1>3
<1>5. QED
  BY <1>3, <1>4, ClampedSums

\* An answer less likely to be right pays no less.
LEMMA HarderPaysNoLess ==
    ASSUME NEW u \in MinUserElo .. MaxUserElo,
           NEW q, GradedQuestion(q), NEW r, GradedQuestion(r),
           r.difficulty = q.difficulty, r.expected_time = q.expected_time,
           NEW c \in BOOLEAN, NEW t \in Int, NEW s \in Nat, s =< MaxInt - 36,
           ExpectedProbability(u, r.elo) =< ExpectedProbability(u, q.elo)
    PROVE  NewElo(u, r, c, t, s) >= NewElo(u, q, c, t, s)
<1> DEFINE pen == Penalty(c, t, q.expected_time, s)
<1>1. Points(u, q, c, t) =< Points(u, r, c, t)
  <2> DEFINE p == PerformanceScore(TimeScore(t, q.expected_time), c)
  <2>1. /\ p \in 0 .. Unit /\ p =< p
        /\ KFactor(q.difficulty) \in {16, 24, 32}
        /\ ExpectedProbability(u, r.elo) \in 0 .. Unit
        /\ ExpectedProbability(u, q.elo) \in 0 .. Unit
    <3>1. p \in 0 .. Unit /\ KFactor(q.difficulty) \in {16, 24, 32}
      BY AnswerNumbers
    <3>2. q.elo \in MinUserElo .. MaxUserElo /\ r.elo \in MinUserElo .. MaxUserElo
      BY DEF GradedQuestion
    <3> HIDE DEF p
    <3>3. p =< p
      BY <3>1 DEF Unit
    <3>4. QED
      BY <3>1, <3>2, <3>3, ExpectedProbabilityInUnit
  <2> HIDE DEF p
  <2>2. QED
    BY <2>1, ChangeMonotone DEF Points, p
<1>2. /\ Points(u, q, c, t) \in Int /\ Points(u, r, c, t) \in Int /\ pen \in Int
      /\ NewElo(u, q, c, t, s) = ClampElo(u + Points(u, q, c, t) - pen)
      /\ NewElo(u, r, c, t, s) = ClampElo(u + Points(u, r, c, t) - pen)
  <2>1. /\ Points(u, q, c, t) \in -32 .. 32 /\ pen \in 0 .. (4 + s)
        /\ NewElo(u, q, c, t, s) = ClampElo(u + Points(u, q, c, t) - pen)
    BY NewEloIsClamped
  <2>2. /\ Points(u, r, c, t) \in -32 .. 32
        /\ NewElo(u, r, c, t, s) = ClampElo(u + Points(u, r, c, t) - pen)
    BY NewEloIsClamped
  <2> HIDE DEF pen
  <2>3. QED
    BY <2>1, <2>2
<1>3. u \in Int
  BY EloBoundsAssumption
<1> HIDE DEF pen
<1>4. /\ u + Points(u, q, c, t) - pen \in Int /\ u + Points(u, r, c, t) - pen \in Int
      /\ u + Points(u, q, c, t) - pen =< u + Points(u, r, c, t) - pen
  BY <1>1, <1>2, <1>3
<1>5. QED
  BY <1>2, <1>4, ClampedSums

\* A slower right answer pays no more; a slower wrong one costs no more.
LEMMA SlowerPaysNoMore ==
    ASSUME NEW u \in MinUserElo .. MaxUserElo, NEW q, GradedQuestion(q),
           NEW c \in BOOLEAN, NEW t \in Int, NEW z \in Int, t =< z,
           NEW s \in Nat, s =< MaxInt - 36
    PROVE  IF c THEN NewElo(u, q, c, z, s) =< NewElo(u, q, c, t, s)
                ELSE NewElo(u, q, c, z, s) >= NewElo(u, q, c, t, s)
<1> DEFINE e == q.expected_time
           x == u + Points(u, q, c, t) - Penalty(c, t, e, s)
           y == u + Points(u, q, c, z) - Penalty(c, z, e, s)
<1>1. /\ Points(u, q, c, t) \in Int /\ Points(u, q, c, z) \in Int
      /\ Penalty(c, t, e, s) \in Int /\ Penalty(c, z, e, s) \in Int
      /\ NewElo(u, q, c, t, s) = ClampElo(x)
      /\ NewElo(u, q, c, z, s) = ClampElo(y)
  <2>1. /\ Points(u, q, c, t) \in -32 .. 32 /\ Penalty(c, t, e, s) \in 0 .. (4 + s)
        /\ NewElo(u, q, c, t, s) = ClampElo(x)
    BY NewEloIsClamped
  <2>2. /\ Points(u, q, c, z) \in -32 .. 32 /\ Penalty(c, z, e, s) \in 0 .. (4 + s)
        /\ NewElo(u, q, c, z, s) = ClampElo(y)
    BY NewEloIsClamped
  <2> HIDE DEF e, x, y
  <2>3. QED
    BY <2>1, <2>2
<1>2. u \in Int /\ e \in Int
  BY AnswerNumbers
<1>3. CASE c
  <2>1. Points(u, q, c, z) =< Points(u, q, c, t)
    <3> DEFINE a == TimeScore(t, e)
               b == TimeScore(z, e)
               w == ExpectedProbability(u, q.elo)
    <3>1. a \in 0 .. Unit /\ b \in 0 .. Unit /\ b =< a
      BY <1>2, TimeScoreInUnit, TimeScoreFalls
    <3>2. w \in 0 .. Unit /\ KFactor(q.difficulty) \in {16, 24, 32}
      BY AnswerNumbers
    <3> HIDE DEF a, b, w
    <3>4. w =< w
      BY <3>2 DEF Unit
    <3>3. /\ PerformanceScore(a, c) \in 0 .. Unit /\ PerformanceScore(b, c) \in 0 .. Unit
          /\ PerformanceScore(b, c) =< PerformanceScore(a, c)
      BY <3>1, PerformanceInUnit, PerformanceFollowsScore
    <3>5. QED
      BY <3>2, <3>3, <3>4, ChangeMonotone DEF Points, a, b, w
  <2>2. Penalty(c, z, e, s) = Penalty(c, t, e, s)
    BY <1>3 DEF Penalty, FastGuess
  <2> HIDE DEF e
  <2>3. x \in Int /\ y \in Int /\ y =< x
    BY <1>1, <1>2, <2>1, <2>2
  <2> HIDE DEF x, y
  <2>4. QED
    BY <1>1, <1>3, <2>3, ClampedSums
<1>4. CASE ~ c
  <2>1. Points(u, q, c, z) = Points(u, q, c, t)
    BY <1>4 DEF Points, PerformanceScore
  <2>2. Penalty(c, z, e, s) =< Penalty(c, t, e, s)
    <3> HIDE DEF e
    <3>1. QED
      BY <1>2, <1>4 DEF Penalty, FastGuess
  <2> HIDE DEF e
  <2>3. x \in Int /\ y \in Int /\ x =< y
    BY <1>1, <1>2, <2>1, <2>2
  <2> HIDE DEF x, y
  <2>4. QED
    BY <1>1, <1>4, <2>3, ClampedSums
<1>5. QED
  BY <1>3, <1>4

\* A longer streak of skips pays no more.
LEMMA SkippingPaysNoMore ==
    ASSUME NEW u \in MinUserElo .. MaxUserElo, NEW q, GradedQuestion(q),
           NEW c \in BOOLEAN, NEW t \in Int,
           NEW s \in Nat, NEW z \in Nat, s =< z, z =< MaxInt - 36
    PROVE  NewElo(u, q, c, t, z) =< NewElo(u, q, c, t, s)
<1> DEFINE e == q.expected_time
           w == Points(u, q, c, t)
<1>1. s =< MaxInt - 36
  BY EloBoundsAssumption
<1>2. /\ w \in Int /\ Penalty(c, t, e, s) \in Int /\ Penalty(c, t, e, z) \in Int
      /\ NewElo(u, q, c, t, s) = ClampElo(u + w - Penalty(c, t, e, s))
      /\ NewElo(u, q, c, t, z) = ClampElo(u + w - Penalty(c, t, e, z))
  <2>1. /\ w \in -32 .. 32 /\ Penalty(c, t, e, s) \in 0 .. (4 + s)
        /\ NewElo(u, q, c, t, s) = ClampElo(u + w - Penalty(c, t, e, s))
    BY <1>1, NewEloIsClamped
  <2>2. /\ Penalty(c, t, e, z) \in 0 .. (4 + z)
        /\ NewElo(u, q, c, t, z) = ClampElo(u + w - Penalty(c, t, e, z))
    BY NewEloIsClamped
  <2> HIDE DEF e, w
  <2>3. QED
    BY <2>1, <2>2
<1>3. Penalty(c, t, e, s) =< Penalty(c, t, e, z)
  <2> DEFINE guess == IF FastGuess(c, t, e) THEN 4 ELSE 0
  <2>1. guess \in Int
    OBVIOUS
  <2>2. /\ Penalty(c, t, e, s) = guess + (IF s >= 2 THEN s ELSE 0)
        /\ Penalty(c, t, e, z) = guess + (IF z >= 2 THEN z ELSE 0)
    BY DEF Penalty
  <2> HIDE DEF guess
  <2>3. QED
    BY <2>1, <2>2
<1>4. u \in Int
  BY EloBoundsAssumption
<1> HIDE DEF w
<1>5. /\ u + w - Penalty(c, t, e, s) \in Int /\ u + w - Penalty(c, t, e, z) \in Int
      /\ u + w - Penalty(c, t, e, z) =< u + w - Penalty(c, t, e, s)
  BY <1>2, <1>3, <1>4
<1>6. QED
  BY <1>2, <1>5, ClampedSums
=============================================================================
