---------------------------- MODULE MCQuizServer ----------------------------
\* Instances of QuizServer.  Ratings lie in 0..40 with the code's K factors,
\* so that two or three answers reach either end of the clamp.
EXTENDS QuizServer, LogisticTable, TLC

CONSTANTS u1, u2, s1, s2, q1, q2, q3, r1, r2, r3, A, B

MCWinChance == [gap \in -40 .. 40 |-> Logistic(gap)]

MCQuestionRow ==
    q1 :> [elo |-> 12, difficulty |-> "hard", expected_time |-> 20, correct_answers |-> {A}]
 @@ q2 :> [elo |-> 30, difficulty |-> "easy", expected_time |-> 20, correct_answers |-> {A, B}]
 @@ q3 :> [elo |-> 12, difficulty |-> "medium", expected_time |-> 1, correct_answers |-> {B}]

Body(s, q, selected, time, skips) ==
    [session |-> s, question |-> q, selected |-> selected, time |-> time, skips |-> skips]

\* Right and fast; wrong and so fast that it counts as a guess.
Right == Body(s1, q1, {A}, 1, 0)
Guess == Body(s1, q1, {B}, 2, 0)
\* From the second session: a part of the key, after two skips.
PartOfKey == Body(s2, q2, {A}, 20, 2)
\* A row inserted by hand with an expected time that grading refuses.
TooShort == Body(s2, q3, {B}, 20, 0)
\* What a client posts when the timer ran out.
NothingSelected == Body(s1, q1, {}, 20, 0)

OneBody     == {Guess}
OneSession  == {Right, Guess}
TwoSessions == {Right, Guess, PartOfKey, TooShort, NothingSelected}

RequestSymmetry == Permutations(Requests)
=============================================================================
