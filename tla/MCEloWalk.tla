----------------------------- MODULE MCEloWalk -----------------------------
\* The rating arithmetic with the code's own bounds (0..5000, times in
\* seconds) over a grid dense around the clamp limits and the default rating.
EXTENDS EloWalk, LogisticTable

MCWinChance == [gap \in -5000 .. 5000 |-> Logistic(gap)]

MCUserElos == {0, 1, 2, 24, 1000} \cup (1199 .. 1204) \cup {1600, 4970, 4990, 5000}
MCQuestionElos == {0, 10, 800, 1200, 1210, 1600, 5000}
MCExpectedTimes == {20, 60}
MCTimes == {1, 3, 4, 10, 20, 90}
\* A few skips, the longest streak that fits and the greatest int.
MCSkipCounts == {0, 1, 3, LongestStreak, MaxInt}
=============================================================================
