\* docs/ELO.md against concurrent submissions of one user.
SPECIFICATION Spec
CONSTANTS
    MinUserElo = 0
    MaxUserElo = 40
    MinExpectedTime = 5
    MaxExpectedTime = 600
    MaxAnswerTime = 3600
    MaxInt = 100000
    WinChance <- MCWinChance
    u1 = u1  u2 = u2  s1 = s1  s2 = s2  q1 = q1  q2 = q2  q3 = q3
    r1 = r1  r2 = r2  r3 = r3  A = A  B = B
    Users = {u1}
    Sessions = {s1}
    Questions = {q1}
    QuestionRow <- MCQuestionRow
    Requests = {r1, r2, r3}
    Bodies <- OneSession
    MaxConns = 2
    DefaultElo = 12
    NoUser = NoUser  NoBody = NoBody  NoRow = NoRow  NoGrade = NoGrade
SYMMETRY RequestSymmetry
INVARIANTS
    EveryAnswerUpdatesRating
\* Every request may be used up.
CHECK_DEADLOCK FALSE
