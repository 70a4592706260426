\* The rating arithmetic over a grid of inputs.
SPECIFICATION Spec
CONSTANTS
    MinUserElo = 0
    MaxUserElo = 5000
    MinExpectedTime = 5
    MaxExpectedTime = 600
    MaxAnswerTime = 3600
    MaxInt = 100000
    WinChance <- MCWinChance
    UserElos <- MCUserElos
    QuestionElos <- MCQuestionElos
    ExpectedTimes <- MCExpectedTimes
    Times <- MCTimes
    SkipCounts <- MCSkipCounts
INVARIANTS
    RatingStaysValid
    WrongAnswerLoses
    MoveIsBounded
PROPERTIES
    OrderIsKept
    HarderPaysMore
    SlowerNeverPays
    SkippingNeverPays
\* The walk ends where every input is largest.
CHECK_DEADLOCK FALSE
