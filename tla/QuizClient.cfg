\* The quiz page: two quizzes of two questions, replies in any order.
SPECIFICATION Spec

CONSTANTS
    QuizLength = 2
    MaxQuizzes = 2
    MaxShowings = 4
    MaxSubmits = 4

INVARIANTS
    TypeOK
    TalliesAreOfTheirQuiz
    AnsweredOncePerUnlock
    OnlyDoubleStartsStrand

CHECK_DEADLOCK FALSE
