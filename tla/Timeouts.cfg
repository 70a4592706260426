\* docs/ELO.md against what the quiz page sends when its timer runs out.
SPECIFICATION Spec

CONSTANTS
    QuizLength = 2
    MaxQuizzes = 2
    MaxShowings = 4
    MaxSubmits = 3

INVARIANT TimeoutsAreCounted
