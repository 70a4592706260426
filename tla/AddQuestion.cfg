\* docs/API.md against POST /admin/questions.
SPECIFICATION Spec

CONSTANTS
    x = x
    xPadded = xPadded
    y = y
    z = z
    root = root
    guest = guest
    Ids <- ThreeIds
    ValidSubjects = {"", "dsa", "os"}
    OtherSubjects = {"dsa;"}
    Options <- Texts
    Trim <- Spaces
    Seeds <- SeedRows
    Bodies <- WrittenQuestions
    Emails <- TwoEmails
    AdminEmails <- Administrators
    Normal <- Spelling
    MinUserElo = 0
    MaxUserElo = 2
    MinDelta = 1
    MaxDelta = 2
    BandLimit = 1
    NoQuestion = NoQuestion
    NoRequest = NoRequest

INVARIANT CompleteQuestionIsAccepted
