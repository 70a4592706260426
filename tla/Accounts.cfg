\* Three rows, two Google subjects, every order of registering and logging in.
SPECIFICATION Spec

CONSTANTS
    i1 = i1
    i2 = i2
    i3 = i3
    ann = ann
    bob = bob
    eve = eve
    bad = bad
    secret = secret
    other = other
    long = long
    s1 = s1
    s2 = s2
    own = own
    r1 = r1
    Ids <- ThreeIds
    Emails <- AllEmails
    ValidEmails <- GoodEmails
    Passwords <- AllPasswords
    Hashable <- GoodPasswords
    BcryptKey <- First72
    Subjects <- TwoSubjects
    Pictures <- AllPictures
    Requests <- OneRequest
    NoRow = NoRow
    NoSub = NoSub
    NoHash = NoHash
    NoPicture = NoPicture
    NoLogin = NoLogin

SYMMETRY Symmetry

INVARIANTS
    TypeOK
    RegisteredPasswordWorks
    TokensNameTheirAccount
    SubjectReachesOneAccount

PROPERTIES
    AccountsKeepCredentials
