\* Three users, three ratings, pages of one or two rows while ratings change.
SPECIFICATION Spec

CONSTANTS
    Users <- ThreeUsers
    Ratings <- ThreeRatings
    DefaultElo = 1
    MaxLimit = 2
    MaxRanks = 1
    MaxChanges = 2
    NoRating = NoRating
    NoRequest = NoRequest

INVARIANTS
    TypeOK
    PagesDescend
    OnlyRisersAreMissed
    OnlyFallersAreRepeated
    RanksAgreeWithList

PROPERTIES
    PagingEnds

CHECK_DEADLOCK FALSE
