CONSTANTS
    Users = {1, 2}
    Deltas <- OnePoint
    Writers = {w1, w2}
    NoUser = NoUser
    NoId = NoId
    MaxId = 2
    MaxTime = 1
    Finalizers = {f1, f2}
    WeekEnd = 1
    Limit = 1
    MaxCrashes = 1
    NotFinal = NotFinal
SPECIFICATION FairSpec
CHECK_DEADLOCK FALSE
INVARIANTS
    TypeOK
    RanksAreExact
    OneTierPerUser
PROPERTIES
    ScoresCatchUp
