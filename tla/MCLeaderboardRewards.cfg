CONSTANTS
    Users = {1, 2}
    Deltas <- OnePoint
    Writers = {w1}
    NoUser = NoUser
    NoId = NoId
    MaxId = 1
    MaxTime = 2
    Finalizers = {f1}
    WeekEnd = 1
    Limit = 2
    MaxCrashes = 1
    NotFinal = NotFinal
SPECIFICATION FairSpec
CHECK_DEADLOCK FALSE
PROPERTIES
    RewardsArrive
