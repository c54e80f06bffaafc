CONSTANTS
    MaxId = 3
    Users = {1}
    User = 1
    NoUser = NoUser
    Deltas <- GainAndLoss
    MinXp <- ThreeLevels
    Writers = {w1, w2}
    Workers = {p1, p2}
    MaxTime = 2
    NoId = NoId
SPECIFICATION Spec
CHECK_DEADLOCK FALSE
SYMMETRY WorkersAlike
INVARIANTS
    TypeOK
    ReconciliationIsExact
