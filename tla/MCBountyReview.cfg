CONSTANTS
    x1 = x1
    x2 = x2
    i1 = i1
    i2 = i2
    b1 = b1
    Users = {u1, u2}
    Subs = {x1, x2}
    Instances = {i1, i2}
    Bricks = {b1}
    Sessions = {s1, s2}
    InstOf <- InstOfTwo
    BrickOf <- OneBrick
    Reward <- RewardTwo
    Budget = 2
    TenApprovals <- Two
    Edited <- Nothing
    NoSub = NoSub
SYMMETRY Symmetry
SPECIFICATION Spec
INVARIANTS
    TypeOK
    RewardsAreBacked
    OverspendNeedsTwoUsers
    SettledOnce
    StatisticsAreExact
PROPERTIES
    CompletionFollowsCount
