CONSTANTS
    x1 = x1
    x2 = x2
    i1 = i1
    i2 = i2
    b1 = b1
    Users = {u1}
    Subs = {x1, x2}
    Instances = {i1, i2}
    Bricks = {b1}
    Sessions = {s1, s2}
    InstOf <- InstOfTwo
    BrickOf <- OneBrick
    Reward <- RewardNone
    Budget = 0
    TenApprovals <- Two
    Edited = {i1, i2}
    NoSub = NoSub
SYMMETRY Symmetry
SPECIFICATION Spec
PROPERTIES
    CompletionFollowsCount
