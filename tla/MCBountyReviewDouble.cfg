CONSTANTS
    x1 = x1
    x2 = x2
    i1 = i1
    i2 = i2
    b1 = b1
    Users = {u1, u2}
    Subs = {x1}
    Instances = {i1, i2}
    Bricks = {b1}
    Sessions = {s1, s2}
    InstOf <- InstOfOne
    BrickOf <- OneBrick
    Reward <- RewardOne
    Budget = 4
    TenApprovals <- Two
    Edited <- Nothing
    NoSub = NoSub
SPECIFICATION Spec
INVARIANTS
    NoSecondReward
