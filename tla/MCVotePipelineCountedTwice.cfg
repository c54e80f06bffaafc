CONSTANTS
    Users = {u1}
    Verified = {u1}
    Bricks = {b1}
    MaxVotes = 1
    MaxCredits = 1
    MinTotal = 1
    MaxCycle = 1
    MaxCrashes = 1
    Batch = 2
    NoUser = NoUser
    NoBrick = NoBrick
SPECIFICATION Spec
CHECK_DEADLOCK FALSE
INVARIANTS
    CountedOnce
