CONSTANTS
    Users = {u1, u2}
    Verified = {u1}
    Bricks = {b1}
    MaxVotes = 3
    MaxCredits = 1
    MinTotal = 1
    MaxCycle = 3
    MaxCrashes = 1
    Batch = 2
    NoUser = NoUser
    NoBrick = NoBrick
SPECIFICATION FairSpec
CHECK_DEADLOCK FALSE
INVARIANTS
    TypeOK
    StreamsAreExact
    CyclesHoldTheirVotes
PROPERTIES
    VotesArriveInTheEnd
