CONSTANTS
    Parts = {"sets", "bounties", "reviews", "limit", "dex", "pool", "perfect days", "trust"}
    NoDay = NoDay
    Requests = {r1, r2}
    LastDay = 3
    Bricks = {b1, b2}
    LocalDays = {1, 2}
    TargetOf <- OneAndTwo
    MaxRotations = 2
    Types = {"image"}
    MaxInstances = 2
    Submissions = {1, 2}
    DailyLimit = 2
    MaxSent = 6
    Keys = {"o", "p", "v", "w", "d"}
    KindOf <- KindOfFive
    Milestones = {2}
    DexMaxSent = 4
    ServerOffset = 0
    PoolTemplates = {"v1", "v2", "v3", "e1"}
    Slots <- FourSlots
    Family <- FamilyOfFour
    FamilyOfSlot <- FamilyMix
    PoolWorker = PoolWorker
    NoTemplate = NoTemplate
    DailyTarget = 2
    MaxDailies = 2
    Batch = 2
    TrustMaxVotes <- TwoVotesAndOne
    TrustVotes <- TwoCycles
    MinScored = 1
    Recent = 2
    Misses = 1
SPECIFICATION Spec
SYMMETRY Symmetry
INVARIANTS
    TypeOK
    PerfectDaysFollowEvents
    TrustFollowsScores
    SetsAreSound
    OffersFollowFields
    ReviewCallsAreSound
    LimitIsExact
    StreakFollowsDays
PROPERTIES
    PoolStands
    ActionsCountOnce
