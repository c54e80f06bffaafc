CONSTANTS
    Parts = {"sessions", "challenges", "calendar", "recheck", "linker"}
    Batch = 2
    Bricks = {b1, b2}
    TargetOf <- OneAndTwo
    Requests = {r1}
    NoTemplate = NoTemplate
    WindowKind <- KindOfWindow
    WindowDay <- DayOfWindow
    WindowItems <- ItemsOfWindow
    Guest <- OneGuestBrick
    SignupIn = {2}
    SessionVotes = 3
    DailyPool <- ThreeDailies
    OtherDailies = {"d"}
    Weeklies = {"w"}
    WeeklySlots <- TwoWeeklySlots
    Signature <- OwnSignature
    OpenAt <- OpenMoments
    TypesOf <- UpOrBoth
    Distinct = {"w"}
    ChallengeTarget <- OneOrTwoVotes
    DailyCount = 2
    Moments = {1, 2, 3}
    DayEnd = 2
    VoteKinds <- UpAndDown
    ChallengeVotes = 2
    Zones <- SevenZones
    RecheckWindow = 2
    Cooldown = 2
    StaleAge = 3
    LowSampleAge = 2
    Freezes = {2, 3}
    FreezeMax = 3
    MaxCredits = 1
    LinkerRows = {1, 2, 3, 4}
SPECIFICATION Spec
INVARIANTS
    TypeOK
    SessionsFollowVotes
    StreaksAreRuns
    ChallengesFollowVotes
    CreditsAreScarce
    OnlyFullBatchesHide
PROPERTIES
    CalendarIsSeamless
    RechecksRunOut
