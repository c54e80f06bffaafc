------------------------------- MODULE Services -------------------------------
(* Concurrent requests of the API and workers: the day's brick sets and its   *)
(* challenge pool, the bounties of a brick, the admins' reviews, the daily    *)
(* submission limit, the Dex, perfect days, and the trust jobs.  The modules  *)
(* share no state, and the one that `part` names runs; the variables of the   *)
(* others are 0.                                                              *)
EXTENDS Integers, Sequences, FiniteSets

CONSTANTS
    Parts,          \* the modules that run
    Requests,       \* the requests under way at once, of each service; the trust workers
    LocalDays,      \* local day keys, of the sets and the perfect days
    LastDay,        \* bound on the days of the limit and the Dex
    NoDay,
    Bricks, TargetOf, MaxRotations,          \* SessionSets
    PoolTemplates, Slots, Family, FamilyOfSlot, PoolWorker, NoTemplate,   \* ChallengePool
    Types, MaxInstances,                     \* BountyCatalog
    Submissions,                             \* ReviewDesk
    DailyLimit, MaxSent,                     \* SubmissionLimit
    Keys, KindOf, Milestones, DexMaxSent, ServerOffset,   \* DexProgress
    DailyTarget, MaxDailies, Batch,          \* PerfectDay
    TrustMaxVotes, TrustVotes, MinScored, Recent, Misses   \* TrustJobs

ASSUME PartsAssumption ==
    Parts \subseteq {"sets", "pool", "bounties", "reviews", "limit", "dex", "perfect days", "trust"}
ASSUME RequestsAssumption == IsFiniteSet(Requests)
ASSUME BricksAssumption == IsFiniteSet(Bricks) /\ MaxRotations \in Nat
ASSUME TargetsAssumption == TargetOf \in [{"MORNING", "EVENING"} -> Nat]
ASSUME DaysAssumption == LastDay \in Nat \ {0} /\ NoDay \notin 1 .. LastDay
ASSUME LimitAssumption == DailyLimit \in Nat /\ MaxSent \in Nat
ASSUME SlotsAssumption == Slots \in Seq(DOMAIN FamilyOfSlot) /\ NoTemplate \notin PoolTemplates
ASSUME KindsAssumption == KindOf \in [Keys -> {"open", "progress", "vote", "driver"}]
ASSUME OffsetAssumption == ServerOffset \in -12 .. 14
ASSUME BatchAssumption == Batch \in Nat \ {0} /\ DailyTarget \in Nat
ASSUME BoundsAssumption == MaxInstances \in Nat /\ DexMaxSent \in Nat
ASSUME TrustAssumption ==
    /\ TrustMaxVotes \in Seq(Nat) /\ TrustMaxVotes # <<>>
    /\ MinScored \in Nat /\ Recent \in Nat /\ Misses \in Nat \ {0}
    /\ \A c \in DOMAIN TrustMaxVotes : TrustVotes[c] \subseteq
          [type : {"OVER", "UNDER", "FAIR"}, verified : BOOLEAN]

VARIABLES part,
    ended, cycleOf, items, builder, setsOverlap,              \* SessionSets
    pool, local, at, used,                                    \* ChallengePool
    published, filled, active, inst, gen, desk,               \* BountyCatalog
    status, rewards, call, told, ops,                         \* ReviewDesk
    today, bounty, count, resetDay, rows, req, sweep, sent, late,   \* SubmissionLimit
    day, stage, streak, sessions, stored, dexReq, holder, dexSent, done, bonuses,
    activeDays, overlapped, straddled,                        \* DexProgress
    log, awards, cursor, worker,                              \* PerfectDay
    cycles, job, scores, trust, trustWorker, claims, raced, trustOverlap   \* TrustJobs

ofSets == <<ended, cycleOf, items, builder, setsOverlap>>
ofPool == <<pool, local, at, used>>
ofBounties == <<published, filled, active, inst, gen, desk>>
ofReviews == <<status, rewards, call, told, ops>>
ofLimit == <<today, bounty, count, resetDay, rows, req, sweep, sent, late>>
ofDex == <<day, stage, streak, sessions, stored, dexReq, holder, dexSent, done,
           bonuses, activeDays, overlapped, straddled>>
ofPerfectDays == <<log, awards, cursor, worker>>
ofTrust == <<cycles, job, scores, trust, trustWorker, claims, raced, trustOverlap>>
vars == <<part, ofSets, ofPool, ofBounties, ofReviews, ofLimit, ofDex, ofPerfectDays, ofTrust>>

-----------------------------------------------------------------------------
Sets == INSTANCE SessionSets WITH
    Days <- LocalDays, Builders <- Requests, MaxCycles <- MaxRotations, overlap <- setsOverlap
Pools == INSTANCE ChallengePool WITH Templates <- PoolTemplates, Worker <- PoolWorker
Bounties == INSTANCE BountyCatalog WITH Admins <- Requests
Reviews == INSTANCE ReviewDesk WITH Calls <- Requests
Limit == INSTANCE SubmissionLimit WITH Limit <- DailyLimit
Dex == INSTANCE DexProgress WITH req <- dexReq, sent <- dexSent, MaxSent <- DexMaxSent
Perfect == INSTANCE PerfectDay WITH Days <- LocalDays
Trust == INSTANCE TrustJobs WITH
    Workers <- Requests, MaxVotes <- TrustMaxVotes, Votes <- TrustVotes,
    worker <- trustWorker, overlapped <- trustOverlap
-----------------------------------------------------------------------------
SetsIdle == ended = 0 /\ cycleOf = 0 /\ items = 0 /\ builder = 0 /\ setsOverlap = 0
PoolIdle == pool = 0 /\ local = 0 /\ at = 0 /\ used = 0
BountiesIdle ==
    published = 0 /\ filled = 0 /\ active = 0 /\ inst = 0 /\ gen = 0 /\ desk = 0
ReviewsIdle == status = 0 /\ rewards = 0 /\ call = 0 /\ told = 0 /\ ops = 0
LimitIdle ==
    /\ today = 0 /\ bounty = 0 /\ count = 0 /\ resetDay = 0 /\ rows = 0
    /\ req = 0 /\ sweep = 0 /\ sent = 0 /\ late = 0
DexIdle ==
    /\ day = 0 /\ stage = 0 /\ streak = 0 /\ sessions = 0 /\ stored = 0 /\ dexReq = 0
    /\ holder = 0 /\ dexSent = 0 /\ done = 0 /\ bonuses = 0
    /\ activeDays = 0 /\ overlapped = 0 /\ straddled = 0

PerfectDaysIdle == log = 0 /\ awards = 0 /\ cursor = 0 /\ worker = 0
TrustIdle ==
    /\ cycles = 0 /\ job = 0 /\ scores = 0 /\ trust = 0
    /\ trustWorker = 0 /\ claims = 0 /\ raced = 0 /\ trustOverlap = 0

Init ==
    /\ part \in Parts
    /\ IF part = "sets" THEN Sets!Init ELSE SetsIdle
    /\ IF part = "pool" THEN Pools!Init ELSE PoolIdle
    /\ IF part = "bounties" THEN Bounties!Init ELSE BountiesIdle
    /\ IF part = "reviews" THEN Reviews!Init ELSE ReviewsIdle
    /\ IF part = "limit" THEN Limit!Init ELSE LimitIdle
    /\ IF part = "dex" THEN Dex!Init ELSE DexIdle
    /\ IF part = "perfect days" THEN Perfect!Init ELSE PerfectDaysIdle
    /\ IF part = "trust" THEN Trust!Init ELSE TrustIdle

SetStep ==
    /\ part = "sets" /\ Sets!Next
    /\ UNCHANGED <<part, ofPool, ofBounties, ofReviews, ofLimit, ofDex, ofPerfectDays, ofTrust>>

PoolStep ==
    /\ part = "pool" /\ Pools!Next
    /\ UNCHANGED <<part, ofSets, ofBounties, ofReviews, ofLimit, ofDex, ofPerfectDays, ofTrust>>

BountyStep ==
    /\ part = "bounties" /\ Bounties!Next
    /\ UNCHANGED <<part, ofSets, ofPool, ofReviews, ofLimit, ofDex, ofPerfectDays, ofTrust>>

ReviewStep ==
    /\ part = "reviews" /\ Reviews!Next
    /\ UNCHANGED <<part, ofSets, ofPool, ofBounties, ofLimit, ofDex, ofPerfectDays, ofTrust>>

LimitStep ==
    /\ part = "limit" /\ Limit!Next
    /\ UNCHANGED <<part, ofSets, ofPool, ofBounties, ofReviews, ofDex, ofPerfectDays, ofTrust>>

DexStep ==
    /\ part = "dex" /\ Dex!Next
    /\ UNCHANGED <<part, ofSets, ofPool, ofBounties, ofReviews, ofLimit, ofPerfectDays, ofTrust>>

PerfectDayStep ==
    /\ part = "perfect days" /\ Perfect!Next
    /\ UNCHANGED <<part, ofSets, ofPool, ofBounties, ofReviews, ofLimit, ofDex, ofTrust>>

TrustStep ==
    /\ part = "trust" /\ Trust!Next
    /\ UNCHANGED <<part, ofSets, ofPool, ofBounties, ofReviews, ofLimit, ofDex, ofPerfectDays>>

(* The limit, the Dex and the trust jobs end with their bounds; the other     *)
(* parts always have a next step.                                             *)
TimeIsUp == part \in {"limit", "dex", "trust"} /\ UNCHANGED vars

Next ==
    \/ SetStep \/ PoolStep \/ BountyStep \/ ReviewStep \/ LimitStep \/ DexStep
    \/ PerfectDayStep \/ TrustStep \/ TimeIsUp
Spec == Init /\ [][Next]_vars
-----------------------------------------------------------------------------
(* Every variable keeps its type, in each of the modules.                     *)
TypeOK ==
    CASE part = "sets"         -> Sets!TypeOK
      [] part = "pool"         -> Pools!TypeOK
      [] part = "bounties"     -> Bounties!TypeOK
      [] part = "reviews"      -> Reviews!TypeOK
      [] part = "limit"        -> Limit!TypeOK
      [] part = "dex"          -> Dex!TypeOK
      [] part = "perfect days" -> Perfect!TypeOK
      [] part = "trust"        -> Trust!TypeOK

(* Builders one after the other, wherever they died, keep a brick to one set  *)
(* of a day, fill their sets, and rotate only an exhausted cycle; even of two *)
(* at once, no set outgrows its target and no cycle uses a brick twice.       *)
SetsAreSound == part = "sets" => Sets!SetsAreSound

(* No template fills two slots of a day's pool, whoever built which slot, and *)
(* a slot's template never changes once others may have read it.              *)
PoolStands ==
    /\ [](part = "pool" => Pools!PoolIsDistinct)
    /\ [][part = "pool" => Pools!SlotsAreKept]_ofPool

(* A tick of the generator leaves nothing open on a field it found filled and *)
(* offers every active type whose field was empty; closed_at tells a closed   *)
(* bounty, unless two transitions raced on it.                                *)
OffersFollowFields == part = "bounties" => Bounties!OffersFollowFields

(* A repeated review rewards once, also while the first call still runs; two  *)
(* approved submissions for one field were told of in an answer.              *)
ReviewCallsAreSound == part = "reviews" => Reviews!ReviewCallsAreSound

(* No day takes more submissions than its limit, unless a later day's counter *)
(* was overwritten by a request or a sweep that began before 5 AM; and no day *)
(* is denied a submission that it has room for.                               *)
LimitIsExact == part = "limit" => Limit!LimitIsExact

(* A brick is voted on and classified once, after lost answers and expired    *)
(* keys, and its stage never falls, unless transactions on it overlapped; a   *)
(* finished context earns its XP once per key, also in overlap.               *)
ActionsCountOnce ==
    /\ [](part = "dex" => Dex!ActionsCountOnce)
    /\ [][part = "dex" => Dex!StageFallsInOverlap]_ofDex

(* On a server in UTC the Dex streak is the run of active days, unless        *)
(* completions of two days overlapped, and a day earns at most one bonus,     *)
(* unless transactions overlapped.                                            *)
StreakFollowsDays == part = "dex" => Dex!StreakFollowsDays

(* A perfect day is awarded once, only when its three conditions hold, and    *)
(* always in the end, whichever event came last and wherever the worker died. *)
PerfectDaysFollowEvents == part = "perfect days" => Perfect!PerfectDaysFollowEvents

(* A cycle scores a user once, by the last vote that takes a side; what a     *)
(* DONE job scored is in the user's trust; recent misses hold a user at       *)
(* PROBATION; and a job is claimed once: all but the first unless two workers *)
(* overlapped on it.                                                          *)
TrustFollowsScores == part = "trust" => Trust!TrustFollowsScores
===============================================================================
