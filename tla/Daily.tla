-------------------------------- MODULE Daily --------------------------------
(* What a day's votes move beside the price: the user's sessions, challenges  *)
(* and the calendar they follow, the brick's freezes, rechecks and credits,   *)
(* and the Dex vote linker.  The five modules share no state (each worker has *)
(* its own cursor and reads the others' tables as a log that grows), and the  *)
(* one that `part` names runs; the variables of the others are 0.             *)
EXTENDS Integers, Sequences, FiniteSets

CONSTANTS
    Parts,      \* the modules that run
    Batch,      \* LIMIT of a worker's fetch
    Bricks, TargetOf, WindowKind, WindowDay, WindowItems, Guest, SignupIn,
    SessionVotes,                            \* SessionProgress
    DailyPool, OtherDailies, Weeklies, WeeklySlots, Signature, OpenAt, TypesOf, Distinct,
    ChallengeTarget, DailyCount, Moments, DayEnd, VoteKinds, Requests, NoTemplate,
    ChallengeVotes,                          \* Challenges
    Zones,                                   \* Calendar
    RecheckWindow, Cooldown, StaleAge, LowSampleAge, Freezes, FreezeMax,
    MaxCredits,                              \* BrickRecheck
    LinkerRows                               \* VoteLinker

ASSUME PartsAssumption ==
    Parts \subseteq {"sessions", "challenges", "calendar", "recheck", "linker"}
ASSUME BatchAssumption == Batch \in Nat \ {0}
ASSUME BricksAssumption == IsFiniteSet(Bricks)
ASSUME TargetsAssumption == TargetOf \in [{"MORNING", "EVENING"} -> Nat \ {0}]
ASSUME WindowsAssumption ==
    /\ WindowKind \in Seq({"MORNING", "EVENING"}) /\ WindowKind # <<>>
    /\ WindowDay \in [DOMAIN WindowKind -> Nat \ {0}]
    /\ \A v, w \in DOMAIN WindowKind : v < w =>
          /\ WindowDay[v] <= WindowDay[w]
          /\ WindowKind[v] = WindowKind[w] => WindowDay[v] # WindowDay[w]
    /\ WindowItems \in [DOMAIN WindowKind -> SUBSET Bricks]
ASSUME SessionsAssumption == Guest \in Seq(Bricks) /\ SessionVotes \in Nat
ASSUME ChallengesAssumption ==
    LET dailies == {DailyPool[i] : i \in DOMAIN DailyPool} \cup OtherDailies
    IN  /\ DailyPool \in Seq(dailies) /\ IsFiniteSet(OtherDailies)
        /\ WeeklySlots \in Seq(SUBSET Weeklies) /\ Weeklies \cap dailies = {}
        /\ ChallengeTarget \in [dailies \cup Weeklies -> Nat \ {0}]
        /\ DailyCount \in Nat \ {0} /\ ChallengeVotes \in Nat /\ 1 \in Moments
        /\ \A m \in Moments :
              Cardinality({Signature[t] : t \in {u \in dailies : m \in OpenAt[u]}}) >= DailyCount
(* Zones after the first week of 1970, whose clocks are advanced for the summer *)
(* by at most five hours, and neither to 5 AM nor over it.                      *)
ASSUME ZonesAssumption ==
    \A z \in Zones :
        /\ z.offset \in Int /\ z.summer \in Int /\ z.summer - z.offset \in 0 .. 10
        /\ z.from \in Int /\ z.to \in Int /\ z.step \in Nat
        /\ z.start \in Int /\ z.start >= 7 * 48
        /\ z.summer # z.offset =>
              \A change \in {z.from, z.to} :
                  LET hour == (change + z.offset) % 48
                  IN  hour > 10 \/ hour + (z.summer - z.offset) < 10
ASSUME RecheckAssumption ==
    /\ RecheckWindow \in Nat \ {0} /\ Cooldown \in Nat
    /\ StaleAge \in Nat /\ LowSampleAge \in Nat
    /\ FreezeMax \in Nat \ {0} /\ Freezes \subseteq 0 .. FreezeMax
    /\ MaxCredits \in Nat \ {0}
ASSUME LinkerAssumption == IsFiniteSet(LinkerRows) /\ LinkerRows \subseteq Nat

VARIABLES part,
    sNow, sBuilt, sVotes, sCursor, sWorker, sActive, sCounts, sPartial, sAfter,
    sStreak, sLastDay, sLongest, sBreaks, sXp, sGuest,        \* SessionProgress
    cNow, cVotes, cRows, cBonus, cCursor, cWorker, cRequest, cDisturbed,   \* Challenges
    calZone, calNow,                                          \* Calendar
    rRow, rPage, rPassed, rCredit, rSpent, rOverlap,          \* BrickRecheck
    lIntent, lLinked, lRun                                    \* VoteLinker

ofSessions == <<sNow, sBuilt, sVotes, sCursor, sWorker, sActive, sCounts, sPartial, sAfter,
                sStreak, sLastDay, sLongest, sBreaks, sXp, sGuest>>
ofChallenges == <<cNow, cVotes, cRows, cBonus, cCursor, cWorker, cRequest, cDisturbed>>
ofCalendar == <<calZone, calNow>>
ofRecheck == <<rRow, rPage, rPassed, rCredit, rSpent, rOverlap>>
ofLinker == <<lIntent, lLinked, lRun>>
vars == <<part, ofSessions, ofChallenges, ofCalendar, ofRecheck, ofLinker>>
-----------------------------------------------------------------------------
Session == INSTANCE SessionProgress WITH
    Kinds <- {"MORNING", "EVENING"}, KindOf <- WindowKind, DayOf <- WindowDay,
    ItemsOf <- WindowItems, MaxVotes <- SessionVotes,
    now <- sNow, built <- sBuilt, votes <- sVotes, cursor <- sCursor, worker <- sWorker,
    active <- sActive, counts <- sCounts, partial <- sPartial, after <- sAfter,
    streak <- sStreak, lastDay <- sLastDay, longest <- sLongest, breaks <- sBreaks,
    xp <- sXp, guest <- sGuest
Assigned == INSTANCE Challenges WITH
    Pool <- DailyPool, Others <- OtherDailies, Target <- ChallengeTarget,
    MaxVotes <- ChallengeVotes, now <- cNow, votes <- cVotes, rows <- cRows,
    bonus <- cBonus, cursor <- cCursor, worker <- cWorker, request <- cRequest,
    disturbed <- cDisturbed
Clock == INSTANCE Calendar WITH zone <- calZone, now <- calNow
Recheck == INSTANCE BrickRecheck WITH
    Window <- RecheckWindow, row <- rRow, page <- rPage, passed <- rPassed,
    credit <- rCredit, spent <- rSpent, overlapped <- rOverlap
Linker == INSTANCE VoteLinker WITH
    Rows <- LinkerRows, intent <- lIntent, linked <- lLinked, run <- lRun
-----------------------------------------------------------------------------
SessionsIdle ==
    /\ sNow = 0 /\ sBuilt = 0 /\ sVotes = 0 /\ sCursor = 0 /\ sWorker = 0 /\ sActive = 0
    /\ sCounts = 0 /\ sPartial = 0 /\ sAfter = 0 /\ sStreak = 0 /\ sLastDay = 0
    /\ sLongest = 0 /\ sBreaks = 0 /\ sXp = 0 /\ sGuest = 0
ChallengesIdle ==
    /\ cNow = 0 /\ cVotes = 0 /\ cRows = 0 /\ cBonus = 0 /\ cCursor = 0 /\ cWorker = 0
    /\ cRequest = 0 /\ cDisturbed = 0
CalendarIdle == calZone = 0 /\ calNow = 0
RecheckIdle ==
    rRow = 0 /\ rPage = 0 /\ rPassed = 0 /\ rCredit = 0 /\ rSpent = 0 /\ rOverlap = 0
LinkerIdle == lIntent = 0 /\ lLinked = 0 /\ lRun = 0

Init ==
    /\ part \in Parts
    /\ IF part = "sessions" THEN Session!Init ELSE SessionsIdle
    /\ IF part = "challenges" THEN Assigned!Init ELSE ChallengesIdle
    /\ IF part = "calendar" THEN Clock!Init ELSE CalendarIdle
    /\ IF part = "recheck" THEN Recheck!Init ELSE RecheckIdle
    /\ IF part = "linker" THEN Linker!Init ELSE LinkerIdle

SessionStep ==
    /\ part = "sessions" /\ Session!Next
    /\ UNCHANGED <<part, ofChallenges, ofCalendar, ofRecheck, ofLinker>>

ChallengeStep ==
    /\ part = "challenges" /\ Assigned!Next
    /\ UNCHANGED <<part, ofSessions, ofCalendar, ofRecheck, ofLinker>>

CalendarStep ==
    /\ part = "calendar" /\ Clock!Next
    /\ UNCHANGED <<part, ofSessions, ofChallenges, ofRecheck, ofLinker>>

RecheckStep ==
    /\ part = "recheck" /\ Recheck!Next
    /\ UNCHANGED <<part, ofSessions, ofChallenges, ofCalendar, ofLinker>>

LinkerStep ==
    /\ part = "linker" /\ Linker!Next
    /\ UNCHANGED <<part, ofSessions, ofChallenges, ofCalendar, ofRecheck>>

(* These parts end with their bounds; the others always have a next step.     *)
TimeIsUp == part \in {"sessions", "challenges", "calendar"} /\ UNCHANGED vars

Next ==
    SessionStep \/ ChallengeStep \/ CalendarStep \/ RecheckStep \/ LinkerStep \/ TimeIsUp
Spec == Init /\ [][Next]_vars
-----------------------------------------------------------------------------
(* Every variable keeps its type, in each of the modules.                     *)
TypeOK ==
    CASE part = "sessions"   -> Session!TypeOK
      [] part = "challenges" -> Assigned!TypeOK
      [] part = "calendar"   -> Clock!TypeOK
      [] part = "recheck"    -> Recheck!TypeOK
      [] part = "linker"     -> Linker!TypeOK

(* A session is complete when and only when its whole target was voted, each  *)
(* brick once, however often a restarted worker processes a vote again (the   *)
(* window that a guest conversion wrote into excepted from "when"); and when  *)
(* the worker has caught up, a user's stance on a brick is the last vote's.   *)
SessionsFollowVotes ==
    part = "sessions" => Session!SessionsFollowVotes

(* A completion records the length of the run of days it extends; the streak  *)
(* row is that of the last one, the longest that of the longest run.          *)
StreaksAreRuns ==
    part = "sessions" => Session!StreaksAreRuns

(* A challenge is completed when and only when the votes cast between its     *)
(* assignment and its expiry complete it, the bonus is there exactly when     *)
(* enough dailies are, and nobody keeps a slate with too few or too many rows *)
(* (unless assigners overlapped or a request died between its INSERTs).       *)
ChallengesFollowVotes ==
    part = "challenges" => Assigned!ChallengesFollowVotes

(* A day's and a week's reset instants are where the next key begins, also    *)
(* when the clocks change; ISO week keys name the week of their Thursday; and *)
(* the local day changes only between two session windows.                    *)
CalendarIsSeamless ==
    /\ [](part = "calendar" => Clock!ResetsAndKeysAgree)
    /\ [][part = "calendar" => Clock!DayChangesBetweenWindows]_ofCalendar

(* A freeze ends within its longest duration and one recheck; and             *)
(* unless an event overtook the worker's page, a brick that needs a recheck   *)
(* has a whole window, which runs out and is not started over.                *)
RechecksRunOut ==
    /\ [](part = "recheck" => Recheck!FreezesEnd /\ Recheck!WindowIsComplete)
    /\ [][part = "recheck" => Recheck!WindowRunsOut]_ofRecheck

(* At one price, in one cycle and window, a user gets at most one vote beyond *)
(* the credits of a newcomer.                                                 *)
CreditsAreScarce == part = "recheck" => Recheck!CreditsAreScarce

(* A run of the linker leaves a row it could link only behind a full batch of *)
(* rows it could not.                                                         *)
OnlyFullBatchesHide == part = "linker" => Linker!OnlyFullBatchesHide
===============================================================================
