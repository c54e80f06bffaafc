---------------------------- MODULE DexProgress ----------------------------
(***************************************************************************)
(* One user's progress on one brick of the Dex: the context is opened or   *)
(* read to the end (stage 1), the vote (stage 2), the value driver (stage  *)
(* 3), the daily streak, and the Idempotency-Key middleware in front of    *)
(* the last three.                                                         *)
(*                                                                         *)
(* Every request is a READ COMMITTED transaction.  It reads the stage,     *)
(* reads it again in advanceStage, writes it by key, reads the streak and  *)
(* writes it.  Writes are seen at commit; the progress row is locked from  *)
(* its write to the commit.  The streak is the last write, so its lock is  *)
(* part of the commit.                                                     *)
(*                                                                         *)
(* last_activity_date is a DATE: it takes the UTC date of the server's     *)
(* local midnight, and is read back as the midnight of that date in UTC.   *)
(* The streak compares local days, so what it reads depends on the zone    *)
(* the server runs in.                                                     *)
(***************************************************************************)
EXTENDS Integers, FiniteSets

CONSTANTS Requests,    \* requests in flight
          Keys,        \* Idempotency-Keys; each names one request of the client
          KindOf,      \* [Keys -> Kinds]
          Milestones,  \* the streaks that earn a bonus (3, 7, 14, 30)
          ServerOffset,   \* hours from UTC to the server's local time
          LastDay,     \* bound on the days
          MaxSent      \* bound on the requests sent

VARIABLES day,         \* the server's calendar day
          stage,       \* user_brick_progress.stage, NoRow without a row
          streak,      \* user_identity_state: streak days and last day
          sessions,    \* the keys of context_sessions (unique)
          stored,      \* the keys of idempotency_keys
          req,         \* the requests in flight
          holder,      \* who has locked the progress row
          sent,        \* requests sent
          done,        \* done[k]: transactions committed for key k
          bonuses,     \* bonuses[d]: DEX_STREAK events of day d
          activeDays,  \* history: days with a completed stage
          overlapped,  \* history: two transactions were open at once
          straddled    \* history: streak updates of two days overlapped

vars == <<day, stage, streak, sessions, stored, req, holder, sent, done, bonuses,
          activeDays, overlapped, straddled>>
counts == <<sent, done, bonuses, activeDays>>

Kinds == {"open", "progress", "vote", "driver"}
Target == [k \in Kinds |-> CASE k \in {"open", "progress"} -> 1
                             [] k = "vote" -> 2
                             [] k = "driver" -> 3]
NoRow == -1
Nobody == "nobody"
Days == 1..LastDay

\* What stands for a last day: no row of user_identity_state, or the row that
\* sign-up makes, whose last_activity_date is null.
NoIdentity == -2
NoDate == -1
Dated(row) == row.last >= 0

\* Day d's local midnight, written to a DATE column: its date in UTC.
DateColumn(d) == (24 * d - ServerOffset) \div 24

\* The local day of a DATE that is read back as its midnight in UTC.
LocalDay(date) == (24 * date + ServerOffset) \div 24

Gone == [pc |-> "none"]
Kind(r) == KindOf[req[r].key]
InTransaction(r) == req[r].pc \in {"again", "create", "update", "streak", "commit"}

Init ==
    /\ day = 1
    /\ stage = NoRow
    /\ streak \in [days : {0}, last : {NoIdentity, NoDate}]
    /\ sessions = {}
    /\ stored = {}
    /\ req = [r \in Requests |-> Gone]
    /\ holder = Nobody
    /\ sent = 0
    /\ done = [k \in Keys |-> 0]
    /\ bonuses = [d \in Days |-> 0]
    /\ activeDays = {}
    /\ overlapped = FALSE
    /\ straddled = FALSE

NextDay ==
    /\ day < LastDay
    /\ day' = day + 1
    /\ UNCHANGED <<stage, streak, sessions, stored, req, holder, counts,
                   overlapped, straddled>>

\* The transaction is rolled back, or the request is refused.
Abort(r) ==
    /\ req' = [req EXCEPT ![r] = Gone]
    /\ holder' = IF holder = r THEN Nobody ELSE holder
    /\ UNCHANGED <<day, stage, streak, sessions, stored, counts, overlapped, straddled>>

Move(r, rec) ==
    /\ req' = [req EXCEPT ![r] = rec]
    /\ UNCHANGED <<day, stage, streak, sessions, stored, counts, straddled>>

-----------------------------------------------------------------------------
\* The middleware looks the key up: a stored answer is replayed.  Opening a
\* brick's context has no key; it is an entry of Keys for the model only.
Arrive(r, k) ==
    /\ req[r].pc = "none"
    /\ sent < MaxSent
    /\ sent' = sent + 1
    /\ req' = IF k \in stored THEN req
              ELSE [req EXCEPT ![r] = [pc |-> "begin", key |-> k]]
    /\ UNCHANGED <<day, stage, streak, sessions, stored, holder, done, bonuses,
                   activeDays, overlapped, straddled>>

\* The checks of the handler on the stage it reads first.
MayProceed(kind) ==
    \/ kind \in {"open", "progress"}
    \/ kind = "vote" /\ stage = 1
    \/ kind = "driver" /\ stage = 2

\* Mutant: a context session does not carry the request's key.
SessionUnkeyed(k) == FALSE

\* INSERT of the context session: its key is unique.
SessionTaken(k) == KindOf[k] = "progress" /\ k \in sessions

\* A second INSERT of an uncommitted session waits for the first.
SessionFree(r) ==
    Kind(r) = "progress" =>
        ~\E o \in Requests \ {r} : InTransaction(o) /\ req[o].key = req[r].key

ReadProgress(r) ==
    /\ req[r].pc = "begin"
    /\ SessionFree(r)
    /\ IF ~MayProceed(Kind(r)) \/ SessionTaken(req[r].key)
       THEN Abort(r)
       ELSE /\ Move(r, [pc |-> "again", key |-> req[r].key, before |-> stage])
            /\ overlapped' = (overlapped \/ \E o \in Requests \ {r} : InTransaction(o))
            /\ UNCHANGED holder

\* The upsert of the value driver waits for another one's commit.
DriverFree(r) ==
    Kind(r) = "driver" =>
        ~\E o \in Requests \ {r} :
            /\ req[o].pc \in {"create", "update", "streak", "commit"}
            /\ Kind(o) = "driver"

\* advanceStage returns early at or past the target.
Reached(kind) == stage >= Target[kind]

ReadAgain(r) ==
    /\ req[r].pc = "again"
    /\ DriverFree(r)
    /\ Move(r, [pc |-> CASE stage = NoRow -> "create"
                         [] stage # NoRow /\ Reached(Kind(r)) -> "streak"
                         [] OTHER -> "update",
                key |-> req[r].key, before |-> req[r].before, write |-> NoRow])
    /\ UNCHANGED <<holder, overlapped>>

\* getOrCreateProgress inserts the row, and fails if another did first; the
\* UPDATE that follows finds its own row.
CreateRow(r) ==
    /\ req[r].pc = "create"
    /\ holder = Nobody
    /\ IF stage # NoRow
       THEN Abort(r)
       ELSE /\ Move(r, [req[r] EXCEPT !.pc = "streak", !.write = Target[Kind(r)]])
            /\ holder' = r
            /\ UNCHANGED overlapped

\* UPDATE by primary key, whatever the row says now.
UpdateRow(r) ==
    /\ req[r].pc = "update"
    /\ holder = Nobody
    /\ Move(r, [req[r] EXCEPT !.pc = "streak", !.write = Target[Kind(r)]])
    /\ holder' = r
    /\ UNCHANGED overlapped

\* Opening the context counts for the streak if it found the stage below 1.
CountsForStreak(r) == Kind(r) = "open" => req[r].before < 1

ReadStreak(r) ==
    /\ req[r].pc = "streak"
    /\ Move(r, [pc |-> "commit", key |-> req[r].key, write |-> req[r].write,
                counts |-> CountsForStreak(r), seen |-> streak, today |-> day])
    /\ UNCHANGED <<holder, overlapped>>

-----------------------------------------------------------------------------
\* Mutant: a missed day does not end the streak.
NewStreakUnbroken(seen, today) == [days |-> seen.days + 1, last |-> DateColumn(today)]

\* checkAndUpdateStreak where the row's day is not today's.
NewStreak(seen, today) ==
    [days |-> IF Dated(seen) /\ LocalDay(seen.last) = today - 1 THEN seen.days + 1 ELSE 1,
     last |-> DateColumn(today)]

WritesStreak(q) == q.counts /\ ~(Dated(q.seen) /\ LocalDay(q.seen.last) = q.today)

\* Making the row earns nothing.
EarnsBonus(q) ==
    /\ WritesStreak(q)
    /\ q.seen.last # NoIdentity
    /\ NewStreak(q.seen, q.today).days \in Milestones

\* Another day's completion has read the streak and not written it yet.
OtherDayOpen(r) ==
    \E o \in Requests : req[o].pc = "commit" /\ req[o].today # req[r].today

\* What the transaction writes: the stage, the session, the XP of its kind and
\* the vote intent (counted by `done`), and the streak.
Commit(r) ==
    /\ req[r].pc = "commit"
    /\ LET q == req[r]
           writes == WritesStreak(q)
       IN IF writes /\ q.seen.last = NoIdentity /\ streak.last # NoIdentity
          THEN Abort(r)       \* the INSERT of user_identity_state collides
          ELSE
            /\ stage' = IF q.write = NoRow THEN stage ELSE q.write
            /\ sessions' = IF Kind(r) = "progress" THEN sessions \cup {q.key} ELSE sessions
            /\ done' = [done EXCEPT ![q.key] = @ + 1]
            /\ streak' = IF writes THEN NewStreak(q.seen, q.today) ELSE streak
            /\ bonuses' = IF EarnsBonus(q)
                          THEN [bonuses EXCEPT ![q.today] = @ + 1] ELSE bonuses
            /\ activeDays' = IF q.counts THEN activeDays \cup {q.today} ELSE activeDays
            /\ straddled' = (straddled \/ OtherDayOpen(r))
            /\ holder' = IF holder = r THEN Nobody ELSE holder
            /\ req' = [req EXCEPT ![r] = [pc |-> "answer", key |-> q.key]]
            /\ UNCHANGED <<day, stored, sent, overlapped>>

\* The answer is stored before it is sent; a failure to store it is swallowed.
StoreKey(r) ==
    /\ req[r].pc = "answer"
    /\ stored' = IF Kind(r) = "open" THEN stored ELSE stored \cup {req[r].key}
    /\ req' = [req EXCEPT ![r] = Gone]
    /\ UNCHANGED <<day, stage, streak, sessions, holder, counts, overlapped, straddled>>

\* The process dies, or the answer is not stored: before the commit nothing is
\* left, after it the client may ask again.
RequestDies(r) ==
    /\ req[r].pc # "none"
    /\ Abort(r)

\* After 24 hours the key is deleted by the next request or by the cleanup.
ExpireKey(k) ==
    /\ k \in stored
    /\ stored' = stored \ {k}
    /\ UNCHANGED <<day, stage, streak, sessions, req, holder, counts, overlapped,
                   straddled>>

Next ==
    \/ NextDay
    \/ \E r \in Requests :
        \/ \E k \in Keys : Arrive(r, k)
        \/ ReadProgress(r) \/ ReadAgain(r) \/ CreateRow(r) \/ UpdateRow(r)
        \/ ReadStreak(r) \/ Commit(r) \/ StoreKey(r) \/ RequestDies(r)
    \/ \E k \in Keys : ExpireKey(k)

Spec == Init /\ [][Next]_vars

-----------------------------------------------------------------------------
TypeOK ==
    /\ day \in Days
    /\ stage \in NoRow..3
    /\ streak \in [days : 0..MaxSent, last : NoIdentity..LastDay]
    /\ sessions \subseteq Keys /\ stored \subseteq Keys
    /\ holder \in Requests \cup {Nobody}
    /\ sent \in 0..MaxSent
    /\ done \in [Keys -> 0..MaxSent]
    /\ bonuses \in [Days -> 0..MaxSent]
    /\ activeDays \subseteq Days
    /\ overlapped \in BOOLEAN /\ straddled \in BOOLEAN
    /\ \A r \in Requests : req[r].pc \in {"none", "begin", "again", "create", "update",
                                          "streak", "commit", "answer"}

\* "Stage never decreases" (DexProgressService.js:2), but where transactions on
\* the brick overlapped: a step predicate.
StageFallsInOverlap == stage' >= stage \/ overlapped

Votes == {k \in Keys : KindOf[k] = "vote"}
Drivers == {k \in Keys : KindOf[k] = "driver"}

Once(ks) == \A k, l \in ks : done[k] + (IF k = l THEN 0 ELSE done[l]) <= 1

\* A brick is voted on and classified once, under whatever keys, after lost
\* answers and expired keys, unless transactions on it overlapped.
VotesOnce == overlapped \/ (Once(Votes) /\ Once(Drivers))

\* A finished context earns its XP once per key, even for overlapping requests
\* with that key and after its answer was lost: context_sessions repeats none.
ContextOncePerKey == \A k \in Keys : KindOf[k] = "progress" => done[k] <= 1

(* Repeated requests act once.                                               *)
ActionsCountOnce ==
    /\ VotesOnce
    /\ ContextOncePerKey

RunEndingAt(d) ==
    Cardinality({e \in activeDays : e <= d /\ \A f \in e..d : f \in activeDays})

\* The streak is the number of consecutive active days up to its last one,
\* also when completions of one day overlap; only completions of two days that
\* overlap, one of them held up over midnight, may leave a wrong one.
StreakIsRun == straddled \/ streak.days = RunEndingAt(streak.last)

\* A day earns at most one streak bonus, unless transactions overlapped.
OneBonusPerDay == overlapped \/ \A d \in Days : bonuses[d] <= 1

(* On a server in UTC, streak and bonus follow the days on which something    *)
(* was completed.                                                            *)
StreakFollowsDays ==
    ServerOffset = 0 => StreakIsRun /\ OneBonusPerDay

(* The streak counts days ("Already counted today", XpService.js:105): it is  *)
(* never longer than the days on which something was completed.  Refuted off  *)
(* UTC, by two completions of one day, one after the other.                   *)
StreakWithinDays == streak.days <= Cardinality(activeDays)
=============================================================================
