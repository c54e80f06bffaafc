------------------------------- MODULE PerfectDay ------------------------------
(***************************************************************************)
(* perfect-day-worker: two streams of completion events, each with its own *)
(* cursor, and PerfectDayService.maybeAward for the day of every event.    *)
(* The worker fetches a batch of each stream in turn, runs maybeAward in a *)
(* transaction under the user's lock, which the session and the challenge  *)
(* workers hold too when they append events, moves the cursor in a         *)
(* statement of its own, and may die in between.                           *)
(***************************************************************************)
EXTENDS Integers, Sequences, FiniteSets

CONSTANTS
    Days,         \* (user, local day) pairs
    DailyTarget,  \* config: dailies that a perfect day takes
    MaxDailies,   \* bounds the daily completions of a day
    Batch         \* limit

Streams == {"session", "challenge"}

VARIABLES
    log,     \* session_completion_events, and the daily-scope challenge_completion_events
    awards,  \* perfect_day_events, and the XP of each in the same transaction
    cursor,  \* worker_cursors, by stream
    worker   \* the stream it is in, the batch it holds, and what is left of it

vars == <<log, awards, cursor, worker>>

SessionEvents == [day : Days, kind : {"MORNING", "EVENING"}]
ChallengeEvents == [day : Days, kind : {"DAILY"}]
Asleep == [step |-> "fetch", stream |-> "session", next |-> 0, last |-> 0, full |-> FALSE]

TypeOK ==
    /\ log.session \in Seq(SessionEvents) /\ log.challenge \in Seq(ChallengeEvents)
    /\ awards \in [Days -> Nat]
    /\ \A s \in Streams : cursor[s] \in 0 .. Len(log[s])
    /\ worker.step \in {"fetch", "award", "cursor"} /\ worker.stream \in Streams
    /\ worker.last <= Len(log[worker.stream]) /\ worker.full \in BOOLEAN

Init ==
    /\ log = [s \in Streams |-> <<>>]
    /\ awards = [d \in Days |-> 0]
    /\ cursor = [s \in Streams |-> 0]
    /\ worker = Asleep

-----------------------------------------------------------------------------
Has(stream, d, kind) == \E i \in DOMAIN log[stream] :
    log[stream][i].day = d /\ log[stream][i].kind = kind
DailiesDone(d) == Cardinality({i \in DOMAIN log.challenge : log.challenge[i].day = d})

(* The other workers append; a session kind completes once a day             *)
(* (UNIQUE user and set).                                                    *)
CompleteSession(d, kind) ==
    /\ ~Has("session", d, kind)
    /\ log' = [log EXCEPT !.session = Append(@, [day |-> d, kind |-> kind])]
    /\ UNCHANGED <<awards, cursor, worker>>

CompleteDaily(d) ==
    /\ DailiesDone(d) < MaxDailies
    /\ log' = [log EXCEPT !.challenge = Append(@, [day |-> d, kind |-> "DAILY"])]
    /\ UNCHANGED <<awards, cursor, worker>>

NextStream(s) == IF s = "session" THEN "challenge" ELSE "session"

(* Mutant: every batch is taken for a full one.                              *)
FetchWholeBatch ==
    LET s == worker.stream
    IN  /\ worker.step = "fetch"
        /\ worker' = IF Len(log[s]) = cursor[s] THEN [Asleep EXCEPT !.stream = NextStream(s)]
                     ELSE [step |-> "award", stream |-> s, next |-> cursor[s] + 1,
                           last |-> cursor[s] + Batch, full |-> TRUE]
        /\ UNCHANGED <<log, awards, cursor>>

(* SELECT ... WHERE id > cursor ... LIMIT: none ends the stream's turn.      *)
Fetch ==
    LET s == worker.stream
        n == Len(log[s]) - cursor[s]
    IN  /\ worker.step = "fetch"
        /\ worker' = IF n = 0 THEN [Asleep EXCEPT !.stream = NextStream(s)]
                     ELSE [step |-> "award", stream |-> s, next |-> cursor[s] + 1,
                           last |-> cursor[s] + (IF n > Batch THEN Batch ELSE n), full |-> n >= Batch]
        /\ UNCHANGED <<log, awards, cursor>>

Conditions(d) ==
    /\ Has("session", d, "MORNING")
    /\ Has("session", d, "EVENING")
    /\ DailiesDone(d) >= DailyTarget

MaybeAward ==
    LET d == log[worker.stream][worker.next].day
    IN  /\ worker.step = "award"
        /\ awards' = [awards EXCEPT ![d] = IF @ = 0 /\ Conditions(d) THEN 1 ELSE @]
        /\ worker' = [worker EXCEPT !.step = "cursor"]
        /\ UNCHANGED <<log, cursor>>

(* Mutant: the cursor is moved to the end of the batch after its first event. *)
MoveToBatchEnd ==
    LET s == worker.stream
    IN  /\ worker.step = "cursor"
        /\ cursor' = [cursor EXCEPT ![s] = worker.last]
        /\ worker' = IF worker.next < worker.last
                     THEN [worker EXCEPT !.step = "award", !.next = @ + 1]
                     ELSE [Asleep EXCEPT !.stream = IF worker.full THEN s ELSE NextStream(s)]
        /\ UNCHANGED <<log, awards>>

(* After the batch, a full one is followed by another of the same stream.    *)
MoveCursor ==
    LET s == worker.stream
    IN  /\ worker.step = "cursor"
        /\ cursor' = [cursor EXCEPT ![s] = worker.next]
        /\ worker' = IF worker.next < worker.last
                     THEN [worker EXCEPT !.step = "award", !.next = @ + 1]
                     ELSE [Asleep EXCEPT !.stream = IF worker.full THEN s ELSE NextStream(s)]
        /\ UNCHANGED <<log, awards>>

Die ==
    /\ worker # Asleep
    /\ worker' = Asleep
    /\ UNCHANGED <<log, awards, cursor>>

Next ==
    \/ \E d \in Days : CompleteDaily(d)
    \/ \E d \in Days, kind \in {"MORNING", "EVENING"} : CompleteSession(d, kind)
    \/ Fetch \/ MaybeAward \/ MoveCursor \/ Die

Spec == Init /\ [][Next]_vars

-----------------------------------------------------------------------------
(* A perfect day is awarded once, and only to a day with both sessions and   *)
(* all its dailies completed, although two streams announce it.              *)
PerfectDays == {d \in Days :
    /\ \A kind \in {"MORNING", "EVENING"} : \E i \in DOMAIN log.session :
          log.session[i].day = d /\ log.session[i].kind = kind
    /\ Cardinality({i \in DOMAIN log.challenge : log.challenge[i].day = d}) >= DailyTarget}

AwardIsEarned == \A d \in Days : awards[d] <= 1 /\ (awards[d] = 1 => d \in PerfectDays)

(* When both cursors have passed every event, every day that meets the three *)
(* conditions has its award, whichever of its events came last, in whichever *)
(* stream, and wherever the worker died.                                     *)
PerfectDaysAreAwarded ==
    (\A s \in Streams : cursor[s] = Len(log[s])) =>
        \A d \in PerfectDays : awards[d] = 1

(* One award for every perfect day and for no other.                         *)
PerfectDaysFollowEvents ==
    /\ AwardIsEarned
    /\ PerfectDaysAreAwarded
===============================================================================
