-------------------------- MODULE SubmissionLimit --------------------------
(***************************************************************************)
(* The daily limit on one user's bounty submissions: the submissions, the  *)
(* hourly sweep that zeroes counters, and the requests around them.  A     *)
(* request takes `now` before it waits for the user's lock, and the sweep  *)
(* takes it once per tick, so each may write for a day that has ended.     *)
(* Days are the user's local days, which begin at 5 AM.                    *)
(***************************************************************************)
EXTENDS Integers, FiniteSets

CONSTANTS Requests,   \* concurrent POST /api/bounties/:id/submissions
          Limit,      \* daily_submission_limit
          LastDay,    \* bound on the days
          MaxSent,    \* bound on the requests sent
          NoDay       \* daily_submission_reset_at = NULL

VARIABLES today,      \* the user's local day
          bounty,     \* status of the bounty submitted to
          count,      \* daily_submission_count
          resetDay,   \* daily_submission_reset_at
          rows,       \* rows[d]: submissions accepted with `now` in day d
          req,        \* the requests
          sweep,      \* the sweep
          sent,       \* requests sent
          late        \* history: days whose count was forgotten by a late writer

vars == <<today, bounty, count, resetDay, rows, req, sweep, sent, late>>

Days == 1..LastDay

Waiting(d) == [pc |-> "waiting", now |-> d]
NoRequest == [pc |-> "none"]
Asleep == [pc |-> "idle"]

Init ==
    /\ today = 1
    /\ bounty \in {"OPEN", "CLOSED", "PAUSED"}
    /\ count = 0
    /\ resetDay = NoDay
    /\ rows = [d \in Days |-> 0]
    /\ req = [r \in Requests |-> NoRequest]
    /\ sweep = Asleep
    /\ sent = 0
    /\ late = {}

NextDay ==
    /\ today < LastDay
    /\ today' = today + 1
    /\ UNCHANGED <<bounty, count, resetDay, rows, req, sweep, sent, late>>

-----------------------------------------------------------------------------
\* The request arrives, submit reads the clock and asks for the user's lock.
CreateSubmission(r) ==
    /\ req[r].pc = "none"
    /\ sent < MaxSent
    /\ sent' = sent + 1
    /\ req' = [req EXCEPT ![r] = Waiting(today)]
    /\ UNCHANGED <<today, bounty, count, resetDay, rows, sweep, late>>

\* Mutant: the counter is never taken for an older day's.
CurrentCountAnyDay(d) == IF resetDay = NoDay THEN 0 ELSE count

\* The count of the request's own day: lazily zero when the row is another's.
CurrentCount(d) == IF resetDay = d THEN count ELSE 0

\* A write for a day before the counter's forgets what the days between had counted.
Lost(d) == IF resetDay # NoDay /\ resetDay > d THEN d..resetDay ELSE {}

\* Every submission counts, also one that is rejected at once.
AfterSubmit(d) == CurrentCount(d) + 1

\* Mutant: the limit is off by one.
AcceptsOneMore(d) == CurrentCount(d) <= Limit /\ bounty # "PAUSED"

\* The day has room, and the bounty is not paused (a closed one takes the
\* submission and rejects it at once).
Accepts(d) == CurrentCount(d) < Limit /\ bounty # "PAUSED"

\* The transaction of submit, under the lock bounty_submit:<user>.
Submit(r) ==
    /\ req[r].pc = "waiting"
    /\ LET d == req[r].now IN
        IF Accepts(d)
        THEN /\ rows' = [rows EXCEPT ![d] = @ + 1]
             /\ count' = AfterSubmit(d)
             /\ resetDay' = d
             /\ late' = late \cup Lost(d)
        ELSE UNCHANGED <<count, resetDay, rows, late>>
    /\ req' = [req EXCEPT ![r] = NoRequest]
    /\ UNCHANGED <<today, bounty, sweep, sent>>

\* The transaction is rolled back.
SubmitFails(r) ==
    /\ req[r].pc = "waiting"
    /\ req' = [req EXCEPT ![r] = NoRequest]
    /\ UNCHANGED <<today, bounty, count, resetDay, rows, sweep, sent, late>>

-----------------------------------------------------------------------------
\* The tick takes `now` and selects the users whose counter is not zero.
SweepStart ==
    /\ sweep.pc = "idle"
    /\ count > 0
    /\ sweep' = Waiting(today)
    /\ UNCHANGED <<today, bounty, count, resetDay, rows, req, sent, late>>

\* The row read under the lock is still another day's.
Stale(d) == count > 0 /\ resetDay # d

ResetUser ==
    /\ sweep.pc = "waiting"
    /\ IF Stale(sweep.now)
       THEN /\ count' = 0
            /\ resetDay' = sweep.now
            /\ late' = late \cup Lost(sweep.now)
       ELSE UNCHANGED <<count, resetDay, late>>
    /\ sweep' = Asleep
    /\ UNCHANGED <<today, bounty, rows, req, sent>>

Next ==
    \/ NextDay
    \/ \E r \in Requests : CreateSubmission(r) \/ Submit(r) \/ SubmitFails(r)
    \/ SweepStart \/ ResetUser

Spec == Init /\ [][Next]_vars

-----------------------------------------------------------------------------
TypeOK ==
    /\ today \in Days
    /\ bounty \in {"OPEN", "CLOSED", "PAUSED"}
    /\ count \in 0..Limit
    /\ resetDay \in Days \cup {NoDay}
    /\ rows \in [Days -> 0..MaxSent]
    /\ req \in [Requests -> {NoRequest} \cup {Waiting(d) : d \in Days}]
    /\ sweep \in {Asleep} \cup {Waiting(d) : d \in Days}
    /\ sent \in 0..MaxSent
    /\ late \subseteq Days

\* No day holds more submissions than the limit, whatever overlaps, but a day
\* whose counter was overwritten by a request or a sweep that began before 5 AM
\* and got the user's lock after a later day's writer (submit, resetUser).
LimitHolds == \A d \in Days \ late : rows[d] <= Limit

\* The counter never denies a submission the day has room for: it counts no
\* more than the rows of its day (the counter is zeroed, not carried over).
CounterIsBacked == resetDay # NoDay => count <= rows[resetDay]

(* The daily counter neither lets a user past the limit nor locks a user     *)
(* out.                                                                      *)
LimitIsExact ==
    /\ LimitHolds
    /\ CounterIsBacked
=============================================================================
