---------------------------- MODULE BrickRecheck ----------------------------
(***************************************************************************)
(* The freeze and the recheck window of one brick, and one user's vote     *)
(* credits on it.  Three programs meet on the row of brick_price_state:    *)
(* the aggregator, which rewrites it under a row lock for every event; the *)
(* recheck worker, which reads a page of rows and later writes them by id; *)
(* and the enricher, which reads it to decide whether a user may vote.     *)
(*                                                                         *)
(* Time is kept relative: how long ago, or how long from now.  Two steps   *)
(* of time are a week, so the defaults of config/pricing.js are a window,  *)
(* a cooldown and a low-sample age of 2, freezes of 4 to 8 and a stale     *)
(* confidence of 6.                                                        *)
(***************************************************************************)
EXTENDS Integers

CONSTANTS Window,        \* recheck_window_days
          Cooldown,      \* recheck_cooldown_days
          StaleAge,      \* recheck_stale_days
          LowSampleAge,  \* recheck_low_sample_days
          Freezes,       \* the durations a freeze may have
          FreezeMax,     \* freeze_duration_days_max
          MaxCredits     \* vote_credits_max

VARIABLES row,        \* brick_price_state
          page,       \* what the recheck worker has decided from its page
          passed,     \* the recheck worker has been through the bricks
          credit,     \* user_brick_vote_credits
          spent,      \* history: votes of the user since the row last changed
          overlapped  \* history: an event moved the row while a page was held

vars == <<row, page, passed, credit, spent, overlapped>>

Null == -1
Older(age, cap) == IF age = Null \/ age = cap THEN age ELSE age + 1
Sooner(left) == IF left \in {Null, 0} THEN left ELSE left - 1

\* A recheck that begins keeps the worker off for its window and a cooldown.
HoldOff == IF Window > Cooldown THEN Window ELSE Cooldown

\* A weighted total stands for the last threshold it has passed: none, 10
\* (recheck_min_healthy_weighted), 20 (of a freeze, of a new cycle, and the end
\* of a confidence below 0.4) and 50 (n_full_confidence).  The 25 of a
\* resolution is left open, as the number of voters is (Resolves).
Weights == {0, 10, 20, 50}

\* Two prices, more than seven percent apart; 0 is NULL.
Prices == {1, 2}

Resolved(r) == [r EXCEPT !.needs = FALSE, !.state = "NONE", !.started = Null,
                         !.expires = Null]

Frozen(r, duration) == [r EXCEPT !.freeze = TRUE, !.until = duration]

Unfrozen(r) == [r EXCEPT !.freeze = FALSE, !.until = Null]

\* enterRecheck; into ACTIVE it ends a freeze.
InRecheck(r, state) ==
    [r EXCEPT !.needs = TRUE, !.state = state, !.started = 0, !.expires = Window]

\* The deadline is over.  Its very instant is left out.
Expired(r) == r.expires = 0

Init ==
    /\ row = [freeze |-> FALSE, until |-> Null, updated |-> 0,
              needs |-> FALSE, state |-> "NONE", started |-> Null, expires |-> Null,
              confidence |-> Null, cycleAge |-> 0, weight |-> 0, opposing |-> FALSE,
              price |-> 1, startPrice |-> 1]
    /\ page = [pc |-> "idle"]
    /\ passed = FALSE
    /\ credit = [left |-> MaxCredits, votePrice |-> 0, regainPrice |-> 0,
                 thisCycle |-> FALSE, beforeDeadline |-> FALSE]
    /\ spent = 0
    /\ overlapped = FALSE

\* Time passes.  The worker runs hourly: it sees every brick in each step.  The
\* age of the last update matters in a freeze only.
TimePasses ==
    /\ passed /\ page.pc = "idle"
    /\ passed' = FALSE
    /\ row' = [row EXCEPT !.until = Sooner(@), !.expires = Sooner(@),
                          !.updated = IF row.freeze THEN Older(@, FreezeMax + HoldOff + 1) ELSE 0,
                          !.started = Older(@, Cooldown),
                          !.confidence = Older(@, StaleAge),
                          !.cycleAge = Older(@, LowSampleAge + 1)]
    /\ spent' = IF row.expires = 1 THEN 0 ELSE spent
    /\ UNCHANGED <<page, credit, overlapped>>

-----------------------------------------------------------------------------
(* The triggers, on a row.                                                 *)

StaleConfidence(r) ==
    r.state # "ACTIVE" /\ (r.confidence = Null \/ r.confidence >= StaleAge)

LowSample(r) == ~r.freeze /\ r.cycleAge > LowSampleAge /\ r.weight < 10

FreezeIsOver(r) == r.freeze /\ (r.until = 0 \/ r.updated >= FreezeMax)

-----------------------------------------------------------------------------
(* The aggregator.  A frozen brick's events return at once.                *)

\* What a window or a cycle that begins does to the user's credits: the last
\* grant is of an older cycle, or older than the new deadline.
NewDeadline == [credit EXCEPT !.beforeDeadline = TRUE]

\* The event is counted and moves nothing: sentiment and weight change.
CountVote(w, opposing) ==
    /\ ~row.freeze
    /\ w >= row.weight
    /\ opposing => w < 20
    /\ row' = [row EXCEPT !.weight = w, !.opposing = opposing, !.updated = 0]
    /\ UNCHANGED <<page, passed, credit, spent, overlapped>>

\* Mutant: a window that is running starts over.
EntersAlways(r) == StaleConfidence(r) \/ LowSample(r) \/ r.opposing

\* Only a brick without a running window enters one.
Enters(r) ==
    /\ ~r.needs \/ Expired(r)
    /\ StaleConfidence(r) \/ LowSample(r) \/ r.opposing

\* An ACTIVE recheck ends with enough voters and weight: between 20 and 50,
\* `crowd' says both.
Resolves(r, crowd) == r.state = "ACTIVE" /\ crowd /\ r.weight >= 20

\* The row's recheck columns after a move; entering overrides resolving.
Rechecked(r, crowd) ==
    CASE Enters(r) -> InRecheck(r, "WATCH")
      [] ~Enters(r) /\ Resolves(r, crowd) -> Resolved(r)
      [] OTHER -> r

NewCycle(r) ==
    [r EXCEPT !.cycleAge = 0, !.startPrice = r.price, !.weight = 0,
              !.opposing = FALSE,
              !.confidence = IF r.weight >= 50 THEN 0 ELSE @]

\* The event moves the price, or the momentum alone: resolution, entry, then
\* freeze, then the reset of the cycle, each only without the one before it.
MovePrice(w, opposing, fair, crowd, price) ==
    LET moved == [row EXCEPT !.weight = w, !.opposing = opposing, !.updated = 0,
                             !.price = price]
        enters == Enters(moved)
        checked == Rechecked(moved, crowd)
        freezes == ~enters /\ fair
        resets == ~freezes /\ price # row.startPrice /\ (w >= 20 \/ crowd)
    IN  /\ ~row.freeze
        /\ w >= row.weight
        /\ opposing => w < 20
        /\ fair => w >= 20
        /\ IF freezes THEN \E d \in Freezes : row' = Frozen(checked, d)
           ELSE row' = IF resets THEN NewCycle(checked) ELSE checked
        /\ credit' = LET c == IF enters THEN NewDeadline ELSE credit
                     IN  IF resets THEN [c EXCEPT !.thisCycle = FALSE] ELSE c
        /\ spent' = IF enters \/ resets \/ price # row.price THEN 0 ELSE spent
        /\ overlapped' = (overlapped \/ page.pc # "idle")
        /\ UNCHANGED <<page, passed>>

-----------------------------------------------------------------------------
(* The recheck worker.                                                     *)

\* The triggers in their order of priority.
Trigger(r) ==
    CASE FreezeIsOver(r) -> "ACTIVE"
      [] ~FreezeIsOver(r) /\ (StaleConfidence(r) \/ LowSample(r) \/ r.opposing) -> "WATCH"
      [] OTHER -> "none"

InCooldown(r) == r.started # Null /\ r.started < Cooldown

Running(r) == r.needs /\ r.expires # Null /\ ~Expired(r)

\* All that processBrick goes by is in the page: what it will write is settled
\* here.  An expired window is cleared first, in a statement of its own; an
\* ACTIVE one is then set to WATCH, and the triggers wait for the next pass.
ReadPage ==
    /\ page.pc = "idle"
    /\ IF InCooldown(row) \/ Running(row)
       THEN passed' = TRUE /\ UNCHANGED page
       ELSE /\ page' = [pc |-> IF row.needs /\ Expired(row) THEN "clear" ELSE "write",
                        write |-> IF row.state = "ACTIVE" /\ Expired(row)
                                  THEN "downgrade" ELSE Trigger(row),
                        thaw |-> row.freeze]
            /\ UNCHANGED passed
    /\ UNCHANGED <<row, credit, spent, overlapped>>

ClearWindow ==
    /\ page.pc = "clear"
    /\ row' = Resolved(row)
    /\ page' = [page EXCEPT !.pc = "write"]
    /\ UNCHANGED <<passed, credit, spent, overlapped>>

Downgraded(r) == [r EXCEPT !.state = "WATCH", !.expires = Null]

\* By brick id, whatever the row says now.
WriteBrick ==
    /\ page.pc = "write"
    /\ row' = CASE page.write = "downgrade" -> Downgraded(row)
                [] page.write = "none" -> row
                [] page.write = "WATCH" -> InRecheck(row, "WATCH")
                [] page.write = "ACTIVE" ->
                     InRecheck(IF page.thaw THEN Unfrozen(row) ELSE row, "ACTIVE")
    /\ credit' = IF page.write \in {"WATCH", "ACTIVE"} THEN NewDeadline ELSE credit
    /\ spent' = IF page.write \in {"WATCH", "ACTIVE"} THEN 0 ELSE spent
    /\ page' = [pc |-> "idle"]
    /\ passed' = TRUE
    /\ UNCHANGED overlapped

-----------------------------------------------------------------------------
(* The enricher, for one verified user.                                    *)

\* Rule 1: the price is away from that of the last vote and the last regain.
PriceMoved(c) == c.votePrice \notin {0, row.price} /\ c.regainPrice # row.price

\* Mutant: a deadline that is over grants again and again.
MayGrantWhenOver(c) == ~c.thisCycle \/ Expired(row)

\* Rule 2: no grant in this cycle, or the last one before a deadline now over.
MayGrant(c) == ~c.thisCycle \/ (Expired(row) /\ c.beforeDeadline)

Regained(c) == [c EXCEPT !.left = 1, !.regainPrice = row.price]

\* checkCreditRegain, for a user who has none left.
Regain(c) ==
    CASE c.left = 0 /\ PriceMoved(c) -> Regained(c)
      [] c.left = 0 /\ ~PriceMoved(c) /\ (row.needs \/ row.state = "ACTIVE") /\ MayGrant(c) ->
           [Regained(c) EXCEPT !.thisCycle = TRUE,
                               !.beforeDeadline = ~Expired(row)]
      [] OTHER -> c

\* processIntent: regain, check, consume.  Without credits all is rolled back.
Vote ==
    LET c == Regain(credit)
    IN  /\ c.left > 0
        /\ credit' = [c EXCEPT !.left = @ - 1, !.votePrice = row.price]
        /\ spent' = IF spent > MaxCredits + 1 THEN spent ELSE spent + 1
        /\ UNCHANGED <<row, page, passed, overlapped>>

Next ==
    \/ TimePasses
    \/ \E w \in Weights, opposing \in BOOLEAN : CountVote(w, opposing)
    \/ \E w \in Weights, opposing, fair, crowd \in BOOLEAN, price \in Prices :
           MovePrice(w, opposing, fair, crowd, price)
    \/ ReadPage \/ ClearWindow \/ WriteBrick
    \/ Vote

Spec == Init /\ [][Next]_vars

-----------------------------------------------------------------------------
TypeOK ==
    /\ row.freeze \in BOOLEAN /\ row.until \in Null..FreezeMax
    /\ row.freeze <=> row.until # Null
    /\ row.needs \in BOOLEAN /\ row.state \in {"NONE", "WATCH", "ACTIVE"}
    /\ row.started \in Null..Cooldown /\ row.expires \in Null..Window
    /\ row.weight \in Weights /\ row.price \in Prices /\ row.startPrice \in Prices
    /\ page.pc \in {"idle", "clear", "write"}
    /\ credit.left \in 0..MaxCredits

\* A freeze ends.  Votes cannot end it (a frozen brick's events return early)
\* and a recheck that begins while it lasts holds the worker off once, but not
\* again (freezeShouldTriggerRecheck comes first).
FreezesEnd == row.freeze => row.updated <= FreezeMax + HoldOff

\* A brick that needs a recheck has a window with a beginning and an end, so
\* that the worker will clear it, unless an event moved the row between the
\* two statements of the worker, or between its page and its write.
WindowIsComplete ==
    overlapped \/ (row.needs => row.state # "NONE" /\ Null \notin {row.started, row.expires})

\* A window that is running is not started over: its end comes nearer or it is
\* resolved, unless the worker wrote from a page an event had overtaken.
WindowRunsOut ==
    \/ overlapped'
    \/ ~(row.needs /\ row.expires > 0 /\ row'.needs)
    \/ row'.expires \in {row.expires, row.expires - 1}

\* While the price, the cycle and the recheck window stay what they are, a user
\* gets at most one vote beyond the credits of a newcomer, in whatever order
\* moves, windows and cycles came before.
CreditsAreScarce == spent <= MaxCredits + 1
=============================================================================
