---------------------------- MODULE VotePipeline ----------------------------
(***************************************************************************)
(* From a vote to the price state of a brick:                              *)
(*                                                                         *)
(*   controllers/VoteIntentController   inserts a PENDING vote_intents row *)
(*   scripts/enrich-votes.js            turns intents into vote_events     *)
(*   scripts/aggregate-prices.js        adds the events to the brick's     *)
(*                                      counters, closes its cycles and    *)
(*                                      freezes it                         *)
(*   scripts/recheck-worker.js          ends a freeze                      *)
(*                                                                         *)
(* The two workers are processes that loop: read worker_cursors, fetch a   *)
(* batch of rows above the cursor, process each row in a transaction of    *)
(* its own, and move the cursor in another one.  They may die between any  *)
(* two of these and start again.  Weights and prices are abstracted: a     *)
(* verified vote weighs one, and when the counters suffice a vote may or   *)
(* may not close the cycle or freeze the brick.                            *)
(***************************************************************************)
EXTENDS Integers, FiniteSets, Sequences

CONSTANTS
    Users,       \* voters
    Verified,    \* those whose identity has emailVerified: only they weigh and pay
    Bricks,
    MaxVotes,    \* bound on the intents made
    MaxCredits,  \* pricing.vote_credits_max
    MinTotal,    \* weight under which a cycle neither moves, closes nor freezes
    MaxCycle,    \* bound on the cycles of a brick
    MaxCrashes,  \* bound on the deaths of the two workers
    Batch,       \* rows a worker fetches at once
    NoUser, NoBrick   \* no value: an intent not made yet

ASSUME VotersAssumption == Verified \subseteq Users
ASSUME BoundsAssumption ==
    /\ MaxVotes \in Nat /\ MaxCredits \in Nat \ {0}
    /\ MinTotal \in Nat \ {0} /\ MaxCycle \in Nat \ {0} /\ MaxCrashes \in Nat
ASSUME BatchAssumption == Batch \in Nat \ {0}

VARIABLES
    intent,    \* vote_intents.status, by id; "DRAWN" has its id and is not committed
    voter,     \* vote_intents.user_id
    target,    \* vote_intents.brick_id
    credits,   \* user_brick_vote_credits.credits_remaining
    events,    \* vote_events in id order
    cycle,     \* brick_price_state.current_cycle_id, as the number of the cycle
    total,     \* brick_price_state.weighted_total
    frozen,    \* brick_price_state.freeze_mode
    closes,    \* pricing_cycle_close_events.weighted_total_at_close, cycle by cycle
    eCursor, aCursor,   \* worker_cursors of vote_enricher and price_aggregator
    enricher, aggregator,  \* the workers' own state
    counted,   \* history: how often each event was added to the counters
    passed,    \* history: events the aggregator dismissed
    crashes    \* deaths so far

intents == <<intent, voter, target>>
brick == <<cycle, total, frozen, closes>>
history == <<counted, passed>>
vars == <<intent, voter, target, credits, events, cycle, total, frozen, closes,
          eCursor, aCursor, enricher, aggregator, counted, passed, crashes>>

Ids == 1 .. MaxVotes
Event == [intent : Ids, user : Users, brick : Bricks, cycle : Nat]

Stopped == [at |-> "idle", batch |-> {}, cycle |-> 0]
Worker == [at : {"idle", "next", "save", "reject", "cursor"}, batch : SUBSET Ids, cycle : Nat]

TypeOK ==
    /\ intent \in [Ids -> {"NONE", "DRAWN", "PENDING", "PROCESSED", "REJECTED"}]
    /\ voter \in [Ids -> Users \cup {NoUser}]
    /\ target \in [Ids -> Bricks \cup {NoBrick}]
    /\ credits \in [Users \X Bricks -> 0 .. MaxCredits]
    /\ events \in Seq(Event) /\ Len(events) <= MaxVotes
    /\ cycle \in [Bricks -> 1 .. MaxCycle]
    /\ total \in [Bricks -> Nat]
    /\ frozen \in [Bricks -> BOOLEAN]
    /\ closes \in [Bricks -> Seq(Nat)]
    /\ eCursor \in 0 .. MaxVotes /\ aCursor \in 0 .. MaxVotes
    /\ enricher \in Worker /\ aggregator \in Worker
    /\ counted \in [Ids -> Nat] /\ passed \subseteq Ids
    /\ crashes \in 0 .. MaxCrashes

Init ==
    /\ intent = [i \in Ids |-> "NONE"]
    /\ voter = [i \in Ids |-> NoUser]
    /\ target = [i \in Ids |-> NoBrick]
    /\ credits = [c \in Users \X Bricks |-> MaxCredits]
    /\ events = <<>>
    /\ cycle = [b \in Bricks |-> 1]
    /\ total = [b \in Bricks |-> 0]
    /\ frozen = [b \in Bricks |-> FALSE]
    /\ closes = [b \in Bricks |-> <<>>]
    /\ eCursor = 0 /\ aCursor = 0
    /\ enricher = Stopped /\ aggregator = Stopped
    /\ counted = [i \in Ids |-> 0] /\ passed = {}
    /\ crashes = 0

-----------------------------------------------------------------------------
(* The API.  An INSERT draws its id from the sequence before it commits, so  *)
(* ids of concurrent votes become visible in any order.                      *)

DrawId(i, u, b) ==
    /\ intent[i] = "NONE"
    /\ \A j \in Ids : j < i => intent[j] # "NONE"
    /\ intent' = [intent EXCEPT ![i] = "DRAWN"]
    /\ voter' = [voter EXCEPT ![i] = u]
    /\ target' = [target EXCEPT ![i] = b]
    /\ UNCHANGED <<credits, events, brick, eCursor, aCursor, enricher, aggregator,
                   history, crashes>>

CommitIntent(i) ==
    /\ intent[i] = "DRAWN"
    /\ intent' = [intent EXCEPT ![i] = "PENDING"]
    /\ UNCHANGED <<voter, target, credits, events, brick, eCursor, aCursor, enricher,
                   aggregator, history, crashes>>

-----------------------------------------------------------------------------
(* Both workers.                                                             *)

Least(S) == CHOOSE i \in S : \A j \in S : i <= j
FirstOf(S) == {i \in S : Cardinality({j \in S : j < i}) < Batch}

(* The worker after one row: the next one, or the end of its run.            *)
AfterRow(w) ==
    LET rest == w.batch \ {Least(w.batch)}
    IN  IF rest = {} THEN Stopped ELSE [at |-> "next", batch |-> rest, cycle |-> 0]

-----------------------------------------------------------------------------
(* The enricher.                                                             *)

Current == Least(enricher.batch)

FetchIntents ==
    LET found == {i \in Ids : intent[i] = "PENDING" /\ i > eCursor}
    IN  /\ enricher.at = "idle" /\ found # {}
        /\ enricher' = [Stopped EXCEPT !.at = "next", !.batch = FirstOf(found)]
        /\ UNCHANGED <<intents, credits, events, brick, eCursor, aCursor, aggregator,
                       history, crashes>>

(* processIntent reads the brick's state, unlocked, before it writes.        *)
ReadBrick ==
    /\ enricher.at = "next"
    /\ enricher' = [enricher EXCEPT !.at = "save", !.cycle = cycle[target[Current]]]
    /\ UNCHANGED <<intents, credits, events, brick, eCursor, aCursor, aggregator,
                   history, crashes>>

(* Mutant: the intent is marked after the transaction, with the cursor.      *)
SaveEventUnmarked ==
    LET i == Current
    IN  /\ enricher.at = "save"
        /\ events' = Append(events, [intent |-> i, user |-> voter[i], brick |-> target[i],
                                     cycle |-> enricher.cycle])
        /\ enricher' = [enricher EXCEPT !.at = "cursor"]
        /\ UNCHANGED <<intents, credits, brick, eCursor, aCursor, aggregator, history,
                       crashes>>

(* Mutant: the credit row is decremented without looking at it.              *)
SaveEventUnchecked ==
    LET i == Current
        u == voter[i]
        b == target[i]
    IN  /\ enricher.at = "save"
        /\ credits' = [credits EXCEPT ![<<u, b>>] = @ - 1]
        /\ events' = Append(events, [intent |-> i, user |-> u, brick |-> b,
                                     cycle |-> enricher.cycle])
        /\ intent' = [intent EXCEPT ![i] = "PROCESSED"]
        /\ enricher' = [enricher EXCEPT !.at = "cursor"]
        /\ UNCHANGED <<voter, target, brick, eCursor, aCursor, aggregator, history, crashes>>

(* A verified vote takes a credit, after checkCreditRegain may have given    *)
(* one back to a voter who had none.                                         *)
SaveEvent ==
    LET i == Current
        u == voter[i]
        b == target[i]
        event == [intent |-> i, user |-> u, brick |-> b, cycle |-> enricher.cycle]
    IN  /\ enricher.at = "save"
        /\ IF u \in Verified
           THEN \E c \in {credits[u, b]} \cup (IF credits[u, b] = 0 THEN {1} ELSE {}) :
                    c > 0 /\ credits' = [credits EXCEPT ![<<u, b>>] = c - 1]
           ELSE UNCHANGED credits
        /\ events' = Append(events, event)
        /\ intent' = [intent EXCEPT ![i] = "PROCESSED"]
        /\ enricher' = [enricher EXCEPT !.at = "cursor"]
        /\ UNCHANGED <<voter, target, brick, eCursor, aCursor, aggregator, history, crashes>>

(* No credits, or any statement of the transaction failed: all of it is      *)
(* rolled back and the catch block goes on.                                  *)
EnrichThrows ==
    /\ enricher.at = "save"
    /\ enricher' = [enricher EXCEPT !.at = "reject"]
    /\ UNCHANGED <<intents, credits, events, brick, eCursor, aCursor, aggregator,
                   history, crashes>>

RejectIntent ==
    /\ enricher.at = "reject"
    /\ intent' = [intent EXCEPT ![Current] = "REJECTED"]
    /\ enricher' = [enricher EXCEPT !.at = "cursor"]
    /\ UNCHANGED <<voter, target, credits, events, brick, eCursor, aCursor, aggregator,
                   history, crashes>>

(* Mutant: the cursor is moved to the end of the batch at its first row.     *)
MoveEnricherPastBatch ==
    /\ enricher.at = "cursor"
    /\ eCursor' = CHOOSE i \in enricher.batch : \A j \in enricher.batch : j <= i
    /\ enricher' = AfterRow(enricher)
    /\ UNCHANGED <<intents, credits, events, brick, aCursor, aggregator, history, crashes>>

MoveEnricherCursor ==
    /\ enricher.at = "cursor"
    /\ eCursor' = Current
    /\ enricher' = AfterRow(enricher)
    /\ UNCHANGED <<intents, credits, events, brick, aCursor, aggregator, history, crashes>>

EnricherDies ==
    /\ enricher.at # "idle" /\ crashes < MaxCrashes
    /\ enricher' = Stopped
    /\ crashes' = crashes + 1
    /\ UNCHANGED <<intents, credits, events, brick, eCursor, aCursor, aggregator, history>>

-----------------------------------------------------------------------------
(* The aggregator.  Its transaction holds the brick's row FOR UPDATE.        *)

Row == Least(aggregator.batch)
Weight(e) == IF events[e].user \in Verified THEN 1 ELSE 0

FetchEvents ==
    LET found == {e \in DOMAIN events : e > aCursor}
    IN  /\ aggregator.at = "idle" /\ found # {}
        /\ aggregator' = [Stopped EXCEPT !.at = "next", !.batch = FirstOf(found)]
        /\ UNCHANGED <<intents, credits, events, brick, eCursor, aCursor, enricher,
                       history, crashes>>

RowDone == aggregator' = [aggregator EXCEPT !.at = "cursor"]

(* Mutant: the cycle of the event is not compared.                           *)
CountsAnyCycle(b) == ~frozen[b]

(* Votes of an older cycle and votes met during a freeze do not count.       *)
Counts(b) == events[Row].cycle = cycle[b] /\ ~frozen[b]

SkipEvent ==
    LET b == events[Row].brick
    IN  /\ aggregator.at = "next" /\ ~Counts(b)
        /\ RowDone
        /\ passed' = passed \cup {Row}
        /\ UNCHANGED <<intents, credits, events, brick, eCursor, aCursor, enricher,
                       counted, crashes>>

CountEvent ==
    LET b == events[Row].brick
        newTotal == total[b] + Weight(Row)
    IN  /\ aggregator.at = "next" /\ Counts(b)
        /\ \/ /\ total' = [total EXCEPT ![b] = newTotal]
              /\ UNCHANGED <<cycle, frozen, closes>>
           \/ /\ newTotal >= MinTotal    \* freeze entry
              /\ total' = [total EXCEPT ![b] = newTotal]
              /\ frozen' = [frozen EXCEPT ![b] = TRUE]
              /\ UNCHANGED <<cycle, closes>>
           \/ /\ newTotal >= MinTotal    \* cycle reset
              /\ cycle[b] < MaxCycle
              /\ total' = [total EXCEPT ![b] = 0]
              /\ cycle' = [cycle EXCEPT ![b] = @ + 1]
              /\ closes' = [closes EXCEPT ![b] = Append(@, newTotal)]
              /\ UNCHANGED frozen
        /\ RowDone
        /\ counted' = [counted EXCEPT ![Row] = @ + 1]
        /\ UNCHANGED <<intents, credits, events, eCursor, aCursor, enricher, passed, crashes>>

(* The transaction fails; main logs the error and goes on.                   *)
AggregateThrows ==
    /\ aggregator.at = "next"
    /\ RowDone
    /\ passed' = passed \cup {Row}
    /\ UNCHANGED <<intents, credits, events, brick, eCursor, aCursor, enricher,
                   counted, crashes>>

MoveAggregatorCursor ==
    /\ aggregator.at = "cursor"
    /\ aCursor' = Row
    /\ aggregator' = AfterRow(aggregator)
    /\ UNCHANGED <<intents, credits, events, brick, eCursor, enricher, history, crashes>>

AggregatorDies ==
    /\ aggregator.at # "idle" /\ crashes < MaxCrashes
    /\ aggregator' = Stopped
    /\ crashes' = crashes + 1
    /\ UNCHANGED <<intents, credits, events, brick, eCursor, aCursor, enricher, history>>

-----------------------------------------------------------------------------
(* recheck-worker, when a freeze has lasted long enough.                     *)

ExitFreeze(b) ==
    /\ frozen[b]
    /\ frozen' = [frozen EXCEPT ![b] = FALSE]
    /\ UNCHANGED <<intents, credits, events, cycle, total, closes, eCursor, aCursor,
                   enricher, aggregator, history, crashes>>

-----------------------------------------------------------------------------
EnricherStep ==
    \/ FetchIntents \/ ReadBrick \/ SaveEvent \/ EnrichThrows \/ RejectIntent
    \/ MoveEnricherCursor

AggregatorStep ==
    \/ FetchEvents \/ SkipEvent \/ CountEvent \/ AggregateThrows
    \/ MoveAggregatorCursor

Next ==
    \/ \E i \in Ids, u \in Users, b \in Bricks : DrawId(i, u, b)
    \/ \E i \in Ids : CommitIntent(i)
    \/ EnricherStep \/ EnricherDies
    \/ AggregatorStep \/ AggregatorDies
    \/ \E b \in Bricks : ExitFreeze(b)

Spec == Init /\ [][Next]_vars

(* An INSERT that drew its id commits; both workers keep running, as their   *)
(* supervisor restarts them (docs/DEVOPS_WORKER_SETUP.md).  Nothing is asked *)
(* of users or of the recheck worker.                                        *)
Fairness ==
    /\ \A i \in Ids : WF_vars(CommitIntent(i))
    /\ WF_vars(EnricherStep)
    /\ WF_vars(AggregatorStep)

FairSpec == Spec /\ Fairness

-----------------------------------------------------------------------------
(* Properties.                                                               *)

EventsOf(i) == {e \in DOMAIN events : events[e].intent = i}

(* An intent has an event exactly when it is PROCESSED, and then only one,   *)
(* wherever the enricher dies and whatever it fetches again afterwards.      *)
OneEventPerIntent ==
    \A i \in Ids : Cardinality(EventsOf(i)) = IF intent[i] = "PROCESSED" THEN 1 ELSE 0

(* What the votes of one cycle added, as a number of elements.               *)
Added(e) == IF Weight(e) = 1 THEN {e} \X (1 .. counted[e]) ELSE {}
WeightOf(b, c) ==
    Cardinality(UNION {Added(e) : e \in
        {e \in DOMAIN events : events[e].brick = b /\ events[e].cycle = c}})

(* "All weighted counters are current_cycle_id only"                         *)
(* (docs/FINAL_REQUIREMENT.md:589): the total is what the votes of the       *)
(* current cycle added, although the enricher stamps an event with a cycle   *)
(* that may have closed since it read it.                                    *)
CountersAreCurrentCycle == \A b \in Bricks : total[b] = WeightOf(b, cycle[b])

(* The weighted_total_at_close of a cycle stays the weight of its votes: a   *)
(* vote that was stamped before the close and aggregated after it, or one    *)
(* processed again after a crash, adds to neither the old nor the new cycle. *)
ClosedTotalsStand ==
    \A b \in Bricks : \A c \in 1 .. cycle[b] - 1 : closes[b][c] = WeightOf(b, c)

(* Every cycle, closed or current, holds the votes that belong to it.        *)
CyclesHoldTheirVotes ==
    /\ CountersAreCurrentCycle
    /\ ClosedTotalsStand

(* The aggregator's cursor never passes an event it has neither counted nor  *)
(* dismissed.                                                                *)
NothingPassedOver ==
    \A e \in DOMAIN events : e <= aCursor => counted[e] > 0 \/ e \in passed

(* Neither worker skips or doubles what its cursor passes, wherever it dies  *)
(* and whatever it fetches again.                                            *)
StreamsAreExact ==
    /\ OneEventPerIntent
    /\ NothingPassedOver

(* The aggregator gets to every event: one that throws does not block it.    *)
EventsAreReached == \A n \in Ids : Len(events) >= n ~> aCursor >= n

(* "Every worker operation must be safe to run multiple times"               *)
(* (context/project-overview.md:624).  Refuted by a death of the aggregator  *)
(* between a vote's transaction and its cursor.                              *)
CountedOnce == \A e \in DOMAIN events : counted[e] <= 1

(* Workers track the last processed id "at-least-once"                       *)
(* (docs/SPECIFICATION.md:519): a vote the API accepted is processed or      *)
(* rejected in the end, wherever the enricher dies, if it was visible before *)
(* the enricher took a later one.  Nothing is promised to a vote that        *)
(* commits after a higher id was fetched: it stays PENDING.                  *)
VisibleIntentsSettle ==
    \A i \in Ids :
        intent[i] = "PENDING" /\ i > eCursor /\ (\A j \in enricher.batch : j <= i)
            ~> intent[i] \in {"PROCESSED", "REJECTED"}

(* What was accepted arrives: intents at an event or a rejection, events at  *)
(* the aggregator.                                                           *)
VotesArriveInTheEnd ==
    /\ EventsAreReached
    /\ VisibleIntentsSettle
=============================================================================
