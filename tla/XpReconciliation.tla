-------------------------- MODULE XpReconciliation --------------------------
(***************************************************************************)
(* scripts/xp-reconciliation-worker.js: from xp_events (XpLog) to the      *)
(* total and the level of one user; users share no row and no lock.        *)
(* processUser is one transaction under the user's advisory lock: it       *)
(* fetches the events above last_reconciled_xp_event_id in createdAt       *)
(* order, applies them one by one, and writes the progress row.  The       *)
(* column highest_level_ever always equals current_level: left out.        *)
(***************************************************************************)
EXTENDS XpLog, FiniteSetsExt

CONSTANTS
    User,     \* the user whose progress is followed
    Workers,  \* processes running the worker
    MinXp     \* level_definitions: level_number -> min_xp

ASSUME UserAssumption == User \in Users
ASSUME LevelsAssumption == MinXp \in Seq(Nat) /\ Len(MinXp) > 0

VARIABLES
    row,      \* user_progress_state of the user
    ups,      \* level_up_events of the user
    worker,   \* the transaction of each worker
    counted   \* history: how often each event is in the row's total

vars == <<log, row, ups, worker, counted>>

Levels == DOMAIN MinXp
IdleWorker == [at |-> "idle", todo |-> {}, done |-> <<>>, total |-> 0, level |-> 1,
               last |-> 0, ups |-> <<>>]
LevelUp == [from : Nat, to : Nat, event : Ids]

TypeOK ==
    /\ LogTypeOK
    /\ row \in [total : Int, level : Levels, last : Ids \cup {0}]
    /\ ups \in Seq(LevelUp)
    /\ worker \in [Workers -> [at : {"idle", "applying"}, todo : SUBSET Ids, done : Seq(Ids),
                               total : Int, level : Levels, last : Ids \cup {0},
                               ups : Seq(LevelUp)]]
    /\ counted \in [Ids -> Nat]

Init ==
    /\ LogInit
    /\ row = [total |-> 0, level |-> 1, last |-> 0]
    /\ ups = <<>>
    /\ worker = [p \in Workers |-> IdleWorker]
    /\ counted = [i \in Ids |-> 0]

-----------------------------------------------------------------------------
(* The worker.                                                               *)

(* Mutant: counts the levels reached from level 1 on instead of from none.   *)
ResolveLevelFromOne(xp) == 1 + Cardinality({m \in Levels : MinXp[m] <= xp})

ResolveLevel(xp) ==
    CHOOSE l \in Levels :
        /\ l = 1 \/ MinXp[l] <= xp
        /\ \A m \in Levels : MinXp[m] <= xp => m <= l

(* pg_advisory_xact_lock(user), and the progress row FOR UPDATE.             *)
UserLockFree == \A p \in Workers : worker[p].at = "idle"

Mine(i) == event[i] = "COMMITTED" /\ owner[i] = User

Unreconciled == {i \in Ids : Mine(i) /\ i > row.last}

FetchEvents(p) ==
    /\ worker[p].at = "idle" /\ UserLockFree
    /\ Unreconciled # {}
    /\ worker' = [worker EXCEPT ![p] =
           [IdleWorker EXCEPT !.at = "applying", !.todo = Unreconciled, !.total = row.total,
                              !.level = row.level, !.last = row.last]]
    /\ UNCHANGED <<log, row, ups, counted>>

(* Mutant: the level follows the total downwards too.                        *)
ApplyEventMayDemote(p) ==
    LET i == Earliest(worker[p].todo)
        newTotal == worker[p].total + delta[i]
        resolved == ResolveLevel(newTotal)
        ups1 == [from |-> worker[p].level, to |-> resolved, event |-> i]
    IN  /\ worker[p].at = "applying" /\ worker[p].todo # {}
        /\ worker' = [worker EXCEPT
               ![p].todo = @ \ {i}, ![p].done = Append(@, i), ![p].total = newTotal,
               ![p].last = i, ![p].level = resolved,
               ![p].ups = IF resolved > worker[p].level THEN Append(@, ups1) ELSE @]
        /\ UNCHANGED <<log, row, ups, counted>>

ApplyEvent(p) ==
    LET i == Earliest(worker[p].todo)
        newTotal == worker[p].total + delta[i]
        resolved == ResolveLevel(newTotal)
        rises == resolved > worker[p].level
    IN  /\ worker[p].at = "applying" /\ worker[p].todo # {}
        /\ worker' = [worker EXCEPT
               ![p].todo = @ \ {i},
               ![p].done = Append(@, i),
               ![p].total = newTotal,
               ![p].last = i,
               ![p].level = IF rises THEN resolved ELSE @,
               ![p].ups = IF rises
                          THEN Append(@, [from |-> worker[p].level, to |-> resolved,
                                          event |-> i])
                          ELSE @]
        /\ UNCHANGED <<log, row, ups, counted>>

TimesDone(p, i) == Cardinality({k \in DOMAIN worker[p].done : worker[p].done[k] = i})

SaveProgress(p) ==
    /\ worker[p].at = "applying" /\ worker[p].todo = {}
    /\ row' = [total |-> worker[p].total, level |-> worker[p].level, last |-> worker[p].last]
    /\ ups' = ups \o worker[p].ups
    /\ counted' = [i \in Ids |-> counted[i] + TimesDone(p, i)]
    /\ worker' = [worker EXCEPT ![p] = IdleWorker]
    /\ UNCHANGED log

(* The process dies or the transaction fails: rollback.                      *)
WorkerDies(p) ==
    /\ worker[p].at = "applying"
    /\ worker' = [worker EXCEPT ![p] = IdleWorker]
    /\ UNCHANGED <<log, row, ups, counted>>

-----------------------------------------------------------------------------
Next ==
    \/ LogNext /\ UNCHANGED <<row, ups, worker, counted>>
    \/ \E p \in Workers : FetchEvents(p)
    \/ \E p \in Workers : ApplyEvent(p)
    \/ \E p \in Workers : SaveProgress(p)
    \/ \E p \in Workers : WorkerDies(p)

Spec == Init /\ [][Next]_vars

-----------------------------------------------------------------------------
(* Properties.                                                               *)

(* The total is the sum of the events counted into it: two workers for one   *)
(* user do not overwrite each other's total.                                 *)
TotalIsCounted == row.total = MapThenSumSet(LAMBDA i : counted[i] * delta[i], Ids)

(* The level_up_events of a user form one chain from level 1 to the current  *)
(* level, each step upwards, although total XP may fall in between.          *)
LevelUpsChain ==
    LET reached == [k \in 0 .. Len(ups) |-> IF k = 0 THEN 1 ELSE ups[k].to]
    IN  /\ \A k \in 1 .. Len(ups) : ups[k].from = reached[k - 1] /\ ups[k].to > ups[k].from
        /\ row.level = reached[Len(ups)]

(* An event is in the total exactly when the cursor has reached its id, and  *)
(* it is there once ("Process all unreconciled confirmed xp_events for one   *)
(* user", xp-reconciliation-worker.js:64), as long as no two transactions    *)
(* awarded the user XP at the same time.  When they do, a late commit may be *)
(* left behind the cursor for ever.                                          *)
CursorIsExact ==
    ~overlap => \A i \in Ids : Mine(i) => counted[i] = IF i <= row.last THEN 1 ELSE 0

(* What two workers write into one row as absolute values is one history:    *)
(* its total, its level and its cursor agree with the events.                *)
ReconciliationIsExact ==
    /\ TotalIsCounted
    /\ LevelUpsChain
    /\ CursorIsExact

(* "Cursor-based, idempotent" (context/project-overview.md:219): no event is *)
(* counted twice.  Refuted when createdAt and id disagree: the cursor is the *)
(* id of the latest event, not the highest id.                               *)
CountedOnce == \A i \in Ids : counted[i] <= 1
=============================================================================
