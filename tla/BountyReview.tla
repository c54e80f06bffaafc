---------------------------- MODULE BountyReview ----------------------------
(***************************************************************************)
(* Submitting and reviewing bounty submissions:                            *)
(*                                                                         *)
(*   submit   BountySubmissionService.submit                               *)
(*   approve  BountyApprovalService.approve                                *)
(*   apply    BountyApprovalAndApplyService.approveAndApply                *)
(*   reject   BountySubmissionService.reject                               *)
(*   reset    monthly-budget-reset-worker.processOneTick                   *)
(*                                                                         *)
(* beside whoever else writes bounties of the bricks: the generator and    *)
(* the admins' create, pause, close and reopen.                            *)
(*                                                                         *)
(* Each is a PostgreSQL transaction at READ COMMITTED.  Reads see what is  *)
(* committed, and a write waits for the row's lock, which its transaction  *)
(* keeps to the end.  A session therefore goes through its transaction     *)
(* lock by lock, in the order of the code's statements: `todo' holds the   *)
(* advisory and row locks it still has to take, `held' those it has.  The  *)
(* writes become visible together, in the Commit action that ends it.      *)
(***************************************************************************)
EXTENDS Integers, FiniteSets, Sequences

CONSTANTS
    Users,       \* users who submit
    Subs,        \* identifiers bounty_submissions.id can take: bounds the submissions
    Instances,   \* rows of bounty_instances
    Bricks,      \* rows of bricks
    Sessions,    \* database sessions: concurrent HTTP requests
    InstOf,      \* bounty_submissions.bounty_instance_id
    BrickOf,     \* bounty_instances.brick_id
    Reward,      \* bounty_submissions.cash_reward_cents, captured by submit
    Budget,      \* admin_settings monthly_cash_budget_cents
    TenApprovals, \* accepted submissions that earn the second milestone (10 in the code)
    Edited,      \* the bounties that others write beside the reviews (WriteInstance):
                 \* Instances in the code, a bound of the runs
    NoSub        \* no value: tx[s].sub of an idle session

ASSUME ForeignKeys ==
    /\ InstOf \in [Subs -> Instances]
    /\ BrickOf \in [Instances -> Bricks]
ASSUME EditedAssumption == Edited \subseteq Instances
ASSUME RewardsAssumption == Reward \in [Subs -> Nat] /\ Budget \in Nat
ASSUME FiniteSubs == IsFiniteSet(Subs)
ASSUME MilestoneAssumption == TenApprovals \in Nat \ {0, 1}
ASSUME NoSubAssumption == NoSub \notin Subs

VARIABLES
    author,    \* bounty_submissions.user_id: who submits x, fixed from the start
    sub,       \* bounty_submissions.status; "NONE" is a row not inserted yet
    inst,      \* bounty_instances.status; "NONE" is a row not inserted yet
    ledger,    \* bounty_reward_events, by its unique key <<submission, kind>>
    funded,    \* the rows of ledger whose cash_delta_cents is the captured cash, not 0
    month,     \* history: the funded rows committed since the last budget reset
    cash,      \* user_balances.cash_balance_cents
    spent,     \* admin_settings monthly_cash_spent_cents
    accepted,  \* user_bounty_stats.accepted_submissions
    pending,   \* user_bounty_stats.pending_submissions
    rejected,  \* user_bounty_stats.rejected_submissions
    xp,        \* xp_events, by their idempotency key
    contested, \* history: the submissions of which two reviews were ever open at once
    tx         \* the transaction each session is in

money == <<ledger, funded, month, cash, spent>>
stats == <<accepted, pending, rejected>>
data == <<sub, inst, ledger, funded, month, cash, spent, accepted, pending, rejected, xp>>
vars == <<author, data, contested, tx>>

SubStatus == {"PENDING", "APPROVED", "APPLIED_TO_BRICK", "REJECTED"}
InstStatus == {"OPEN", "PAUSED", "CLOSED"}
Rewarding == {"approve", "apply"}
Reviews == Rewarding \cup {"reject"}
Kinds == Reviews \cup {"submit"}

(* What the transactions wait for.  An apply also locks the instance row it  *)
(* closes, from CountOpen to its end: for another apply the brick's row      *)
(* stands for it, and WriteInstance waits for it.                            *)
UserLock(k, u) == <<IF k \in Rewarding THEN "bounty_approve"
                    ELSE IF k = "reject" THEN "bounty_reject"
                    ELSE "bounty_submit", u>>
BudgetRow == <<"admin_settings", "monthly_cash_spent_cents">>
Locks ==
    ({"bounty_approve", "bounty_reject", "bounty_submit",
      "user_balances", "user_bounty_stats"} \X Users)
    \cup ({"bounty_submissions"} \X Subs)
    \cup ({"bricks"} \X Bricks)
    \cup {BudgetRow}

IdleTx == [kind |-> "none", step |-> "idle", sub |-> NoSub, seen |-> "NONE",
           cash |-> 0, closes |-> FALSE, last |-> FALSE, overtaken |-> FALSE,
           todo |-> <<>>, held |-> {}]

Tx == [kind : Kinds \cup {"none"}, step : {"idle", "opened", "writing", "counted"},
       sub : Subs \cup {NoSub}, seen : SubStatus \cup {"NONE"},
       cash : Nat,
       closes : BOOLEAN,     \* the transaction has closed its instance ...
       last : BOOLEAN,       \* ... and counted no other open one on the brick
       overtaken : BOOLEAN,  \* history: an instance of the brick was written since
       todo : Seq(Locks), held : SUBSET Locks]

XpKeys == ({"bounty_approved"} \X Subs) \cup ({"bounty_first", "bounty_ten"} \X Users)
          \cup ({"brick_completed"} \X Bricks \X Users)

TypeOK ==
    /\ author \in [Subs -> Users]
    /\ sub \in [Subs -> SubStatus \cup {"NONE"}]
    /\ inst \in [Instances -> InstStatus \cup {"NONE"}]
    /\ ledger \subseteq Subs \X Rewarding
    /\ funded \subseteq ledger
    /\ month \subseteq funded
    /\ cash \in [Users -> Nat]
    /\ spent \in Nat
    /\ accepted \in [Users -> Nat]
    /\ pending \in [Users -> Nat]
    /\ rejected \in [Users -> Nat]
    /\ xp \subseteq XpKeys
    /\ contested \subseteq Subs
    /\ tx \in [Sessions -> Tx]

Init ==
    /\ author \in [Subs -> Users]
    /\ sub = [x \in Subs |-> "NONE"]
    /\ inst \in [Instances -> {"NONE", "OPEN"}]
    /\ ledger = {} /\ funded = {} /\ month = {}
    /\ cash = [u \in Users |-> 0]
    /\ spent = 0
    /\ accepted = [u \in Users |-> 0]
    /\ pending = [u \in Users |-> 0]
    /\ rejected = [u \in Users |-> 0]
    /\ xp = {}
    /\ contested = {}
    /\ tx = [s \in Sessions |-> IdleTx]

-----------------------------------------------------------------------------
(* Locks.                                                                    *)

(* Mutant: no lock is ever waited for.                                       *)
NoLock(l) == TRUE

LockFree(l) == \A t \in Sessions : l \notin tx[t].held

TakeLock(s) ==
    /\ tx[s].todo # <<>>
    /\ LockFree(Head(tx[s].todo))
    /\ tx' = [tx EXCEPT ![s].todo = Tail(@),
                        ![s].held = @ \cup {Head(tx[s].todo)}]
    /\ UNCHANGED <<data, contested>>

WaitsFor(s, t) == tx[s].todo # <<>> /\ Head(tx[s].todo) \in tx[t].held
InDeadlock(s) ==
    \E C \in SUBSET Sessions :
        /\ s \in C
        /\ \A a \in C : /\ \E b \in C : WaitsFor(a, b)
                        /\ \E b \in C : WaitsFor(b, a)

EndTx(s) == tx' = [tx EXCEPT ![s] = IdleTx]

(* PostgreSQL aborts a transaction of a wait cycle.                          *)
DeadlockAbort(s) ==
    /\ InDeadlock(s)
    /\ EndTx(s)
    /\ UNCHANGED <<data, contested>>

(* The process or its connection dies, a statement fails, or the timeout of  *)
(* Prisma's $transaction fires: rollback.                                    *)
Crash(s) ==
    /\ tx[s].step # "idle"
    /\ EndTx(s)
    /\ UNCHANGED <<data, contested>>

-----------------------------------------------------------------------------
(* The statements up to the first write.                                     *)

Begin(s, k, x, st) ==
    tx' = [tx EXCEPT ![s] = [IdleTx EXCEPT !.kind = k, !.step = "opened", !.sub = x,
                                           !.seen = st,
                                           !.todo = <<UserLock(k, author[x])>>]]

(* The submission is loaded, and only then is its user's lock taken: what is *)
(* decided under the lock is decided on this earlier copy.                   *)
OpenReview(s, k, x) ==
    /\ tx[s].step = "idle"
    /\ sub[x] # "NONE"
    /\ Begin(s, k, x, sub[x])
    /\ contested' = IF \E t \in Sessions : tx[t].sub = x THEN contested \cup {x} ELSE contested
    /\ UNCHANGED data

(* submit takes its lock first; x is the identifier its INSERT will draw.    *)
OpenSubmit(s, x) ==
    /\ tx[s].step = "idle"
    /\ sub[x] = "NONE" /\ inst[InstOf[x]] # "NONE"
    /\ \A t \in Sessions : ~(tx[t].kind = "submit" /\ tx[t].sub = x)
    /\ Begin(s, "submit", x, "NONE")
    /\ UNCHANGED <<data, contested>>

Deciding(s) == tx[s].step = "opened" /\ tx[s].todo = <<>>

Proceed(s, st, actualCash, locks) ==
    /\ tx' = [tx EXCEPT ![s].step = "writing", ![s].seen = st,
                        ![s].cash = actualCash, ![s].todo = locks]
    /\ UNCHANGED <<data, contested>>

(* The statuses, as loaded, from which a review goes on; from any other it   *)
(* is the idempotent answer or a throw.                                      *)
MayReview(k, st) ==
    \/ k \in Reviews /\ st = "PENDING"
    \/ k = "apply"   /\ st = "APPROVED"

(* runApprovalCore: the key of the reward ledger was claimed before.         *)
Claimed(s) == <<tx[s].sub, tx[s].kind>> \in ledger

(* A paused bounty takes no submission: bounty_paused is thrown.             *)
Refuse(s) ==
    /\ Deciding(s)
    /\ \/ tx[s].kind \in Reviews /\ ~MayReview(tx[s].kind, tx[s].seen)
       \/ tx[s].kind \in Rewarding /\ tx[s].seen = "PENDING" /\ Claimed(s)
       \/ tx[s].kind = "submit" /\ inst[InstOf[tx[s].sub]] = "PAUSED"
    /\ EndTx(s)
    /\ UNCHANGED <<data, contested>>

(* The rows the approval core writes, in its order, then the apply step's.   *)
RewardRows(u, actualCash) ==
    <<<<"user_balances", u>>>>
    \o (IF actualCash # 0 THEN <<BudgetRow>> ELSE <<>>)
    \o <<<<"user_bounty_stats", u>>>>
SubmissionRow(x) == <<"bounty_submissions", x>>
BrickRow(x) == <<"bricks", BrickOf[InstOf[x]]>>

(* The month's budget zeroes the cash of an approval that would exceed it.   *)
ActualCash(x) == IF spent + Reward[x] <= Budget THEN Reward[x] ELSE 0

BeginApprove(s) ==
    LET x == tx[s].sub
    IN  /\ Deciding(s)
        /\ tx[s].kind = "approve" /\ tx[s].seen = "PENDING" /\ ~Claimed(s)
        /\ Proceed(s, "PENDING", ActualCash(x),
                   Append(RewardRows(author[x], ActualCash(x)), SubmissionRow(x)))

(* Mutant: the submission is applied without taking the brick's row.         *)
BeginApplyNoBrickRow(s) ==
    LET x == tx[s].sub
    IN  /\ Deciding(s)
        /\ tx[s].kind = "apply" /\ tx[s].seen = "PENDING" /\ ~Claimed(s)
        /\ Proceed(s, "PENDING", ActualCash(x),
                   Append(RewardRows(author[x], ActualCash(x)), SubmissionRow(x)))

(* Mutant: applying an approved submission goes through the approval core.   *)
BeginApplyRewardsAgain(s) ==
    LET x == tx[s].sub
    IN  /\ Deciding(s)
        /\ tx[s].kind = "apply" /\ tx[s].seen \in {"PENDING", "APPROVED"} /\ ~Claimed(s)
        /\ Proceed(s, "PENDING", ActualCash(x),
                   RewardRows(author[x], ActualCash(x)) \o <<BrickRow(x), SubmissionRow(x)>>)

BeginApply(s) ==
    LET x == tx[s].sub
    IN  /\ Deciding(s)
        /\ tx[s].kind = "apply" /\ tx[s].seen = "PENDING" /\ ~Claimed(s)
        /\ Proceed(s, "PENDING", ActualCash(x),
                   RewardRows(author[x], ActualCash(x)) \o <<BrickRow(x), SubmissionRow(x)>>)

(* Mutant: cannot_apply_<status> is not thrown.                              *)
BeginApplyOnlyAnySettled(s) ==
    LET x == tx[s].sub
    IN  /\ Deciding(s)
        /\ tx[s].kind = "apply" /\ tx[s].seen # "PENDING"
        /\ Proceed(s, "APPROVED", 0, <<BrickRow(x), SubmissionRow(x)>>)

(* An approved submission is applied without the approval core.              *)
BeginApplyOnly(s) ==
    LET x == tx[s].sub
    IN  /\ Deciding(s)
        /\ tx[s].kind = "apply" /\ tx[s].seen = "APPROVED"
        /\ Proceed(s, "APPROVED", 0, <<BrickRow(x), SubmissionRow(x)>>)

BeginReject(s) ==
    LET x == tx[s].sub
    IN  /\ Deciding(s)
        /\ tx[s].kind = "reject" /\ tx[s].seen = "PENDING"
        /\ Proceed(s, "PENDING", 0,
                   <<SubmissionRow(x), <<"user_bounty_stats", author[x]>>>>)

(* A submission to a closed bounty is rejected as "Already exists".          *)
BeginSubmit(s) ==
    LET x == tx[s].sub
    IN  /\ Deciding(s)
        /\ tx[s].kind = "submit" /\ inst[InstOf[x]] # "PAUSED"
        /\ Proceed(s, IF inst[InstOf[x]] = "OPEN" THEN "PENDING" ELSE "REJECTED", 0,
                   <<<<"user_bounty_stats", author[x]>>>>)

-----------------------------------------------------------------------------
(* The writes, under all the locks.                                          *)

Ready(s, k) == tx[s].kind = k /\ tx[s].todo = <<>>

(* Mutant: GREATEST(..., 0) is forgotten.                                    *)
OneLessUnbounded(n) == n - 1

OneLess(n) == IF n = 0 THEN 0 ELSE n - 1

(* Mutant: the count is read before the increment.                           *)
RewardXpOldCount(x) ==
    LET u == author[x]
    IN  {<<"bounty_approved", x>>}
        \cup (IF accepted[u] = 1 THEN {<<"bounty_first", u>>} ELSE {})
        \cup (IF accepted[u] = TenApprovals THEN {<<"bounty_ten", u>>} ELSE {})

(* XP of an approval: the submission's own and the user's milestones.        *)
RewardXp(x) ==
    LET u == author[x]
        newAccepted == accepted[u] + 1
    IN  {<<"bounty_approved", x>>}
        \cup (IF newAccepted = 1 THEN {<<"bounty_first", u>>} ELSE {})
        \cup (IF newAccepted = TenApprovals THEN {<<"bounty_ten", u>>} ELSE {})

(* runApprovalCore, except for its XP.                                       *)
WriteReward(s) ==
    LET x == tx[s].sub
        u == author[x]
        key == <<x, tx[s].kind>>
        paid == IF tx[s].cash # 0 THEN {key} ELSE {}
    IN  /\ ledger' = ledger \cup {key}
        /\ funded' = funded \cup paid
        /\ month' = month \cup paid
        /\ cash' = [cash EXCEPT ![u] = @ + tx[s].cash]
        /\ spent' = spent + tx[s].cash
        /\ accepted' = [accepted EXCEPT ![u] = @ + 1]
        /\ pending' = [pending EXCEPT ![u] = OneLess(@)]
        /\ UNCHANGED rejected

CommitApprove(s) ==
    LET x == tx[s].sub
    IN  /\ Ready(s, "approve") /\ tx[s].step = "writing"
        /\ WriteReward(s)
        /\ xp' = xp \cup RewardXp(x)
        /\ sub' = [sub EXCEPT ![x] = "APPROVED"]
        /\ EndTx(s)
        /\ UNCHANGED <<inst, contested>>

OpenOn(b) == {i \in Instances : BrickOf[i] = b /\ inst[i] = "OPEN"}

(* Mutant: the bounties are counted also when the apply closes none.         *)
CountOpenAlways(s) ==
    LET i == InstOf[tx[s].sub]
    IN  /\ Ready(s, "apply") /\ tx[s].step = "writing"
        /\ tx' = [tx EXCEPT ![s].step = "counted",
                            ![s].closes = inst[i] = "OPEN",
                            ![s].last = OpenOn(BrickOf[i]) \subseteq {i}]
        /\ UNCHANGED <<data, contested>>

(* closeInstanceIfFieldFilled: an instance that is OPEN is closed.  If it    *)
(* was, countOpenForBrick: does the transaction see another open one?        *)
CountOpen(s) ==
    LET i == InstOf[tx[s].sub]
    IN  /\ Ready(s, "apply") /\ tx[s].step = "writing"
        /\ tx' = [tx EXCEPT ![s].step = "counted",
                            ![s].closes = inst[i] = "OPEN",
                            ![s].last = OpenOn(BrickOf[i]) = {i}]
        /\ UNCHANGED <<data, contested>>

CompletedXp(s) ==
    LET x == tx[s].sub
    IN  IF tx[s].last THEN {<<"brick_completed", BrickOf[InstOf[x]], author[x]>>} ELSE {}

WriteApplied(s) ==
    LET x == tx[s].sub
    IN  /\ sub' = [sub EXCEPT ![x] = "APPLIED_TO_BRICK"]
        /\ inst' = IF tx[s].closes THEN [inst EXCEPT ![InstOf[x]] = "CLOSED"] ELSE inst

CommitApply(s) ==
    /\ Ready(s, "apply") /\ tx[s].step = "counted" /\ tx[s].seen = "PENDING"
    /\ WriteReward(s)
    /\ xp' = xp \cup RewardXp(tx[s].sub) \cup CompletedXp(s)
    /\ WriteApplied(s)
    /\ EndTx(s)
    /\ UNCHANGED contested

CommitApplyOnly(s) ==
    /\ Ready(s, "apply") /\ tx[s].step = "counted" /\ tx[s].seen = "APPROVED"
    /\ xp' = xp \cup CompletedXp(s)
    /\ WriteApplied(s)
    /\ EndTx(s)
    /\ UNCHANGED <<money, stats, contested>>

CommitReject(s) ==
    LET u == author[tx[s].sub]
    IN  /\ Ready(s, "reject") /\ tx[s].step = "writing"
        /\ sub' = [sub EXCEPT ![tx[s].sub] = "REJECTED"]
        /\ rejected' = [rejected EXCEPT ![u] = @ + 1]
        /\ pending' = [pending EXCEPT ![u] = OneLess(@)]
        /\ EndTx(s)
        /\ UNCHANGED <<inst, money, accepted, xp, contested>>

CommitSubmit(s) ==
    LET u == author[tx[s].sub]
    IN  /\ Ready(s, "submit") /\ tx[s].step = "writing"
        /\ sub' = [sub EXCEPT ![tx[s].sub] = tx[s].seen]
        /\ IF tx[s].seen = "PENDING"
           THEN pending' = [pending EXCEPT ![u] = @ + 1] /\ UNCHANGED rejected
           ELSE rejected' = [rejected EXCEPT ![u] = @ + 1] /\ UNCHANGED pending
        /\ EndTx(s)
        /\ UNCHANGED <<inst, money, accepted, xp, contested>>

(* Statements of their own on bounty_instances, which take no lock of the    *)
(* brick and award nobody: the generator and an admin's create INSERT open   *)
(* rows, the generator closes those whose field is filled, and an admin's    *)
(* UPDATE writes the status it decided on when it read an earlier one.  The  *)
(* unique index, which refuses a second OPEN row for a field, is not kept    *)
(* here: BountyCatalog has these operations in their steps.                  *)
WriteInstance(i, st) ==
    /\ inst[i] # st
    /\ inst[i] = "NONE" => st = "OPEN"
    /\ \A s \in Sessions : ~(tx[s].closes /\ InstOf[tx[s].sub] = i)
    /\ inst' = [inst EXCEPT ![i] = st]
    /\ tx' = [s \in Sessions |->
                 IF tx[s].step = "counted" /\ BrickOf[InstOf[tx[s].sub]] = BrickOf[i]
                 THEN [tx[s] EXCEPT !.overtaken = TRUE] ELSE tx[s]]
    /\ UNCHANGED <<sub, money, stats, xp, contested>>

(* The first of the month; the worker's UPDATE waits for the settings row.   *)
ResetMonth ==
    /\ LockFree(BudgetRow)
    /\ spent' = 0
    /\ month' = {}
    /\ UNCHANGED <<sub, inst, ledger, funded, cash, stats, xp, contested, tx>>

-----------------------------------------------------------------------------
Step(s) ==
    \/ TakeLock(s) \/ Refuse(s)
    \/ BeginApprove(s) \/ BeginApply(s) \/ BeginApplyOnly(s)
    \/ BeginReject(s) \/ BeginSubmit(s)
    \/ CommitApprove(s) \/ CountOpen(s) \/ CommitApply(s) \/ CommitApplyOnly(s)
    \/ CommitReject(s) \/ CommitSubmit(s)

Next ==
    /\ UNCHANGED author
    /\ \/ \E s \in Sessions, k \in Reviews, x \in Subs : OpenReview(s, k, x)
       \/ \E s \in Sessions, x \in Subs : OpenSubmit(s, x)
       \/ \E s \in Sessions : Step(s)
       \/ \E s \in Sessions : DeadlockAbort(s)
       \/ \E s \in Sessions : Crash(s)
       \/ \E i \in Edited, st \in InstStatus : WriteInstance(i, st)
       \/ ResetMonth

Spec == Init /\ [][Next]_vars

-----------------------------------------------------------------------------
(* Properties.  Cents of a set of ledger rows, as a number of elements.       *)

CashOf(K) == Cardinality(UNION {{key} \X (1 .. Reward[key[1]]) : key \in K})
RowsOf(u) == {key \in ledger : author[key[1]] = u}

(* Cash balances and the month's spending are, to the cent, the sums of the  *)
(* reward ledger: no interleaving loses an update of the shared settings row *)
(* or charges the budget for cash that was zeroed, and a reset in between is *)
(* not undone by an approval that read the old value.                        *)
MoneyFollowsLedger ==
    /\ \A u \in Users : cash[u] = CashOf(RowsOf(u) \cap funded)
    /\ spent = CashOf(month)

(* Nobody sees an approved or applied submission without its reward and XP,  *)
(* whichever reviews overlap and wherever one of them dies.                  *)
RewardBacksApproval ==
    \A x \in Subs :
        sub[x] \in {"APPROVED", "APPLIED_TO_BRICK"} =>
            /\ \E k \in Rewarding : <<x, k>> \in ledger
            /\ <<"bounty_approved", x>> \in xp

(* Rewards, balances, the month's budget and the states of submissions,      *)
(* written by reviews under different locks, tell the same story.            *)
RewardsAreBacked ==
    /\ MoneyFollowsLedger
    /\ RewardBacksApproval

(* The milestones are given exactly when the approval count reaches them,    *)
(* and that count is the number of rewards paid.                             *)
MilestonesFollowRewards ==
    \A u \in Users :
        /\ accepted[u] = Cardinality(RowsOf(u))
        /\ <<"bounty_first", u>> \in xp <=> accepted[u] >= 1
        /\ <<"bounty_ten", u>> \in xp <=> accepted[u] >= TenApprovals

(* The step that ends an apply of x; a step that closes a bounty of b and    *)
(* leaves none open there; the users who get the completion of b in it.      *)
EndsApply(s, x) == tx[s].step = "counted" /\ tx[s].sub = x /\ tx'[s] = IdleTx
ClosesLast(b) == inst' # inst /\ OpenOn(b)' = {}
NewlyCompleted(b) == {u \in Users : <<"brick_completed", b, u>> \in xp' \ xp}

(* BRICK_COMPLETED goes to the user whose apply closes the last open bounty  *)
(* of a brick, and to nobody else: two applies that close the last two       *)
(* bounties together do not both count the other's as still open.  An apply  *)
(* is excepted only if somebody who takes no lock of the brick wrote one of  *)
(* its bounties between its count and its commit.                            *)
CompletionFollowsCount ==
    [][\A s \in Sessions, x \in Subs :
         LET b == BrickOf[InstOf[x]]
         IN  EndsApply(s, x) /\ ~tx[s].overtaken =>
                /\ ClosesLast(b) => <<"brick_completed", b, author[x]>> \in xp'
                /\ NewlyCompleted(b) # {} => ClosesLast(b)]_vars

(* "fires BRICK_COMPLETED XP for the closing user iff this apply closed the  *)
(* brick's *final* OPEN bounty" (BountyApprovalAndApplyService.js:8-9).      *)
(* Refuted by a bounty that is closed by hand after the apply has counted it *)
(* as open: whoever closes last is not awarded.                              *)
FinalCloserIsAwarded ==
    [][\A s \in Sessions, x \in Subs :
         LET b == BrickOf[InstOf[x]]
         IN  EndsApply(s, x) /\ ClosesLast(b) =>
                <<"brick_completed", b, author[x]>> \in xp']_vars

(* A submission is rewarded once: apply after approve mints no second        *)
(* reward (BountyApprovalAndApplyService.js:13-19).  Refuted when two of its *)
(* reviews overlap.                                                          *)
NoSecondReward == \A x \in Subs : Cardinality({k \in Rewarding : <<x, k>> \in ledger}) <= 1

(* Overlap is the only way to it, and the only way to a submission that was  *)
(* paid and ends REJECTED ("a rejection mints nothing",                      *)
(* BountySubmissionService.js:310-316): no order of whole reviews, crashes   *)
(* and reviews of other submissions does either.                             *)
SettledOnce ==
    \A x \in Subs \ contested :
        LET claims == {k \in Rewarding : <<x, k>> \in ledger}
        IN  /\ Cardinality(claims) <= 1
            /\ sub[x] = "REJECTED" => claims = {}

(* The counters of a user are the numbers of the user's submissions in each  *)
(* state, unless two reviews of one of them overlapped: reviews of different *)
(* submissions and new submissions, under three different advisory locks, do *)
(* not disturb each other's counts.                                          *)
CountersAreExact ==
    \A u \in Users :
        LET own == {x \in Subs : author[x] = u}
            In(S) == Cardinality({x \in own : sub[x] \in S})
        IN  own \cap contested = {} =>
                /\ pending[u] = In({"PENDING"})
                /\ accepted[u] = In({"APPROVED", "APPLIED_TO_BRICK"})
                /\ rejected[u] = In({"REJECTED"})

(* The statistics row, which three operations increment and decrement,       *)
(* agrees with the submissions, the rewards paid and the milestones given.   *)
StatisticsAreExact ==
    /\ CountersAreExact
    /\ MilestonesFollowRewards

(* "Monthly cash budget caps approved cash spending"                         *)
(* (context/project-overview.md:566): the budget is only ever exceeded by    *)
(* rewards of several users, whose approvals do not exclude each other, and  *)
(* never by those of one, however many reviewers and resets interleave.      *)
OverspendNeedsTwoUsers ==
    spent > Budget => \E a, b \in month : author[a[1]] # author[b[1]]
=============================================================================
