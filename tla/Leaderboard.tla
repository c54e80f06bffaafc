----------------------------- MODULE Leaderboard -----------------------------
(***************************************************************************)
(* One weekly collector_xp board and one of its weeks: leaderboard-worker  *)
(* (gather events, apply the slice, move the cursor), the                  *)
(* period-finalization-worker with PeriodFinalizationService (find the due *)
(* period, finalize it, identify the winners), RewardIssuanceService.      *)
(* Slice writes and finalization are transactions under the advisory lock  *)
(* of the period, and one action each; the reward phase comes after it,    *)
(* one transaction per winner.  Reads of a transaction that no lock covers *)
(* see the committed events.                                               *)
(***************************************************************************)
EXTENDS XpLog, FiniteSetsExt

CONSTANTS
    Finalizers,  \* processes running the period-finalization-worker
    WeekEnd,     \* the end of the week: events from then on are not its own
    Limit,       \* events one tick of the leaderboard-worker gathers
    MaxCrashes,  \* bound on the deaths and failures
    NotFinal     \* no value: the week has no finalization row

ASSUME NotFinalAssumption == \A S \in SUBSET Users : NotFinal \notin [S -> Nat]
ASSUME WeekAssumption == WeekEnd \in Nat /\ Limit \in Nat \ {0} /\ MaxCrashes \in Nat

VARIABLES
    board,    \* leaderboard_state of the week: user_id -> row
    lw,       \* the leaderboard-worker: its tick
    cursor,   \* its row of worker_cursors
    final,    \* leaderboard_period_finalizations.top_snapshot: user_id -> rank
    fin,      \* each finalizer: its tick
    rewards,  \* leaderboard_reward_events
    crashes

worker == <<lw, cursor>>
closing == <<final, fin, rewards>>
vars == <<log, board, worker, closing, crashes>>

Tiers == {"top_1", "top_3", "top_10"}
Row == [score : Int, tieTime : 0 .. MaxTime + 1, tieId : 0 .. MaxId + 1,
        eligible : BOOLEAN, rank : Nat]
Reward == [user : Users, tier : Tiers]
IdleLw == [at |-> "idle", users |-> {}, max |-> 0]
IdleFin == [at |-> "idle", winners |-> <<>>]
IsRanking(r) == DOMAIN r \subseteq Users /\ \A u \in DOMAIN r : r[u] \in Nat \ {0}

TypeOK ==
    /\ LogTypeOK
    /\ DOMAIN board \subseteq Users /\ \A u \in DOMAIN board : board[u] \in Row
    /\ lw \in [at : {"idle", "gathered", "applied"}, users : SUBSET Users, max : 0 .. MaxId]
    /\ cursor \in 0 .. MaxId
    /\ final = NotFinal \/ IsRanking(final)
    /\ DOMAIN fin = Finalizers
    /\ \A f \in Finalizers :
        /\ DOMAIN fin[f] = {"at", "winners"}
        /\ fin[f].at \in {"idle", "due", "finalized", "issuing"}
        /\ IsRanking(fin[f].winners)
    /\ rewards \subseteq Reward
    /\ crashes \in 0 .. MaxCrashes

Init ==
    /\ LogInit
    /\ board = <<>>
    /\ lw = IdleLw /\ cursor = 0
    /\ final = NotFinal
    /\ fin = [f \in Finalizers |-> IdleFin]
    /\ rewards = {}
    /\ crashes = 0

-----------------------------------------------------------------------------
(* LeaderboardScoreService, LeaderboardRankingService.                       *)

Committed == {i \in Ids : event[i] = "COMMITTED"}
OfWeek(u) == {i \in Committed : owner[i] = u /\ created[i] < WeekEnd}

(* A score and its latest event; NULLS LAST is a value above all others.     *)
ComputeScore(u) ==
    LET total == MapThenSumSet(LAMBDA i : delta[i], OfWeek(u))
        latest == CHOOSE i \in OfWeek(u) : \A j \in OfWeek(u) \ {i} : Before(j, i)
    IN  IF total = 0
        THEN [score |-> 0, tieTime |-> MaxTime + 1, tieId |-> MaxId + 1]
        ELSE [score |-> total, tieTime |-> created[latest], tieId |-> latest]

Ahead(b, u, v) ==
    LET x == b[u]
        y == b[v]
    IN  \/ x.score > y.score
        \/ x.score = y.score /\ x.tieTime < y.tieTime
        \/ x.score = y.score /\ x.tieTime = y.tieTime /\ x.tieId < y.tieId
        \/ x.score = y.score /\ x.tieTime = y.tieTime /\ x.tieId = y.tieId /\ u < v

Eligible(b) == {u \in DOMAIN b : b[u].eligible}

(* Mutant: numbers the rows from zero.                                       *)
RerankFromZero(b) ==
    [u \in DOMAIN b |->
        [b[u] EXCEPT !.rank =
            IF b[u].eligible THEN Cardinality({v \in Eligible(b) : Ahead(b, v, u)}) ELSE 0]]

Rerank(b) ==
    [u \in DOMAIN b |->
        [b[u] EXCEPT !.rank =
            IF b[u].eligible THEN 1 + Cardinality({v \in Eligible(b) : Ahead(b, v, u)}) ELSE 0]]

Tier(rank) == CASE rank = 1 -> "top_1" [] rank \in 2 .. 3 -> "top_3" [] OTHER -> "top_10"

-----------------------------------------------------------------------------
(* leaderboard-worker.                                                       *)

(* The first Limit unseen events in createdAt order.                         *)
Batch ==
    LET unseen == {i \in Committed : i > cursor}
    IN  {i \in unseen : Cardinality({j \in unseen : Before(j, i)}) < Limit}

(* Mutant: the cursor moves when the batch is read.                          *)
GatherMovesCursor ==
    /\ lw.at = "idle" /\ Batch # {}
    /\ lw' = [at |-> "gathered", max |-> Max(Batch),
              users |-> {owner[i] : i \in {j \in Batch : created[j] < WeekEnd}}]
    /\ cursor' = Max(Batch)
    /\ UNCHANGED <<log, board, closing, crashes>>

Gather ==
    /\ lw.at = "idle" /\ Batch # {}
    /\ lw' = [at |-> "gathered", max |-> Max(Batch),
              users |-> {owner[i] : i \in {j \in Batch : created[j] < WeekEnd}}]
    /\ UNCHANGED <<log, board, cursor, closing, crashes>>

(* A row written again keeps its rank until the board is reranked.           *)
UpsertState(u, eligible) ==
    LET s == ComputeScore(u)
    IN  [score |-> s.score, tieTime |-> s.tieTime, tieId |-> s.tieId, eligible |-> eligible,
         rank |-> IF u \in DOMAIN board THEN board[u].rank ELSE 0]

(* Mutant: the slice is not reranked.                                        *)
ApplySliceUnranked(elig) ==
    /\ lw.at = "gathered"
    /\ lw' = [lw EXCEPT !.at = "applied"]
    /\ board' = [u \in DOMAIN board \cup lw.users |->
           IF u \in lw.users THEN UpsertState(u, u \in elig) ELSE board[u]]
    /\ UNCHANGED <<log, cursor, closing, crashes>>

(* The eligibility rules read tables of other components: any answer.        *)
ApplySlice(elig) ==
    /\ lw.at = "gathered"
    /\ lw' = [lw EXCEPT !.at = "applied"]
    /\ board' = IF lw.users = {} THEN board ELSE Rerank(
           [u \in DOMAIN board \cup lw.users |->
               IF u \in lw.users THEN UpsertState(u, u \in elig) ELSE board[u]])
    /\ UNCHANGED <<log, cursor, closing, crashes>>

SetCursor ==
    /\ lw.at = "applied"
    /\ cursor' = lw.max
    /\ lw' = IdleLw
    /\ UNCHANGED <<log, board, closing, crashes>>

(* The process dies, or a slice fails and the tick is given up.              *)
LwFails ==
    /\ lw.at # "idle" /\ crashes < MaxCrashes
    /\ crashes' = crashes + 1
    /\ lw' = IdleLw
    /\ UNCHANGED <<log, board, cursor, closing>>

-----------------------------------------------------------------------------
(* period-finalization-worker.                                               *)

FindDue(f) ==
    /\ fin[f].at = "idle"
    /\ clock >= WeekEnd /\ DOMAIN board # {} /\ final = NotFinal
    /\ fin' = [fin EXCEPT ![f].at = "due"]
    /\ UNCHANGED <<log, board, worker, final, rewards, crashes>>

(* Mutant: no second look for the finalization row under the lock.           *)
FinalizeUnchecked(f) ==
    /\ fin[f].at = "due"
    /\ board' = Rerank(board)
    /\ final' = [u \in Eligible(board') |-> board'[u].rank]
    /\ fin' = [fin EXCEPT ![f].at = "finalized"]
    /\ UNCHANGED <<log, worker, rewards, crashes>>

Finalize(f) ==
    /\ fin[f].at = "due" /\ final = NotFinal
    /\ board' = Rerank(board)
    /\ final' = [u \in Eligible(board') |-> board'[u].rank]
    /\ fin' = [fin EXCEPT ![f].at = "finalized"]
    /\ UNCHANGED <<log, worker, rewards, crashes>>

AlreadyFinalized(f) ==
    /\ fin[f].at = "due" /\ final # NotFinal
    /\ fin' = [fin EXCEPT ![f] = IdleFin]
    /\ UNCHANGED <<log, board, worker, final, rewards, crashes>>

(* The live board again, outside the transaction: user_id -> rank.           *)
IdentifyWinners(f) ==
    /\ fin[f].at = "finalized"
    /\ fin' = [fin EXCEPT ![f] =
           [at |-> "issuing",
            winners |-> [u \in {v \in Eligible(board) : board[v].rank \in 1 .. 10} |->
                            board[u].rank]]]
    /\ UNCHANGED <<log, board, worker, final, rewards, crashes>>

(* The winners are served by rank; ON CONFLICT DO NOTHING.                   *)
Issue(f) ==
    LET winners == fin[f].winners
    IN  /\ fin[f].at = "issuing"
        /\ \E u \in DOMAIN winners :
            /\ \A v \in DOMAIN winners : winners[u] <= winners[v]
            /\ rewards' = rewards \cup {[user |-> u, tier |-> Tier(winners[u])]}
            /\ fin' = [fin EXCEPT ![f].winners =
                          [v \in DOMAIN winners \ {u} |-> winners[v]]]
        /\ UNCHANGED <<log, board, worker, final, crashes>>

EndTick(f) ==
    /\ fin[f].at = "issuing" /\ DOMAIN fin[f].winners = {}
    /\ fin' = [fin EXCEPT ![f] = IdleFin]
    /\ UNCHANGED <<log, board, worker, final, rewards, crashes>>

(* The process dies, or the throw of an issuance leaves finalizePeriod.      *)
FinFails(f) ==
    /\ fin[f].at # "idle" /\ crashes < MaxCrashes
    /\ crashes' = crashes + 1
    /\ fin' = [fin EXCEPT ![f] = IdleFin]
    /\ UNCHANGED <<log, board, worker, final, rewards>>

-----------------------------------------------------------------------------
LeaderboardNext ==
    \/ Gather
    \/ \E elig \in SUBSET lw.users : ApplySlice(elig)
    \/ SetCursor
    \/ LwFails
    \/ \E f \in Finalizers : FindDue(f)
    \/ \E f \in Finalizers : Finalize(f)
    \/ \E f \in Finalizers : AlreadyFinalized(f)
    \/ \E f \in Finalizers : IdentifyWinners(f)
    \/ \E f \in Finalizers : Issue(f)
    \/ \E f \in Finalizers : EndTick(f)
    \/ \E f \in Finalizers : FinFails(f)

Next ==
    \/ LogNext /\ UNCHANGED <<board, worker, closing, crashes>>
    \/ LeaderboardNext

Spec == Init /\ [][Next]_vars

(* Both workers poll for ever, and time passes; XP need not be earned.       *)
LwStep == Gather \/ (\E elig \in SUBSET lw.users : ApplySlice(elig)) \/ SetCursor
FinStep(f) ==
    FindDue(f) \/ Finalize(f) \/ AlreadyFinalized(f) \/ IdentifyWinners(f) \/ Issue(f)
        \/ EndTick(f)
Fairness == WF_vars(LwStep) /\ \A f \in Finalizers : WF_vars(FinStep(f))
FairSpec == Spec /\ Fairness

-----------------------------------------------------------------------------
(* Properties.                                                               *)

(* After every transaction on the board its ranks are 1 .. n over the        *)
(* eligible rows in the order of the scores, and no other row has one.       *)
RanksAreExact ==
    /\ {board[u].rank : u \in Eligible(board)} = 1 .. Cardinality(Eligible(board))
    /\ \A u, v \in Eligible(board) : Ahead(board, u, v) => board[u].rank < board[v].rank
    /\ \A u \in DOMAIN board \ Eligible(board) : board[u].rank = 0

(* Nobody is rewarded in two tiers of the week, although the board may move  *)
(* while the winners are served and two finalizers may find the week due.    *)
OneTierPerUser == \A r, q \in rewards : r.user = q.user => r = q

(* The scores end up equal to the XP of the week, whatever tick failed, as   *)
(* long as no two transactions awarded XP at the same time.                  *)
ScoresCatchUp ==
    <>[](overlap \/ \A u \in Users : OfWeek(u) # {} =>
            u \in DOMAIN board /\ board[u].score = ComputeScore(u).score)

(* "rewards are idempotent and retry on subsequent ticks if any individual   *)
(* issuance fails" (PeriodFinalizationService.js:181-182): everyone in the   *)
(* snapshot of a final week is rewarded in the end.  Refuted by a failure    *)
(* after the finalization row is written: the week is never due again.       *)
RewardsArrive ==
    LET Rewarded == \A u \in DOMAIN final : \E r \in rewards : r.user = u
    IN  final # NotFinal ~> final # NotFinal /\ Rewarded

(* "Run a final rerank to make sure the snapshot reflects the true closing   *)
(* state" (PeriodFinalizationService.js:7-8): a reward is for the rank in    *)
(* the snapshot.  Refuted: winners are read from the live board afterwards,  *)
(* which a late event of the week may have moved.                            *)
RewardsFollowSnapshot ==
    \A r \in rewards : r.user \in DOMAIN final /\ r.tier = Tier(final[r.user])
=============================================================================
