# Formal models of bearbrick_backend

TLA+ modules, model-checking runs and machine-checked proofs for the backend in
`src/` (Node.js, Express, Prisma, PostgreSQL, and a set of worker processes in
`src/src/scripts`). Paths below are relative to `src/`; `prisma/` is
`src/prisma/`, `services/`, `scripts/`, `controllers/`, `lib/` and `middleware/`
are under `src/src/`.

- `tlc -config X.cfg M` checks a run (the runs are listed in `PROJECT.json`).
- `tlapm M_proofs.tla` checks the proofs about module M (section 5 lists them).
- `PROJECT.json` maps every definition to the source lines it models, and lists
  the hazards, the mutants each property catches, the findings and the theorems.

## 1. Inventory

The backend has almost no state in memory. Every component is a set of tables,
HTTP handlers that run one PostgreSQL transaction each (READ COMMITTED), and
workers that loop over a cursor (`worker_cursors`). Components interact through
shared tables: votes feed prices, sessions, challenges and trust; those and
bounties feed `xp_events`; `xp_events` feeds levels and leaderboards; bounties
feed balances, and balances feed payouts.

| Component | State | Operations | Hard behaviour | What makes it correct |
|---|---|---|---|---|
| **Payout requests** `PayoutService` | `payout_requests`, `user_balances`, `payout_action_events` | request, approve, markPaid, reject | double clicks, two admins on one payout, approvals crediting the same balance row under another lock | reserve = open requests; available cash ≥ 0; cash conserved; the audit log tells the status |
| **Bounty reviews** `BountySubmissionService`, `BountyApprovalService`, `BountyApprovalAndApplyService`, monthly reset | `bounty_submissions`, `bounty_reward_events`, `user_balances`, `user_bounty_stats`, `admin_settings`, `xp_events` | submit, approve, approve and apply, reject, reset the month | three advisory locks that do not exclude each other; a status read before the lock; row locks taken in opposite orders; a global budget under per-user locks | money = ledger; one reward per submission; budget; milestones; counters |
| **Admin review calls** `AdminBountyController` | none of its own | approve, apply, reject, advisory, queue | repeated clicks, lost answers, an advisory read after COMMIT | a repeat rewards once; duplicates are told |
| **Bounty instances** `BountyInstanceService`, `auto-bounty-generator-worker` | `bounty_instances`, `bricks`, `bounty_definitions` | generate, close filled, create, transition, count open | check-then-update by id; stale brick snapshot | one OPEN bounty per field; filled fields closed, empty ones offered; `closed_at` agrees; BRICK_COMPLETED for the last one |
| **Daily submission limit** | `user_bounty_stats.daily_*` | count, lazy reset, sweep | `now` is read before the lock, around 5 AM | no day over the limit, none denied what it has room for |
| **Vote intents and events** `VoteIntentController`, `enrich-votes` | `vote_intents`, `vote_events`, `user_brick_vote_credits`, cursor | insert, enrich, reject | ids commit out of order; death between transaction and cursor; cycle read without a lock | one event per processed intent |
| **Price aggregation** `aggregate-prices`, `pricing/*` | `brick_price_state`, `pricing_cycle_close_events`, `brick_freeze_window_events`, cursor | count, move, close the cycle, freeze, enter or resolve a recheck | repeated and stale events, freezes, failing events | counters hold the current cycle only; closed totals stand; no event is passed over |
| **Recheck** `recheck-worker` | recheck and freeze columns | trigger, expire, downgrade, end a freeze | writes from a stale page without a lock, in two statements | freezes end; a window has an end and runs out |
| **Vote credits** `VoteCreditService` | `user_brick_vote_credits` | take, regain | three writers of what a regain depends on | one regain for one occasion |
| **XP ledger** `lib/xpEvents` | `xp_events`, `xp_idempotency_keys` | insert in the awarding transaction | `createdAt`, id and commit orders differ | one event per key |
| **XP reconciliation** `xp-reconciliation-worker` | `user_progress_state`, `level_up_events` | processUser | two workers; events out of order; negative adjustments | total = counted events; one chain of level-ups; once each |
| **Leaderboards** `leaderboard-worker`, ranking, score, eligibility | `leaderboard_state`, cursor | gather, apply slice, rerank, move the cursor | a tick that fails half-way; late events; eligibility changes | ranks exact; scores catch up |
| **Period finalization and rewards** | `leaderboard_period_finalizations`, `leaderboard_reward_events`, inbox | find due, finalize, identify winners, issue | two finalizers; failure between finalization and rewards; a board that moves | one tier per user; everyone in the snapshot rewarded |
| **Trust jobs** `trust-evaluation-worker`, `TrustService` | `trust_worker_jobs`, `trust_score_events`, `user_trust_state` | ensure, claim, score, recompute, done/failed | claim race, orphaned jobs, recomputation from stale reads | each close scored once, by the user's last word; what is done is counted |
| **Session sets** `SessionSetService` | `session_rotation_cycles`, `daily_session_sets` and items | find or build, rotate | two builders, death after any statement | each brick in one set of a day; sets as large as their target |
| **Sessions and streaks** `session-progress-worker`, `StreakService`, `ActiveVoteService` | `user_session_progress`, brick counts, `user_streak_state`, `active_votes`, cursor | count vote, complete, streak, bonus | repeated votes, a guest conversion beside the worker | completion iff the target was voted; streak = run of days |
| **Guest conversion** `AuthController` | `user_session_progress` | convert | no transaction, no lock | nothing is counted twice |
| **Challenges** `Challenge*Service`, `challenge-progress-worker` | `user_challenge_assignments`, completion events, cursor | assign, recount, complete, bonus | API and worker assign at once; assignment while a vote is processed | completed iff earned since the assignment; one bonus for five |
| **Challenge pool** `PoolBuilderService` | `challenge_daily_pool` | fill slots | concurrent and unfinished builders | distinct templates, fixed slots |
| **Perfect days** `perfect-day-worker`, `PerfectDayService` | `perfect_day_events`, two cursors | award | two streams announce one day | awarded once, iff all three conditions hold |
| **Dex progress** `DexProgressService`, `XpService`, controllers | `user_brick_progress`, `user_identity_state`, `context_sessions` | open, finish, vote, classify, streak | unlocked read-modify-write | one vote per brick; the streak is the run of active days |
| **Idempotency middleware** | `idempotency_keys` | look up, replay, store, expire | equal requests in flight, lost answers | a repeated request acts once |
| **Dex vote linker** `dex-vote-linker` | `user_brick_progress.vote_event_id` | link | rows that cannot be linked come first | every linkable vote is linked |
| **Calendar** `lib/sessions`, `lib/weeks`, `lib/utcWeeks` | none | day, window, week keys, reset instants | summer time, 5 AM days, ISO years | a reset is where the next key begins |
| Pricing arithmetic | none | pure functions | – | – |
| Accounts, inbox, uploads, routes, permissions, read models, daily snapshot | plain rows or none | CRUD, I/O | – | – |

Every hazard, at its line, with the properties that would catch it, is in
`PROJECT.json` "hazards".

## 2. Modules and how they correspond to the code

**How a transaction is modelled.** A Prisma `$transaction` runs statement by
statement; other sessions see its writes at COMMIT only, and relative updates
(`SET x = x + $1`) are evaluated on the row as it is when its row lock is
granted. So a handler is a few actions: one for each *read* or *lock* that
another session can come between, and a last one for the writes with COMMIT. A
connection loss, a crash of the process and Prisma's transaction timeout all
roll back, in the action `Crash`, which is enabled at every step. Advisory
locks are transaction-scoped: they are held from their action to the end of the
transaction, whichever end it is.

### PayoutLedger
`request`: `LockUser`, `ReadBalance` (minimum and available cash), `CommitRequest`.
`approve`, `markPaid`, `reject`: `Open` (load before the lock, only to learn the
user), `LockPayout`, `Reload` (the decision, on the row read under the lock), and
one commit action each with the guarded UPDATE (`WHERE status = ...`) and its
else branch. `Credit` is the balance upsert of a bounty approval, which takes
none of these locks. State variables are the columns named in the declarations.

### PayoutContract, PayoutRefinement
`PayoutContract` is what the component promises without transactions, locks or
rows: money is available, held, or paid, and moves by `Earn`, `Hold`, `Release`
and `Pay`, each guarded by what it takes from. `PayoutRefinement` maps
PayoutLedger to it: *available* is not a column but what
`moneyMath.availableCash` computes (cash − reserved), *held* is the reserve, *paid*
the sum of the user's PAID requests. Every commit is one whole step of the contract
and every other step (locks, reads, approvals, crashes) is invisible. A request that
counted cash another request had already reserved would be a `Hold` the contract
does not allow.

### BountyReview
Statements that write rows are modelled by the locks they take: `todo` is the
list of advisory and row locks a session still needs, in the code's order, `held`
those it has, and `TakeLock` takes the next. This is what lets approve
(statistics, then submission) and reject (submission, then statistics) run into
each other; `DeadlockAbort` is PostgreSQL's detector. `OpenReview` loads the
submission *before* the lock, as the code does, and everything decided later is
decided on that copy (`tx[s].seen`). `Refuse` collects the early returns,
`BeginApprove`/`BeginApply`/`BeginApplyOnly`/`BeginReject`/`BeginSubmit` the
decision and the list of rows to write (with the cash the month's budget still
allows, read here), `CountOpen` the count of the brick's open bounties under the
brick's row lock, and the `Commit` actions the writes. `ResetMonth` is
`monthly-budget-reset-worker`. `WriteInstance` is whoever else writes the bounties, without the brick's lock:
the generator and an admin's create insert OPEN rows, the generator closes filled ones, an
admin's `transition` writes the status it decided on when it read an earlier one. None of
them awards anything. It waits only for an apply that has updated the very row, and its
single statement stands for the operations that BountyCatalog has step by step. The
constant `Edited` is the set of bounties it may write: all of them in the code, none or
two in a run. `sub`, `inst`, `ledger`, `cash`, `spent`,
`accepted`, `pending`, `rejected`, `xp` are columns and tables; `funded` is the
ledger's cash column; `month` (when a row was paid), `contested` and a transaction's
`overtaken` (section 3) are history, for the properties.
Left out: the validation of the submitted content, the daily submission limit
(SubmissionLimit has it), the unique index on OPEN bounties of a field (BountyCatalog has it),
the credits column (it is written beside cash, by the same statement), and the switch
`cash_rewards_enabled`.

### VotePipeline
`DrawId`/`CommitIntent` separate the drawing of an id from the commit of its row.
The enricher: `FetchIntents` (above the cursor, `Batch` rows), `ReadBrick` (the
unlocked read of the cycle), `SaveEvent` (event, credit, intent), or
`EnrichThrows` then `RejectIntent`, then `MoveEnricherCursor`. The aggregator:
`FetchEvents`, then `SkipEvent` / `CountEvent` / `AggregateThrows`, then
`MoveAggregatorCursor`. `CountEvent` adds the weight and, when the total
suffices, may move the price, close the cycle or freeze the brick.
`EnricherDies` / `AggregatorDies` lose the process's own state between any two
steps. `ExitFreeze` is the one statement of the recheck worker that touches this
state. Abstracted: weights are 0 (unverified) or 1; sentiment, confidence and
momentum are a nondeterministic choice of their outcome; a credit may be
regained nondeterministically when the enricher looks at it (BrickRecheck says when).

### XpLog, XpReconciliation, Leaderboard
`XpLog` is `xp_events` with its writers: the time of the transaction's begin
(`createdAt`), the id drawn at insertion and the commit are three separate
orders. Two modules extend it and add their reader.
`XpReconciliation` is `processUser` for one user: `FetchEvents` (lock, progress
row, events above the cursor), `ApplyEvent` (one event, level-ups), and
`SaveProgress` (absolute values, level-up rows, COMMIT). `highest_level_ever`
equals `current_level` in every write and is left out.
`Leaderboard` is one weekly collector-XP board: `Gather`, `ApplySlice`,
`SetCursor` of the leaderboard worker; `FindDue`, `Finalize` or
`AlreadyFinalized`, `IdentifyWinners`, `Issue`, `EndTick` of the finalizers.
Writing a slice and finalizing are one action each, because both hold the
period's advisory lock from beginning to end; winners are identified and rewards
issued outside it. Eligibility is a nondeterministic choice at every slice (it
depends on account state and activity that other components change). Every tier
has a reward bundle configured. Left out: the anti-sniping visibility snapshot,
lifetime and dex boards.

### Daily: SessionProgress, Challenges, Calendar, BrickRecheck, VoteLinker
What a day's votes move beside the price. `Daily` puts the five side by side for any
constants; `MCDaily` gives the run's windows, templates, zones and bricks.
`SessionProgress` is one user's sessions: `Vote`, `BuildSet`, the worker's `Fetch`,
`Process` (a vote's whole transaction, which holds the user's lock) and `MoveCursor`,
and the guest conversion statement by statement (`ConvertBegin` to `ConvertWrite`;
`ConvertCount` is the snapshot the UPDATE counts in, `ConvertWrite` its write after
the row lock). The worker is one process, as the deployment runs it; two
overlapping ones could complete days out of order, which `StreaksAreRuns` does not
cover. `id` order and `createdAt` order are one here; how they part is VotePipeline's
and XpLog's subject.
`Challenges` is one user's day: API requests choose (`Choose`) by the moment they
began at and insert row by row in autocommit; the worker assigns, recounts
(`RecomputeProgress`) and completes in one transaction per vote. `OpenAt` stands for
`ImpossibilityValidator`, whose verdict depends on hour and level: time goes by in
three moments. The order that `listActive` leaves open (it has no ORDER BY) is a
nondeterministic one. A choice of templates is the positions that are taken (`Takes`,
`Fills`), as the code's loops take them.
`Calendar` is evaluated at every half hour of the days around clock changes and at every
noon of eleven years. A zone has two offsets in half hours, and one span of summer time;
`NextLocalResetUtc` is the loop of `nextLocalResetUtc` with its four rounds (its early
return leaves a guess alone that the remaining rounds would correct by nothing).
`BrickRecheck` is a brick's freeze and recheck columns with one user's credits. Time is
relative, in half weeks, and passes only after the worker has been through the
bricks, which it does hourly; the very instant of a deadline is left out; the
enricher's two reads of the row are taken as one, and there is one enricher.
`MovePrice` is the aggregator's whole move: resolution, entry, freeze, cycle reset,
each only without the one before it. `VoteLinker` runs beside the enricher.

### Services: SessionSets, ChallengePool, BountyCatalog, ReviewDesk, SubmissionLimit, DexProgress, PerfectDay, TrustJobs
Services called by concurrent requests, and workers that meet them or each other.
`Services` puts them side by side for any constants; `MCServices` gives the small sets,
and the constant `Parts` says which of the parts run (in `services`, all eight).
`SessionSets` has one action per statement
of `getOrBuildSetForDay`, which runs without a transaction. `BountyCatalog` is one brick
with its bounties: the generator's tick from its snapshot, admins who read and then
write, definitions switched and the brick published meanwhile (one that is withdrawn
again only misses ticks, which any brick may). `ReviewDesk` is the HTTP layer
over approve, apply and reject for one field: `Load` (before the lock), `Commit`, and
`Answer`, the advisory, after the commit; `Lose` a lost connection or answer.
`SubmissionLimit` is the counter of one user over three days. `DexProgress` is one user
and one brick: a request is the two reads of the stage, the write that locks the
row, the read of the streak, and the commit, behind the middleware (`Arrive`,
`StoreKey`, `ExpireKey`). The user may have no row of `user_identity_state` (two first
completions then collide in the INSERT) or the one that sign-up makes, whose
`last_activity_date` is null (`NoDate`; both then UPDATE). `last_activity_date` is a DATE:
`DateColumn` is the UTC date of the local midnight that is written, `LocalDay` what
`setHours` makes of the date read back, on a server `ServerOffset` hours from UTC. Only at
0 do they undo each other; nothing in the repository sets the zone of a deployment.
`ChallengePool` is `ensureDailyPool` for several requests and the worker, whose INSERTs are
visible at COMMIT only and make a request that wants the slot wait. `PerfectDay` is the
worker's two streams, with `MaybeAward` as one transaction. `TrustJobs` is one brick and one
user with two workers: the claim is a SELECT and an UPDATE by id, a score commits by itself,
and the trust is computed from a read and written later. Votes arrive in the open cycle: a
vote that carries the stamp of a closed one is created after `closed_at`, and
`findScoringEligibleVotes` leaves it out; one that was created before the close and committed
only after the cycle's job had run, which the job misses, is not modelled. `Tier` compares
the floating-point score that the code computes.

**Composition.** PayoutLedger composes payouts with the approvals that credit the same
row, BountyReview four services and a worker on the same rows, VotePipeline two workers
and the recheck worker, XpReconciliation and Leaderboard each the ledger `XpLog` with
its reader, SessionProgress the worker with the conversion, BrickRecheck three programs
on one row, DexProgress the middleware with the handlers. The modules under Daily and
Services do *not* share state with one another (a worker reads
another's table only as a log that grows): they are checked side by side, and the
variable `part` says which of them runs in a behaviour.

## 3. Runs

Each run finishes within three minutes on two cores. The bounds are the smallest at
which the hazard of the run can happen; what each bound has to allow is given below.
Models whose ids, clock or credits run out stop there, so `votes`, `xp` and `board`
switch deadlock checking off; `daily` and `services` check it and say with
`TimeIsUp` which of their parts may run out of bounds; `payout`, `review` and
`completion` never stop.

| Run | Checks | Bounds, and why they are enough | Result |
|---|---|---|---|
| `payout` | `TypeOK`, `BooksBalance` (`ReservedBacksOpen`, `AvailableNonNegative`, `CashConserved`, `PaymentIsCovered`), `AuditTellsStatus`, `AdminOperationsEnd`, `ImplementsContract` | 2 sessions, 2 users, 2 payouts, amounts 1 and 2, 2 cents earned: two requests compete for the same cash, two admins for the same payout | holds, 394,405 states |
| `review` | `TypeOK`, `RewardsAreBacked` (`MoneyFollowsLedger`, `RewardBacksApproval`), `OverspendNeedsTwoUsers`, `SettledOnce`, `StatisticsAreExact` (`CountersAreExact`, `MilestonesFollowRewards`), `CompletionFollowsCount` | 2 sessions, 2 submissions for the two bounties of one brick, whose users are chosen freely: one user's milestone at 2 instead of 10, two users on a budget that pays only one of them; nobody else writes bounties | holds, 807,304 states |
| `review_double` | `NoSecondReward` | 2 overlapping reviews | **violated** |
| `completion` | `CompletionFollowsCount` | as `review`, for one user and without cash, and both bounties are written by others at any moment | holds, 951,565 states |
| `votes` | `TypeOK`, `StreamsAreExact` (`OneEventPerIntent`, `NothingPassedOver`), `CyclesHoldTheirVotes` (`CountersAreCurrentCycle`, `ClosedTotalsStand`), `VotesArriveInTheEnd` (`EventsAreReached`, `VisibleIntentsSettle`) | 3 votes of a verified and an unverified voter, batches of 2, 3 cycles, a death of a worker: a vote can be repeated, stale by one and by two cycles, frozen, or committed late | holds, 101,345 states |
| `votes_twice` | `CountedOnce` | 1 vote, 1 death | **violated** |
| `xp` | `TypeOK`, `ReconciliationIsExact` (`TotalIsCounted`, `LevelUpsChain`, `CursorIsExact`) | 3 events of −1 or +2 over 3 levels, 2 writers that may overlap, 2 workers, 3 instants | holds, 286,330 states |
| `xp_twice` | `CountedOnce` | as `xp` | **violated** |
| `board` | `TypeOK`, `RanksAreExact`, `OneTierPerUser`, `ScoresCatchUp` | 2 users, 2 events of 2 writers that may overlap, gather limit 1, 2 finalizers, a failure, events after the end of the week | holds, 231,769 states |
| `board_rewards` | `RewardsArrive` | 2 users | **violated** |
| `daily` | *sessions* `SessionsFollowVotes` (`CompletionIsEarned`, `VotedSessionsComplete`, `ActiveVoteIsLast`), `StreaksAreRuns` | 3 votes on 2 bricks over 4 windows of days 1, 2 and 4 (a streak that grows and one that breaks), batches of 2, a guest with one brick who signs up in the evening of day 1 (`SignupIn`) and so brings one of its two bricks, deaths without bound | holds, 1,374,089 states together |
| | *challenges* `ChallengesFollowVotes` (`CompletionIsEarned`, `EarnedIsCompleted`, `BonusForFive`, `SlateIsWhole`) | two dailies instead of five out of four, possible at different moments, a weekly for two slots, 2 votes, a request and the worker | |
| | *calendar* `CalendarIsSeamless` (`DaysEndAtTheirReset`, `WeeksEndAtTheirReset`, `WeekKeysAreIso`, `DayChangesBetweenWindows`) | Los Angeles around both changes of 2026, Berlin around one, offsets +14, +5:30 and −12; noons of 2024–2036, with years of 52 and 53 weeks | |
| | *recheck* `RechecksRunOut` (`FreezesEnd`, `WindowIsComplete`, `WindowRunsOut`), `CreditsAreScarce` | durations in half weeks in the order the settings have them, 2 prices, 1 credit | |
| | *linker* `OnlyFullBatchesHide` | 4 rows, batches of 2 | |
| `services` | *sets* `SetsAreSound` (`OneAfterTheOther`, `SetsStayInTarget`) | 2 builders, 2 bricks for a morning of 1 and an evening of 2, 2 days, 2 cycles: an evening finds fewer bricks left than it wants and rotates in the middle of a day | holds, 2,876,742 states together |
| | *bounties* `OffersFollowFields` (`FilledFieldsAreClosed`, `EmptyFieldsAreOffered`, `ClosedAtTellsClosed`); *reviews* `ReviewCallsAreSound` (`DuplicatesAreTold`, `RepeatsRewardOnce`) | 1 field with room for a closed and an open bounty, 2 admins, the generator; 2 calls on 2 submissions | |
| | *limit* `LimitIsExact` (`LimitHolds`, `CounterIsBacked`) | limit 2, 3 days, 6 requests of which 2 wait at once, the sweep | |
| | *dex* `ActionsCountOnce` (`VotesOnce`, `ContextOncePerKey`, `StageFallsInOverlap`), `StreakFollowsDays` (`StreakIsRun`, `OneBonusPerDay`) | 2 requests at once, 4 in all, 5 keys of which 2 vote, 3 days, a bonus on the second, a server in UTC | |
| | *pool* `PoolStands` (`PoolIsDistinct`, `SlotsAreKept`) | 4 slots, 3 templates of one family for two slots and a wildcard, 2 requests and the worker | |
| | *perfect days* `PerfectDaysFollowEvents` (`AwardIsEarned`, `PerfectDaysAreAwarded`) | 2 days, 2 dailies each, batches of 2 | |
| | *trust* `TrustFollowsScores` (`ScoreIsLastWord`, `DoneIsCounted`, `MissesAreHeldBack`, `ClaimedOnce`) | 2 workers, cycles of 2 votes (one may be FAIR) and 1 (it may be unverified), one miss in two leads to the cooldown | |

A property of several promises is a conjunction; its parts are in parentheses, are
defined and commented one by one in the component's module, and are the names used
below.
`TypeOK` of `daily` and `services` is the type invariant of the part that runs.

**Properties with a condition.** Some promises are kept only on a part of the
behaviours, and the property says exactly which, by means of a history variable
that no guard reads:

- `contested` (BountyReview): the submissions of which two reviews were ever open
  at once. `SettledOnce`, `CountersAreExact` speak of the other submissions; what
  can happen to a contested one is shown by `review_double`. The overlap of
  reviews of *different* submissions, of reviews with submissions, of crashes and
  of deadlocks is inside the condition.
- `overtaken` (BountyReview, of a transaction): a bounty of the brick was written without
  the brick's lock between an apply's count and its commit. `CompletionFollowsCount` excepts
  that apply only, in both directions (section 4 says what may happen to it). It does not
  say that a brick without open bounties has a completion: a bounty that an admin or the
  generator closes completes nothing.
- `ServerOffset = 0` (DexProgress): `StreakFollowsDays` is about a server whose local time
  is UTC (section 4 says what happens on another).
- `overlap` (XpLog): two XP transactions were ever open at once.
  `CursorIsExact` and `ScoresCatchUp` hold until then; `xp_twice` shows what happens
  after.
- `OverspendNeedsTwoUsers` says that the only way over the month's budget is
  approvals for two different users in one month.
- `VisibleIntentsSettle` promises nothing to an intent that commits after a higher
  id was fetched.
- `overlap` (SessionSets): two requests were ever building at once;
  `OneAfterTheOther` holds until then, for any deaths; `SetsStayInTarget` always.
- `disturbed` (Challenges): assigners overlapped, or a request died between its
  INSERTs. `SlateIsWhole` holds until then; the other three properties always.
- `raced` (BountyCatalog): the bounty's last transition was decided on a status that
  another request had changed since.
- `late` (SubmissionLimit): the days whose count a request or sweep that read its clock
  earlier has overwritten. Requests that overlap within a day, and ones that cross
  5 AM in order, are inside the condition.
- `overlapped` (DexProgress): two transactions on the brick were ever open at once.
  `ContextOncePerKey` needs no condition, and `StreakIsRun` only `straddled`: streak
  updates of two *days* overlapped.
- `overlapped` (BrickRecheck): an event moved the row between the worker's page and
  its last write. `FreezesEnd` and `CreditsAreScarce` hold anyway.
- `overlapped`, `raced` (TrustJobs): two recomputations of one user were under way at
  once; two workers had found one PENDING job. `ScoreIsLastWord` holds anyway.
- `VotedSessionsComplete` excepts the window a guest session was converted in.

**Fairness.** Users and admins owe nothing: no action that begins a request is
fair. A transaction that was opened goes on (its statements are awaited in
sequence), so its steps are weakly fair; PostgreSQL queues lock waiters in arrival
order, so a lock that keeps becoming free is granted in the end, which is strong
fairness of the lock step. Workers poll in endless loops and are restarted by their
supervisor (`docs/DEVOPS_WORKER_SETUP.md`), so their next step is weakly fair. Crashes,
failures and the recheck worker are never fair. Liveness is checked in `payout`
(`AdminOperationsEnd`), `votes` (`EventsAreReached`, `VisibleIntentsSettle`: `VotesArriveInTheEnd`) and `board`
(`ScoresCatchUp`). The newer modules state what must have happened by the time a worker
has caught up (`EarnedIsCompleted`, `PerfectDaysAreAwarded`, `ActiveVoteIsLast`) or how
long something can last (`FreezesEnd`), as invariants that need no fairness.

## 4. What the code does not keep

Each run marked **violated** refutes a sentence of the repository; its
counterexample is the shortest way there.

- **`NoSecondReward`** (`BountyApprovalAndApplyService.js:13-19`,
  `context/project-overview.md:434`). approve and approve-and-apply both load a
  PENDING submission before the user lock and neither reads it again; their ledger
  keys differ. Both mint.
- **`CountedOnce`** of votes (`context/project-overview.md:624`). The aggregator's
  cursor is moved after the vote's transaction, not in it.
- **`CountedOnce`** of XP (`context/project-overview.md:219`). Events are applied in
  `createdAt` order and the cursor becomes the id of the last; when the orders differ
  it falls behind an event already counted.
- **`RewardsArrive`** (`PeriodFinalizationService.js:181-182`). Nothing returns to a
  period whose finalization row is committed.

The models contain the following limits too; some are operators that no listed run
checks, and the conditions of section 3 are drawn along the others.

*Bounties and payouts.* A reject that loaded a PENDING submission overwrites an
approval that was paid (`BountySubmissionService.js:337` updates by id), and a reject
clicked twice counts `rejected_submissions` twice. Approvals for two users may together
exceed the month's budget (`BountyApprovalService.js:70` reads it under a per-user lock).
Applying a second submission to a field that one was already applied to rewards and
overwrites, without an advisory: only APPROVED siblings count. That the warning is
"queue-only" (`context/project-overview.md:446`) is not so: approvals answer with it too.
A payout request has no idempotency key: repeated after a lost answer, it reserves twice.
Two admins can move a CLOSED bounty to PAUSED, which `transition` refuses to one
(`BountyInstanceService.js:269`); and a bounty that is paused is doubled by the
generator's next tick, since the unique index covers OPEN ones only.

BRICK_COMPLETED does not always go to whoever closes the last bounty
(`BountyApprovalAndApplyService.js:8-9`, `context/project-overview.md:567`): an apply counts
another bounty of the brick as open, an admin or the generator closes that one without the
brick's lock, and the apply commits. Its user has closed the last bounty and is not awarded,
and nobody else ever is (`FinalCloserIsAwarded` in BountyReview, refuted with `Edited` as in
`completion`). A bounty opened between count and commit has it the other way round: a brick
is completed that has one open.

*Votes and prices.* An intent or an XP event that commits after a higher id was
processed is never fetched (`id > cursor`). The freeze of the code is another one than
that of `docs/FINAL_REQUIREMENT.md:590` and `802-805`: only the flag at aggregation time
matters, and the end of a freeze starts no cycle and clears no counter (`Counts`,
`ExitFreeze`). Freeze windows are never closed (nothing calls `logFreezeExit`), so
`Eligible` in TrustJobs discards every later vote of the cycle. A worker's write over an
event that came in between leaves `needs_recheck` without a deadline;
`docs/DEVOPS_UPDATE_V1.md:106` speaks of advisory locks there. A recheck credit may be
granted twice in one window, by the cycle and by the deadline
(`VoteCreditService.js:29` says once). An ACTIVE recheck that expires is left in WATCH
with `needs_recheck` false.

*Leaderboards.* Winners are read from the live board after the lock is gone
(`PeriodFinalizationService.js:252`), so a slice applied in between moves them away from
the frozen snapshot of lines 7-8 and 21-22 (`RewardsFollowSnapshot` in Leaderboard).

*Sessions and challenges.* A brick may be in both sets of a day
(`BrickOncePerDay`; `context/project-overview.md:239` says never) when a second builder
finds the morning half inserted. A converted guest session that carries the last brick
never completes. Two assigners at different hours leave more than five dailies
(`FiveDailies`; `context/project-overview.md:275`). No statement writes the challenge
status `expired`.

*Dex and trust.* On a server that is not in UTC the streak does not count days
(`XpService.js:105`, "Already counted today"). The local midnight stored in
`last_activity_date`, a DATE, is read back as the day before, so that a second completion of a
day looks like the first one of the next: the streak grows by two in one day, and may earn a
bonus, without any overlap (`StreakWithinDays` in DexProgress, refuted by one request at a time
with `ServerOffset` 6: a context opened, then read). "Stage never decreases"
(`DexProgressService.js:2`) fails when two requests overlap: the second writes by key
(line 35). A vote repeated after a lost answer
whose key was not stored gets a 409, not the answer. A claim is not atomic
(`trust-evaluation-worker.js:39`, `docs/DEVOPS_UPDATE_V1.md:61`): two workers may find one
job. A job whose worker died stays PROCESSING and one that failed stays FAILED; neither is
taken again. The linker's totals are of the whole run, so that once it has linked one
row it loops for ever on a batch it cannot link, and waiting rows that fill a batch
hide the rows behind them.

## 5. Proofs

What the runs of section 3 show on small instances, the theorems below state for all
values of the constants: any users, sessions, writers, workers and finalizers, any finite
set of submissions or payouts, any number of events, votes, cycles and crashes, any size
of a batch, any table of levels.

| Module | Theorems | State |
|---|---|---|
| `PayoutLedger_proofs` | `TypeCorrect`, `Invariance` | types, and the inductive invariant |
| | `MoneyCorrect`, `PaymentsCovered`, `BooksBalanced` | reserves equal open requests, available cash ≥ 0, cash is conserved, a payment about to be written is covered by both columns |
| | `AuditCorrect` | the audit log tells every request's history |
| | `ContractImplemented` | `Spec => ImplementsContract`: PayoutLedger refines PayoutContract |
| `BountyReview_proofs` | `TypeCorrect`, `Invariance` | types, and the inductive invariant |
| | `RewardsBacked` | money follows the ledger to the cent; an approved submission has its reward and its XP |
| | `CompletionAwarded` | an apply awards the completion if and only if it closes the brick's last open bounty, beside any outside writers, unless one came between its count and its commit |
| | `OverspendTakesTwo` | only two users can together exceed the budget |
| | `OnceSettled` | an uncontested submission is rewarded at most once, and not if it is rejected |
| | `StatisticsExact` | counters of uncontested users are exact, milestones follow the rewards |
| `VotePipeline_proofs` | `TypeCorrect`, `Invariance` | types, and the inductive invariant |
| | `StreamsExact` | one event per processed intent; nothing below the cursor is passed over |
| | `CyclesHold` | counters hold the current cycle's votes, closed totals stand |
| `Leaderboard_proofs` | `TypeCorrect`, `Invariance` | types, and the inductive invariant |
| | `RanksExact` | ranks are 1 to n in the order of score, tie-break and user |
| | `OneTier` | nobody is rewarded in two tiers of a week |
| `XpReconciliation_proofs` | `TypeCorrect`, `Invariance` | types, and the inductive invariant |
| | `ReconciliationExact` | the total is what was counted, level-ups form one chain, the cursor is exact until awards overlap |
| `Services_proofs` | `OffersSound` | a tick closes what is filled and offers what is empty; `closed_at` tells the closed |
| | `ReviewsSound` | repeated review calls reward once; of two approvals for a field one answer told |
| | `LimitExact` | the daily limit holds and denies nothing it has room for, but after a late writer |
| | `ActionsOnce` | votes and classifications once and no falling stage outside overlap; a context once per key |
| | `StreakExact` | on a server in UTC, the Dex streak is the run of active days; one bonus a day |
| | `SetsSound` | the sets of a day keep their targets; without overlap each brick is in one set and cycles follow one another |
| | `PoolSound` | a day's pool repeats no template and a slot, once filled, stands |
| | `PerfectDaysSound` | a perfect day is awarded once, when and only when its conditions hold |
| | `TypeCorrect` | types of all eight services; what waits, is under way or was counted is at most what was sent |
| | `TrustSound` | a close is scored by the user's last word, once; what is done is counted; misses are held back |
| `Daily_proofs` | `TypeCorrect` | types of all five modules; what is counted lies within sets and slates |
| | `SessionsSound` | a session is complete when and only when its target was voted; a caught-up stance is the last vote's |
| | `StreaksSound` | completions record the runs of days; the streak, the longest and the breaks follow from them |
| | `ChallengesSound` | completed when and only when earned since the assignment; one bonus for all dailies; whole slates |
| | `RechecksSound` | freezes end, recheck windows are whole, run out and are not started over |
| | `CreditsSound` | one vote beyond the newcomer's credits at one price, in one cycle and window |
| | `CalendarSound` | reset instants are where the next key begins, in every zone that keeps 5 AM; ISO week keys in every year |
| | `LinkerSound` | what a run leaves unlinked stands behind a whole batch that cannot be linked |

`SharedLemmas` has no theorem of its own: sums over finite sets, orders on them, and runs of
days. The lemmas about `xp_events` (how the log grows, the order of its events) are with the
proofs of the reader that needs them.

**Assumptions.** Only those the modules make of their constants, each named at its
declaration and evaluated by every run: payouts and submissions are finitely many,
amounts and rewards are naturals, a level table is not empty, batches are not empty, there are
finitely many bricks and requests at once, targets are naturals, slots are a sequence, every
idempotency key has a kind, the bounds on a brick's bounties and on requests are naturals,
and the trust cooldown takes a miss at least
(`config/pricing.js:88-93`: `parseInt(..) || 3` is never 0), and a server's local time is
between 12 hours behind and 14 hours ahead of UTC. Of what a day's votes move:
session windows come in the order of time, one of a kind a day, and take what the set of their
brick holds; a session's and a challenge's target is at least 1 (`TARGETS` in
`services/sessions/SessionSetService.js`, and the CHECK of
`20260701000100_*/migration.sql:42`); the longest freeze and the window of a recheck are not 0,
and no freeze is set longer than the longest; the calendar is looked at after the first week of
1970, in zones whose clocks are advanced by at most five hours, and neither to 5 AM nor over it
(`ZonesAssumption`): the tz database, which is not part of this code, has summer time begin and
end well before 5 AM. Without it `nextLocalResetUtc` would have no answer to find, or two: its
guesses would go to and fro over an hour that does not exist; and at every moment of a day enough daily
templates of different signatures may be assigned (`ChallengesAssumption`): the migration
`20260701000900_*` seeds five whose signatures differ and that no hour and no level excludes.
A "no value" constant is outside the set it stands beside (`NotFinalAssumption`: what stands
for "not finalized" is no ranking). User ids of the XP modules are numbers, because a rank's
last tie-break compares them.

### Why the invariants had to be strengthened

A transaction trusts, when it writes, what it read before. None of the properties is
inductive without the reason why that trust is right; each inductive invariant `Inv` is
the properties and those reasons, as named conjuncts.

*PayoutLedger.* `Shape`: types, what a session has at which step, two sessions hold
different locks. `StillFresh`: a session that decided still finds what it decided on. Its
second half is the interesting one: payments and rejections of the same user run
meanwhile under *other* locks, but a payment takes the same amount from both columns, and
rejections and credits only increase what is available. `Books`: the money properties.
`OpenIsCovered` (an open payout is at most its user's reserve) then gives
`PaymentsCovered`.

*The contract.* The refinement maps each of the four commits to `Hold`, `Pay`, `Release`
or `Earn` and every other action to a stutter (`ContractStep`). It needs two facts beside
`Inv`: `AmountsKnown` (a request is for one of the amounts) and `PaidIsSpent` (what was
paid is what is earned and no longer in cash, which is `CashConserved` the other way
round). `StillFresh` is what makes a commit of a request a `Hold` the contract allows, and
`OpenIsCovered` what makes a payment a `Pay` and a rejection a `Release` it allows.

*BountyReview.* `Exclusive`: no lock is held twice. `Unclaimed`: while a session is about
to pay, its key is not in the ledger; this needs the user's advisory lock, which both
kinds of reward take under one name. `LoadedIsRewarded`: what was loaded as APPROVED was
rewarded already; it justifies the apply that writes no reward. `BudgetSeen`: as long as
the month has one user only, what was spent plus what the session is about to pay is
within the budget; a reset in between only lowers it. `BrickRowAsked` and `CountIsFresh`:
an apply that counted the brick's open bounties holds the brick's row, so no other apply
closes one until it commits, and what it counted still stands unless it was `overtaken`.
`OneReview`, `LoadedIsFresh`, `ClaimsSettled`: outside
`contested`, the copy that was loaded before the lock is the row as it is. That last
group is false for contested submissions, which is what `review_double` shows.

*VotePipeline.* `EnricherShape`: the intents of a batch that are not processed yet are
PENDING, and the cycle that was read is not ahead of the brick's. `AggregatorShape`: the
batch is the next stretch of events after the cursor, without gaps, and the cursor moves
only over an event that was counted or dismissed. `EventsOfIntents`: events and PROCESSED
intents correspond one to one. `EventsKnown`, `ClosesKnown`: an event's cycle was reached,
and every cycle that is over has one closed total. `CyclesHoldTheirVotes` adds the weights
of a cycle's events: a sum that a counted event increases by its own weight
(`CountWeighs`), and that an event just appended does not change (`AppendWeighsNothing`).

*XpLog.* `OwnersKnown`, `RowsOfWriters` (an INSERTED row is one writer's, which has not
ended) and `LogInOrder`: while no two transactions were open at once, ids follow times.
`LogGrows` is what readers rely on: a committed event keeps its owner and its worth.

*XpReconciliation.* `OneAtATime`: the user's lock. `RowIsRight` and `TransactionsAreRight`
say of the saved row, and of the transaction that will replace it, that the total is the
sum of the events counted and the level the end of an unbroken chain of level-ups
(`RowFits`, `TxFits`, whatever the order of the events), and, until two awards overlapped,
that the events up to the cursor are taken exactly once (`TakenTo`) and those at hand are
the next ones (`NextOnes`).

*Leaderboard.* `FiniteBoard`, and `OneFinalizer`: one finalizer at most is past the
finalization, and the winners it still has to serve have no reward. `RanksAreExact`
follows from a general fact: in a finite set with a strict total order the numbers of
predecessors are 0 to n − 1, each once (`PlacesAreExact`); the order is by
score, tie-break time, tie-break event and user (`BoardOrdered`).

*Services.* Each part has an invariant of its own, and `PartsStep` says that a step moves
one part only. Limit: `CounterSeparates`, the day on which the counter was reset separates
the days, of those no late writer touched: later days have no submission yet, and the
counter is right for its own. Reviews: `CallsAreKnown` and `StatusFollowsCalls` (as
long as one operation was called on a submission, what a call has read is PENDING or what
that operation writes, which then stands). Bounties: `RowsMean`
(only a race can leave a paused bounty its `closed_at`) and `TickAccounts` (what a tick
still has to do, and what was touched beside it, accounts for every bounty that is open on
a field the tick found filled and for every field it found empty). Dex: `StageIsSeen` and
`SessionIsNew` (alone on the brick, a transaction still finds the stage and the session it
decided on), `Together` (two open transactions are an overlap and never share a context's
key), and `StreakIsSeen`: the streak a completion read still stands, or another completion
of the same day has written what this one will write (on a server in UTC, where a day read back is the day
written: `InUTC`). `RunGrows` says what a new day does to the run of active days. Sets: `BuilderAlone` (a builder that nobody overlapped works in the
newest cycle, and what it read of the tables still stands), `CyclesInOrder`, and `OthersFit`
(what a builder is about to insert fits the target of its half, with or without company).
A set may be smaller than its target only where there are too few bricks at all. Pool: a slot
that a builder left empty has no template left that its family allows, because the slots before
it took them (`Passed`, `GapsAreExhausted`); hence whoever may insert is ahead of all others
(`InserterIsAhead`), and what it excludes is what the pool holds. `ViewIsDistinct` is that
for the worker, whose own rows nobody else sees before its commit. Perfect days: `AwardIsAhead`,
a day that meets the conditions and has no award has an event still to come beyond the cursor of
its stream, other than the one just judged. Trust: `Reflects` (any trust state, saved or about
to be written, is that of some of the scores, so a recomputation from a stale read is an earlier
truth and not a false one), `NothingIsLost` (alone, a recomputation loses no score) and
`ClaimsFit` (a job is unclaimed until it is no longer PENDING).

`TypeCorrect` of Services needs more than these, because the types bound the counters: a counter
is within its bound only if what may still be counted is. `RowsAreSent`: a day's submissions and
the requests that wait are at most the requests sent. `DexCounts`: so are a key's transactions,
or a day's bonuses, and the transactions under way; and a streak grows by no more than one with
every request sent.
`RowsInBound`: a tick and an admin create no bounty beyond the bound. `StatesAdd`: aligned and
misaligned outcomes add up to the cycles counted, in the saved trust and in every one a worker
is about to write; scores are of different cycles (`ScoresFit`), and a worker recounts only
after a score exists, so that the mean it takes the tier from divides by no zero.

*Daily.* `PartsStep` says again that a step moves one part only. Sessions: `VotesInOrder` (no
completed window is later than a vote still before the cursor, so days are completed in order),
`BatchFits`, `StancesFit` (a stance is the last vote the cursor has passed, or the one after
it), and for every window `SessionRowsFit`: the partial count never exceeds the rows, and is
exact outside the window of a guest's conversion, whose own count is one of rows that exist
(`GuestFits`). A worker that died repeats a vote it has saved: the row exists, and nothing is
written twice. `StreakRowFits`, `BreaksFit` and `RunsFit` say of the streak row, the breaks and
the completions that they are those of the completed days (`RunGrows`, as in the Dex).
Challenges: `RowFits`, a completed row has its votes, and another one lacks some of those up to
where the worker *is*, which after its COMMIT is one further than its cursor; `BonusFits`; and
`SlateFits`: while one assigner writes, what it still has to insert completes the slate, and
nobody else writes. Rechecks: `FreezeFits` bounds the age of a freeze by what still holds the
worker off (`Hold`: the cooldown or the running window, whichever is longer); one recheck may
begin in a freeze before the freeze's own trigger, which comes first once it is due, so the
bound is the longest freeze and one `HoldOff`; `PassFits` says what the worker leaves when it
has been through, `PageFits` and `PageIsFresh` what its stale page can still do. Credits:
`CreditInv` weighs what was spent and what a user may still get (`VotesLeft`: the credits left,
one if the price moved, one if the window has not granted) against the bound. Calendar:
the invariant is `ClockInv` (a zone of the table, an instant after the first week), and the work
is in the lemmas. `ResetIs`: the guesses that the loop can reach after the first are two, 5 AM
less either offset; one of them shows 5 AM and the other is corrected to it, because a clock
change between the two would be one over 5 AM. `WeekKeyFacts`: the week of January 4th has the
year's first Thursday, so counting weeks from its Monday is counting the year's Thursdays; it
rests on `YearFacts`, that a day lies in the span from one January 1st to the next. Linker:
`FirstBatchFits`: as long as a run has linked nothing it stands in its first batch, all it took
was skipped, and what it could have linked is still to do.

**Sums.** Totals are cardinalities of sets of units (cents, votes), or differences of two
(`IntSum`, for XP that may be negative), so that adding an element adds its number by the
library's facts about finite sets. Where a module sums with `MapThenSumSet` of the
community modules, which is a recursive function under a `CHOOSE`, `SumExists` and
`SumUnique` show that a function which satisfies the recursion exists and is unique, by a
smallest counterexample instead of an induction.

### Only model-checked

- Every liveness property (`AdminOperationsEnd`, `VotesArriveInTheEnd`, `ScoresCatchUp`):
  the provers here have no fairness rules, and `ENABLED` is out of their reach.
- The violated runs: a counterexample is its own proof.

## 6. Plan

The model of section 2 is complete as far as section 7 says, and every safety property that
the passing runs check is proved. What is worth adding next, the most important first:

1. A second enricher in BrickRecheck, whose two reads of the row would then be two actions.
2. Overlapping session-progress workers, and the condition `StreaksAreRuns` then needs.

## 7. Not modelled

- Stateless arithmetic on decimals (sentiment, caps, confidence, fair range, momentum,
  influence): its outcomes are nondeterministic choices in VotePipeline and BrickRecheck.
  The eligibility of a challenge template is a constant per moment.
- Lifetime and dex leaderboards (the worker's code path is that of the weekly one), the
  anti-sniping visibility snapshot, and the cosmetics of a reward bundle.
- The refusal of another user's idempotency key, content validation, uploads,
  authentication, permissions and routes: checks of a request by itself, or I/O.
- Inbox rows, read models, template and definition CRUD, and the daily price snapshot:
  single idempotent statements.
- Scripts that seed, demonstrate or verify a deployment (`scripts/demo-*`,
  `scripts/test-*`, `scripts/verify-*`): they drive the services and keep no state.
