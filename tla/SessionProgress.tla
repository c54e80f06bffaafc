---------------------------- MODULE SessionProgress ----------------------------
(***************************************************************************)
(* A user's daily sessions: session-progress-worker counts the user's      *)
(* votes towards the set of the window they were cast in, completes the    *)
(* session, keeps the streak of its kind and gives the bonuses; signup     *)
(* (AuthController.convertGuestSession) carries over what the user had     *)
(* voted as a guest, statement by statement and under no lock.             *)
(*                                                                         *)
(* A vote's transaction holds the user's advisory lock, and everything it  *)
(* reads but its progress row is written under that lock only, so it is    *)
(* one action.  The worker is one process, which may die between a vote    *)
(* and its cursor and is started again.                                    *)
(***************************************************************************)
EXTENDS Integers, Sequences, FiniteSets, FiniteSetsExt

CONSTANTS
    Bricks,
    Kinds,     \* MORNING, EVENING
    KindOf,    \* the session windows in the order of time: their kinds ...
    DayOf,     \* ... and their logical days
    ItemsOf,   \* daily_session_set_items of each window's set
    TargetOf,  \* TARGETS: bricks to vote, by kind
    Guest,     \* the bricks a guest session sends with the signup
    SignupIn,  \* bounds the windows in which the guest signs up
    Batch,     \* LIMIT of a fetch
    MaxVotes   \* bounds the votes

Windows == DOMAIN KindOf
Target(w) == TargetOf[KindOf[w]]

VARIABLES
    now,        \* the window it is
    built,      \* windows whose daily_session_sets row exists
    votes,      \* vote_events of the user, by id: window of createdAt, brick
    cursor,     \* worker_cursors.last_processed_id
    worker,     \* the process: its step and the batch it holds
    active,     \* active_votes.current_vote_event_id
    counts,     \* user_session_brick_counts
    partial,    \* user_session_progress.partial_count; -1 is no row
    after,      \* session_completion_events.streak_after_completion; 0 is no row
    streak,     \* user_streak_state.<kind>_streak
    lastDay,    \* user_streak_state.<kind>_last_completed_local_day; 0 is NULL
    longest,    \* user_streak_state.<kind>_longest
    breaks,     \* streak_break_events
    xp,         \* xp_idempotency_keys of completions and streak bonuses
    guest       \* the conversion: step, window, bricks left, rows counted

progress == <<active, counts, partial, after, streak, lastDay, longest, breaks, xp>>
vars == <<now, built, votes, cursor, worker, progress, guest>>

IdleWorker == [step |-> "idle", batch |-> <<>>]
NewGuest == [step |-> "none", window |-> 0, todo |-> <<>>, count |-> 0]

TypeOK ==
    /\ now \in Windows
    /\ built \subseteq Windows
    /\ votes \in Seq([window : Windows, brick : Bricks]) /\ Len(votes) <= MaxVotes
    /\ cursor \in 0 .. MaxVotes
    /\ worker \in [step : {"idle", "fetched", "saved"}, batch : Seq(1 .. MaxVotes)]
    /\ active \in [Bricks -> 0 .. MaxVotes]
    /\ counts \subseteq Windows \X Bricks
    /\ partial \in [Windows -> Nat \cup {-1}]
    /\ after \in [Windows -> Nat]
    /\ streak \in [Kinds -> Nat] /\ lastDay \in [Kinds -> Nat] /\ longest \in [Kinds -> Nat]
    /\ breaks \subseteq Kinds \X Nat
    /\ xp \subseteq {"session_completion", "streak_bonus"} \X Windows
    /\ guest \in [step : {"none", "inserting", "counted", "over"}, window : Windows \cup {0},
                  todo : Seq(Bricks), count : Nat]

Init ==
    /\ now = 1 /\ built = {} /\ votes = <<>> /\ cursor = 0
    /\ worker = IdleWorker
    /\ active = [b \in Bricks |-> 0]
    /\ counts = {} /\ breaks = {} /\ xp = {}
    /\ partial = [w \in Windows |-> -1]
    /\ after = [w \in Windows |-> 0]
    /\ streak = [k \in Kinds |-> 0]
    /\ lastDay = [k \in Kinds |-> 0]
    /\ longest = [k \in Kinds |-> 0]
    /\ guest = NewGuest

-----------------------------------------------------------------------------
(* Time, sets and votes.                                                     *)

NextWindow ==
    /\ now < Len(KindOf)
    /\ now' = now + 1
    /\ UNCHANGED <<built, votes, cursor, worker, progress, guest>>

(* Somebody asks for the day's sets (SessionSets models how).                *)
BuildSet ==
    /\ now \notin built
    /\ built' = built \cup {now}
    /\ UNCHANGED <<now, votes, cursor, worker, progress, guest>>

(* The enricher inserts the vote event.                                      *)
Vote(b) ==
    /\ Len(votes) < MaxVotes
    /\ votes' = Append(votes, [window |-> now, brick |-> b])
    /\ UNCHANGED <<now, built, cursor, worker, progress, guest>>

-----------------------------------------------------------------------------
(* StreakService.applyCompletion.                                            *)

(* Mutant: a completion on the next day keeps the streak as it is.           *)
NextStreakStays(prev, prevDay, day) ==
    IF prevDay = 0 THEN 1
    ELSE IF day \in {prevDay, prevDay + 1} THEN prev
    ELSE 1

NextStreak(prev, prevDay, day) ==
    IF prevDay = 0 THEN 1
    ELSE IF day = prevDay THEN prev
    ELSE IF day = prevDay + 1 THEN prev + 1
    ELSE 1

ApplyCompletion(k, day) ==
    LET next == NextStreak(streak[k], lastDay[k], day)
    IN  /\ streak' = [streak EXCEPT ![k] = next]
        /\ lastDay' = [lastDay EXCEPT ![k] = day]
        /\ longest' = [longest EXCEPT ![k] = Max({@, next})]
        /\ breaks' = IF streak[k] > 0 /\ next = 1 THEN breaks \cup {<<k, day>>} ELSE breaks

Complete(w) ==
    /\ ApplyCompletion(KindOf[w], DayOf[w])
    /\ after' = [after EXCEPT ![w] = NextStreak(streak[KindOf[w]], lastDay[KindOf[w]], DayOf[w])]
    /\ xp' = xp \cup {<<"session_completion", w>>, <<"streak_bonus", w>>}

(* The window's set exists and has the brick, and the brick was not counted  *)
(* before.  A vote in a dead window is one in a window without a set.        *)
Creditable(v) ==
    /\ v.window \in built
    /\ v.brick \in ItemsOf[v.window]
    /\ <<v.window, v.brick>> \notin counts

(* processOneVote.                                                           *)
ProcessVote(id) ==
    LET v == votes[id]
        w == v.window
        sofar == Max({partial[w], 0}) + 1
    IN  /\ active' = [active EXCEPT ![v.brick] = id]
        /\ IF Creditable(v)
           THEN /\ counts' = counts \cup {<<w, v.brick>>}
                /\ partial' = [partial EXCEPT ![w] = sofar]
                /\ IF sofar >= Target(w) /\ after[w] = 0
                   THEN Complete(w)
                   ELSE UNCHANGED <<after, streak, lastDay, longest, breaks, xp>>
           ELSE UNCHANGED <<counts, partial, after, streak, lastDay, longest, breaks, xp>>

-----------------------------------------------------------------------------
(* The worker's loop: getCursor and the fetch, a vote's transaction, then    *)
(* setCursor outside it.                                                     *)

(* Mutant: id >= cursor.                                                     *)
FetchFromCursor ==
    /\ worker.step = "idle"
    /\ cursor < Len(votes)
    /\ worker' = [step |-> "fetched",
                  batch |-> [i \in 1 .. Min({Batch, Len(votes) - cursor}) |-> cursor + i - 1]]
    /\ UNCHANGED <<now, built, votes, cursor, progress, guest>>

Fetch ==
    /\ worker.step = "idle"
    /\ cursor < Len(votes)
    /\ worker' = [step |-> "fetched",
                  batch |-> [i \in 1 .. Min({Batch, Len(votes) - cursor}) |-> cursor + i]]
    /\ UNCHANGED <<now, built, votes, cursor, progress, guest>>

Process ==
    /\ worker.step = "fetched"
    /\ ProcessVote(Head(worker.batch))
    /\ worker' = [worker EXCEPT !.step = "saved"]
    /\ UNCHANGED <<now, built, votes, cursor, guest>>

(* Mutant: the cursor moves to the end of the batch with its first vote.     *)
MoveCursorToBatchEnd ==
    /\ worker.step = "saved"
    /\ cursor' = worker.batch[Len(worker.batch)]
    /\ worker' = IdleWorker
    /\ UNCHANGED <<now, built, votes, progress, guest>>

MoveCursor ==
    /\ worker.step = "saved"
    /\ cursor' = Head(worker.batch)
    /\ worker' = IF Len(worker.batch) = 1 THEN IdleWorker
                 ELSE [step |-> "fetched", batch |-> Tail(worker.batch)]
    /\ UNCHANGED <<now, built, votes, progress, guest>>

WorkerDies ==
    /\ worker.step # "idle"
    /\ worker' = IdleWorker
    /\ UNCHANGED <<now, built, votes, cursor, progress, guest>>

-----------------------------------------------------------------------------
(* convertGuestSession.  Each statement commits by itself.                   *)

(* The set exists and its window is the current one; then the progress row.  *)
ConvertBegin ==
    /\ guest.step = "none"
    /\ now \in built \cap SignupIn
    /\ guest' = [NewGuest EXCEPT !.step = "inserting", !.window = now, !.todo = Guest]
    /\ partial' = [partial EXCEPT ![now] = Max({@, 0})]
    /\ UNCHANGED <<now, built, votes, cursor, worker, active, counts, after,
                   streak, lastDay, longest, breaks, xp>>

(* One brick of the guest's list, if it is in the set.                       *)
ConvertInsert ==
    /\ guest.step = "inserting" /\ guest.todo # <<>>
    /\ guest' = [guest EXCEPT !.todo = Tail(@)]
    /\ counts' = IF Head(guest.todo) \in ItemsOf[guest.window]
                 THEN counts \cup {<<guest.window, Head(guest.todo)>>} ELSE counts
    /\ UNCHANGED <<now, built, votes, cursor, worker, active, partial, after,
                   streak, lastDay, longest, breaks, xp>>

CountedIn(w) == {b \in Bricks : <<w, b>> \in counts}

(* The UPDATE counts the rows of its snapshot, then waits for the row.       *)
ConvertCount ==
    /\ guest.step = "inserting" /\ guest.todo = <<>>
    /\ guest' = [guest EXCEPT !.step = "counted", !.count = Cardinality(CountedIn(guest.window))]
    /\ UNCHANGED <<now, built, votes, cursor, worker, progress>>

ConvertWrite ==
    /\ guest.step = "counted"
    /\ partial' = [partial EXCEPT ![guest.window] = guest.count]
    /\ guest' = [NewGuest EXCEPT !.step = "over", !.window = guest.window]
    /\ UNCHANGED <<now, built, votes, cursor, worker, active, counts, after,
                   streak, lastDay, longest, breaks, xp>>

(* The process dies, or a statement fails: signup swallows the error.        *)
ConvertDies ==
    /\ guest.step \in {"inserting", "counted"}
    /\ guest' = [NewGuest EXCEPT !.step = "over", !.window = guest.window]
    /\ UNCHANGED <<now, built, votes, cursor, worker, progress>>

-----------------------------------------------------------------------------
WorkerStep == Fetch \/ Process \/ MoveCursor

Next ==
    \/ NextWindow
    \/ BuildSet
    \/ \E b \in Bricks : Vote(b)
    \/ WorkerStep \/ WorkerDies
    \/ ConvertBegin \/ ConvertInsert \/ ConvertCount \/ ConvertWrite \/ ConvertDies

Spec == Init /\ [][Next]_vars

-----------------------------------------------------------------------------
(* Properties.                                                                *)

Done == {w \in Windows : after[w] > 0}

(* The days before and at DayOf[w] on which the kind was completed, without  *)
(* a gap: what a streak ought to be.                                         *)
RunTo(w) ==
    LET days == {DayOf[u] : u \in {v \in Done : KindOf[v] = KindOf[w]}}
    IN  Cardinality({d \in days : d <= DayOf[w] /\ \A e \in d .. DayOf[w] : e \in days})

(* A session is complete only when its whole target was voted, each brick    *)
(* once, however often a restarted worker processes a vote again, and        *)
(* whatever a guest conversion adds meanwhile.                               *)
CompletionIsEarned ==
    /\ \A w \in Windows : partial[w] <= Cardinality(CountedIn(w))
    /\ \A w \in Done : Cardinality(CountedIn(w)) >= Target(w)
    /\ \A w \in Windows : CountedIn(w) \subseteq ItemsOf[w]

(* The converse, which the user notices: whoever voted the whole target has  *)
(* the completion.  A guest conversion breaks it (it never completes a       *)
(* session, and its absolute count can undo the worker's), so its window is  *)
(* the one exception.                                                        *)
VotedSessionsComplete ==
    \A w \in Windows \ {guest.window} :
        /\ Cardinality(CountedIn(w)) >= Target(w) => w \in Done
        /\ partial[w] = IF w \in {c[1] : c \in counts} THEN Cardinality(CountedIn(w)) ELSE -1

(* Every completion event records the length of the run of days it extends,  *)
(* the streak row is that of the last one, and the longest streak is the     *)
(* longest run: morning and evening never touch each other's.                *)
StreaksAreRuns ==
    /\ \A w \in Done : after[w] = RunTo(w)
    /\ \A k \in Kinds :
          LET own == {w \in Done : KindOf[w] = k}
          IN  /\ lastDay[k] = Max({0} \cup {DayOf[w] : w \in own})
              /\ streak[k] = Max({0} \cup {after[w] : w \in {v \in own : DayOf[v] = lastDay[k]}})
              /\ longest[k] = Max({0} \cup {after[w] : w \in own})
              /\ {b[2] : b \in {c \in breaks : c[1] = k}}
                    = {DayOf[w] : w \in {v \in own : after[v] = 1 /\ \E u \in own : DayOf[u] < DayOf[v]}}

(* Whenever the worker has caught up, the current stance on every brick is   *)
(* that of the last vote, in whatever batches and after whatever deaths the  *)
(* votes came; and no vote is passed over on the way.                        *)
ActiveVoteIsLast ==
    \A b \in Bricks :
        active[b] >= Max({0} \cup {i \in 1 .. cursor : votes[i].brick = b})
        /\ (cursor = Len(votes) =>
               active[b] = Max({0} \cup {i \in DOMAIN votes : votes[i].brick = b}))

(* A session's rows follow its votes in both directions: complete when and   *)
(* only when its target was voted, and each stance the last one.             *)
SessionsFollowVotes ==
    /\ CompletionIsEarned
    /\ VotedSessionsComplete
    /\ ActiveVoteIsLast
=============================================================================
