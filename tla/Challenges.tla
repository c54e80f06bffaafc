------------------------------- MODULE Challenges ------------------------------
(***************************************************************************)
(* One user's challenges on one local day: ChallengeAssignmentService,     *)
(* called by API requests in autocommit and by the challenge-progress      *)
(* worker inside its per-user transaction; ChallengeProgressService, which *)
(* recounts the votes of an assignment; the bonus for all five dailies.    *)
(* Several requests and the worker may find no assignments at once and     *)
(* each choose by the moment it started at, and a process may die between  *)
(* two INSERTs.                                                            *)
(***************************************************************************)
EXTENDS Integers, Sequences, SequencesExt, FiniteSets

CONSTANTS
    Pool,        \* the day's daily templates, by pool position
    Others,      \* further active daily templates, for the fallback
    Weeklies,    \* active weekly templates
    WeeklySlots, \* weekly candidates, by slot in slotOrder
    Signature,   \* matchSignature of a daily template
    OpenAt,      \* moments at which ImpossibilityValidator lets a template pass
    Target,      \* target_count
    TypesOf,     \* logic_definition.match.vote_type
    Distinct,    \* templates that count per_unique_brick
    DailyCount,  \* 5
    Moments,     \* hours and user levels as time goes by, as 1..n
    DayEnd,      \* the last moment of the local day
    VoteKinds,   \* the votes the user may cast: [type, brick]
    Requests,    \* concurrent API requests
    MaxVotes     \* bounds the votes

Dailies == Range(Pool) \cup Others
Templates == Dailies \cup Weeklies
Votes == {[type |-> k.type, brick |-> k.brick, at |-> m] : k \in VoteKinds, m \in Moments}

VARIABLES
    now,      \* the moment
    votes,    \* vote_events of the user, by id
    rows,     \* user_challenge_assignments of the day and week: template -> row
    bonus,    \* the all_five_dailies XP event exists
    cursor,   \* the worker's cursor
    worker,   \* what the worker holds
    request,  \* what each API request holds
    disturbed \* history: assigners overlapped, or a request died in the middle

tables == <<votes, rows, bonus, cursor>>
vars == <<now, tables, worker, request, disturbed>>

(* A row counts the votes with an index above "from": createdAt at or after  *)
(* the assigned_at of its statement or, for the worker, its transaction.     *)
Row == [from : 0 .. MaxVotes, progress : 0 .. MaxVotes, done : BOOLEAN]
Idle == [step |-> "idle", scope |-> "daily", at |-> 1, todo |-> <<>>]
Sleeping == [step |-> "idle", from |-> 0, todo |-> <<>>]

TypeOK ==
    /\ now \in Moments
    /\ votes \in Seq(Votes) /\ Len(votes) <= MaxVotes
    /\ DOMAIN rows \subseteq Templates /\ Range(rows) \subseteq Row
    /\ bonus \in BOOLEAN /\ disturbed \in BOOLEAN
    /\ cursor \in 0 .. Len(votes)
    /\ worker.step \in {"idle", "weekly", "commit", "cursor"}
    /\ worker.from \in 0 .. Len(votes) /\ Range(worker.todo) \subseteq Templates
    /\ \A r \in Requests :
         /\ request[r].step \in {"idle", "find", "insert"}
         /\ request[r].scope \in {"daily", "weekly"} /\ request[r].at \in Moments
         /\ Range(request[r].todo) \subseteq Templates

Init ==
    /\ now = 1
    /\ votes = <<>>
    /\ rows = <<>>
    /\ bonus = FALSE
    /\ cursor = 0
    /\ worker = Sleeping
    /\ request = [r \in Requests |-> Idle]
    /\ disturbed = FALSE

-----------------------------------------------------------------------------
(* The two selections.                                                       *)
Satisfiable(t, at) == at \in OpenAt[t]

(* p lists the positions of the candidates c that are taken, in their order: *)
(* each that passes, as long as there are not five, unless one taken earlier *)
(* has its signature.                                                        *)
Takes(p, c, at) ==
    /\ \A m, n \in DOMAIN p : m < n => p[m] < p[n]
    /\ \A i \in DOMAIN c :
          LET earlier == {n \in DOMAIN p : p[n] < i}
          IN  i \in Range(p) <=>
                 /\ Satisfiable(c[i], at) /\ Cardinality(earlier) < DailyCount
                 /\ \A n \in earlier : Signature[c[p[n]]] # Signature[c[i]]

SelectFiveWithOverlapRule(c, at) ==
    {[n \in DOMAIN p |-> c[p[n]]] :
        p \in {q \in UNION {[1 .. n -> DOMAIN c] : n \in 0 .. DailyCount} : Takes(q, c, at)}}

(* The pool's templates, and as a fallback the others, in any order           *)
(* (listActive has no ORDER BY).                                             *)
DailySelections(at) ==
    UNION {SelectFiveWithOverlapRule(Pool \o order, at) : order \in SetToSeqs(Others)}

(* One template a slot, seeded by user, week and slot; a slot without an     *)
(* unused template that passes stays empty.  p lists the slots that s fills. *)
Fills(s, p, at) ==
    /\ \A m, n \in DOMAIN p : m < n => p[m] < p[n]
    /\ \A i \in DOMAIN WeeklySlots :
          LET used == {s[n] : n \in {m \in DOMAIN p : p[m] < i}}
              free == {t \in WeeklySlots[i] \ used : Satisfiable(t, at)}
          IN  IF free = {} THEN i \notin Range(p)
              ELSE \E n \in DOMAIN p : p[n] = i /\ s[n] \in free

WeeklySelections(at) ==
    {s \in UNION {[1 .. n -> Weeklies] : n \in 0 .. Len(WeeklySlots)} :
        \E p \in [DOMAIN s -> DOMAIN WeeklySlots] : Fills(s, p, at)}

Of(scope) == IF scope = "daily" THEN Dailies ELSE Weeklies
Assigned(scope) == DOMAIN rows \cap Of(scope)
Selections(scope, at) ==
    IF Assigned(scope) # {} THEN {<<>>}
    ELSE IF scope = "daily" THEN DailySelections(at) ELSE WeeklySelections(at)

(* INSERT ... ON CONFLICT DO NOTHING (user, template, day or week).          *)
Inserted(ts, from) ==
    [t \in DOMAIN rows \cup ts |->
        IF t \in DOMAIN rows THEN rows[t] ELSE [from |-> from, progress |-> 0, done |-> FALSE]]

Assigning == {r \in Requests : request[r].step = "insert"}
WorkerAssigns == worker.step \in {"weekly", "commit"} /\ worker.todo # <<>>

-----------------------------------------------------------------------------
(* The requests: ChallengeController.daily, weekly and assignIfNeeded.       *)
Call(r, scope) ==
    /\ request[r].step = "idle"
    /\ scope = "daily" => now <= DayEnd
    /\ request' = [request EXCEPT ![r] =
         [step |-> "find", scope |-> scope, at |-> now, todo |-> <<>>]]
    /\ UNCHANGED <<now, tables, worker, disturbed>>

(* Existing rows are the answer, however many there are.                     *)
Choose(r) ==
    /\ request[r].step = "find"
    /\ \E s \in Selections(request[r].scope, request[r].at) :
         request' = [request EXCEPT ![r] =
             IF s = <<>> THEN Idle ELSE [@ EXCEPT !.step = "insert", !.todo = s]]
    /\ disturbed' = (disturbed \/ Assigning # {} \/ WorkerAssigns)
    /\ UNCHANGED <<now, tables, worker>>

Insert(r) ==
    /\ request[r].step = "insert"
    /\ rows' = Inserted({Head(request[r].todo)}, Len(votes))
    /\ request' = [request EXCEPT ![r] =
         IF Len(@.todo) = 1 THEN Idle ELSE [@ EXCEPT !.todo = Tail(request[r].todo)]]
    /\ UNCHANGED <<now, votes, bonus, cursor, worker, disturbed>>

RequestDies(r) ==
    /\ request[r].step = "insert"
    /\ request' = [request EXCEPT ![r] = Idle]
    /\ disturbed' = TRUE
    /\ UNCHANGED <<now, tables, worker>>

-----------------------------------------------------------------------------
(* The worker: one vote a transaction, under the user's lock.                *)
Current == votes[cursor + 1]
InDay(v) == v.at <= DayEnd

(* getOrAssignDailies at the vote's createdAt; a vote after the reset asks   *)
(* for the next day's dailies, which are not followed here.                  *)
Begin ==
    /\ worker.step = "idle" /\ cursor < Len(votes)
    /\ \E s \in IF InDay(Current) THEN Selections("daily", Current.at) ELSE {<<>>} :
         /\ worker' = [step |-> "weekly", from |-> Len(votes), todo |-> s]
         /\ disturbed' = (disturbed \/ (s # <<>> /\ Assigning # {}))
    /\ UNCHANGED <<now, tables, request>>

ChooseWeeklies ==
    /\ worker.step = "weekly"
    /\ \E s \in Selections("weekly", Current.at) :
         /\ worker' = [worker EXCEPT !.step = "commit", !.todo = @ \o s]
         /\ disturbed' = (disturbed \/ (s # <<>> /\ Assigning # {}))
    /\ UNCHANGED <<now, tables, request>>

PredicateMatches(t, v) == v.type \in TypesOf[t]

(* Mutant: the votes of the day that were cast before the assignment count.  *)
RecomputeWholeDay(table, t) ==
    LET counted == {i \in DOMAIN votes : PredicateMatches(t, votes[i])
                                      /\ (t \in Dailies => InDay(votes[i]))}
    IN  Cardinality(IF t \in Distinct THEN {votes[i].brick : i \in counted} ELSE counted)

(* recomputeProgress: all the votes in [assigned_at, expires_at).            *)
RecomputeProgress(table, t) ==
    LET counted == {i \in DOMAIN votes : i > table[t].from /\ PredicateMatches(t, votes[i])
                                      /\ (t \in Dailies => InDay(votes[i]))}
    IN  Cardinality(IF t \in Distinct THEN {votes[i].brick : i \in counted} ELSE counted)

Progressed(table, t) ==
    LET n == RecomputeProgress(table, t)
    IN  [table[t] EXCEPT !.progress = n, !.done = n # table[t].progress /\ n >= Target[t]]

Active(table) == {t \in DOMAIN table : ~table[t].done /\ PredicateMatches(t, Current)
                                    /\ (t \in Dailies => InDay(Current))}

Done(table) == {t \in DOMAIN table \cap Dailies : table[t].done}

(* maybeMintAllFiveDailiesBonus: total < 5 or done < 5 is not yet.           *)
AllFive(table) ==
    /\ Cardinality(DOMAIN table \cap Dailies) >= DailyCount
    /\ Cardinality(Done(table)) >= DailyCount

(* The transaction's writes, completions and XP with them, and COMMIT.       *)
Commit ==
    LET table == Inserted(Range(worker.todo), worker.from)
        after == [t \in DOMAIN table |->
                    IF t \in Active(table) THEN Progressed(table, t) ELSE table[t]]
    IN  /\ worker.step = "commit"
        /\ rows' = after
        /\ bonus' = (bonus \/ (InDay(Current) /\ AllFive(after)))
        /\ worker' = [Sleeping EXCEPT !.step = "cursor"]
        /\ UNCHANGED <<now, votes, cursor, request, disturbed>>

MoveCursor ==
    /\ worker.step = "cursor"
    /\ cursor' = cursor + 1
    /\ worker' = Sleeping
    /\ UNCHANGED <<now, votes, rows, bonus, request, disturbed>>

(* The transaction rolls back, or the cursor stays behind.                   *)
WorkerDies ==
    /\ worker.step # "idle"
    /\ worker' = Sleeping
    /\ UNCHANGED <<now, tables, request, disturbed>>

-----------------------------------------------------------------------------
Vote(kind) ==
    /\ Len(votes) < MaxVotes
    /\ votes' = Append(votes, [type |-> kind.type, brick |-> kind.brick, at |-> now])
    /\ UNCHANGED <<now, rows, bonus, cursor, worker, request, disturbed>>

Tick ==
    /\ now + 1 \in Moments
    /\ now' = now + 1
    /\ UNCHANGED <<tables, worker, request, disturbed>>

Next ==
    \/ \E r \in Requests, scope \in {"daily", "weekly"} : Call(r, scope)
    \/ \E r \in Requests : Choose(r) \/ Insert(r) \/ RequestDies(r)
    \/ Begin \/ ChooseWeeklies \/ Commit \/ MoveCursor \/ WorkerDies
    \/ \E kind \in VoteKinds : Vote(kind)
    \/ Tick

Spec == Init /\ [][Next]_vars

-----------------------------------------------------------------------------
(* What the user did for a row, told from the votes alone.                   *)
Earned(t) ==
    LET mine == {v \in DOMAIN votes : /\ v > rows[t].from /\ votes[v].type \in TypesOf[t]
                                      /\ t \in Dailies => votes[v].at <= DayEnd}
    IN  IF t \in Distinct
        THEN \E S \in SUBSET mine : /\ Cardinality(S) = Target[t]
                                    /\ \A v, w \in S : votes[v].brick = votes[w].brick => v = w
        ELSE Cardinality(mine) >= Target[t]

(* A challenge is only completed, and its XP only minted, for votes cast     *)
(* after it was assigned and before it expired, however often the worker     *)
(* died and processed a vote again, and whoever wrote the row.               *)
CompletionIsEarned == \A t \in DOMAIN rows : rows[t].done => Earned(t)

(* When the worker has gone through all the votes, every challenge whose     *)
(* votes are there is completed: a request that assigns while a vote is      *)
(* being processed does not make the worker pass it over.                    *)
EarnedIsCompleted ==
    cursor = Len(votes) => \A t \in DOMAIN rows : Earned(t) => rows[t].done

(* The bonus is there exactly when five dailies are completed, even when     *)
(* overlapping assigners left the user with more than five.                  *)
BonusForFive == bonus <=> Cardinality(Done(rows)) >= DailyCount

(* A day's slate is whole as soon as nobody is writing it, unless assigners  *)
(* overlapped or a request died between its INSERTs: after that it has too   *)
(* many or too few rows, and nothing repairs it.                             *)
SlateIsWhole ==
    ~disturbed /\ Assigning = {} /\ Assigned("daily") # {} =>
        Cardinality(Assigned("daily")) = DailyCount

(* Challenges, bonus and slate agree with the votes, in both directions,     *)
(* whoever assigned and counted at the same time.                            *)
ChallengesFollowVotes ==
    /\ CompletionIsEarned
    /\ EarnedIsCompleted
    /\ BonusForFive
    /\ SlateIsWhole

(* project-overview.md:275: five dailies are assigned per user, fixed for    *)
(* the day.  Two overlapping assigners at different hours insert more.       *)
FiveDailies == Cardinality(Assigned("daily")) <= DailyCount
===============================================================================
