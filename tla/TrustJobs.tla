------------------------------ MODULE TrustJobs ------------------------------
(***************************************************************************)
(* The trust evaluation jobs: one for every cycle a brick closes, taken by *)
(* any of several workers, which score the last eligible vote of a user    *)
(* and recompute the user's trust from all scores.  One brick, one user.   *)
(*                                                                         *)
(* Only the claim and the recomputation are transactions, READ COMMITTED   *)
(* and without locks on what they read; every score commits by itself.     *)
(***************************************************************************)
EXTENDS Integers, Sequences, FiniteSets, FiniteSetsExt

CONSTANTS Workers,     \* trust evaluation workers
          MaxVotes,    \* bounds on the brick's cycles and the user's votes in each
          Votes,       \* the votes cast in each: type, and whether the mail was verified
          MinScored,   \* trust_min_scored_votes
          Recent,      \* trust_cooldown_window_size
          Misses       \* trust_cooldown_misaligned_threshold

VARIABLES cycles,      \* the brick's cycles, the last one open
          job,         \* trust_worker_jobs.status, by cycle
          scores,      \* trust_score_events, in the order of createdAt
          trust,       \* user_trust_state; counted is history: whose scores it read
          worker,      \* the workers
          claims,      \* history: how often each job was claimed
          raced,       \* history: two workers held one job they had found PENDING
          overlapped   \* history: two recomputations were under way at once

vars == <<cycles, job, scores, trust, worker, claims, raced, overlapped>>

MaxCycles == Len(MaxVotes)
Outcomes == {"UP", "DOWN", "FLAT"}
Tiers == {"UNTRUSTED", "PROBATION", "NEUTRAL", "RELIABLE", "PROVEN"}
NoJob == "none"

\* A cycle: the user's votes in order, how many came before a freeze window was
\* entered (no window is ever closed), and the outcome.
NewCycle(c) == [votes |-> <<>>, beforeFreeze |-> MaxVotes[c], outcome |-> "open"]
Ids == DOMAIN cycles
Closed == {c \in Ids : cycles[c].outcome # "open"}
Free == [pc |-> "idle"]

Init ==
    /\ cycles = <<NewCycle(1)>>
    /\ job = [c \in 1..MaxCycles |-> NoJob]
    /\ scores = <<>>
    /\ trust = [tier |-> "UNTRUSTED", aligned |-> 0, misaligned |-> 0, counted |-> {}]
    /\ worker = [w \in Workers |-> Free]
    /\ claims = [c \in 1..MaxCycles |-> 0]
    /\ raced = FALSE
    /\ overlapped = FALSE

-----------------------------------------------------------------------------
(* The brick's side: votes, a freeze, and the close of the cycle.          *)

Now == Len(cycles)
ChangeCycle(c) ==
    /\ cycles[Now].outcome = "open"
    /\ cycles' = [cycles EXCEPT ![Now] = c]
    /\ UNCHANGED <<job, scores, trust, worker, claims, raced, overlapped>>

\* The enricher writes a vote; one cast before the mail was verified weighs 0.
CastVote(vote) ==
    /\ Len(cycles[Now].votes) < MaxVotes[Now]
    /\ ChangeCycle([cycles[Now] EXCEPT !.votes = Append(@, vote)])

EnterFreeze ==
    /\ cycles[Now].beforeFreeze = MaxVotes[Now]
    /\ ChangeCycle([cycles[Now] EXCEPT !.beforeFreeze = Len(cycles[Now].votes)])

CloseCycle(outcome) == ChangeCycle([cycles[Now] EXCEPT !.outcome = outcome])

OpenCycle ==
    /\ cycles[Now].outcome # "open"
    /\ Now < MaxCycles
    /\ cycles' = Append(cycles, NewCycle(Now + 1))
    /\ UNCHANGED <<job, scores, trust, worker, claims, raced, overlapped>>

-----------------------------------------------------------------------------
(* The jobs.                                                               *)

\* findScoringEligibleVotes
Eligible(c) ==
    {i \in DOMAIN cycles[c].votes :
        /\ cycles[c].votes[i].type # "FAIR"
        /\ cycles[c].votes[i].verified
        /\ i <= cycles[c].beforeFreeze}

Aligned(type, outcome) ==
    <<type, outcome>> \in {<<"OVER", "UP">>, <<"UNDER", "DOWN">>}

Pending == {c \in Ids : job[c] = "PENDING"}

Goto(w, pc) == worker' = [worker EXCEPT ![w].pc = pc]

\* ensureJobsExist: ON CONFLICT DO NOTHING.
EnsureJobsExist(w) ==
    /\ worker[w].pc = "idle"
    /\ \E c \in Closed : job[c] = NoJob
    /\ job' = [c \in DOMAIN job |->
                  IF c \in Closed /\ job[c] = NoJob THEN "PENDING" ELSE job[c]]
    /\ UNCHANGED <<cycles, scores, trust, worker, claims, raced, overlapped>>

\* claimJob finds the oldest PENDING job ...
FindJob(w) ==
    /\ worker[w].pc = "idle"
    /\ Pending # {}
    /\ worker' = [worker EXCEPT ![w] = [pc |-> "claim", job |-> Min(Pending)]]
    /\ raced' = (raced \/ \E v \in Workers : worker[v].pc = "claim")
    /\ UNCHANGED <<cycles, job, scores, trust, claims, overlapped>>

\* ... and updates it by id, whatever its status is now.
ClaimJob(w) ==
    /\ worker[w].pc = "claim"
    /\ job' = [job EXCEPT ![worker[w].job] = "PROCESSING"]
    /\ claims' = [claims EXCEPT ![worker[w].job] = IF @ = 2 THEN @ ELSE @ + 1]
    /\ Goto(w, "score")
    /\ UNCHANGED <<cycles, scores, trust, raced, overlapped>>

\* processCycleClose: nothing to do for a FLAT cycle or without votes; a score
\* that is there already is left as it is.
ScoreVote(w) ==
    LET c == worker[w].job
        last == cycles[c].votes[Max(Eligible(c))]
        score == [cycle |-> c, aligned |-> Aligned(last.type, cycles[c].outcome)]
    IN  /\ worker[w].pc = "score"
        /\ IF cycles[c].outcome = "FLAT" \/ Eligible(c) = {}
           THEN Goto(w, "done") /\ UNCHANGED scores
           ELSE /\ Goto(w, "recount")
                /\ scores' = IF \E i \in DOMAIN scores : scores[i].cycle = c
                             THEN scores ELSE Append(scores, score)
        /\ UNCHANGED <<cycles, job, trust, claims, raced, overlapped>>

Count(log, aligned) == Cardinality({i \in DOMAIN log : log[i].aligned = aligned})

\* assignTrustTier(calculateTrustScore(a, m)), the score in hundredths, times
\* the votes.  Floating point leaves -0.05 and 0.2 just below themselves, and
\* 0.6 just above.
Tier(a, m) ==
    LET n == a + m
        score == IF n < MinScored THEN 0 ELSE 100 * (a - m)
    IN  CASE score < -25 * n -> "UNTRUSTED"
          [] score >= -25 * n /\ score <= -5 * n -> "PROBATION"
          [] score > -5 * n /\ score <= 20 * n -> "NEUTRAL"
          [] score > 20 * n /\ score < 60 * n -> "RELIABLE"
          [] score >= 60 * n -> "PROVEN"

\* checkCooldown, on the most recent scores.
InCooldown(log) ==
    Cardinality({i \in DOMAIN log : i > Len(log) - Recent /\ ~log[i].aligned}) >= Misses

\* The state the transaction computes from what it has read.
Recounted ==
    [tier |-> IF InCooldown(scores) THEN "PROBATION"
              ELSE Tier(Count(scores, TRUE), Count(scores, FALSE)),
     aligned |-> Count(scores, TRUE), misaligned |-> Count(scores, FALSE),
     counted |-> {scores[i].cycle : i \in DOMAIN scores}]

ReadScores(w) ==
    /\ worker[w].pc = "recount"
    /\ worker' = [worker EXCEPT ![w] = [pc |-> "write", job |-> @.job, state |-> Recounted]]
    /\ overlapped' = (overlapped \/ \E v \in Workers : worker[v].pc = "write")
    /\ UNCHANGED <<cycles, job, scores, trust, claims, raced>>

WriteTrust(w) ==
    /\ worker[w].pc = "write"
    /\ trust' = worker[w].state
    /\ worker' = [worker EXCEPT ![w] = [pc |-> "done", job |-> @.job]]
    /\ UNCHANGED <<cycles, job, scores, claims, raced, overlapped>>

\* Mutant: the job is done as soon as the vote has its score.
MarkDoneEarly(w) ==
    /\ worker[w].pc \in {"recount", "done"}
    /\ job' = [job EXCEPT ![worker[w].job] = "DONE"]
    /\ worker' = [worker EXCEPT ![w] = Free]
    /\ UNCHANGED <<cycles, scores, trust, claims, raced, overlapped>>

MarkJobDone(w) ==
    /\ worker[w].pc = "done"
    /\ job' = [job EXCEPT ![worker[w].job] = "DONE"]
    /\ worker' = [worker EXCEPT ![w] = Free]
    /\ UNCHANGED <<cycles, scores, trust, claims, raced, overlapped>>

\* A statement fails: the job is FAILED, and no worker will take it again.
MarkJobFailed(w) ==
    /\ worker[w].pc \in {"score", "recount", "write", "done"}
    /\ job' = [job EXCEPT ![worker[w].job] = "FAILED"]
    /\ worker' = [worker EXCEPT ![w] = Free]
    /\ UNCHANGED <<cycles, scores, trust, claims, raced, overlapped>>

\* The process dies and is started again; its job stays as it is.
WorkerDies(w) ==
    /\ worker[w].pc # "idle"
    /\ worker' = [worker EXCEPT ![w] = Free]
    /\ UNCHANGED <<cycles, job, scores, trust, claims, raced, overlapped>>

Next ==
    \/ \E vote \in Votes[Now] : CastVote(vote)
    \/ EnterFreeze
    \/ \E outcome \in Outcomes : CloseCycle(outcome)
    \/ OpenCycle
    \/ \E w \in Workers :
        \/ EnsureJobsExist(w) \/ FindJob(w) \/ ClaimJob(w) \/ ScoreVote(w)
        \/ ReadScores(w) \/ WriteTrust(w)
        \/ MarkJobDone(w) \/ MarkJobFailed(w) \/ WorkerDies(w)

Spec == Init /\ [][Next]_vars

-----------------------------------------------------------------------------
TypeOK ==
    /\ Len(cycles) <= MaxCycles
    /\ \A c \in Ids : cycles[c].outcome \in Outcomes \cup {"open"}
    /\ job \in [1..MaxCycles -> {NoJob, "PENDING", "PROCESSING", "DONE", "FAILED"}]
    /\ trust.tier \in Tiers
    /\ trust.aligned + trust.misaligned = Cardinality(trust.counted)
    /\ \A w \in Workers : worker[w].pc \in {"idle", "claim", "score", "recount", "write", "done"}

\* A cycle scores a user at most once, however many workers took its job and
\* died over it, and by the user's last word on the direction: a FAIR vote or
\* one cast in a freeze neither counts nor hides the vote before it.
ScoreIsLastWord ==
    \A i \in DOMAIN scores :
        LET c == cycles[scores[i].cycle]
            right == IF c.outcome = "UP" THEN "OVER" ELSE "UNDER"
            Says(j) == c.votes[j].verified /\ c.votes[j].type # "FAIR" /\ j <= c.beforeFreeze
        IN  /\ c.outcome \in {"UP", "DOWN"}
            /\ \A k \in DOMAIN scores : scores[k].cycle = scores[i].cycle => k = i
            /\ \E j \in DOMAIN c.votes :
                  /\ Says(j) /\ \A k \in DOMAIN c.votes : Says(k) => k <= j
                  /\ scores[i].aligned <=> c.votes[j].type = right

\* A job that is DONE has its score in the user's trust, also when the job was
\* processed twice, unless two recomputations of the user overlapped
\* (processCycleClose reads all scores and writes absolute values).
DoneIsCounted ==
    overlapped \/ \A i \in DOMAIN scores :
                      job[scores[i].cycle] = "DONE" => scores[i].cycle \in trust.counted

\* Whoever missed most of the recent cycles is at PROBATION, whatever the
\* lifetime score, once the jobs that scored them are DONE and the next one has
\* not been scored yet.
MissesAreHeldBack ==
    \/ overlapped
    \/ trust.counted # {scores[i].cycle : i \in DOMAIN scores}
    \/ Cardinality({i \in DOMAIN scores : Len(scores) - i < Recent /\ ~scores[i].aligned}) < Misses
    \/ trust.tier = "PROBATION"

\* "Atomically claim one PENDING job" (trust-evaluation-worker.js:39) holds
\* unless two workers found it in the same moment: a job is taken once, and not
\* again after its worker died or it failed.
ClaimedOnce == raced \/ \A c \in DOMAIN claims : claims[c] <= 1

(* Jobs, scores and trust agree, although claims are not exclusive and a     *)
(* worker may die between any two statements.                                *)
TrustFollowsScores ==
    /\ ScoreIsLastWord
    /\ DoneIsCounted
    /\ MissesAreHeldBack
    /\ ClaimedOnce
=============================================================================
