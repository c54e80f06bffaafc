----------------------------- MODULE VoteLinker -----------------------------
(***************************************************************************)
(* dex-vote-linker: a batch job that writes the vote event of every        *)
(* processed intent into the Dex progress row of its user and brick, while *)
(* the enricher goes on processing and rejecting intents.                  *)
(***************************************************************************)
EXTENDS Integers, FiniteSets, FiniteSetsExt

CONSTANTS Rows,    \* 1..n: rows at stage 2 or 3 in (user, brick) order
          Batch    \* BATCH

VARIABLES intent,  \* the row's vote intent: waiting, processed or rejected
          linked,  \* the rows whose vote_event_id is set
          run      \* the job

vars == <<intent, linked, run>>

Unlinked == Rows \ linked

\* findMany with take: the first unlinked rows.
FirstRows == {r \in Unlinked : Cardinality({s \in Unlinked : s <= r}) <= Batch}

Stopped == [pc |-> "stopped"]

Init ==
    /\ intent = [r \in Rows |-> "waiting"]
    /\ linked = {}
    /\ run = Stopped

\* enrich-votes settles the intent.
Enrich(r) ==
    /\ intent[r] = "waiting"
    /\ \E status \in {"processed", "rejected"} : intent' = [intent EXCEPT ![r] = status]
    /\ UNCHANGED <<linked, run>>

\* `start` is history: the rows that could be linked when the run began.
StartRun ==
    /\ run.pc = "stopped"
    /\ run' = [pc |-> "fetch", start |-> {r \in Unlinked : intent[r] = "processed"},
               linkedOne |-> FALSE, skipped |-> 0, size |-> 0, todo |-> {}]
    /\ UNCHANGED <<intent, linked>>

FetchBatch ==
    /\ run.pc = "fetch"
    /\ run' = IF Unlinked = {} THEN [run EXCEPT !.pc = "ended"]
              ELSE [run EXCEPT !.pc = "link", !.todo = FirstRows,
                               !.size = Cardinality(FirstRows)]
    /\ UNCHANGED <<intent, linked>>

\* Both totals are of the whole run; skipped rows matter until one is linked.
LinkOne ==
    LET r == Min(run.todo)
        found == intent[r] = "processed"
    IN  /\ run.pc = "link" /\ run.todo # {}
        /\ linked' = IF found THEN linked \cup {r} ELSE linked
        /\ run' = [run EXCEPT !.todo = @ \ {r}, !.linkedOne = @ \/ found,
                              !.skipped = IF found \/ run.linkedOne THEN @ ELSE @ + 1]
        /\ UNCHANGED intent

\* Mutant: a batch with a row that waits ends the run.
NoProgressIfSkipped == run.skipped > 0

NoProgress == ~run.linkedOne /\ run.skipped = run.size

EndOfBatch ==
    /\ run.pc = "link" /\ run.todo = {}
    /\ run' = [run EXCEPT !.pc = IF NoProgress THEN "ended" ELSE "fetch"]
    /\ UNCHANGED <<intent, linked>>

\* The job exits, or is killed wherever it is.
StopRun ==
    /\ run.pc # "stopped"
    /\ run' = Stopped
    /\ UNCHANGED <<intent, linked>>

Next ==
    \/ \E r \in Rows : Enrich(r)
    \/ StartRun \/ FetchBatch \/ LinkOne \/ EndOfBatch \/ StopRun

Spec == Init /\ [][Next]_vars

-----------------------------------------------------------------------------
TypeOK ==
    /\ intent \in [Rows -> {"waiting", "processed", "rejected"}]
    /\ linked \subseteq {r \in Rows : intent[r] = "processed"}
    /\ run.pc \in {"stopped", "fetch", "link", "ended"}

\* A run that ends has linked every row that could be linked when it began,
\* unless a whole batch of rows before it had nothing to link: those stand in
\* its way in this run and in every later one until their votes are settled.
OnlyFullBatchesHide ==
    run.pc = "ended" =>
        \A r \in run.start \ linked :
            Cardinality({s \in Unlinked : s < r}) >= Batch
=============================================================================
