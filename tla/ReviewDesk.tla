----------------------------- MODULE ReviewDesk -----------------------------
(***************************************************************************)
(* The admins' HTTP calls on submissions for one field of one brick: a     *)
(* handler runs the service's transaction and then, in statements of its   *)
(* own, collects the answer, which for an approval carries the advisory    *)
(* about approved submissions of the same field.  A click may come twice,  *)
(* and an answer may be lost, so that the admin asks again while the first *)
(* call is still running.                                                  *)
(*                                                                         *)
(* A transaction reads the submission before it waits for the user's lock  *)
(* and not again under it; what follows the lock is one action here        *)
(* (BountyReview has its row locks and its money).                         *)
(***************************************************************************)
EXTENDS Integers, FiniteSets

CONSTANTS Submissions,   \* ids, in the order of created_at
          Calls          \* calls under way at once

VARIABLES status,        \* bounty_submissions.status
          rewards,       \* bounty_reward_events, counted by submission and key
          call,          \* what each call has read
          told,          \* history: the last answer delivered since the approval
          ops            \* history: the operations called on a submission

vars == <<status, rewards, call, told, ops>>

Operations == {"approve", "apply", "reject"}
Statuses == {"PENDING", "APPROVED", "APPLIED_TO_BRICK", "REJECTED"}
NoCall == [pc |-> "none"]

Init ==
    /\ status = [s \in Submissions |-> "PENDING"]
    /\ rewards = [s \in Submissions |-> [op \in {"approve", "apply"} |-> 0]]
    /\ call = [c \in Calls |-> NoCall]
    /\ told = [s \in Submissions |-> "nothing"]
    /\ ops = [s \in Submissions |-> {}]

-----------------------------------------------------------------------------
\* The transaction begins, and loads the submission.
Load(c, op, s) ==
    /\ call[c].pc = "none"
    /\ call' = [call EXCEPT ![c] = [pc |-> "loaded", op |-> op, sub |-> s, seen |-> status[s]]]
    /\ ops' = [ops EXCEPT ![s] = @ \cup {op}]
    /\ UNCHANGED <<status, rewards, told>>

\* Approving or applying what is approved or applied is no error.
Permitted(q) == q.seen = "PENDING" \/ (q.op # "reject" /\ q.seen # "REJECTED")

\* cannot_approve_..., cannot_apply_..., cannot_reject_...: 409.
Refuse(c) ==
    /\ call[c].pc = "loaded"
    /\ ~Permitted(call[c])
    /\ call' = [call EXCEPT ![c] = NoCall]
    /\ UNCHANGED <<status, rewards, told, ops>>

\* INSERT of the reward ON CONFLICT (idempotency_key) DO NOTHING: the two
\* operations have keys of their own.
KeyIsNew(q) == rewards[q.sub][q.op] = 0

Rewards(q) == q.op # "reject" /\ q.seen = "PENDING" /\ KeyIsNew(q)
AppliesOnly(q) == q.op = "apply" /\ q.seen = "APPROVED"

\* The status the UPDATE by id writes, whatever the row says by then.
Written(q) ==
    CASE q.op = "reject"                        -> "REJECTED"
      [] q.op = "approve" /\ Rewards(q)         -> "APPROVED"
      [] q.op = "apply" /\ (Rewards(q) \/ AppliesOnly(q)) -> "APPLIED_TO_BRICK"
      [] OTHER                                  -> status[q.sub]

Commit(c) ==
    LET q == call[c]
    IN  /\ q.pc = "loaded" /\ Permitted(q)
        /\ status' = [status EXCEPT ![q.sub] = Written(q)]
        /\ rewards' = IF Rewards(q) THEN [rewards EXCEPT ![q.sub][q.op] = @ + 1] ELSE rewards
        /\ told' = IF Written(q) # status[q.sub] THEN [told EXCEPT ![q.sub] = "nothing"] ELSE told
        /\ call' = [call EXCEPT ![c].pc = "committed"]
        /\ UNCHANGED ops

\* Mutant: only the older submissions of the field are looked at.
OlderSiblings(s) == {t \in Submissions : t < s /\ status[t] = "APPROVED"}

\* findApprovedUnappliedSiblings.
Siblings(s) == {t \in Submissions \ {s} : status[t] = "APPROVED"}

\* The answer is collected after the COMMIT, and delivered.
Answer(c) ==
    LET q == call[c]
    IN  /\ q.pc = "committed"
        /\ told' = IF q.op # "approve" THEN told
                   ELSE [told EXCEPT ![q.sub] = IF Siblings(q.sub) = {} THEN "clean" ELSE "warned"]
        /\ call' = [call EXCEPT ![c] = NoCall]
        /\ UNCHANGED <<status, rewards, ops>>

\* The process dies, or the connection: the transaction is rolled back, or the
\* answer is lost.
Lose(c) ==
    /\ call[c].pc # "none"
    /\ call' = [call EXCEPT ![c] = NoCall]
    /\ UNCHANGED <<status, rewards, told, ops>>

Next == \E c \in Calls :
    \/ \E op \in Operations, s \in Submissions : Load(c, op, s)
    \/ Refuse(c) \/ Commit(c) \/ Answer(c) \/ Lose(c)

Spec == Init /\ [][Next]_vars

-----------------------------------------------------------------------------
TypeOK ==
    /\ status \in [Submissions -> Statuses]
    /\ \A c \in Calls : call[c].pc \in {"none", "loaded", "committed"}
    /\ told \in [Submissions -> {"nothing", "clean", "warned"}]
    /\ ops \in [Submissions -> SUBSET Operations]

\* Two submissions for one field that wait for being applied do not pass
\* unnoticed: if each was answered for, one answer at least had the advisory,
\* in whatever order the calls committed and their answers were collected.
DuplicatesAreTold ==
    \A s, t \in Submissions :
        s # t /\ status[s] = "APPROVED" /\ status[t] = "APPROVED" =>
            "nothing" \in {told[s], told[t]} \/ "warned" \in {told[s], told[t]}

\* A click that comes twice, or is repeated after a lost answer while the first
\* call still runs, rewards once: a submission on which one operation was called,
\* however often, has its reward if and only if it has its status.
RepeatsRewardOnce ==
    \A s \in Submissions :
        /\ ops[s] = {"approve"} => rewards[s]["approve"] = IF status[s] = "APPROVED" THEN 1 ELSE 0
        /\ ops[s] = {"apply"} => rewards[s]["apply"] = IF status[s] = "APPLIED_TO_BRICK" THEN 1 ELSE 0

(* An admin's click is safe to repeat, and what another admin did to the     *)
(* same field at the same time is told to one of them.                       *)
ReviewCallsAreSound ==
    /\ DuplicatesAreTold
    /\ RepeatsRewardOnce
=============================================================================
