------------------------------- MODULE XpLog -------------------------------
(***************************************************************************)
(* The table xp_events, as lib/xpEvents.insertXpEvent fills it inside the  *)
(* transactions of the components that award XP.  An event's "createdAt"   *)
(* is NOW(), the time its transaction began; its id is drawn from the      *)
(* sequence when it is inserted, and an aborted transaction loses it; the  *)
(* workers see it when the transaction commits.  The three orders may      *)
(* differ.  The claim of the idempotency key is left out: an event stands  *)
(* for a key that was free.                                                *)
(***************************************************************************)
EXTENDS Integers, FiniteSets, Sequences

CONSTANTS
    Users,    \* user ids
    Deltas,   \* values of xp_delta_signed; adjustments are negative
    Writers,  \* database sessions that insert XP
    NoUser,   \* no value: the owner of a row not inserted
    NoId,     \* no value: a writer that has inserted nothing
    MaxId,    \* bound on the ids drawn
    MaxTime   \* bound on the clock

Ids == 1 .. MaxId

ASSUME UsersAssumption == Users \subseteq Nat /\ NoUser \notin Users
ASSUME DeltasAssumption == Deltas \subseteq Int
ASSUME NoIdAssumption == NoId \notin Ids
ASSUME BoundsAssumption == MaxId \in Nat /\ MaxTime \in Nat

VARIABLES
    event,    \* id -> "NONE", "INSERTED", "COMMITTED" or "ABORTED"
    owner,    \* id -> user_id
    delta,    \* id -> xp_delta_signed
    created,  \* id -> "createdAt"
    clock,    \* NOW()
    writer,   \* the transaction of each writer
    overlap   \* history: two transactions were ever open at once

log == <<event, owner, delta, created, clock, writer, overlap>>

IdleWriter == [at |-> "idle", time |-> 0, id |-> NoId]

LogTypeOK ==
    /\ event \in [Ids -> {"NONE", "INSERTED", "COMMITTED", "ABORTED"}]
    /\ owner \in [Ids -> Users \cup {NoUser}]
    /\ delta \in [Ids -> Int]
    /\ created \in [Ids -> 0 .. MaxTime]
    /\ clock \in 0 .. MaxTime
    /\ writer \in [Writers -> [at : {"idle", "begun", "inserted"}, time : 0 .. MaxTime,
                               id : Ids \cup {NoId}]]
    /\ overlap \in BOOLEAN

(* An event has an owner from when it is inserted, and a writer that has     *)
(* inserted one knows its id.                                                *)
OwnersKnown ==
    /\ \A i \in Ids : event[i] # "NONE" => owner[i] \in Users
    /\ \A w \in Writers :
           writer[w].at = "inserted" => writer[w].id \in Ids /\ event[writer[w].id] # "NONE"

LogInit ==
    /\ event = [i \in Ids |-> "NONE"]
    /\ owner = [i \in Ids |-> NoUser]
    /\ delta = [i \in Ids |-> 0]
    /\ created = [i \in Ids |-> 0]
    /\ clock = 0
    /\ writer = [w \in Writers |-> IdleWriter]
    /\ overlap = FALSE

Tick ==
    /\ clock < MaxTime
    /\ clock' = clock + 1
    /\ UNCHANGED <<event, owner, delta, created, writer, overlap>>

BeginTx(w) ==
    /\ writer[w].at = "idle"
    /\ writer' = [writer EXCEPT ![w] = [IdleWriter EXCEPT !.at = "begun", !.time = clock]]
    /\ overlap' = (overlap \/ \E v \in Writers : writer[v].at # "idle")
    /\ UNCHANGED <<event, owner, delta, created, clock>>

InsertXpEvent(w, u, d) ==
    /\ writer[w].at = "begun"
    /\ \E i \in Ids :
        /\ event[i] = "NONE" /\ \A j \in 1 .. i - 1 : event[j] # "NONE"
        /\ event' = [event EXCEPT ![i] = "INSERTED"]
        /\ owner' = [owner EXCEPT ![i] = u]
        /\ delta' = [delta EXCEPT ![i] = d]
        /\ created' = [created EXCEPT ![i] = writer[w].time]
        /\ writer' = [writer EXCEPT ![w].at = "inserted", ![w].id = i]
    /\ UNCHANGED <<clock, overlap>>

EndTx(w, outcome) ==
    /\ writer[w].at = "inserted"
    /\ event' = [event EXCEPT ![writer[w].id] = outcome]
    /\ writer' = [writer EXCEPT ![w] = IdleWriter]
    /\ UNCHANGED <<owner, delta, created, clock, overlap>>

LogNext ==
    \/ Tick
    \/ \E w \in Writers : BeginTx(w)
    \/ \E w \in Writers, u \in Users, d \in Deltas : InsertXpEvent(w, u, d)
    \/ \E w \in Writers, o \in {"COMMITTED", "ABORTED"} : EndTx(w, o)

(* ORDER BY "createdAt" ASC, id ASC, as every reader of the table has it.    *)
Before(i, j) == created[i] < created[j] \/ (created[i] = created[j] /\ i < j)
Earliest(S) == CHOOSE i \in S : \A j \in S \ {i} : Before(i, j)
=============================================================================
