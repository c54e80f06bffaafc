----------------------------- MODULE ChallengePool -----------------------------
(***************************************************************************)
(* PoolBuilderService.ensureDailyPool: whoever first needs a day's pool    *)
(* fills its slots one INSERT at a time.  A request builds in autocommit   *)
(* and may die in the middle; the challenge worker builds inside its       *)
(* transaction, so that its slots are seen at COMMIT only and a request    *)
(* that wants the same slot waits for it.                                  *)
(***************************************************************************)
EXTENDS Integers, Sequences

CONSTANTS
    Templates,    \* active daily templates
    Slots,        \* slotOrder
    Family,       \* challenge_family of a template
    FamilyOfSlot, \* dailyPoolFamilyMix; "*" takes any family
    Requests,     \* builders in autocommit
    Worker,       \* the builder inside a transaction
    NoTemplate    \* no value: an empty slot

VARIABLES
    pool,   \* challenge_daily_pool of one date, as committed
    local,  \* the worker's uncommitted rows
    at,     \* each builder's slot; 0 when it is not building
    used    \* each builder's excludedIds

vars == <<pool, local, at, used>>

Builders == Requests \cup {Worker}
Empty == [s \in DOMAIN Slots |-> NoTemplate]
Chosen(p) == {p[s] : s \in DOMAIN Slots} \ {NoTemplate}

TypeOK ==
    /\ pool \in [DOMAIN Slots -> Templates \cup {NoTemplate}]
    /\ local \in [DOMAIN Slots -> Templates \cup {NoTemplate}]
    /\ at \in [Builders -> 0 .. Len(Slots) + 1]
    /\ used \in [Builders -> SUBSET Templates]

Init ==
    /\ pool = Empty
    /\ local = Empty
    /\ at = [b \in Builders |-> 0]
    /\ used = [b \in Builders |-> {}]

-----------------------------------------------------------------------------
(* What a builder's statements see: committed rows and its own.              *)
Seen(b) == [s \in DOMAIN Slots |->
    IF b = Worker /\ local[s] # NoTemplate THEN local[s] ELSE pool[s]]

(* pickTemplate: the shuffle is seeded, but listActive has no ORDER BY.      *)
Picks(b) == {t \in Templates \ used[b] :
    FamilyOfSlot[Slots[at[b]]] \in {"*", Family[t]}}

(* Slots that were filled when the builder began are passed over.            *)
Begin(b) ==
    /\ at[b] = 0
    /\ at' = [at EXCEPT ![b] = 1]
    /\ used' = [used EXCEPT ![b] = Chosen(pool)]
    /\ UNCHANGED <<pool, local>>

Building(b) == at[b] \in DOMAIN Slots

Skip(b) ==
    /\ Building(b)
    /\ Picks(b) = {} /\ Seen(b)[at[b]] = NoTemplate
    /\ at' = [at EXCEPT ![b] = @ + 1]
    /\ UNCHANGED <<pool, local, used>>

(* Mutant: a builder that lost the slot does not read what won it.           *)
ConflictForgets(b) ==
    /\ Building(b)
    /\ Seen(b)[at[b]] # NoTemplate
    /\ at' = [at EXCEPT ![b] = @ + 1]
    /\ UNCHANGED <<pool, local, used>>

(* ON CONFLICT DO NOTHING, and the refetch of the winner.                    *)
Conflict(b) ==
    /\ Building(b)
    /\ Seen(b)[at[b]] # NoTemplate
    /\ used' = [used EXCEPT ![b] = @ \cup {Seen(b)[at[b]]}]
    /\ at' = [at EXCEPT ![b] = @ + 1]
    /\ UNCHANGED <<pool, local>>

(* The INSERT waits while the other has the slot in its open transaction.    *)
Insert(b) ==
    /\ Building(b)
    /\ Seen(b)[at[b]] = NoTemplate
    /\ local[at[b]] = NoTemplate
    /\ \E t \in Picks(b) :
         /\ used' = [used EXCEPT ![b] = @ \cup {t}]
         /\ IF b = Worker
            THEN local' = [local EXCEPT ![at[b]] = t] /\ UNCHANGED pool
            ELSE pool' = [pool EXCEPT ![at[b]] = t] /\ UNCHANGED local
    /\ at' = [at EXCEPT ![b] = @ + 1]

(* The worker COMMITs; a request only goes on to the assignment.             *)
Finish(b) ==
    /\ at[b] = Len(Slots) + 1
    /\ at' = [at EXCEPT ![b] = 0]
    /\ used' = [used EXCEPT ![b] = {}]
    /\ IF b = Worker THEN pool' = Seen(Worker) /\ local' = Empty ELSE UNCHANGED <<pool, local>>

(* A request dies between two INSERTs; the worker's transaction rolls back.  *)
Die(b) ==
    /\ at[b] # 0
    /\ at' = [at EXCEPT ![b] = 0]
    /\ used' = [used EXCEPT ![b] = {}]
    /\ IF b = Worker THEN local' = Empty ELSE UNCHANGED local
    /\ UNCHANGED pool

Next == \E b \in Builders :
    Begin(b) \/ Skip(b) \/ Conflict(b) \/ Insert(b) \/ Finish(b) \/ Die(b)

Spec == Init /\ [][Next]_vars

-----------------------------------------------------------------------------
(* No template fills two slots of a day's pool, whoever built which slot, in *)
(* whatever order the templates were listed, and wherever builders died:     *)
(* a builder excludes every template of the slots before its own.            *)
PoolIsDistinct == \A s, r \in DOMAIN Slots :
    pool[s] = pool[r] /\ pool[s] # NoTemplate => s = r

(* A slot's template is fixed once others may have read it                   *)
(* (UNIQUE challenge_date and slot_type, ON CONFLICT DO NOTHING), although   *)
(* the worker publishes its rows all at once over the requests' rows.        *)
SlotsAreKept == \A s \in DOMAIN Slots : pool[s] # NoTemplate => pool'[s] = pool[s]
===============================================================================
