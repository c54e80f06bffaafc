--------------------------- MODULE BountyCatalog ---------------------------
(***************************************************************************)
(* The bounties of one brick: the daily generator, the admins who create,  *)
(* pause, close and reopen them, the switch of a bounty type, the brick's  *)
(* publication, and the applied submissions that fill its fields.          *)
(*                                                                         *)
(* Every bounty type fills one field of the brick (FIELD_MAP), so a type   *)
(* stands for its field too.  The statements of the generator and of the   *)
(* admin operations are transactions of their own; PostgreSQL's partial    *)
(* index unique_open_bounty allows one OPEN bounty per type.               *)
(***************************************************************************)
EXTENDS Integers, Sequences, FiniteSets

CONSTANTS Types,         \* bounty types, and the fields they fill
          Admins,        \* concurrent admin requests
          MaxInstances   \* bound on the rows of bounty_instances

VARIABLES published,     \* bricks.status = 'PUBLISHED'
          filled,        \* the fields that are not null
          active,        \* the types whose definition has is_active
          inst,          \* bounty_instances, in creation order
          gen,           \* the generator's tick
          desk           \* what each admin request has read

vars == <<published, filled, active, inst, gen, desk>>

Statuses == {"OPEN", "PAUSED", "CLOSED"}

Idle == [pc |-> "idle", filled |-> {}, defs |-> {}, todo |-> {}, open |-> {},
         touched |-> {}]

NoRequest == [pc |-> "idle"]

\* `raced` is history: the row's last write was decided on an older status.
Instance(t) == [type |-> t, status |-> "OPEN", closedAt |-> FALSE, raced |-> FALSE]

Ids == DOMAIN inst
OpenIds == {i \in Ids : inst[i].status = "OPEN"}
IsOpen(t) == \E i \in OpenIds : inst[i].type = t

\* What happens to a bounty during a tick is remembered with the tick.
Touch(i) == [gen EXCEPT !.touched = @ \cup {i}]

Close(i) == [inst EXCEPT ![i].status = "CLOSED", ![i].closedAt = TRUE,
                         ![i].raced = FALSE]

Init ==
    /\ published = FALSE
    /\ filled = {}
    /\ active = Types
    /\ inst = <<>>
    /\ gen = Idle
    /\ desk = [a \in Admins |-> NoRequest]

-----------------------------------------------------------------------------
\* Mutant: the unique index covers bounties of every status.
InsertOncePerField(t) ==
    IF \E i \in Ids : inst[i].type = t THEN inst ELSE Append(inst, Instance(t))

\* INSERT ... ON CONFLICT DO NOTHING.
InsertOpenInstance(t) == IF IsOpen(t) THEN inst ELSE Append(inst, Instance(t))

-----------------------------------------------------------------------------
(* The generator.                                                          *)

TickStart ==
    /\ gen.pc \in {"idle", "done"}
    /\ published
    /\ gen' = [Idle EXCEPT !.pc = "defs", !.filled = filled]
    /\ UNCHANGED <<published, filled, active, inst, desk>>

ReadDefinitions ==
    /\ gen.pc = "defs"
    /\ gen' = [gen EXCEPT !.pc = "insert", !.defs = active,
                          !.todo = active \ gen.filled]
    /\ UNCHANGED <<published, filled, active, inst, desk>>

GenerateOne(t) ==
    /\ gen.pc = "insert"
    /\ t \in gen.todo
    /\ Len(InsertOpenInstance(t)) <= MaxInstances
    /\ inst' = InsertOpenInstance(t)
    /\ gen' = [gen EXCEPT !.todo = @ \ {t}]
    /\ UNCHANGED <<published, filled, active, desk>>

ToClose == {i \in OpenIds : inst[i].type \in gen.filled}

ReadOpen ==
    /\ gen.pc = "insert"
    /\ gen.todo = {}
    /\ gen' = [gen EXCEPT !.pc = "close", !.open = ToClose]
    /\ UNCHANGED <<published, filled, active, inst, desk>>

CloseOne(i) ==
    /\ gen.pc = "close"
    /\ i \in gen.open
    /\ inst' = IF inst[i].status = "OPEN" THEN Close(i) ELSE inst
    /\ gen' = [gen EXCEPT !.open = @ \ {i}]
    /\ UNCHANGED <<published, filled, active, desk>>

TickDone ==
    /\ gen.pc = "close"
    /\ gen.open = {}
    /\ gen' = [gen EXCEPT !.pc = "done"]
    /\ UNCHANGED <<published, filled, active, inst, desk>>

TickFails ==
    /\ gen.pc \in {"defs", "insert", "close"}
    /\ gen' = Idle
    /\ UNCHANGED <<published, filled, active, inst, desk>>

-----------------------------------------------------------------------------
(* The admins.                                                             *)

ReadDefinition(a, t) ==
    /\ desk[a].pc = "idle"
    /\ t \in active
    /\ desk' = [desk EXCEPT ![a] = [pc |-> "create", type |-> t]]
    /\ UNCHANGED <<published, filled, active, inst, gen>>

\* createManual looks at the definition alone: the field may be filled.
CreateBounty(a) ==
    /\ desk[a].pc = "create"
    /\ LET t == desk[a].type IN
        /\ Len(InsertOpenInstance(t)) <= MaxInstances
        /\ inst' = InsertOpenInstance(t)
        /\ gen' = IF IsOpen(t) THEN gen ELSE Touch(Len(inst) + 1)
    /\ desk' = [desk EXCEPT ![a] = NoRequest]
    /\ UNCHANGED <<published, filled, active>>

Allowed(from, to) ==
    /\ from # to
    /\ ~(from = "CLOSED" /\ to = "PAUSED")

ReadInstance(a, i, target) ==
    /\ desk[a].pc = "idle"
    /\ Allowed(inst[i].status, target)
    /\ desk' = [desk EXCEPT ![a] = [pc |-> "move", id |-> i, target |-> target,
                                    read |-> inst[i].status]]
    /\ UNCHANGED <<published, filled, active, inst, gen>>

\* Set on close, cleared on reopen, untouched on pause.
ClosedAt(i, target) ==
    \/ target = "CLOSED"
    \/ target = "PAUSED" /\ inst[i].closedAt

\* The UPDATE names the row alone; only the index may refuse it.
Transition(a) ==
    /\ desk[a].pc = "move"
    /\ LET i == desk[a].id
           target == desk[a].target
           collides == target = "OPEN" /\ \E j \in OpenIds \ {i} : inst[j].type = inst[i].type
       IN IF collides
          THEN UNCHANGED <<inst, gen>>
          ELSE /\ inst' = [inst EXCEPT
                             ![i] = [type |-> inst[i].type, status |-> target,
                                     closedAt |-> ClosedAt(i, target),
                                     raced |-> inst[i].status # desk[a].read]]
               /\ gen' = Touch(i)
    /\ desk' = [desk EXCEPT ![a] = NoRequest]
    /\ UNCHANGED <<published, filled, active>>

UpdateDefinition(t) ==
    /\ active' = IF t \in active THEN active \ {t} ELSE active \cup {t}
    /\ UNCHANGED <<published, filled, inst, gen, desk>>

\* A brick that is withdrawn again only misses ticks, as any brick may.
UpdateBrick ==
    /\ ~published
    /\ published' = TRUE
    /\ UNCHANGED <<filled, active, inst, gen, desk>>

\* A submission for bounty i is approved and applied.
ApplyToBrick(i) ==
    /\ filled' = filled \cup {inst[i].type}
    /\ inst' = IF inst[i].status = "OPEN" THEN Close(i) ELSE inst
    /\ gen' = Touch(i)
    /\ UNCHANGED <<published, active, desk>>

Generator ==
    \/ TickStart \/ ReadDefinitions \/ ReadOpen \/ TickDone \/ TickFails
    \/ \E t \in Types : GenerateOne(t)
    \/ \E i \in Ids : CloseOne(i)

Admin(a) ==
    \/ \E t \in Types : ReadDefinition(a, t)
    \/ CreateBounty(a)
    \/ \E i \in Ids, s \in Statuses : ReadInstance(a, i, s)
    \/ Transition(a)

Next ==
    \/ Generator
    \/ \E a \in Admins : Admin(a)
    \/ \E t \in Types : UpdateDefinition(t)
    \/ UpdateBrick
    \/ \E i \in Ids : ApplyToBrick(i)

Spec == Init /\ [][Next]_vars

-----------------------------------------------------------------------------
TypeOK ==
    /\ published \in BOOLEAN
    /\ filled \subseteq Types /\ active \subseteq Types
    /\ Len(inst) <= MaxInstances
    /\ \A i \in Ids : inst[i] \in [type : Types, status : Statuses,
                                   closedAt : BOOLEAN, raced : BOOLEAN]
    /\ gen.pc \in {"idle", "defs", "insert", "close", "done"}
    /\ \A a \in Admins : desk[a].pc \in {"idle", "create", "move"}

\* A tick of the generator leaves no bounty open on a field that was filled
\* when it began (closeFilledForBrick, "direct admin edits as well as
\* Approve+Apply"), but those admins opened while it ran.
FilledFieldsAreClosed ==
    gen.pc = "done" =>
        \A i \in OpenIds : inst[i].type \in gen.filled => i \in gen.touched

\* After a tick every active type whose field was empty has an open bounty, or
\* had one that was paused, closed or applied while the tick ran: neither a
\* paused nor a closed bounty stands in its way (generateForBrick).
EmptyFieldsAreOffered ==
    gen.pc = "done" =>
        \A t \in gen.defs \ gen.filled :
            \E i \in Ids : inst[i].type = t /\ i \in OpenIds \cup gen.touched

\* closed_at tells a closed bounty from the others, whatever the order of
\* closing, reopening and applying, unless the last transition was decided on
\* a status another request had changed since (transition reads, then writes).
ClosedAtTellsClosed ==
    \A i \in Ids : inst[i].raced \/ (inst[i].closedAt <=> inst[i].status = "CLOSED")

(* What is offered follows the fields of the brick, although the generator   *)
(* works from a snapshot beside admins and approvals.                        *)
OffersFollowFields ==
    /\ FilledFieldsAreClosed
    /\ EmptyFieldsAreOffered
    /\ ClosedAtTellsClosed
=============================================================================
