------------------------------ MODULE SessionSets ------------------------------
(***************************************************************************)
(* SessionSetService.getOrBuildSetForDay: whoever first asks for a day     *)
(* builds its two brick lists, the morning's and then the evening's, out   *)
(* of one rotation cycle that uses every published brick once.  There is   *)
(* no transaction: every statement commits by itself, several requests     *)
(* build at once, and a process may die between any two statements.        *)
(***************************************************************************)
EXTENDS Integers, Sequences, FiniteSets, FiniteSetsExt

CONSTANTS
    Bricks,     \* PUBLISHED bricks
    Days,       \* local day keys that are today for somebody
    TargetOf,   \* TARGETS, by kind
    Builders,   \* concurrent GET /sessions/today requests
    MaxCycles,  \* bounds the rotation cycles made
    NoDay       \* no value: builder[b].day of an idle builder

Kinds == {"MORNING", "EVENING"}
Sets == Days \X Kinds

VARIABLES
    ended,    \* session_rotation_cycles by started_at: ended_at IS NOT NULL
    cycleOf,  \* daily_session_sets.rotation_cycle_id; 0 is no row
    items,    \* daily_session_set_items
    builder,  \* what each request holds
    overlap   \* history: two requests were ever under way at once

tables == <<ended, cycleOf, items>>
vars == <<tables, builder, overlap>>

Cycles == 1 .. MaxCycles
Steps == {"idle", "find", "cycle", "create", "morning", "remaining", "close", "recreate",
          "pick", "insert", "items"}
Idle == [step |-> "idle", day |-> NoDay, kind |-> "MORNING", cycle |-> 0,
         exclude |-> {}, picked |-> {}]

TypeOK ==
    /\ ended \in Seq(BOOLEAN) /\ Len(ended) <= MaxCycles
    /\ cycleOf \in [Sets -> Cycles \cup {0}]
    /\ items \in [Sets -> SUBSET Bricks]
    /\ builder \in [Builders -> [step : Steps, day : Days \cup {NoDay}, kind : Kinds,
                                 cycle : Cycles \cup {0},
                                 exclude : SUBSET Bricks, picked : SUBSET Bricks]]
    /\ overlap \in BOOLEAN

Init ==
    /\ ended = <<>>
    /\ cycleOf = [x \in Sets |-> 0]
    /\ items = [x \in Sets |-> {}]
    /\ builder = [b \in Builders |-> Idle]
    /\ overlap = FALSE

-----------------------------------------------------------------------------
At(b, step) == builder[b].step = step
SetOf(b) == <<builder[b].day, builder[b].kind>>
Target(b) == TargetOf[builder[b].kind]

(* The bricks the cycle's sets have taken so far (UNIQUE cycle and brick).   *)
UsedIn(c) == UNION {items[x] : x \in {y \in Sets : cycleOf[y] = c}}

Goto(b, step) == builder' = [builder EXCEPT ![b].step = step]

(* The kind is done: the morning's request goes on to the evening.           *)
KindDone(b) ==
    builder' = [builder EXCEPT ![b] =
        IF @.kind = "EVENING" THEN Idle
        ELSE [Idle EXCEPT !.step = "find", !.day = builder[b].day, !.kind = "EVENING"]]

Ask(b, d) ==
    /\ At(b, "idle")
    /\ builder' = [builder EXCEPT ![b] = [Idle EXCEPT !.step = "find", !.day = d]]
    /\ overlap' = (overlap \/ \E other \in Builders : ~At(other, "idle"))
    /\ UNCHANGED tables

(* The fast path answers with the set as it is, finished or not.             *)
Find(b) ==
    /\ At(b, "find")
    /\ IF cycleOf[SetOf(b)] # 0 THEN KindDone(b) ELSE Goto(b, "cycle")
    /\ UNCHANGED <<tables, overlap>>

(* getOrCreateActiveCycle: the newest open cycle, if there is one.           *)
FindCycle(b) ==
    LET open == {c \in DOMAIN ended : ~ended[c]}
    IN  /\ At(b, "cycle")
        /\ IF open = {} THEN Goto(b, "create")
           ELSE builder' = [builder EXCEPT ![b].step = "morning", ![b].cycle = Max(open)]
        /\ UNCHANGED <<tables, overlap>>

NewCycle(b, from, to) ==
    /\ At(b, from)
    /\ Len(ended) < MaxCycles
    /\ ended' = Append(ended, FALSE)
    /\ builder' = [builder EXCEPT ![b].step = to, ![b].cycle = Len(ended) + 1]
    /\ UNCHANGED <<cycleOf, items, overlap>>

CreateCycle(b) == NewCycle(b, "create", "morning")

(* The evening excludes the morning's bricks, as many as there are by now.   *)
ReadMorning(b) ==
    /\ At(b, "morning")
    /\ builder' = [builder EXCEPT ![b].step = "remaining",
          ![b].exclude = IF builder[b].kind = "EVENING"
                         THEN items[<<builder[b].day, "MORNING">>] ELSE {}]
    /\ UNCHANGED <<tables, overlap>>

(* rotateCycleIfExhausted: the morning's bricks are not excluded here.       *)
CountRemaining(b) ==
    /\ At(b, "remaining")
    /\ IF Cardinality(Bricks \ UsedIn(builder[b].cycle)) >= Target(b)
       THEN Goto(b, "pick") ELSE Goto(b, "close")
    /\ UNCHANGED <<tables, overlap>>

CloseCycle(b) ==
    /\ At(b, "close")
    /\ ended' = [ended EXCEPT ![builder[b].cycle] = TRUE]
    /\ Goto(b, "recreate")
    /\ UNCHANGED <<cycleOf, items, overlap>>

OpenNextCycle(b) == NewCycle(b, "recreate", "pick")

(* listEligibleBricksRemaining and pickBricksForSet, a seeded choice.        *)
Pick(b) ==
    LET eligible == (Bricks \ UsedIn(builder[b].cycle)) \ builder[b].exclude
        size == Min({Target(b), Cardinality(eligible)})
    IN  /\ At(b, "pick")
        /\ \E picked \in kSubset(size, eligible) :
               builder' = [builder EXCEPT ![b].step = "insert", ![b].picked = picked]
        /\ UNCHANGED <<tables, overlap>>

(* Mutant: the loser of the race inserts its own bricks as well.             *)
InsertSetOrJoin(b) ==
    /\ At(b, "insert")
    /\ cycleOf' = IF cycleOf[SetOf(b)] = 0
                  THEN [cycleOf EXCEPT ![SetOf(b)] = builder[b].cycle] ELSE cycleOf
    /\ Goto(b, "items")
    /\ UNCHANGED <<ended, items, overlap>>

(* INSERT ... ON CONFLICT (local_day_key, kind) DO NOTHING.                  *)
InsertSet(b) ==
    /\ At(b, "insert")
    /\ IF cycleOf[SetOf(b)] = 0
       THEN /\ cycleOf' = [cycleOf EXCEPT ![SetOf(b)] = builder[b].cycle]
            /\ Goto(b, "items")
       ELSE KindDone(b) /\ UNCHANGED cycleOf
    /\ UNCHANGED <<ended, items, overlap>>

(* One item after the other; one whose brick the cycle has used is skipped.  *)
InsertItem(b) ==
    /\ At(b, "items") /\ builder[b].picked # {}
    /\ \E x \in builder[b].picked :
          /\ builder' = [builder EXCEPT ![b].picked = @ \ {x}]
          /\ items' = IF x \in UsedIn(builder[b].cycle) THEN items
                      ELSE [items EXCEPT ![SetOf(b)] = @ \cup {x}]
    /\ UNCHANGED <<ended, cycleOf, overlap>>

SetBuilt(b) ==
    /\ At(b, "items") /\ builder[b].picked = {}
    /\ KindDone(b)
    /\ UNCHANGED <<tables, overlap>>

(* The server process dies or a statement fails.                             *)
Die(b) ==
    /\ ~At(b, "idle")
    /\ builder' = [builder EXCEPT ![b] = Idle]
    /\ UNCHANGED <<tables, overlap>>

Step(b) ==
    \/ Find(b) \/ FindCycle(b) \/ CreateCycle(b) \/ ReadMorning(b) \/ CountRemaining(b)
    \/ CloseCycle(b) \/ OpenNextCycle(b) \/ Pick(b) \/ InsertSet(b) \/ InsertItem(b)
    \/ SetBuilt(b)

Next ==
    \/ \E b \in Builders, d \in Days : Ask(b, d)
    \/ \E b \in Builders : Step(b) \/ Die(b)

Spec == Init /\ [][Next]_vars

-----------------------------------------------------------------------------
(* Properties.                                                                *)

(* "A brick must never appear in both Morning and Evening on the same day"   *)
(* (context/project-overview.md:239).  Refuted: a request that finds the     *)
(* morning half inserted excludes only that half, and if the evening starts  *)
(* a new cycle nothing else keeps the rest of the morning out of it.         *)
BrickOncePerDay ==
    \A d \in Days : items[<<d, "MORNING">>] \cap items[<<d, "EVENING">>] = {}

(* It takes two requests at once: one after the other they keep it, wherever *)
(* one of them died; they rotate a cycle only when it could not fill a set   *)
(* (older cycles have fewer bricks left than the largest target), and a set  *)
(* is full when its builder is through with it, unless there are too few     *)
(* bricks at all, or it is an evening whose morning came from an older cycle: *)
(* the count that decides to rotate includes the morning's bricks, the choice *)
(* that follows does not.                                                    *)
OneAfterTheOther ==
    ~overlap =>
        /\ BrickOncePerDay
        /\ \A b \in Builders :
              At(b, "items") /\ builder[b].picked = {} =>
                  \/ Cardinality(items[SetOf(b)]) = Target(b)
                  \/ Cardinality(Bricks) < Target(b)
                  \/ /\ builder[b].kind = "EVENING"
                     /\ cycleOf[<<builder[b].day, "MORNING">>] < builder[b].cycle
        /\ \A c, later \in DOMAIN ended : c < later =>
              /\ ended[c]
              /\ Cardinality(Bricks \ UsedIn(c)) < Max({TargetOf[k] : k \in Kinds})

(* A set is never larger than its target, whoever lost the race to build it, *)
(* and an evening never takes a brick that another set of its cycle has.     *)
SetsStayInTarget ==
    /\ \A x \in Sets : Cardinality(items[x]) <= TargetOf[x[2]]
    /\ \A x, y \in Sets : x # y /\ cycleOf[x] = cycleOf[y] => items[x] \cap items[y] = {}

(* A day's sets are whole, disjoint in their cycle and no larger than they   *)
(* should be, as far as its builders did not overlap.                        *)
SetsAreSound ==
    /\ OneAfterTheOther
    /\ SetsStayInTarget
=============================================================================
