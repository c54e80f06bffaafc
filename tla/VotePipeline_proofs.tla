------------------------ MODULE VotePipeline_proofs ------------------------
(***************************************************************************)
(* Proofs about VotePipeline for every set of users and bricks and every   *)
(* number of votes, cycles, crashes and rows in a batch.                   *)
(*                                                                         *)
(* A worker that dies leaves its cursor where it was, so what matters is   *)
(* the relation between the cursor, the batch in a worker's memory and the *)
(* rows: what the enricher still has to process is PENDING, what the       *)
(* aggregator still has to process is the next stretch after its cursor.   *)
(***************************************************************************)
EXTENDS VotePipeline, SharedLemmas, SequenceTheorems

(* An intent has a voter and a brick from when its id is drawn.              *)
VotersKnown ==
    \A i \in Ids : intent[i] # "NONE" => voter[i] \in Users /\ target[i] \in Bricks

(* The enricher's batch holds intents that are still PENDING, but for the    *)
(* one whose transaction is over; and the cycle it has read is not ahead of  *)
(* the brick's.                                                              *)
EnricherShape ==
    /\ enricher.at # "idle" => enricher.batch # {}
    /\ enricher.at \in {"next", "save", "reject"} =>
           \A i \in enricher.batch : intent[i] = "PENDING"
    /\ enricher.at = "cursor" => \A i \in enricher.batch \ {Current} : intent[i] = "PENDING"
    /\ enricher.at = "save" => enricher.cycle \in 1 .. cycle[target[Current]]

(* The aggregator's cursor is at an event, and its batch is the next stretch *)
(* of the events after it.                                                   *)
AggregatorShape ==
    /\ aCursor <= Len(events)
    /\ aggregator.at \in {"idle", "next", "cursor"}
    /\ aggregator.at # "idle" =>
           /\ aggregator.batch # {}
           /\ \A f \in aggregator.batch :
                  /\ f \in DOMAIN events /\ f > aCursor
                  /\ \A e \in Ids : aCursor < e /\ e <= f => e \in aggregator.batch
    /\ aggregator.at = "cursor" => counted[Row] > 0 \/ Row \in passed

(* The events are those of the PROCESSED intents, one each.                  *)
EventsOfIntents ==
    /\ \A e \in DOMAIN events : intent[events[e].intent] = "PROCESSED"
    /\ \A i \in Ids : intent[i] = "PROCESSED" => \E e \in DOMAIN events : events[e].intent = i
    /\ \A e, f \in DOMAIN events : events[e].intent = events[f].intent => e = f

(* An event belongs to a cycle that its brick has reached, and only events   *)
(* count.                                                                    *)
EventsKnown ==
    /\ \A e \in DOMAIN events : events[e].cycle \in 1 .. cycle[events[e].brick]
    /\ \A e \in Ids \ DOMAIN events : counted[e] = 0

(* A cycle is closed once.                                                   *)
ClosesKnown == \A b \in Bricks : Len(closes[b]) = cycle[b] - 1

Shape ==
    /\ TypeOK /\ VotersKnown /\ EnricherShape /\ AggregatorShape
    /\ EventsOfIntents /\ EventsKnown /\ ClosesKnown

-----------------------------------------------------------------------------
(* Batches.                                                                  *)

(* A set of ids has a least one.                                             *)
LEMMA LeastIs ==
    ASSUME NEW S, S \subseteq Ids, S # {}
    PROVE  Least(S) \in S /\ \A j \in S : Least(S) <= j
<1>1. S \subseteq Nat
  BY DEF Ids
<1>2. \E i \in S : \A j \in S : i <= j
  BY <1>1, LeastNatural
<1> QED
  BY <1>2 DEF Least

(* A batch is an initial stretch of the rows found, and there is one if      *)
(* anything was found.                                                       *)
LEMMA FirstOfIs ==
    ASSUME NEW S, S \subseteq Ids, S # {}
    PROVE  /\ FirstOf(S) \subseteq S /\ FirstOf(S) # {}
           /\ \A f \in FirstOf(S) : \A e \in S : e <= f => e \in FirstOf(S)
<1> DEFINE Smaller(i) == {j \in S : j < i}
<1>1. MaxVotes \in Nat /\ Batch \in Nat \ {0} /\ S \subseteq Nat
  BY BoundsAssumption, BatchAssumption DEF Ids
<1>a. \A i \in S : i \in Int
  BY <1>1
<1>2. IsFiniteSet(S)
  <2>1. IsFiniteSet(1 .. MaxVotes) /\ S \in SUBSET (1 .. MaxVotes)
    BY <1>1, FS_Interval DEF Ids
  <2> QED
    BY <2>1, FS_Subset
<1>3. \A i \in S : IsFiniteSet(Smaller(i)) /\ Cardinality(Smaller(i)) \in Nat
  <2>1. ASSUME NEW i \in S PROVE IsFiniteSet(Smaller(i))
    BY <1>2, FS_Subset
  <2> QED
    BY <2>1, FS_CardinalityType
<1>4. FirstOf(S) = {i \in S : Cardinality(Smaller(i)) < Batch}
  BY DEF FirstOf
<1>5. FirstOf(S) # {}
  <2> DEFINE m == Least(S)
  <2>1. m \in S /\ \A j \in S : m <= j
    BY LeastIs
  <2> HIDE DEF m
  <2>2. Smaller(m) = {}
    BY <1>a, <2>1
  <2>3. Cardinality(Smaller(m)) < Batch
    BY <1>1, <2>2, FS_EmptySet
  <2> QED
    BY <1>4, <2>1, <2>3
<1>6. ASSUME NEW f \in FirstOf(S), NEW e \in S, e <= f PROVE e \in FirstOf(S)
  <2>1. f \in S /\ Cardinality(Smaller(f)) < Batch
    BY <1>4, <1>6
  <2>2. Smaller(e) \in SUBSET Smaller(f)
    <3>1. e \in Int /\ f \in Int
      BY <1>a, <2>1
    <3>2. \A j \in S : j < e => j < f
      BY <1>a, <1>6, <3>1
    <3> QED
      BY <3>2
  <2>3. Cardinality(Smaller(e)) <= Cardinality(Smaller(f))
    BY <1>3, <2>1, <2>2, FS_Subset
  <2>4. Cardinality(Smaller(e)) \in Nat /\ Cardinality(Smaller(f)) \in Nat
    BY <1>3, <2>1
  <2> DEFINE ce == Cardinality(Smaller(e))
             cf == Cardinality(Smaller(f))
  <2> HIDE DEF ce, cf, Smaller
  <2>5. ce < Batch
    BY <1>1, <2>1, <2>3, <2>4 DEF ce, cf
  <2> QED
    BY <1>4, <2>5 DEF ce
<1> QED
  BY <1>4, <1>5, <1>6

(* After a row a worker is idle or at the next row of its batch.             *)
LEMMA AfterRowIs ==
    ASSUME NEW w \in Worker
    PROVE  /\ AfterRow(w) \in Worker /\ AfterRow(w).at \in {"idle", "next"}
           /\ AfterRow(w).at = "next" =>
                  AfterRow(w).batch # {} /\ AfterRow(w).batch = w.batch \ {Least(w.batch)}
  BY DEF AfterRow, Worker, Stopped

(* The row a worker is at is the least of its batch.                         *)
LEMMA CurrentIs ==
    ASSUME TypeOK, EnricherShape, enricher.at # "idle"
    PROVE  Current \in enricher.batch /\ Current \in Ids
  BY LeastIs DEF TypeOK, Worker, EnricherShape, Current

(* The aggregator's row is the first event of its batch, and exists.         *)
LEMMA RowIs ==
    ASSUME TypeOK, AggregatorShape, aggregator.at # "idle"
    PROVE  /\ Row \in aggregator.batch /\ Row \in Ids /\ Row \in DOMAIN events
           /\ \A f \in aggregator.batch : Row <= f
  BY LeastIs DEF TypeOK, Worker, AggregatorShape, Row

(* The types of an event's fields.                                           *)
LEMMA EventIs ==
    ASSUME TypeOK, NEW e \in DOMAIN events
    PROVE  /\ events[e].intent \in Ids /\ events[e].user \in Users
           /\ events[e].brick \in Bricks /\ events[e].cycle \in Nat
<1>1. events \in Seq(Event) /\ e \in 1 .. Len(events)
  BY DEF TypeOK
<1>2. events[e] \in Event
  BY <1>1, ElementOfSeq
<1> QED
  BY <1>2 DEF Event

(* While an intent is not PROCESSED there is room for its event.             *)
LEMMA RoomForEvent ==
    ASSUME TypeOK, EventsOfIntents, NEW i \in Ids, intent[i] # "PROCESSED"
    PROVE  Len(events) + 1 <= MaxVotes
<1> DEFINE n == Len(events)
           f == [e \in 1 .. n |-> events[e].intent]
<1>1. MaxVotes \in Nat /\ n \in Nat /\ DOMAIN events = 1 .. n
  BY BoundsAssumption DEF TypeOK
<1>2. \A e \in 1 .. n : events[e] \in Event
  BY DEF TypeOK
<1>3. f \in Injection(1 .. n, Ids \ {i})
  <2>1. \A e \in 1 .. n : f[e] \in Ids \ {i}
    BY <1>1, <1>2 DEF Event, EventsOfIntents
  <2>2. \A e, g \in 1 .. n : f[e] = f[g] => e = g
    BY <1>1 DEF EventsOfIntents
  <2>3. f \in [1 .. n -> Ids \ {i}]
    BY <2>1
  <2>4. DOMAIN f = 1 .. n
    OBVIOUS
  <2> HIDE DEF f, n
  <2>5. IsInjective(f)
    BY <2>2, <2>4 DEF IsInjective
  <2> QED
    BY <2>3, <2>5 DEF Injection
<1> HIDE DEF n, f
<1>4. IsFiniteSet(Ids) /\ Cardinality(Ids) = MaxVotes
  BY <1>1, FS_Interval DEF Ids
<1>5. IsFiniteSet(Ids \ {i}) /\ Cardinality(Ids \ {i}) = MaxVotes - 1
  BY <1>4, FS_RemoveElement
<1>6. Cardinality(1 .. n) <= Cardinality(Ids \ {i})
  BY <1>3, <1>5, FS_Injection
<1>7. Cardinality(1 .. n) = n
  BY <1>1, FS_Interval
<1> QED
  BY <1>1, <1>5, <1>6, <1>7 DEF n

(* A credit taken, perhaps the one just given back, leaves a legal number.   *)
LEMMA CreditTaken ==
    ASSUME NEW k \in 0 .. MaxCredits, NEW c, c = k \/ (k = 0 /\ c = 1), c > 0
    PROVE  c - 1 \in 0 .. MaxCredits
  BY BoundsAssumption

-----------------------------------------------------------------------------
(* Types.                                                                    *)

(* Every step keeps the types.                                               *)
LEMMA TypeStep == Shape /\ [Next]_vars => TypeOK'
<1> SUFFICES ASSUME Shape, [Next]_vars PROVE TypeOK'
  OBVIOUS
<1>t. /\ TypeOK /\ VotersKnown /\ EnricherShape /\ AggregatorShape /\ EventsOfIntents
  BY DEF Shape
<1>1. CASE UNCHANGED vars
  BY <1>t, <1>1 DEF TypeOK, vars
<1>2. ASSUME NEW i \in Ids, NEW u \in Users, NEW b \in Bricks, DrawId(i, u, b) PROVE TypeOK'
  BY <1>t, <1>2 DEF TypeOK, DrawId, brick, history
<1>3. ASSUME NEW i \in Ids, CommitIntent(i) PROVE TypeOK'
  BY <1>t, <1>3 DEF TypeOK, CommitIntent, brick, history
<1>4. ASSUME FetchIntents PROVE TypeOK'
  <2>1. enricher' \in Worker
    BY <1>4 DEF FetchIntents, Worker, Stopped, FirstOf
  <2> QED
    BY <1>t, <1>4, <2>1 DEF TypeOK, FetchIntents, intents, brick, history
<1>5. ASSUME ReadBrick PROVE TypeOK'
  <2>1. Current \in Ids /\ Current \in enricher.batch
    BY <1>t, <1>5, CurrentIs DEF ReadBrick
  <2>2. target[Current] \in Bricks
    BY <1>t, <1>5, <2>1 DEF ReadBrick, EnricherShape, VotersKnown
  <2>3. cycle[target[Current]] \in Nat
    BY <1>t, <2>2, BoundsAssumption DEF TypeOK
  <2>4. enricher' \in Worker
    BY <1>t, <1>5, <2>3 DEF TypeOK, ReadBrick, Worker
  <2> QED
    BY <1>t, <1>5, <2>4 DEF TypeOK, ReadBrick, intents, brick, history
<1>6. ASSUME SaveEvent PROVE TypeOK'
  <2> DEFINE i == Current
             u == voter[i]
             b == target[i]
             event == [intent |-> i, user |-> u, brick |-> b, cycle |-> enricher.cycle]
  <2>1. i \in Ids /\ intent[i] = "PENDING" /\ u \in Users /\ b \in Bricks
    BY <1>t, <1>6, CurrentIs DEF SaveEvent, EnricherShape, VotersKnown
  <2>2. event \in Event
    BY <1>t, <2>1 DEF TypeOK, Worker, Event
  <2>3. Len(events) + 1 <= MaxVotes
    BY <1>t, <2>1, RoomForEvent
  <2>4. events' = Append(events, event) /\ events \in Seq(Event)
    BY <1>t, <1>6 DEF SaveEvent, TypeOK
  <2> HIDE DEF i, u, b, event
  <2>5. events' \in Seq(Event) /\ Len(events') <= MaxVotes
    BY <2>2, <2>3, <2>4
  <2>6. credits' \in [Users \X Bricks -> 0 .. MaxCredits]
    <3>1. credits \in [Users \X Bricks -> 0 .. MaxCredits] /\ <<u, b>> \in Users \X Bricks
      BY <1>t, <2>1 DEF TypeOK
    <3>2. CASE UNCHANGED credits
      BY <3>1, <3>2
    <3>3. CASE \E c \in {credits[u, b]} \cup (IF credits[u, b] = 0 THEN {1} ELSE {}) :
                   c > 0 /\ credits' = [credits EXCEPT ![<<u, b>>] = c - 1]
      <4>1. PICK c \in {credits[u, b]} \cup (IF credits[u, b] = 0 THEN {1} ELSE {}) :
                   c > 0 /\ credits' = [credits EXCEPT ![<<u, b>>] = c - 1]
        BY <3>3
      <4>2. credits[u, b] \in 0 .. MaxCredits /\ MaxCredits \in Nat \ {0}
        BY <3>1, BoundsAssumption
      <4>3. c = credits[u, b] \/ (credits[u, b] = 0 /\ c = 1)
        BY <4>1
      <4>4. c - 1 \in 0 .. MaxCredits
        BY <4>1, <4>2, <4>3, CreditTaken
      <4> QED
        BY <3>1, <4>1, <4>4
    <3> QED
      BY <1>6, <3>2, <3>3 DEF SaveEvent, i, u, b
  <2>7. /\ enricher' \in Worker
        /\ intent' \in [Ids -> {"NONE", "DRAWN", "PENDING", "PROCESSED", "REJECTED"}]
    BY <1>t, <1>6, <2>1 DEF TypeOK, SaveEvent, Worker, i
  <2> QED
    BY <1>t, <1>6, <2>5, <2>6, <2>7 DEF TypeOK, SaveEvent, brick, history
<1>7. ASSUME EnrichThrows \/ RejectIntent PROVE TypeOK'
  <2>1. enricher' \in Worker
    BY <1>t, <1>7 DEF TypeOK, Worker, EnrichThrows, RejectIntent
  <2>2. intent' \in [Ids -> {"NONE", "DRAWN", "PENDING", "PROCESSED", "REJECTED"}]
    BY <1>t, <1>7 DEF TypeOK, EnrichThrows, RejectIntent, intents
  <2> QED
    BY <1>t, <1>7, <2>1, <2>2 DEF TypeOK, EnrichThrows, RejectIntent, intents, brick, history
<1>8. ASSUME MoveEnricherCursor PROVE TypeOK'
  <2>1. Current \in Ids
    BY <1>t, <1>8, CurrentIs DEF MoveEnricherCursor
  <2>2. enricher' \in Worker
    BY <1>t, <1>8, AfterRowIs DEF TypeOK, MoveEnricherCursor
  <2>3. eCursor' \in 0 .. MaxVotes
    BY <1>8, <2>1, BoundsAssumption DEF MoveEnricherCursor, Ids
  <2> QED
    BY <1>t, <1>8, <2>2, <2>3 DEF TypeOK, MoveEnricherCursor, intents, brick, history
<1>9. ASSUME EnricherDies \/ AggregatorDies PROVE TypeOK'
  <2>1. Stopped \in Worker
    BY DEF Stopped, Worker
  <2>2. crashes' \in 0 .. MaxCrashes
    BY <1>t, <1>9, BoundsAssumption DEF TypeOK, EnricherDies, AggregatorDies
  <2> QED
    BY <1>t, <1>9, <2>1, <2>2
    DEF TypeOK, EnricherDies, AggregatorDies, intents, brick, history
<1>10. ASSUME FetchEvents PROVE TypeOK'
  <2>1. DOMAIN events \subseteq Ids
    BY <1>t, BoundsAssumption DEF TypeOK, Ids
  <2>2. aggregator' \in Worker
    BY <1>10, <2>1 DEF FetchEvents, Worker, Stopped, FirstOf
  <2> QED
    BY <1>t, <1>10, <2>2 DEF TypeOK, FetchEvents, intents, brick, history
<1>11. ASSUME SkipEvent \/ AggregateThrows PROVE TypeOK'
  <2>1. Row \in Ids
    BY <1>t, <1>11, RowIs DEF SkipEvent, AggregateThrows
  <2>2. aggregator' \in Worker /\ passed' \subseteq Ids
    BY <1>t, <1>11, <2>1 DEF TypeOK, Worker, SkipEvent, AggregateThrows, RowDone
  <2> QED
    BY <1>t, <1>11, <2>2
    DEF TypeOK, SkipEvent, AggregateThrows, intents, brick
<1>12. ASSUME CountEvent PROVE TypeOK'
  <2> DEFINE b == events[Row].brick
             newTotal == total[b] + Weight(Row)
  <2>1. Row \in Ids /\ Row \in DOMAIN events
    BY <1>t, <1>12, RowIs DEF CountEvent
  <2>2. b \in Bricks
    BY <1>t, <2>1, EventIs
  <2>3. newTotal \in Nat
    BY <1>t, <2>2 DEF TypeOK, Weight
  <2>4. aggregator' \in Worker /\ counted' \in [Ids -> Nat]
    <3>1. aggregator' = [aggregator EXCEPT !.at = "cursor"]
      BY <1>12 DEF CountEvent, RowDone
    <3>2. aggregator' \in Worker
      BY <1>t, <3>1 DEF TypeOK, Worker
    <3>3. counted' = [counted EXCEPT ![Row] = @ + 1] /\ counted \in [Ids -> Nat]
      BY <1>t, <1>12 DEF TypeOK, CountEvent
    <3>4. counted[Row] + 1 \in Nat
      BY <2>1, <3>3
    <3> QED
      BY <2>1, <3>2, <3>3, <3>4
  <2>5. /\ cycle \in [Bricks -> 1 .. MaxCycle] /\ total \in [Bricks -> Nat]
        /\ frozen \in [Bricks -> BOOLEAN] /\ closes \in [Bricks -> Seq(Nat)]
        /\ MaxCycle \in Nat
    BY <1>t, BoundsAssumption DEF TypeOK
  <2>6. \/ total' = [total EXCEPT ![b] = newTotal] /\ UNCHANGED <<cycle, frozen, closes>>
        \/ /\ total' = [total EXCEPT ![b] = newTotal]
           /\ frozen' = [frozen EXCEPT ![b] = TRUE]
           /\ UNCHANGED <<cycle, closes>>
        \/ /\ cycle[b] < MaxCycle
           /\ total' = [total EXCEPT ![b] = 0]
           /\ cycle' = [cycle EXCEPT ![b] = @ + 1]
           /\ closes' = [closes EXCEPT ![b] = Append(@, newTotal)]
           /\ UNCHANGED frozen
    BY <1>12 DEF CountEvent
  <2> HIDE DEF b, newTotal
  <2>7. /\ cycle' \in [Bricks -> 1 .. MaxCycle] /\ total' \in [Bricks -> Nat]
        /\ frozen' \in [Bricks -> BOOLEAN]
    <3>1. ASSUME cycle[b] < MaxCycle PROVE cycle[b] + 1 \in 1 .. MaxCycle
      BY <2>2, <2>5, <3>1
    <3>2. 0 \in Nat
      OBVIOUS
    <3>3. total' \in [Bricks -> Nat]
      BY <2>2, <2>3, <2>5, <2>6, <3>2
    <3>4. frozen' \in [Bricks -> BOOLEAN]
      BY <2>2, <2>5, <2>6
    <3>5. cycle' \in [Bricks -> 1 .. MaxCycle]
      BY <2>2, <2>5, <2>6, <3>1
    <3> QED
      BY <3>3, <3>4, <3>5
  <2>8. closes' \in [Bricks -> Seq(Nat)]
    <3>1. Append(closes[b], newTotal) \in Seq(Nat)
      BY <2>2, <2>3, <2>5
    <3> QED
      BY <2>2, <2>5, <2>6, <3>1
  <2> QED
    BY <1>t, <1>12, <2>4, <2>7, <2>8 DEF TypeOK, CountEvent, intents
<1>13. ASSUME MoveAggregatorCursor PROVE TypeOK'
  <2>1. Row \in Ids
    BY <1>t, <1>13, RowIs DEF MoveAggregatorCursor
  <2>2. aggregator' \in Worker
    BY <1>t, <1>13, AfterRowIs DEF TypeOK, MoveAggregatorCursor
  <2>3. aCursor' \in 0 .. MaxVotes
    BY <1>13, <2>1, BoundsAssumption DEF MoveAggregatorCursor, Ids
  <2> QED
    BY <1>t, <1>13, <2>2, <2>3 DEF TypeOK, MoveAggregatorCursor, intents, brick, history
<1>14. ASSUME NEW b \in Bricks, ExitFreeze(b) PROVE TypeOK'
  BY <1>t, <1>14 DEF TypeOK, ExitFreeze, intents, history
<1> QED
  BY <1>1, <1>2, <1>3, <1>4, <1>5, <1>6, <1>7, <1>8, <1>9, <1>10, <1>11, <1>12, <1>13, <1>14
  DEF Next, EnricherStep, AggregatorStep

-----------------------------------------------------------------------------
(* The voters.                                                               *)

(* Every step keeps every visible intent with a voter and a brick.           *)
LEMMA VotersStep == Shape /\ [Next]_vars => VotersKnown'
<1> SUFFICES ASSUME Shape, [Next]_vars PROVE VotersKnown'
  OBVIOUS
<1>t. /\ TypeOK /\ VotersKnown /\ EnricherShape
      /\ intent \in [Ids -> {"NONE", "DRAWN", "PENDING", "PROCESSED", "REJECTED"}]
      /\ voter \in [Ids -> Users \cup {NoUser}] /\ target \in [Ids -> Bricks \cup {NoBrick}]
  BY DEF Shape, TypeOK
<1>1. ASSUME UNCHANGED <<intent, voter, target>> PROVE VotersKnown'
  BY <1>t, <1>1 DEF VotersKnown
<1>2. ASSUME NEW i \in Ids, NEW u \in Users, NEW b \in Bricks, DrawId(i, u, b)
      PROVE  VotersKnown'
  BY <1>t, <1>2 DEF VotersKnown, DrawId
<1>3. ASSUME NEW i \in Ids, CommitIntent(i) PROVE VotersKnown'
  BY <1>t, <1>3 DEF VotersKnown, CommitIntent
<1>4. ASSUME SaveEvent \/ RejectIntent PROVE VotersKnown'
  <2>1. Current \in Ids /\ intent[Current] = "PENDING"
    BY <1>t, <1>4, CurrentIs DEF SaveEvent, RejectIntent, EnricherShape
  <2>2. /\ UNCHANGED <<voter, target>>
        /\ \A j \in Ids : j # Current => intent'[j] = intent[j]
    BY <1>t, <1>4 DEF SaveEvent, RejectIntent
  <2> QED
    BY <1>t, <2>1, <2>2 DEF VotersKnown
<1>5. ASSUME FetchIntents \/ ReadBrick \/ EnrichThrows \/ MoveEnricherCursor \/ EnricherDies
      PROVE  VotersKnown'
  BY <1>1, <1>5
  DEF FetchIntents, ReadBrick, EnrichThrows, MoveEnricherCursor, EnricherDies, intents
<1>6. ASSUME AggregatorStep \/ AggregatorDies PROVE VotersKnown'
  BY <1>1, <1>6
  DEF AggregatorStep, FetchEvents, SkipEvent, CountEvent, AggregateThrows,
      MoveAggregatorCursor, AggregatorDies, intents
<1>7. ASSUME NEW b \in Bricks, ExitFreeze(b) PROVE VotersKnown'
  BY <1>1, <1>7 DEF ExitFreeze, intents
<1>8. CASE UNCHANGED vars
  BY <1>1, <1>8 DEF vars
<1> QED
  BY <1>2, <1>3, <1>4, <1>5, <1>6, <1>7, <1>8 DEF Next, EnricherStep

-----------------------------------------------------------------------------
(* The enricher.                                                             *)

(* The cycle of a brick never goes back.                                     *)
LEMMA CyclesGrow ==
    ASSUME Shape, [Next]_vars, NEW b \in Bricks
    PROVE  cycle'[b] \in Nat /\ cycle[b] \in Nat /\ cycle[b] <= cycle'[b]
<1>1. TypeOK /\ TypeOK'
  BY TypeStep DEF Shape
<1>2. MaxCycle \in Nat /\ cycle[b] \in 1 .. MaxCycle /\ cycle'[b] \in 1 .. MaxCycle
  BY <1>1, BoundsAssumption DEF TypeOK
<1>3. cycle'[b] = cycle[b] \/ cycle'[b] = cycle[b] + 1
  <2>1. ASSUME CountEvent PROVE cycle'[b] = cycle[b] \/ cycle'[b] = cycle[b] + 1
    BY <1>1, <2>1 DEF CountEvent, TypeOK
  <2>2. CASE UNCHANGED cycle
    BY <2>2
  <2> QED
    BY <2>1, <2>2
    DEF Next, EnricherStep, AggregatorStep, DrawId, CommitIntent, FetchIntents, ReadBrick,
        SaveEvent, EnrichThrows, RejectIntent, MoveEnricherCursor, EnricherDies, FetchEvents,
        SkipEvent, AggregateThrows, MoveAggregatorCursor, AggregatorDies, ExitFreeze, brick, vars
<1> QED
  BY <1>2, <1>3

(* Every step keeps the shape of the enricher.                               *)
LEMMA EnricherShapeStep == Shape /\ [Next]_vars => EnricherShape'
<1> SUFFICES ASSUME Shape, [Next]_vars PROVE EnricherShape'
  OBVIOUS
<1>t. /\ TypeOK /\ VotersKnown /\ EnricherShape /\ enricher \in Worker
      /\ intent \in [Ids -> {"NONE", "DRAWN", "PENDING", "PROCESSED", "REJECTED"}]
      /\ target \in [Ids -> Bricks \cup {NoBrick}]
      /\ cycle \in [Bricks -> 1 .. MaxCycle] /\ MaxCycle \in Nat
  BY BoundsAssumption DEF Shape, TypeOK
<1>b. enricher.batch \subseteq Ids
  BY <1>t DEF Worker
<1>c. enricher.at # "idle" => Current \in Ids /\ Current \in enricher.batch
  BY <1>t, CurrentIs
(* What the enricher has read and fetched still holds if others only draw    *)
(* and commit ids or close cycles.                                           *)
<1>1. ASSUME UNCHANGED enricher,
             \A i \in Ids : intent[i] = "PENDING" => intent'[i] = "PENDING",
             \A i \in Ids : intent[i] = "PENDING" => target'[i] = target[i]
      PROVE  EnricherShape'
  <2>1. Current' = Current
    BY <1>1 DEF Current
  <2>2. ASSUME enricher.at = "save" PROVE enricher.cycle \in 1 .. cycle'[target'[Current]]
    <3> DEFINE b == target[Current]
    <3>1. intent[Current] = "PENDING"
      BY <1>t, <1>c, <2>2 DEF EnricherShape
    <3>2. b \in Bricks /\ target'[Current] = b
      BY <1>t, <1>c, <1>1, <2>2, <3>1 DEF VotersKnown
    <3>3. enricher.cycle \in 1 .. cycle[b]
      BY <1>t, <2>2 DEF EnricherShape
    <3> HIDE DEF b
    <3>4. cycle'[b] \in Nat /\ cycle[b] \in Nat /\ cycle[b] <= cycle'[b]
      BY <3>2, CyclesGrow
    <3> QED
      BY <3>2, <3>3, <3>4
  <2> QED
    BY <1>t, <1>b, <1>1, <2>1, <2>2 DEF EnricherShape
<1>2. ASSUME NEW i \in Ids, NEW u \in Users, NEW b \in Bricks, DrawId(i, u, b)
      PROVE  EnricherShape'
  BY <1>t, <1>1, <1>2 DEF DrawId
<1>3. ASSUME NEW i \in Ids, CommitIntent(i) PROVE EnricherShape'
  BY <1>t, <1>1, <1>3 DEF CommitIntent
<1>4. ASSUME FetchIntents PROVE EnricherShape'
  <2> DEFINE found == {i \in Ids : intent[i] = "PENDING" /\ i > eCursor}
  <2>1. found # {} /\ found \subseteq Ids /\ \A i \in found : intent[i] = "PENDING"
    BY <1>4 DEF FetchIntents
  <2>2. /\ enricher' = [Stopped EXCEPT !.at = "next", !.batch = FirstOf(found)]
        /\ UNCHANGED intent
    BY <1>4 DEF FetchIntents, intents
  <2> HIDE DEF found
  <2>3. enricher'.at = "next" /\ enricher'.batch = FirstOf(found)
    BY <2>2 DEF Stopped
  <2>4. FirstOf(found) \subseteq found /\ FirstOf(found) # {}
    BY <2>1, FirstOfIs
  <2> QED
    BY <2>1, <2>2, <2>3, <2>4 DEF EnricherShape
<1>5. ASSUME ReadBrick PROVE EnricherShape'
  <2> DEFINE b == target[Current]
  <2>1. enricher.at = "next" /\ UNCHANGED <<intent, target, cycle>>
    BY <1>5 DEF ReadBrick, intents, brick
  <2>2. intent[Current] = "PENDING"
    BY <1>t, <1>c, <2>1 DEF EnricherShape
  <2>3. b \in Bricks
    BY <1>t, <1>c, <2>1, <2>2 DEF VotersKnown
  <2>4. /\ enricher'.at = "save" /\ enricher'.batch = enricher.batch
        /\ enricher'.cycle = cycle[b]
    BY <1>t, <1>5 DEF ReadBrick, Worker
  <2>5. Current' = Current
    BY <2>4 DEF Current
  <2> HIDE DEF b
  <2>6. enricher'.cycle \in 1 .. cycle[b]
    BY <1>t, <2>3, <2>4
  <2> QED
    BY <1>t, <2>1, <2>4, <2>5, <2>6 DEF EnricherShape, b
<1>6. ASSUME SaveEvent \/ RejectIntent PROVE EnricherShape'
  <2>1. /\ enricher.at \in {"save", "reject"}
        /\ enricher' = [enricher EXCEPT !.at = "cursor"]
        /\ \A j \in Ids : j # Current => intent'[j] = intent[j]
    BY <1>t, <1>6 DEF SaveEvent, RejectIntent
  <2>2. enricher'.at = "cursor" /\ enricher'.batch = enricher.batch
    BY <1>t, <2>1 DEF Worker
  <2>3. Current' = Current
    BY <2>2 DEF Current
  <2> QED
    BY <1>t, <1>b, <2>1, <2>2, <2>3 DEF EnricherShape
<1>7. ASSUME EnrichThrows PROVE EnricherShape'
  <2>1. /\ enricher.at = "save" /\ enricher'.at = "reject" /\ enricher'.batch = enricher.batch
        /\ UNCHANGED intent
    BY <1>t, <1>7 DEF EnrichThrows, Worker, intents
  <2> QED
    BY <1>t, <2>1 DEF EnricherShape
<1>8. ASSUME MoveEnricherCursor PROVE EnricherShape'
  <2>1. enricher.at = "cursor" /\ enricher' = AfterRow(enricher) /\ UNCHANGED intent
    BY <1>8 DEF MoveEnricherCursor, intents
  <2>2. /\ enricher'.at \in {"idle", "next"}
        /\ enricher'.at = "next" =>
               enricher'.batch # {} /\ enricher'.batch = enricher.batch \ {Current}
    BY <1>t, <2>1, AfterRowIs DEF Current
  <2> QED
    BY <1>t, <2>1, <2>2 DEF EnricherShape
<1>9. ASSUME EnricherDies PROVE EnricherShape'
  BY <1>9 DEF EnricherDies, Stopped, EnricherShape
<1>10. ASSUME AggregatorStep \/ AggregatorDies PROVE EnricherShape'
  BY <1>1, <1>10
  DEF AggregatorStep, FetchEvents, SkipEvent, CountEvent, AggregateThrows,
      MoveAggregatorCursor, AggregatorDies, intents
<1>11. ASSUME NEW b \in Bricks, ExitFreeze(b) PROVE EnricherShape'
  BY <1>1, <1>11 DEF ExitFreeze, intents
<1>12. CASE UNCHANGED vars
  BY <1>1, <1>12 DEF vars
<1> QED
  BY <1>2, <1>3, <1>4, <1>5, <1>6, <1>7, <1>8, <1>9, <1>10, <1>11, <1>12 DEF Next, EnricherStep

-----------------------------------------------------------------------------
(* The aggregator.                                                           *)

(* The events are only appended to, and only by a transaction that succeeds. *)
LEMMA EventsGrow ==
    ASSUME Shape, SaveEvent
    PROVE  /\ Len(events') = Len(events) + 1 /\ DOMAIN events = 1 .. Len(events)
           /\ DOMAIN events' = 1 .. Len(events')
           /\ Len(events) \in Nat
           /\ \A e \in DOMAIN events : events'[e] = events[e]
           /\ events'[Len(events) + 1] = [intent |-> Current, user |-> voter[Current],
                                          brick |-> target[Current], cycle |-> enricher.cycle]
<1> DEFINE event == [intent |-> Current, user |-> voter[Current], brick |-> target[Current],
                     cycle |-> enricher.cycle]
<1>1. events \in Seq(Event) /\ events' = Append(events, event)
  BY DEF Shape, TypeOK, SaveEvent
<1> HIDE DEF event
<1> QED
  BY <1>1 DEF event

(* Every step keeps the shape of the aggregator.                             *)
LEMMA AggregatorShapeStep == Shape /\ [Next]_vars => AggregatorShape'
<1> SUFFICES ASSUME Shape, [Next]_vars PROVE AggregatorShape'
  OBVIOUS
<1>t. /\ TypeOK /\ AggregatorShape /\ aggregator \in Worker /\ counted \in [Ids -> Nat]
      /\ events \in Seq(Event) /\ Len(events) <= MaxVotes /\ MaxVotes \in Nat
      /\ aCursor \in 0 .. MaxVotes
  BY BoundsAssumption DEF Shape, TypeOK
<1>d. /\ DOMAIN events = 1 .. Len(events) /\ Len(events) \in Nat
      /\ DOMAIN events \subseteq Ids
  BY <1>t DEF Ids
<1>r. aggregator.at # "idle" =>
          /\ Row \in aggregator.batch /\ Row \in Ids /\ Row \in DOMAIN events
          /\ \A f \in aggregator.batch : Row <= f
  BY <1>t, RowIs
<1>1. ASSUME UNCHANGED <<aggregator, events, aCursor, counted, passed>> PROVE AggregatorShape'
  <2>1. Row' = Row
    BY <1>1 DEF Row
  <2> QED
    BY <1>t, <1>1, <2>1 DEF AggregatorShape
<1>2. ASSUME SaveEvent PROVE AggregatorShape'
  <2>1. UNCHANGED <<aggregator, aCursor, counted, passed>>
    BY <1>2 DEF SaveEvent, history
  <2>2. Len(events) <= Len(events') /\ DOMAIN events \subseteq DOMAIN events'
        /\ Len(events') \in Nat
    BY EventsGrow, <1>2
  <2>3. aCursor <= Len(events')
    BY <1>t, <1>d, <2>2 DEF AggregatorShape
  <2>4. Row' = Row
    BY <2>1 DEF Row
  <2> QED
    BY <1>t, <2>1, <2>2, <2>3, <2>4 DEF AggregatorShape
<1>3. ASSUME FetchEvents PROVE AggregatorShape'
  <2> DEFINE found == {e \in DOMAIN events : e > aCursor}
  <2>1. /\ found # {} /\ UNCHANGED <<events, aCursor>>
        /\ aggregator' = [Stopped EXCEPT !.at = "next", !.batch = FirstOf(found)]
    BY <1>3 DEF FetchEvents
  <2>2. found \subseteq Ids
    BY <1>d
  <2>3. \A e \in found : e \in DOMAIN events /\ e > aCursor
    OBVIOUS
  <2>4. ASSUME NEW f \in found, NEW e \in Ids, aCursor < e, e <= f PROVE e \in found
    BY <1>t, <1>d, <2>4 DEF Ids
  <2> HIDE DEF found
  <2>5. /\ FirstOf(found) \subseteq found /\ FirstOf(found) # {}
        /\ \A f \in FirstOf(found) : \A e \in found : e <= f => e \in FirstOf(found)
    BY <2>1, <2>2, FirstOfIs
  <2>6. aggregator'.at = "next" /\ aggregator'.batch = FirstOf(found)
    BY <2>1 DEF Stopped
  <2>7. \A f \in FirstOf(found) :
            /\ f \in DOMAIN events /\ f > aCursor
            /\ \A e \in Ids : aCursor < e /\ e <= f => e \in FirstOf(found)
    BY <2>3, <2>4, <2>5
  <2> QED
    BY <1>t, <2>1, <2>5, <2>6, <2>7 DEF AggregatorShape
<1>4. ASSUME SkipEvent \/ CountEvent \/ AggregateThrows PROVE AggregatorShape'
  <2>1. /\ aggregator.at = "next" /\ aggregator' = [aggregator EXCEPT !.at = "cursor"]
        /\ UNCHANGED <<events, aCursor>>
    BY <1>4 DEF SkipEvent, CountEvent, AggregateThrows, RowDone
  <2>2. aggregator'.at = "cursor" /\ aggregator'.batch = aggregator.batch
    BY <1>t, <2>1 DEF Worker
  <2>3. Row' = Row
    BY <2>2 DEF Row
  <2>4. counted'[Row] > 0 \/ Row \in passed'
    <3>1. CASE SkipEvent \/ AggregateThrows
      BY <3>1 DEF SkipEvent, AggregateThrows
    <3>2. CASE CountEvent
      <4>1. counted' = [counted EXCEPT ![Row] = @ + 1]
        BY <3>2 DEF CountEvent
      <4> QED
        BY <1>t, <1>r, <2>1, <4>1
    <3> QED
      BY <1>4, <3>1, <3>2
  <2> QED
    BY <1>t, <2>1, <2>2, <2>3, <2>4 DEF AggregatorShape
<1>5. ASSUME MoveAggregatorCursor PROVE AggregatorShape'
  <2>1. /\ aggregator.at = "cursor" /\ aggregator' = AfterRow(aggregator) /\ aCursor' = Row
        /\ UNCHANGED events
    BY <1>5 DEF MoveAggregatorCursor
  <2>2. /\ aggregator'.at \in {"idle", "next"}
        /\ aggregator'.at = "next" =>
               aggregator'.batch # {} /\ aggregator'.batch = aggregator.batch \ {Row}
    BY <1>t, <2>1, AfterRowIs DEF Row
  <2>3. aCursor' <= Len(events')
    BY <1>d, <1>r, <2>1
  <2>4. ASSUME NEW f \in aggregator.batch \ {Row}
        PROVE  /\ f \in DOMAIN events /\ f > Row
               /\ \A e \in Ids : Row < e /\ e <= f => e \in aggregator.batch \ {Row}
    <3>1. /\ f \in DOMAIN events /\ Row > aCursor /\ Row <= f
          /\ \A e \in Ids : aCursor < e /\ e <= f => e \in aggregator.batch
      BY <1>t, <1>r, <2>1, <2>4 DEF AggregatorShape
    <3>2. f \in Int /\ Row \in Int /\ aCursor \in Int /\ \A e \in Ids : e \in Int
      BY <1>t, <1>d, <1>r, <2>1, <3>1 DEF Ids
    <3> QED
      BY <2>4, <3>1, <3>2
  <2> QED
    BY <2>1, <2>2, <2>3, <2>4 DEF AggregatorShape
<1>6. ASSUME AggregatorDies PROVE AggregatorShape'
  <2>1. aggregator'.at = "idle" /\ UNCHANGED <<events, aCursor>>
    BY <1>6 DEF AggregatorDies, Stopped
  <2> QED
    BY <1>t, <2>1 DEF AggregatorShape
<1>7. ASSUME NEW i \in Ids, NEW u \in Users, NEW b \in Bricks, DrawId(i, u, b)
      PROVE  AggregatorShape'
  BY <1>1, <1>7 DEF DrawId, history
<1>8. ASSUME NEW i \in Ids, CommitIntent(i) PROVE AggregatorShape'
  BY <1>1, <1>8 DEF CommitIntent, history
<1>9. ASSUME FetchIntents \/ ReadBrick \/ EnrichThrows \/ RejectIntent \/ MoveEnricherCursor
             \/ EnricherDies
      PROVE  AggregatorShape'
  BY <1>1, <1>9
  DEF FetchIntents, ReadBrick, EnrichThrows, RejectIntent, MoveEnricherCursor, EnricherDies,
      history
<1>10. ASSUME NEW b \in Bricks, ExitFreeze(b) PROVE AggregatorShape'
  BY <1>1, <1>10 DEF ExitFreeze, history
<1>11. CASE UNCHANGED vars
  BY <1>1, <1>11 DEF vars
<1> QED
  BY <1>2, <1>3, <1>4, <1>5, <1>6, <1>7, <1>8, <1>9, <1>10, <1>11
  DEF Next, EnricherStep, AggregatorStep

(* What the cursor passes is counted or dismissed: a batch is the next       *)
(* stretch of events, so nothing lies between the cursor and the row at hand. *)
LEMMA NothingPassedOverStep == Shape /\ NothingPassedOver /\ [Next]_vars => NothingPassedOver'
<1> SUFFICES ASSUME Shape, NothingPassedOver, [Next]_vars PROVE NothingPassedOver'
  OBVIOUS
<1>t. /\ TypeOK /\ AggregatorShape /\ counted \in [Ids -> Nat] /\ passed \subseteq Ids
      /\ events \in Seq(Event) /\ Len(events) <= MaxVotes /\ MaxVotes \in Nat
      /\ aCursor \in 0 .. MaxVotes
  BY BoundsAssumption DEF Shape, TypeOK
<1>d. /\ DOMAIN events = 1 .. Len(events) /\ Len(events) \in Nat
      /\ DOMAIN events \subseteq Ids
  BY <1>t DEF Ids
<1>r. aggregator.at # "idle" =>
          /\ Row \in aggregator.batch /\ Row \in Ids /\ Row \in DOMAIN events
          /\ \A f \in aggregator.batch : Row <= f
  BY <1>t, RowIs
<1>1. ASSUME UNCHANGED <<events, aCursor, counted, passed>> PROVE NothingPassedOver'
  BY <1>1 DEF NothingPassedOver
<1>2. ASSUME SaveEvent PROVE NothingPassedOver'
  <2>1. UNCHANGED <<aCursor, counted, passed>>
    BY <1>2 DEF SaveEvent, history
  <2>2. \A e \in DOMAIN events' : e <= aCursor => e \in DOMAIN events
    BY <1>t, <1>d, <1>2, EventsGrow DEF AggregatorShape
  <2> QED
    BY <2>1, <2>2 DEF NothingPassedOver
<1>3. ASSUME SkipEvent \/ CountEvent \/ AggregateThrows PROVE NothingPassedOver'
  <2>1. /\ aggregator.at = "next" /\ UNCHANGED <<events, aCursor>>
        /\ \/ UNCHANGED counted /\ passed' = passed \cup {Row}
           \/ counted' = [counted EXCEPT ![Row] = @ + 1] /\ UNCHANGED passed
    BY <1>3 DEF SkipEvent, CountEvent, AggregateThrows
  <2>2. \A e \in Ids : counted[e] > 0 \/ e \in passed => counted'[e] > 0 \/ e \in passed'
    BY <1>t, <1>r, <2>1
  <2> QED
    BY <1>d, <2>1, <2>2 DEF NothingPassedOver
<1>4. ASSUME MoveAggregatorCursor PROVE NothingPassedOver'
  <2>1. /\ aggregator.at = "cursor" /\ aCursor' = Row /\ UNCHANGED <<events, counted, passed>>
    BY <1>4 DEF MoveAggregatorCursor, history
  <2>2. ASSUME NEW e \in DOMAIN events, e <= Row PROVE counted[e] > 0 \/ e \in passed
    <3>1. CASE e <= aCursor
      BY <3>1 DEF NothingPassedOver
    <3>2. CASE ~(e <= aCursor)
      <4>1. e \in Ids /\ aCursor < e
        BY <1>t, <1>d, <3>2
      <4>2. e \in aggregator.batch
        BY <1>t, <1>r, <2>1, <2>2, <4>1 DEF AggregatorShape
      <4>3. e = Row
        BY <1>d, <1>r, <2>1, <2>2, <4>2
      <4> QED
        BY <1>t, <2>1, <4>3 DEF AggregatorShape
    <3> QED
      BY <3>1, <3>2
  <2> QED
    BY <2>1, <2>2 DEF NothingPassedOver
<1>5. ASSUME NEW i \in Ids, NEW u \in Users, NEW b \in Bricks, DrawId(i, u, b)
      PROVE  NothingPassedOver'
  BY <1>1, <1>5 DEF DrawId, history
<1>6. ASSUME NEW i \in Ids, CommitIntent(i) PROVE NothingPassedOver'
  BY <1>1, <1>6 DEF CommitIntent, history
<1>7. ASSUME FetchIntents \/ ReadBrick \/ EnrichThrows \/ RejectIntent \/ MoveEnricherCursor
             \/ EnricherDies \/ FetchEvents \/ AggregatorDies
      PROVE  NothingPassedOver'
  BY <1>1, <1>7
  DEF FetchIntents, ReadBrick, EnrichThrows, RejectIntent, MoveEnricherCursor, EnricherDies,
      FetchEvents, AggregatorDies, history
<1>8. ASSUME NEW b \in Bricks, ExitFreeze(b) PROVE NothingPassedOver'
  BY <1>1, <1>8 DEF ExitFreeze, history
<1>9. CASE UNCHANGED vars
  BY <1>1, <1>9 DEF vars, history
<1> QED
  BY <1>2, <1>3, <1>4, <1>5, <1>6, <1>7, <1>8, <1>9 DEF Next, EnricherStep, AggregatorStep

-----------------------------------------------------------------------------
(* The events and the intents.                                               *)

(* Every step keeps events and processed intents in correspondence.          *)
LEMMA EventsOfIntentsStep == Shape /\ [Next]_vars => EventsOfIntents'
<1> SUFFICES ASSUME Shape, [Next]_vars PROVE EventsOfIntents'
  OBVIOUS
<1>t. /\ TypeOK /\ EnricherShape /\ EventsOfIntents /\ events \in Seq(Event)
      /\ intent \in [Ids -> {"NONE", "DRAWN", "PENDING", "PROCESSED", "REJECTED"}]
  BY DEF Shape, TypeOK
<1>e. \A e \in DOMAIN events : events[e].intent \in Ids
  BY <1>t, EventIs
<1>1. ASSUME UNCHANGED events,
             \A i \in Ids : intent[i] = "PROCESSED" <=> intent'[i] = "PROCESSED"
      PROVE  EventsOfIntents'
  BY <1>t, <1>e, <1>1 DEF EventsOfIntents
<1>2. ASSUME NEW i \in Ids, NEW u \in Users, NEW b \in Bricks, DrawId(i, u, b)
      PROVE  EventsOfIntents'
  BY <1>t, <1>1, <1>2 DEF DrawId
<1>3. ASSUME NEW i \in Ids, CommitIntent(i) PROVE EventsOfIntents'
  BY <1>t, <1>1, <1>3 DEF CommitIntent
<1>4. ASSUME SaveEvent PROVE EventsOfIntents'
  <2> DEFINE n == Len(events)
  <2>1. Current \in Ids /\ intent[Current] = "PENDING"
    BY <1>t, <1>4, CurrentIs DEF SaveEvent, EnricherShape
  <2>2. intent'[Current] = "PROCESSED" /\ \A j \in Ids : j # Current => intent'[j] = intent[j]
    BY <1>t, <1>4, <2>1 DEF SaveEvent
  <2>3. /\ n \in Nat /\ DOMAIN events = 1 .. n /\ DOMAIN events' = 1 .. n + 1
        /\ \A e \in 1 .. n : events'[e] = events[e]
        /\ events'[n + 1].intent = Current
    BY <1>4, EventsGrow
  <2> HIDE DEF n
  <2>4. \A e \in 1 .. n + 1 : e \in 1 .. n \/ e = n + 1
    BY <2>3
  <2>5. \A e \in 1 .. n : events[e].intent \in Ids /\ events[e].intent # Current
    BY <1>t, <1>e, <2>1, <2>3 DEF EventsOfIntents
  <2>6. \A e \in DOMAIN events' : intent'[events'[e].intent] = "PROCESSED"
    BY <1>t, <2>2, <2>3, <2>4, <2>5 DEF EventsOfIntents
  <2>7. ASSUME NEW i \in Ids, intent'[i] = "PROCESSED"
        PROVE  \E e \in DOMAIN events' : events'[e].intent = i
    <3>1. n + 1 \in DOMAIN events' /\ \A e \in 1 .. n : e \in DOMAIN events'
      BY <2>3
    <3> QED
      BY <1>t, <2>2, <2>3, <2>7, <3>1 DEF EventsOfIntents
  <2>8. \A e, f \in DOMAIN events' : events'[e].intent = events'[f].intent => e = f
    BY <1>t, <2>3, <2>4, <2>5 DEF EventsOfIntents
  <2> QED
    BY <2>6, <2>7, <2>8 DEF EventsOfIntents
<1>5. ASSUME RejectIntent PROVE EventsOfIntents'
  <2>1. Current \in Ids /\ intent[Current] = "PENDING"
    BY <1>t, <1>5, CurrentIs DEF RejectIntent, EnricherShape
  <2> QED
    BY <1>t, <1>1, <1>5, <2>1 DEF RejectIntent
<1>6. ASSUME FetchIntents \/ ReadBrick \/ EnrichThrows \/ MoveEnricherCursor \/ EnricherDies
      PROVE  EventsOfIntents'
  BY <1>1, <1>6
  DEF FetchIntents, ReadBrick, EnrichThrows, MoveEnricherCursor, EnricherDies, intents
<1>7. ASSUME AggregatorStep \/ AggregatorDies PROVE EventsOfIntents'
  BY <1>1, <1>7
  DEF AggregatorStep, FetchEvents, SkipEvent, CountEvent, AggregateThrows,
      MoveAggregatorCursor, AggregatorDies, intents
<1>8. ASSUME NEW b \in Bricks, ExitFreeze(b) PROVE EventsOfIntents'
  BY <1>1, <1>8 DEF ExitFreeze, intents
<1>9. CASE UNCHANGED vars
  BY <1>1, <1>9 DEF vars
<1> QED
  BY <1>2, <1>3, <1>4, <1>5, <1>6, <1>7, <1>8, <1>9 DEF Next, EnricherStep

(* Every step keeps events of known voters, of a cycle that was reached.     *)
LEMMA EventsKnownStep == Shape /\ [Next]_vars => EventsKnown'
<1> SUFFICES ASSUME Shape, [Next]_vars PROVE EventsKnown'
  OBVIOUS
<1>t. /\ TypeOK /\ VotersKnown /\ EnricherShape /\ AggregatorShape /\ EventsKnown
      /\ events \in Seq(Event) /\ counted \in [Ids -> Nat]
  BY DEF Shape, TypeOK
<1>e. \A e \in DOMAIN events : events[e].brick \in Bricks
  BY <1>t, EventIs
<1>g. \A b \in Bricks : cycle'[b] \in Nat /\ cycle[b] \in Nat /\ cycle[b] <= cycle'[b]
  BY CyclesGrow
<1>o. ASSUME NEW e \in DOMAIN events
      PROVE  events[e].cycle \in 1 .. cycle'[events[e].brick]
  <2> DEFINE b == events[e].brick
  <2>1. b \in Bricks /\ events[e].cycle \in 1 .. cycle[b]
    BY <1>t, <1>e DEF EventsKnown
  <2> HIDE DEF b
  <2>2. events[e].cycle \in 1 .. cycle'[b]
    BY <1>g, <2>1
  <2> QED
    BY <2>2 DEF b
<1>1. ASSUME UNCHANGED <<events, counted>> PROVE EventsKnown'
  BY <1>t, <1>o, <1>1 DEF EventsKnown
<1>2. ASSUME SaveEvent PROVE EventsKnown'
  <2> DEFINE n == Len(events)
             b == target[Current]
  <2>1. b \in Bricks /\ enricher.cycle \in 1 .. cycle[b]
    BY <1>t, <1>2, CurrentIs DEF SaveEvent, EnricherShape, VotersKnown
  <2>2. /\ n \in Nat /\ DOMAIN events = 1 .. n /\ DOMAIN events' = 1 .. n + 1
        /\ \A e \in 1 .. n : events'[e] = events[e]
        /\ events'[n + 1].brick = b /\ events'[n + 1].cycle = enricher.cycle
    BY <1>2, EventsGrow
  <2>3. UNCHANGED <<counted, cycle>>
    BY <1>2 DEF SaveEvent, brick, history
  <2> HIDE DEF n, b
  <2>4. \A e \in 1 .. n + 1 : e \in 1 .. n \/ e = n + 1
    BY <2>2
  <2>5. \A e \in DOMAIN events' : events'[e].cycle \in 1 .. cycle'[events'[e].brick]
    BY <1>o, <2>1, <2>2, <2>3, <2>4
  <2>6. Ids \ DOMAIN events' \subseteq Ids \ DOMAIN events
    BY <2>2
  <2> QED
    BY <1>t, <2>3, <2>5, <2>6 DEF EventsKnown
<1>3. ASSUME CountEvent PROVE EventsKnown'
  <2>1. Row \in Ids /\ Row \in DOMAIN events
    BY <1>t, <1>3, RowIs DEF CountEvent
  <2>2. counted' = [counted EXCEPT ![Row] = @ + 1] /\ UNCHANGED events
    BY <1>3 DEF CountEvent
  <2> QED
    BY <1>t, <1>o, <2>1, <2>2 DEF EventsKnown
<1>4. ASSUME NEW i \in Ids, NEW u \in Users, NEW b \in Bricks, DrawId(i, u, b)
      PROVE  EventsKnown'
  BY <1>1, <1>4 DEF DrawId, history
<1>5. ASSUME NEW i \in Ids, CommitIntent(i) PROVE EventsKnown'
  BY <1>1, <1>5 DEF CommitIntent, history
<1>6. ASSUME FetchIntents \/ ReadBrick \/ EnrichThrows \/ RejectIntent \/ MoveEnricherCursor
             \/ EnricherDies
      PROVE  EventsKnown'
  BY <1>1, <1>6
  DEF FetchIntents, ReadBrick, EnrichThrows, RejectIntent, MoveEnricherCursor, EnricherDies,
      history
<1>7. ASSUME FetchEvents \/ SkipEvent \/ AggregateThrows \/ MoveAggregatorCursor
             \/ AggregatorDies
      PROVE  EventsKnown'
  BY <1>1, <1>7
  DEF FetchEvents, SkipEvent, AggregateThrows, MoveAggregatorCursor, AggregatorDies, history
<1>8. ASSUME NEW b \in Bricks, ExitFreeze(b) PROVE EventsKnown'
  BY <1>1, <1>8 DEF ExitFreeze, history
<1>9. CASE UNCHANGED vars
  BY <1>1, <1>9 DEF vars
<1> QED
  BY <1>2, <1>3, <1>4, <1>5, <1>6, <1>7, <1>8, <1>9 DEF Next, EnricherStep, AggregatorStep

(* Every step keeps one closed total for each cycle that is over.            *)
LEMMA ClosesKnownStep == Shape /\ [Next]_vars => ClosesKnown'
<1> SUFFICES ASSUME Shape, [Next]_vars PROVE ClosesKnown'
  OBVIOUS
<1>t. /\ ClosesKnown /\ closes \in [Bricks -> Seq(Nat)] /\ cycle \in [Bricks -> 1 .. MaxCycle]
      /\ total \in [Bricks -> Nat] /\ MaxCycle \in Nat
  BY BoundsAssumption DEF Shape, TypeOK
<1>1. ASSUME UNCHANGED <<cycle, closes>> PROVE ClosesKnown'
  BY <1>t, <1>1 DEF ClosesKnown
<1>2. ASSUME CountEvent PROVE ClosesKnown'
  <2> DEFINE b == events[Row].brick
             newTotal == total[b] + Weight(Row)
  <2>1. CASE UNCHANGED <<cycle, closes>>
    BY <1>1, <2>1
  <2>2. CASE /\ cycle' = [cycle EXCEPT ![b] = @ + 1]
             /\ closes' = [closes EXCEPT ![b] = Append(@, newTotal)]
    <3> HIDE DEF b
    <3>1. CASE b \in Bricks
      <4>1. newTotal \in Nat
        BY <1>t, <3>1 DEF Weight
      <4> HIDE DEF newTotal
      <4>2. closes[b] \in Seq(Nat) /\ cycle[b] \in Int /\ Len(closes[b]) = cycle[b] - 1
        BY <1>t, <3>1 DEF ClosesKnown
      <4>3. Len(closes'[b]) = Len(closes[b]) + 1 /\ cycle'[b] = cycle[b] + 1
        BY <1>t, <2>2, <3>1, <4>1, <4>2
      <4>4. \A d \in Bricks : d # b => closes'[d] = closes[d] /\ cycle'[d] = cycle[d]
        BY <1>t, <2>2
      <4> QED
        <5>1. ASSUME NEW d \in Bricks PROVE Len(closes'[d]) = cycle'[d] - 1
          <6>1. CASE d = b
            BY <4>2, <4>3, <6>1
          <6>2. CASE d # b
            BY <1>t, <4>4, <6>2 DEF ClosesKnown
          <6> QED
            BY <6>1, <6>2
        <5> QED
          BY <5>1 DEF ClosesKnown
    <3>2. CASE b \notin Bricks
      BY <1>t, <2>2, <3>2 DEF ClosesKnown
    <3> QED
      BY <3>1, <3>2
  <2> QED
    BY <1>2, <2>1, <2>2 DEF CountEvent
<1>3. ASSUME NEW i \in Ids, NEW u \in Users, NEW b \in Bricks, DrawId(i, u, b)
      PROVE  ClosesKnown'
  BY <1>1, <1>3 DEF DrawId, brick
<1>4. ASSUME NEW i \in Ids, CommitIntent(i) PROVE ClosesKnown'
  BY <1>1, <1>4 DEF CommitIntent, brick
<1>5. ASSUME EnricherStep \/ EnricherDies PROVE ClosesKnown'
  BY <1>1, <1>5
  DEF EnricherStep, FetchIntents, ReadBrick, SaveEvent, EnrichThrows, RejectIntent,
      MoveEnricherCursor, EnricherDies, brick
<1>6. ASSUME FetchEvents \/ SkipEvent \/ AggregateThrows \/ MoveAggregatorCursor
             \/ AggregatorDies
      PROVE  ClosesKnown'
  BY <1>1, <1>6
  DEF FetchEvents, SkipEvent, AggregateThrows, MoveAggregatorCursor, AggregatorDies, brick
<1>7. ASSUME NEW b \in Bricks, ExitFreeze(b) PROVE ClosesKnown'
  BY <1>1, <1>7 DEF ExitFreeze
<1>8. CASE UNCHANGED vars
  BY <1>1, <1>8 DEF vars
<1> QED
  BY <1>2, <1>3, <1>4, <1>5, <1>6, <1>7, <1>8 DEF Next, AggregatorStep

(* The shape holds at first.                                                 *)
LEMMA ShapeInit == Init => Shape
<1> SUFFICES ASSUME Init PROVE Shape
  OBVIOUS
<1>1. Stopped \in Worker /\ Stopped.at = "idle"
  BY DEF Stopped, Worker
<1>2. TypeOK
  BY <1>1, BoundsAssumption DEF Init, TypeOK
<1>3. DOMAIN events = {} /\ Len(events) = 0
  BY DEF Init
<1> QED
  BY <1>1, <1>2, <1>3
  DEF Init, Shape, VotersKnown, EnricherShape, AggregatorShape, EventsOfIntents, EventsKnown,
      ClosesKnown

(* Every step keeps the shape.                                               *)
LEMMA ShapeStep == Shape /\ [Next]_vars => Shape'
  BY TypeStep, VotersStep, EnricherShapeStep, AggregatorShapeStep, EventsOfIntentsStep,
     EventsKnownStep, ClosesKnownStep
  DEF Shape

-----------------------------------------------------------------------------
(* The weight of a cycle as a sum over its events.                           *)

InCycle(ev, b, c) == {e \in DOMAIN ev : ev[e].brick = b /\ ev[e].cycle = c}
Effect(ev, cn) == [e \in DOMAIN ev |-> IF ev[e].user \in Verified THEN cn[e] ELSE 0]
WeightIn(ev, cn, b, c) == SumOver(InCycle(ev, b, c), Effect(ev, cn))

(* The events and counts of a state, as far as the sums need them.           *)
Sound(ev, cn, n) == n \in Nat /\ DOMAIN ev = 1 .. n /\ \A e \in 1 .. n : cn[e] \in Nat

(* The units that the votes of a cycle add, in two ways of writing.          *)
LEMMA UnitsOfVotes ==
    ASSUME NEW ev, NEW cn, NEW b, NEW c
    PROVE  UNION {IF (IF ev[e].user \in Verified THEN 1 ELSE 0) = 1
                      THEN {e} \X (1 .. cn[e]) ELSE {} :
                  e \in {e \in DOMAIN ev : ev[e].brick = b /\ ev[e].cycle = c}}
               = Units(InCycle(ev, b, c), Effect(ev, cn))
<1> DEFINE P == InCycle(ev, b, c)
           A(e) == IF (IF ev[e].user \in Verified THEN 1 ELSE 0) = 1
                       THEN {e} \X (1 .. cn[e]) ELSE {}
           B(e) == {e} \X (1 .. Effect(ev, cn)[e])
<1>1. ASSUME NEW e \in P PROVE A(e) = B(e)
  <2>1. e \in DOMAIN ev
    BY DEF InCycle
  <2>2. CASE ev[e].user \in Verified
    BY <2>1, <2>2 DEF Effect
  <2>3. CASE ev[e].user \notin Verified
    <3>1. Effect(ev, cn)[e] = 0
      BY <2>1, <2>3 DEF Effect
    <3>2. 1 .. 0 = {}
      OBVIOUS
    <3> QED
      BY <2>3, <3>1, <3>2
  <2> QED
    BY <2>2, <2>3
<1> HIDE DEF A, B, P
<1>2. UNION {A(e) : e \in P} = UNION {B(e) : e \in P}
  BY <1>1
<1> QED
  BY <1>2 DEF Units, A, B, P, InCycle

(* The weight a cycle should have is a sum over its events.                  *)
LEMMA WeightIs ==
    ASSUME NEW b, NEW c
    PROVE  WeightOf(b, c) = WeightIn(events, counted, b, c)
  BY UnitsOfVotes DEF WeightOf, Added, Weight, WeightIn, SumOver

CyclesFollow(ev, cn, cy, to, cl) ==
    \A b \in Bricks :
        /\ to[b] = WeightIn(ev, cn, b, cy[b])
        /\ \A c \in 1 .. cy[b] - 1 : cl[b][c] = WeightIn(ev, cn, b, c)

(* The property as a predicate of the variables' values.                     *)
LEMMA CyclesHoldIs ==
    CyclesHoldTheirVotes <=> CyclesFollow(events, counted, cycle, total, closes)
  BY WeightIs
  DEF CyclesHoldTheirVotes, CountersAreCurrentCycle, ClosedTotalsStand, CyclesFollow

(* The same of the next state.                                               *)
LEMMA CyclesHoldNext ==
    CyclesHoldTheirVotes' <=> CyclesFollow(events', counted', cycle', total', closes')
<1>1. CyclesHoldTheirVotes' <=> CyclesFollow(events, counted, cycle, total, closes)'
  BY CyclesHoldIs, PTL
<1>2. CyclesFollow(events, counted, cycle, total, closes)'
          <=> CyclesFollow(events', counted', cycle', total', closes')
  BY DEF CyclesFollow
<1> QED
  BY <1>1, <1>2

(* The events of a cycle are finitely many, with natural effects.            *)
LEMMA SumsFinite ==
    ASSUME NEW ev, NEW cn, NEW n, Sound(ev, cn, n), NEW b, NEW c
    PROVE  /\ IsFiniteSet(InCycle(ev, b, c))
           /\ \A e \in 1 .. n : Effect(ev, cn)[e] \in Nat
           /\ WeightIn(ev, cn, b, c) \in Nat
<1>1. IsFiniteSet(InCycle(ev, b, c)) /\ InCycle(ev, b, c) \subseteq 1 .. n
  <2>1. IsFiniteSet(1 .. n) /\ InCycle(ev, b, c) \in SUBSET (1 .. n)
    BY FS_Interval DEF InCycle, Sound
  <2> QED
    BY <2>1, FS_Subset
<1>2. \A e \in 1 .. n : Effect(ev, cn)[e] \in Nat
  BY DEF Effect, Sound
<1>3. WeightIn(ev, cn, b, c) \in Nat
  BY <1>1, <1>2, SumFinite DEF WeightIn
<1> QED
  BY <1>1, <1>2, <1>3

(* A new event weighs nothing until it is counted.                           *)
LEMMA AppendWeighsNothing ==
    ASSUME NEW ev, NEW cn, NEW n, Sound(ev, cn, n), NEW ew, DOMAIN ew = 1 .. n + 1,
           \A e \in 1 .. n : ew[e] = ev[e], cn[n + 1] = 0, NEW b, NEW c
    PROVE  WeightIn(ew, cn, b, c) = WeightIn(ev, cn, b, c)
<1> DEFINE P == InCycle(ev, b, c)
           Q == InCycle(ew, b, c)
           f == Effect(ev, cn)
           g == Effect(ew, cn)
<1>1. n \in Nat /\ DOMAIN ev = 1 .. n /\ P \subseteq 1 .. n /\ n + 1 \notin P
  BY DEF Sound, InCycle
<1>2. IsFiniteSet(P) /\ (\A e \in 1 .. n : f[e] \in Nat) /\ WeightIn(ev, cn, b, c) \in Nat
  BY SumsFinite
<1>3. \A e \in 1 .. n : e \in 1 .. n + 1
  BY <1>1
<1>4. \A e \in 1 .. n : g[e] = f[e]
  BY <1>1, <1>3 DEF Effect
<1>5. g[n + 1] = 0
  <2>1. n + 1 \in DOMAIN ew
    BY <1>1
  <2> QED
    BY <2>1 DEF Effect
<1>6. Q = P \/ Q = P \cup {n + 1}
  <2>1. \A e \in 1 .. n + 1 : e \in 1 .. n \/ e = n + 1
    BY <1>1
  <2>2. \A e \in 1 .. n : e \in Q <=> e \in P
    BY <1>1, <1>3 DEF InCycle
  <2>3. Q \subseteq 1 .. n + 1
    BY DEF InCycle
  <2> HIDE DEF P, Q
  <2> QED
    BY <1>1, <2>1, <2>2, <2>3
<1> HIDE DEF P, Q, f, g
<1>7. SumOver(P, g) = SumOver(P, f)
  <2>1. \A e \in P : g[e] = f[e]
    BY <1>1, <1>4
  <2> QED
    BY <2>1, SumSame
<1>8. CASE Q = P
  BY <1>7, <1>8 DEF WeightIn, P, Q, f, g
<1>9. CASE Q = P \cup {n + 1}
  <2>1. \A e \in P \cup {n + 1} : g[e] \in Nat
    <3>1. \A e \in P : g[e] \in Nat
      BY <1>1, <1>2, <1>4
    <3>2. g[n + 1] \in Nat
      BY <1>5
    <3> QED
      BY <3>1, <3>2
  <2>2. SumOver(Q, g) = SumOver(P, g) + g[n + 1]
    BY <1>1, <1>2, <1>9, <2>1, SumAdd
  <2>3. WeightIn(ev, cn, b, c) = SumOver(P, f) /\ WeightIn(ew, cn, b, c) = SumOver(Q, g)
    BY DEF WeightIn, P, Q, f, g
  <2> QED
    BY <1>2, <1>5, <1>7, <2>2, <2>3
<1> QED
  BY <1>6, <1>8, <1>9

(* An event counted once more adds its weight to its own cycle.              *)
LEMMA CountWeighs ==
    ASSUME NEW ev, NEW cn, NEW n, Sound(ev, cn, n), NEW r \in 1 .. n, NEW cm,
           cm[r] = cn[r] + 1, \A e \in 1 .. n : e # r => cm[e] = cn[e], NEW b, NEW c
    PROVE  /\ r \in InCycle(ev, b, c) =>
                  WeightIn(ev, cm, b, c) = WeightIn(ev, cn, b, c)
                                               + (IF ev[r].user \in Verified THEN 1 ELSE 0)
           /\ r \notin InCycle(ev, b, c) =>
                  WeightIn(ev, cm, b, c) = WeightIn(ev, cn, b, c)
<1> DEFINE P == InCycle(ev, b, c)
           f == Effect(ev, cn)
           g == Effect(ev, cm)
           d == IF ev[r].user \in Verified THEN 1 ELSE 0
<1>1. DOMAIN ev = 1 .. n /\ P \subseteq 1 .. n
  BY DEF Sound, InCycle
<1>2. IsFiniteSet(P) /\ \A e \in 1 .. n : f[e] \in Nat
  BY SumsFinite
<1>3. \A e \in 1 .. n : e # r => g[e] = f[e]
  BY <1>1 DEF Effect
<1>4. g[r] = f[r] + d /\ d \in Nat
  BY <1>1 DEF Effect
<1>5. WeightIn(ev, cn, b, c) = SumOver(P, f) /\ WeightIn(ev, cm, b, c) = SumOver(P, g)
  BY DEF WeightIn
<1> HIDE DEF P, f, g, d
<1>6. CASE r \in P
  <2>1. IsFiniteSet(P) /\ \A e \in P : f[e] \in Nat
    BY <1>1, <1>2
  <2>2. \A e \in P \ {r} : g[e] = f[e]
    BY <1>1, <1>3
  <2>3. d \in Nat
    BY <1>4
  <2>4. g[r] = f[r] + d
    BY <1>4
  <2>5. SumOver(P, g) = SumOver(P, f) + d
    BY ONLY <1>6, <2>1, <2>2, <2>3, <2>4, SumMore
  <2> QED
    BY <1>5, <1>6, <2>5 DEF P, d
<1>7. CASE r \notin P
  <2>1. \A e \in P : g[e] = f[e]
    BY <1>1, <1>3, <1>7
  <2>2. SumOver(P, g) = SumOver(P, f)
    BY <2>1, SumSame
  <2> QED
    BY <1>5, <1>7, <2>2 DEF P
<1> QED
  BY <1>6, <1>7

(* Before the first vote every cycle holds nothing.                          *)
LEMMA CyclesHoldInit == Init => CyclesHoldTheirVotes
<1> SUFFICES ASSUME Init PROVE CyclesHoldTheirVotes
  OBVIOUS
<1>1. \A b \in Bricks : cycle[b] = 1 /\ total[b] = 0
  BY DEF Init
<1>2. ASSUME NEW b, NEW c PROVE WeightIn(events, counted, b, c) = 0
  <2>1. DOMAIN events = {}
    BY DEF Init
  <2>2. InCycle(events, b, c) = {}
    BY <2>1 DEF InCycle
  <2> QED
    BY <2>2, SumEmpty DEF WeightIn
<1>3. CyclesFollow(events, counted, cycle, total, closes)
  BY <1>1, <1>2 DEF CyclesFollow
<1> QED
  BY <1>3, CyclesHoldIs

(* A cycle is charged for its own events only: an event stamped with a cycle *)
(* that has closed is never counted, and the one that closes a cycle is in   *)
(* the total it closes at.                                                   *)
LEMMA CyclesHoldStep == Shape /\ CyclesHoldTheirVotes /\ [Next]_vars => CyclesHoldTheirVotes'
<1> SUFFICES ASSUME Shape, CyclesHoldTheirVotes, [Next]_vars PROVE CyclesHoldTheirVotes'
  OBVIOUS
<1> DEFINE n == Len(events)
           W(b, c) == WeightIn(events, counted, b, c)
           V(b, c) == WeightIn(events', counted', b, c)
<1>t. /\ TypeOK /\ AggregatorShape /\ EventsKnown /\ ClosesKnown /\ counted \in [Ids -> Nat]
      /\ closes \in [Bricks -> Seq(Nat)] /\ cycle \in [Bricks -> 1 .. MaxCycle]
      /\ total \in [Bricks -> Nat] /\ MaxCycle \in Nat
      /\ events \in Seq(Event) /\ n <= MaxVotes /\ MaxVotes \in Nat
  BY BoundsAssumption DEF Shape, TypeOK
<1>d. n \in Nat /\ DOMAIN events = 1 .. n /\ DOMAIN events \subseteq Ids
  BY <1>t DEF Ids
<1>s. Sound(events, counted, n)
  BY <1>t, <1>d DEF Sound
<1>f. \A b \in Bricks : /\ total[b] = W(b, cycle[b])
                        /\ \A c \in 1 .. cycle[b] - 1 : closes[b][c] = W(b, c)
  BY CyclesHoldIs DEF CyclesFollow
<1>g. ASSUME \A b \in Bricks : /\ total'[b] = V(b, cycle'[b])
                               /\ \A c \in 1 .. cycle'[b] - 1 : closes'[b][c] = V(b, c)
      PROVE  CyclesHoldTheirVotes'
  BY <1>g, CyclesHoldNext DEF CyclesFollow
<1>1. ASSUME UNCHANGED <<events, counted, cycle, total, closes>> PROVE CyclesHoldTheirVotes'
  BY <1>f, <1>g, <1>1
<1>2. ASSUME SaveEvent PROVE CyclesHoldTheirVotes'
  <2>1. UNCHANGED <<counted, cycle, total, closes>>
    BY <1>2 DEF SaveEvent, brick, history
  <2>2. DOMAIN events' = 1 .. n + 1 /\ (\A e \in 1 .. n : events'[e] = events[e]) /\ n + 1 \in Ids
    <3>1. n + 1 <= MaxVotes
      <4>1. Current \in Ids /\ intent[Current] = "PENDING"
        BY <1>2, CurrentIs DEF Shape, SaveEvent, EnricherShape
      <4> QED
        BY <4>1, RoomForEvent DEF Shape
    <3>2. DOMAIN events' = 1 .. n + 1 /\ \A e \in 1 .. n : events'[e] = events[e]
      BY <1>2, EventsGrow
    <3> QED
      BY <1>d, <1>t, <3>1, <3>2 DEF Ids
  <2>3. counted[n + 1] = 0
    BY <1>d, <1>t, <2>2 DEF EventsKnown
  <2>4. \A b, c : V(b, c) = W(b, c)
    BY <1>s, <2>1, <2>2, <2>3, AppendWeighsNothing
  <2> HIDE DEF V, W
  <2> QED
    BY <1>f, <1>g, <2>1, <2>4
<1>3. ASSUME CountEvent PROVE CyclesHoldTheirVotes'
  <2> DEFINE b0 == events[Row].brick
             c0 == cycle[b0]
             w == IF events[Row].user \in Verified THEN 1 ELSE 0
  <2>1. Row \in Ids /\ Row \in 1 .. n /\ b0 \in Bricks
    BY <1>d, <1>t, <1>3, RowIs, EventIs DEF CountEvent
  <2>2. c0 \in 1 .. MaxCycle /\ w \in Nat /\ events[Row].cycle = c0
    BY <1>3, <1>t, <2>1 DEF CountEvent, Counts
  <2>3. /\ UNCHANGED events
        /\ counted'[Row] = counted[Row] + 1
        /\ \A e \in 1 .. n : e # Row => counted'[e] = counted[e]
    BY <1>3, <1>d, <1>t, <2>1 DEF CountEvent
  <2>4. \A b, c : Row \in InCycle(events, b, c) <=> b = b0 /\ c = c0
    BY <1>d, <2>1, <2>2 DEF InCycle
  <2>5. V(b0, c0) = W(b0, c0) + w
    BY <1>s, <2>1, <2>3, <2>4, CountWeighs
  <2>6. \A b, c : b # b0 \/ c # c0 => V(b, c) = W(b, c)
    BY <1>s, <2>1, <2>3, <2>4, CountWeighs
  <2>7. W(b0, c0 + 1) = 0
    <3>1. InCycle(events, b0, c0 + 1) = {}
      <4>1. SUFFICES ASSUME NEW e \in InCycle(events, b0, c0 + 1) PROVE FALSE
        OBVIOUS
      <4>2. e \in DOMAIN events /\ events[e].brick = b0 /\ events[e].cycle = c0 + 1
        BY DEF InCycle
      <4>3. events[e].cycle \in 1 .. c0
        BY <1>t, <4>2 DEF EventsKnown
      <4> QED
        BY <2>2, <4>2, <4>3
    <3> QED
      BY <3>1, SumEmpty DEF WeightIn
  <2>8. total[b0] + Weight(Row) = W(b0, c0) + w /\ W(b0, c0) \in Nat
    BY <1>f, <1>t, <2>1 DEF Weight
  <2>9. \/ total' = [total EXCEPT ![b0] = total[b0] + Weight(Row)] /\ UNCHANGED <<cycle, closes>>
        \/ /\ total' = [total EXCEPT ![b0] = 0]
           /\ cycle' = [cycle EXCEPT ![b0] = @ + 1]
           /\ closes' = [closes EXCEPT ![b0] = Append(@, total[b0] + Weight(Row))]
    BY <1>3 DEF CountEvent
  <2> HIDE DEF V, W, n, b0, c0, w
  <2>10. CASE total' = [total EXCEPT ![b0] = total[b0] + Weight(Row)] /\ UNCHANGED <<cycle, closes>>
    <3>1. ASSUME NEW b \in Bricks
          PROVE  total'[b] = V(b, cycle'[b])
      <4>1. CASE b = b0
        BY <1>t, <2>5, <2>8, <2>10, <4>1 DEF c0
      <4>2. CASE b # b0
        BY <1>f, <1>t, <2>6, <2>10, <4>2
      <4> QED
        BY <4>1, <4>2
    <3>2. ASSUME NEW b \in Bricks, NEW c \in 1 .. cycle'[b] - 1
          PROVE  closes'[b][c] = V(b, c)
      <4>1. c \in 1 .. cycle[b] - 1 /\ cycle[b] \in Nat
        BY <1>t, <2>10
      <4>2. b # b0 \/ c # c0
        BY <4>1 DEF c0
      <4> QED
        BY <1>f, <2>6, <2>10, <4>1, <4>2
    <3> QED
      BY <1>g, <3>1, <3>2
  <2>11. CASE /\ total' = [total EXCEPT ![b0] = 0]
              /\ cycle' = [cycle EXCEPT ![b0] = @ + 1]
              /\ closes' = [closes EXCEPT ![b0] = Append(@, total[b0] + Weight(Row))]
    <3>1. /\ cycle'[b0] = c0 + 1 /\ total'[b0] = 0
          /\ closes'[b0] = Append(closes[b0], W(b0, c0) + w)
      BY <1>t, <2>1, <2>8, <2>11 DEF c0
    <3>2. \A b \in Bricks : b # b0 => /\ cycle'[b] = cycle[b] /\ total'[b] = total[b]
                                      /\ closes'[b] = closes[b]
      BY <1>t, <2>11
    <3>3. ASSUME NEW b \in Bricks PROVE total'[b] = V(b, cycle'[b])
      <4>1. CASE b = b0
        <5>1. c0 + 1 # c0
          BY <2>2
        <5> QED
          BY <2>6, <2>7, <3>1, <4>1, <5>1
      <4>2. CASE b # b0
        BY <1>f, <2>6, <3>2, <4>2
      <4> QED
        BY <4>1, <4>2
    <3>4. ASSUME NEW b \in Bricks, NEW c \in 1 .. cycle'[b] - 1
          PROVE  closes'[b][c] = V(b, c)
      <4>1. CASE b = b0
        <5>1. /\ closes[b0] \in Seq(Nat) /\ Len(closes[b0]) = c0 - 1 /\ W(b0, c0) + w \in Nat
              /\ c \in 1 .. c0
          <6>1. closes[b0] \in Seq(Nat) /\ Len(closes[b0]) = c0 - 1
            BY <1>t, <2>1 DEF ClosesKnown, c0
          <6>2. W(b0, c0) + w \in Nat
            BY <2>2, <2>8
          <6>3. c \in 1 .. (c0 + 1) - 1 /\ c0 \in Int
            BY <2>2, <3>1, <4>1
          <6> QED
            BY <6>1, <6>2, <6>3
        <5>2. CASE c = c0
          <6>1. closes'[b0][c0] = W(b0, c0) + w
            BY <2>2, <3>1, <5>1
          <6> QED
            BY <2>5, <4>1, <5>2, <6>1
        <5>3. CASE c # c0
          <6>1. c \in 1 .. c0 - 1
            BY <2>2, <5>1, <5>3
          <6>2. closes'[b0][c] = closes[b0][c]
            BY <3>1, <5>1, <6>1
          <6>3. closes[b0][c] = W(b0, c)
            BY <1>f, <2>1, <6>1 DEF c0
          <6> QED
            BY <2>6, <4>1, <5>3, <6>2, <6>3
        <5> QED
          BY <5>2, <5>3
      <4>2. CASE b # b0
        BY <1>f, <2>6, <3>2, <4>2
      <4> QED
        BY <4>1, <4>2
    <3> QED
      BY <1>g, <3>3, <3>4
  <2> QED
    BY <2>9, <2>10, <2>11
<1>4. ASSUME NEW i \in Ids, NEW u \in Users, NEW b \in Bricks, DrawId(i, u, b)
      PROVE  CyclesHoldTheirVotes'
  BY <1>1, <1>4 DEF DrawId, brick, history
<1>5. ASSUME NEW i \in Ids, CommitIntent(i) PROVE CyclesHoldTheirVotes'
  BY <1>1, <1>5 DEF CommitIntent, brick, history
<1>6. ASSUME FetchIntents \/ ReadBrick \/ EnrichThrows \/ RejectIntent \/ MoveEnricherCursor
             \/ EnricherDies
      PROVE  CyclesHoldTheirVotes'
  BY <1>1, <1>6
  DEF FetchIntents, ReadBrick, EnrichThrows, RejectIntent, MoveEnricherCursor, EnricherDies,
      brick, history
<1>7. ASSUME FetchEvents \/ SkipEvent \/ AggregateThrows \/ MoveAggregatorCursor
             \/ AggregatorDies
      PROVE  CyclesHoldTheirVotes'
  BY <1>1, <1>7
  DEF FetchEvents, SkipEvent, AggregateThrows, MoveAggregatorCursor, AggregatorDies,
      brick, history
<1>8. ASSUME NEW b \in Bricks, ExitFreeze(b) PROVE CyclesHoldTheirVotes'
  BY <1>1, <1>8 DEF ExitFreeze, history
<1>9. CASE UNCHANGED vars
  BY <1>1, <1>9 DEF vars
<1> QED
  BY <1>2, <1>3, <1>4, <1>5, <1>6, <1>7, <1>8, <1>9 DEF Next, EnricherStep, AggregatorStep

-----------------------------------------------------------------------------
(* The theorems.                                                             *)

(* One event per intent, in the form the property counts them.               *)
LEMMA OneEventIs == TypeOK /\ EventsOfIntents => OneEventPerIntent
<1> SUFFICES ASSUME TypeOK, EventsOfIntents, NEW i \in Ids
             PROVE  Cardinality(EventsOf(i)) = IF intent[i] = "PROCESSED" THEN 1 ELSE 0
  BY DEF OneEventPerIntent
<1>1. CASE intent[i] = "PROCESSED"
  <2>1. PICK e \in DOMAIN events : events[e].intent = i
    BY <1>1 DEF EventsOfIntents
  <2>2. EventsOf(i) = {e}
    BY <2>1 DEF EventsOf, EventsOfIntents
  <2> QED
    BY <1>1, <2>2, FS_Singleton
<1>2. CASE intent[i] # "PROCESSED"
  <2>1. EventsOf(i) = {}
    BY <1>2 DEF EventsOf, EventsOfIntents
  <2> QED
    BY <1>2, <2>1, FS_EmptySet
<1> QED
  BY <1>1, <1>2

Inv == Shape /\ NothingPassedOver /\ CyclesHoldTheirVotes

(* In every reachable state: the cursors, the batches in the workers' memory *)
(* and the rows agree, nothing is passed over, and every cycle of every      *)
(* brick holds its own votes.                                                *)
THEOREM Invariance == Spec => []Inv
<1>1. Init => Inv
  <2>1. Init => NothingPassedOver
    BY DEF Init, NothingPassedOver
  <2> QED
    BY <2>1, ShapeInit, CyclesHoldInit DEF Inv
<1>2. Inv /\ [Next]_vars => Inv'
  BY ShapeStep, NothingPassedOverStep, CyclesHoldStep DEF Inv
<1> QED
  BY <1>1, <1>2, PTL DEF Spec

(* Rows, cursors and the memory of both workers keep their types.            *)
THEOREM TypeCorrect == Spec => []TypeOK
<1>1. Inv => TypeOK
  BY DEF Inv, Shape
<1> QED
  BY <1>1, Invariance, PTL

(* Neither worker skips or doubles what its cursor passes: an intent has one *)
(* event exactly when it is PROCESSED, and every event up to the             *)
(* aggregator's cursor was counted or dismissed, wherever the workers die.   *)
THEOREM StreamsExact == Spec => []StreamsAreExact
<1>1. Inv => StreamsAreExact
  BY OneEventIs DEF Inv, Shape, StreamsAreExact
<1> QED
  BY <1>1, Invariance, PTL

(* The total of a brick is the weight of the votes of its current cycle, and *)
(* the weight at which a cycle was closed stays the weight of its votes.     *)
THEOREM CyclesHold == Spec => []CyclesHoldTheirVotes
<1>1. Inv => CyclesHoldTheirVotes
  BY DEF Inv
<1> QED
  BY <1>1, Invariance, PTL
=============================================================================
