---------------------- MODULE XpReconciliation_proofs ----------------------
(***************************************************************************)
(* Proofs about XpReconciliation for every set of users, writers and       *)
(* workers, every number of events and every table of levels.              *)
(***************************************************************************)
EXTENDS XpReconciliation, SharedLemmas

(* Two writers never hold the same row, and the row of a writer is open.     *)
RowsOfWriters ==
    /\ \A w \in Writers :
           writer[w].at = "inserted" => writer[w].id \in Ids /\ event[writer[w].id] = "INSERTED"
    /\ \A v, w \in Writers :
           /\ writer[v].at = "inserted" /\ writer[w].at = "inserted"
           /\ writer[v].id = writer[w].id
           => v = w

(* Ids are drawn without a gap, and nothing is older than its transaction.   *)
(* As long as no two transactions were open at once, the ids follow the      *)
(* times, and the open row is the last.                                      *)
IdsFollowTimes ==
    /\ \A v, w \in Writers : writer[v].at # "idle" /\ writer[w].at # "idle" => v = w
    /\ \A i, j \in Ids :
           i < j /\ event[i] # "NONE" /\ event[j] # "NONE" => created[i] <= created[j]
    /\ \A w \in Writers, i \in Ids :
           writer[w].at # "idle" /\ event[i] # "NONE" => created[i] <= writer[w].time
    /\ \A w \in Writers, i \in Ids :
           writer[w].at = "inserted" /\ event[i] # "NONE" => i <= writer[w].id

LogInOrder ==
    /\ \A i, j \in Ids : i < j /\ event[j] # "NONE" => event[i] # "NONE"
    /\ \A i \in Ids : event[i] # "NONE" => created[i] <= clock
    /\ \A w \in Writers : writer[w].at # "idle" => writer[w].time <= clock
    /\ ~overlap => IdsFollowTimes

(* How often an id occurs in what a transaction has applied, and what the    *)
(* events add up to when each is taken as often as c says.                   *)
Times(s, i) == Cardinality({k \in DOMAIN s : s[k] = i})
With(c, s) == [i \in Ids |-> c[i] + Times(s, i)]
Weighted(c, d) == [i \in Ids |-> c[i] * d[i]]
Total(c, d) == IntSum(Ids, Weighted(c, d))

(* The level-ups s lead from level 1 to level l, each upwards.               *)
Reached(s, k) == IF k = 0 THEN 1 ELSE s[k].to
Chain(s, l) ==
    /\ \A k \in 1 .. Len(s) : s[k].from = Reached(s, k - 1) /\ s[k].to > s[k].from
    /\ l = Reached(s, Len(s))

(* The user's lock lets in one transaction.                                  *)
OneAtATime == \A p, q \in Workers : worker[p].at # "idle" /\ worker[q].at # "idle" => p = q

(* The committed events of the user: only they are applied or counted.       *)
OfUser == {i \in Ids : Mine(i)}

(* The ids M of the user up to l, and no others of them, are taken once; the *)
(* ids S are the next ones.                                                  *)
TakenTo(M, c, l) == \A i \in M : c[i] = IF i <= l THEN 1 ELSE 0
NextOnes(M, S, l) == \A i \in S : i > l /\ \A j \in M : l < j /\ j < i => j \in S

(* The saved row r with its level-ups u: its total is the sum of what it has *)
(* counted, and its level the end of the chain.                              *)
RowFits(M, d, r, u, c) ==
    /\ \A i \in Ids : c[i] # 0 => i \in M
    /\ r.last \in M \cup {0}
    /\ r.total = Total(c, d)
    /\ Chain(u, r.level)

(* The transaction x is the row it will save.                                *)
TxFits(M, d, u, c, x) ==
    /\ x.todo \subseteq M /\ \A k \in DOMAIN x.done : x.done[k] \in M
    /\ x.last \in M \cup {0}
    /\ x.total = Total(With(c, x.done), d)
    /\ Chain(u \o x.ups, x.level)

RowIsRight ==
    /\ RowFits(OfUser, delta, row, ups, counted)
    /\ ~overlap => TakenTo(OfUser, counted, row.last)

TransactionsAreRight ==
    \A p \in Workers : worker[p].at # "idle" =>
        /\ TxFits(OfUser, delta, ups, counted, worker[p])
        /\ ~overlap => /\ TakenTo(OfUser, With(counted, worker[p].done), worker[p].last)
                       /\ NextOnes(OfUser, worker[p].todo, worker[p].last)

Inv ==
    /\ TypeOK /\ OwnersKnown /\ RowsOfWriters /\ LogInOrder
    /\ OneAtATime /\ RowIsRight /\ TransactionsAreRight

-----------------------------------------------------------------------------
(* The XP log.                                                               *)

(* There are finitely many event ids.                                        *)
LEMMA IdsFinite == IsFiniteSet(Ids) /\ \A S \in SUBSET Ids : IsFiniteSet(S)
<1>1. IsFiniteSet(1 .. MaxId)
  BY BoundsAssumption, FS_Interval
<1> QED
  BY <1>1, FS_Subset DEF Ids

(* The log starts well typed.                                                *)
LEMMA LogStarts == ASSUME LogInit PROVE LogTypeOK /\ OwnersKnown
<1>1. 0 \in 0 .. MaxTime
  BY BoundsAssumption
<1>2. IdleWriter \in [at : {"idle", "begun", "inserted"}, time : 0 .. MaxTime,
                      id : Ids \cup {NoId}]
  BY <1>1 DEF IdleWriter
<1>3. writer \in [Writers -> [at : {"idle", "begun", "inserted"}, time : 0 .. MaxTime,
                              id : Ids \cup {NoId}]]
  <2> HIDE DEF IdleWriter
  <2> QED
    BY <1>2 DEF LogInit
<1>4. event \in [Ids -> {"NONE", "INSERTED", "COMMITTED", "ABORTED"}] /\ overlap \in BOOLEAN
  <2>1. event = [i \in Ids |-> "NONE"] /\ overlap = FALSE
    BY DEF LogInit
  <2> QED
    BY <2>1
<1>5. owner \in [Ids -> Users \cup {NoUser}]
  <2>1. owner = [i \in Ids |-> NoUser]
    BY DEF LogInit
  <2> QED
    BY <2>1
<1>6. delta \in [Ids -> Int]
  <2>1. delta = [i \in Ids |-> 0]
    BY DEF LogInit
  <2> QED
    BY <2>1
<1>7. created \in [Ids -> 0 .. MaxTime] /\ clock \in 0 .. MaxTime
  BY <1>1 DEF LogInit
<1>8. LogTypeOK
  BY <1>3, <1>4, <1>7, <1>5, <1>6 DEF LogTypeOK
<1>9. OwnersKnown
  BY DEF LogInit, OwnersKnown, IdleWriter
<1> QED
  BY <1>8, <1>9

(* A step of the log leaves it well typed and its owners known.              *)
LEMMA LogStep ==
    ASSUME LogTypeOK, OwnersKnown, LogNext \/ UNCHANGED log
    PROVE  LogTypeOK' /\ OwnersKnown'
<1>1. CASE UNCHANGED log
  BY <1>1 DEF log, LogTypeOK, OwnersKnown
<1>2. ASSUME Tick PROVE LogTypeOK' /\ OwnersKnown'
  <2>1. clock' \in 0 .. MaxTime
    BY <1>2, BoundsAssumption DEF LogTypeOK, Tick
  <2> QED
    BY <1>2, <2>1 DEF Tick, LogTypeOK, OwnersKnown
<1>3. ASSUME NEW w \in Writers, BeginTx(w) PROVE LogTypeOK' /\ OwnersKnown'
  <2> DEFINE begun == [IdleWriter EXCEPT !.at = "begun", !.time = clock]
  <2>1. writer' = [writer EXCEPT ![w] = begun] /\ UNCHANGED <<event, owner, delta, created, clock>>
    BY <1>3 DEF BeginTx
  <2>2. /\ begun \in [at : {"idle", "begun", "inserted"}, time : 0 .. MaxTime, id : Ids \cup {NoId}]
        /\ begun.at = "begun"
    BY DEF IdleWriter, LogTypeOK
  <2> HIDE DEF begun
  <2>3. overlap' \in BOOLEAN
    BY <1>3 DEF BeginTx
  <2>4. LogTypeOK'
    BY <2>1, <2>2, <2>3 DEF LogTypeOK
  <2>5. OwnersKnown'
    BY <2>1, <2>2 DEF LogTypeOK, OwnersKnown
  <2> QED
    BY <2>4, <2>5
<1>4. ASSUME NEW w \in Writers, NEW u \in Users, NEW d \in Deltas, InsertXpEvent(w, u, d)
      PROVE  LogTypeOK' /\ OwnersKnown'
  <2>1. PICK i \in Ids :
            /\ event' = [event EXCEPT ![i] = "INSERTED"]
            /\ owner' = [owner EXCEPT ![i] = u]
            /\ delta' = [delta EXCEPT ![i] = d]
            /\ created' = [created EXCEPT ![i] = writer[w].time]
            /\ writer' = [writer EXCEPT ![w].at = "inserted", ![w].id = i]
    BY <1>4 DEF InsertXpEvent
  <2>2. d \in Int /\ writer[w].time \in 0 .. MaxTime /\ UNCHANGED <<clock, overlap>>
    BY <1>4, DeltasAssumption DEF LogTypeOK, InsertXpEvent
  <2>3. writer' \in [Writers -> [at : {"idle", "begun", "inserted"}, time : 0 .. MaxTime,
                                id : Ids \cup {NoId}]]
    <3>1. \A v \in Writers : writer[v] \in [at : {"idle", "begun", "inserted"},
                                            time : 0 .. MaxTime, id : Ids \cup {NoId}]
      BY DEF LogTypeOK
    <3>2. writer' = [v \in Writers |->
                        IF v = w THEN [writer[v] EXCEPT !.at = "inserted", !.id = i]
                        ELSE writer[v]]
      BY <2>1 DEF LogTypeOK
    <3> QED
      BY <3>1, <3>2
  <2>4. LogTypeOK'
    BY <2>1, <2>2, <2>3 DEF LogTypeOK
  <2>5. OwnersKnown'
    BY <2>1 DEF LogTypeOK, OwnersKnown
  <2> QED
    BY <2>4, <2>5
<1>5. ASSUME NEW w \in Writers, NEW o \in {"COMMITTED", "ABORTED"}, EndTx(w, o)
      PROVE  LogTypeOK' /\ OwnersKnown'
  <2>1. /\ event' = [event EXCEPT ![writer[w].id] = o]
        /\ writer' = [writer EXCEPT ![w] = [at |-> "idle", time |-> 0, id |-> NoId]]
        /\ UNCHANGED <<owner, delta, created, clock, overlap>>
        /\ writer[w].at = "inserted"
    BY <1>5 DEF EndTx, IdleWriter
  <2>2. LogTypeOK'
    <3>1. o \in {"NONE", "INSERTED", "COMMITTED", "ABORTED"} /\ 0 \in 0 .. MaxTime
      BY BoundsAssumption
    <3>2. event' \in [Ids -> {"NONE", "INSERTED", "COMMITTED", "ABORTED"}]
      BY <2>1, <3>1 DEF LogTypeOK
    <3>3. writer' \in [Writers -> [at : {"idle", "begun", "inserted"}, time : 0 .. MaxTime,
                                  id : Ids \cup {NoId}]]
      BY <2>1, <3>1 DEF LogTypeOK
    <3> QED
      BY <2>1, <3>2, <3>3 DEF LogTypeOK
  <2>3. writer[w].id \in Ids /\ event[writer[w].id] # "NONE"
    BY <2>1 DEF OwnersKnown
  <2>4. OwnersKnown'
    BY <2>1, <2>3 DEF LogTypeOK, OwnersKnown
  <2> QED
    BY <2>2, <2>4
<1> QED
  BY <1>1, <1>2, <1>3, <1>4, <1>5 DEF LogNext

(* The order of the events.                                                  *)
Earlier == {p \in Ids \X Ids : Before(p[1], p[2])}

(* Time and then id order any set of events.                                 *)
LEMMA EventsOrdered ==
    ASSUME LogTypeOK, NEW S, S \subseteq Ids
    PROVE  Orders(Earlier, S)
<1>1. \A i \in Ids : created[i] \in Int /\ i \in Int
  BY BoundsAssumption DEF LogTypeOK, Ids
<1> QED
  BY <1>1 DEF Orders, Earlier, Before

(* The earliest of a set of events is one of them, and before all the others. *)
LEMMA EarliestIs ==
    ASSUME LogTypeOK, NEW S, S \subseteq Ids, S # {}
    PROVE  Earliest(S) \in S /\ \A j \in S \ {Earliest(S)} : Before(Earliest(S), j)
<1>1. Orders(Earlier, S) /\ IsFiniteSet(S)
  BY EventsOrdered, IdsFinite
<1>2. \E i \in S : \A j \in S \ {i} : <<i, j>> \in Earlier
  BY <1>1, FirstExists
<1>3. \E i \in S : \A j \in S \ {i} : Before(i, j)
  BY <1>2 DEF Earlier
<1> QED
  BY <1>3 DEF Earliest

-----------------------------------------------------------------------------
(* What one step of the log does to its rows.                                *)
LEMMA InsertIs ==
    ASSUME LogTypeOK, LogInOrder, NEW w \in Writers, NEW u, NEW d, InsertXpEvent(w, u, d)
    PROVE  /\ writer[w].at = "begun" /\ UNCHANGED <<clock, overlap>>
           /\ \E i \in Ids :
               /\ \A j \in Ids : event[j] # "NONE" <=> j < i
               /\ event' = [event EXCEPT ![i] = "INSERTED"]
               /\ owner' = [owner EXCEPT ![i] = u]
               /\ delta' = [delta EXCEPT ![i] = d]
               /\ created' = [created EXCEPT ![i] = writer[w].time]
               /\ \A v \in Writers :
                   /\ v # w => writer'[v] = writer[v]
                   /\ v = w => /\ writer'[v].at = "inserted" /\ writer'[v].id = i
                               /\ writer'[v].time = writer[v].time
<1>1. PICK i \in Ids :
          /\ event[i] = "NONE" /\ \A j \in 1 .. i - 1 : event[j] # "NONE"
          /\ event' = [event EXCEPT ![i] = "INSERTED"]
          /\ owner' = [owner EXCEPT ![i] = u]
          /\ delta' = [delta EXCEPT ![i] = d]
          /\ created' = [created EXCEPT ![i] = writer[w].time]
          /\ writer' = [writer EXCEPT ![w].at = "inserted", ![w].id = i]
  BY DEF InsertXpEvent
<1>2. \A j \in Ids : j \in Int /\ 1 <= j
  BY BoundsAssumption DEF Ids
<1>3. \A j \in Ids : j < i => j \in 1 .. i - 1
  BY <1>2
<1>4. \A j \in Ids : event[j] # "NONE" <=> j < i
  <2>1. ASSUME NEW j \in Ids, event[j] # "NONE", ~(j < i) PROVE FALSE
    <3>1. i < j \/ i = j
      BY <1>2, <2>1
    <3> QED
      BY <1>1, <2>1, <3>1 DEF LogInOrder
  <2> QED
    BY <1>1, <1>3, <2>1
<1>5. ASSUME NEW v \in Writers
      PROVE  /\ v # w => writer'[v] = writer[v]
             /\ v = w => /\ writer'[v].at = "inserted" /\ writer'[v].id = i
                         /\ writer'[v].time = writer[v].time
  <2>1. writer[v] \in [at : {"idle", "begun", "inserted"}, time : 0 .. MaxTime,
                       id : Ids \cup {NoId}]
    BY DEF LogTypeOK
  <2>2. writer'[v] = IF v = w THEN [writer[v] EXCEPT !.at = "inserted", !.id = i]
                     ELSE writer[v]
    BY <1>1 DEF LogTypeOK
  <2> QED
    BY <2>1, <2>2
<1> QED
  BY <1>1, <1>4, <1>5 DEF InsertXpEvent

(* What the begin of a transaction changes.                                  *)
LEMMA BeginIs ==
    ASSUME LogTypeOK, NEW w \in Writers, BeginTx(w)
    PROVE  /\ writer[w].at = "idle" /\ UNCHANGED <<event, owner, delta, created, clock>>
           /\ overlap' = (overlap \/ \E v \in Writers : writer[v].at # "idle")
           /\ \A v \in Writers :
               /\ v # w => writer'[v] = writer[v]
               /\ v = w => writer'[v].at = "begun" /\ writer'[v].time = clock
  BY DEF BeginTx, LogTypeOK, IdleWriter

(* What the end of a transaction changes: its row becomes visible, or is gone. *)
LEMMA EndIs ==
    ASSUME LogTypeOK, RowsOfWriters, NEW w \in Writers, NEW o, EndTx(w, o)
    PROVE  /\ writer[w].at = "inserted" /\ writer[w].id \in Ids
           /\ event[writer[w].id] = "INSERTED"
           /\ event' = [event EXCEPT ![writer[w].id] = o]
           /\ UNCHANGED <<owner, delta, created, clock, overlap>>
           /\ \A v \in Writers :
               /\ v # w => writer'[v] = writer[v]
               /\ v = w => writer'[v].at = "idle"
  BY DEF EndTx, LogTypeOK, RowsOfWriters, IdleWriter

(* A step of the log leaves its writers with a row each.                     *)
LEMMA RowsStep ==
    ASSUME LogTypeOK, RowsOfWriters, LogInOrder, LogNext \/ UNCHANGED log
    PROVE  RowsOfWriters'
<1>1. CASE UNCHANGED log \/ Tick
  BY <1>1 DEF log, Tick, RowsOfWriters
<1>2. ASSUME NEW w \in Writers, BeginTx(w) PROVE RowsOfWriters'
  BY <1>2, BeginIs DEF RowsOfWriters
<1>3. ASSUME NEW w \in Writers, NEW u \in Users, NEW d \in Deltas, InsertXpEvent(w, u, d)
      PROVE  RowsOfWriters'
  <2>1. PICK i \in Ids :
            /\ \A j \in Ids : event[j] # "NONE" <=> j < i
            /\ event' = [event EXCEPT ![i] = "INSERTED"]
            /\ \A v \in Writers :
                /\ v # w => writer'[v] = writer[v]
                /\ v = w => writer'[v].at = "inserted" /\ writer'[v].id = i
    BY <1>3, InsertIs
  <2>2. event[i] = "NONE"
    BY <2>1, BoundsAssumption DEF Ids
  <2> QED
    BY <2>1, <2>2 DEF RowsOfWriters, LogTypeOK
<1>4. ASSUME NEW w \in Writers, NEW o \in {"COMMITTED", "ABORTED"}, EndTx(w, o)
      PROVE  RowsOfWriters'
  BY <1>4, EndIs DEF RowsOfWriters, LogTypeOK
<1> QED
  BY <1>1, <1>2, <1>3, <1>4 DEF LogNext

(* A step of the log leaves it in order.                                     *)
LEMMA OrderStep ==
    ASSUME LogTypeOK, RowsOfWriters, LogInOrder, LogNext \/ UNCHANGED log
    PROVE  LogInOrder'
<1>t. /\ clock \in Int
      /\ \A i \in Ids : i \in Int /\ created[i] \in Int
      /\ \A w \in Writers : writer[w].time \in Int
  BY BoundsAssumption DEF LogTypeOK, Ids
<1>1. CASE UNCHANGED log
  BY <1>1 DEF log, LogInOrder, IdsFollowTimes
<1>2. CASE Tick
  BY <1>t, <1>2 DEF Tick, LogInOrder, IdsFollowTimes
<1>3. ASSUME NEW w \in Writers, BeginTx(w) PROVE LogInOrder'
  <2>1. /\ UNCHANGED <<event, created, clock>>
        /\ overlap' = (overlap \/ \E v \in Writers : writer[v].at # "idle")
        /\ \A v \in Writers :
            /\ v # w => writer'[v] = writer[v]
            /\ v = w => writer'[v].at = "begun" /\ writer'[v].time = clock
    BY <1>3, BeginIs
  <2>2. \A v \in Writers : writer'[v].at # "idle" => writer'[v].time <= clock'
    BY <1>t, <2>1 DEF LogInOrder
  <2>3. ASSUME ~overlap' PROVE IdsFollowTimes'
    <3>1. IdsFollowTimes /\ \A v \in Writers : writer[v].at = "idle"
      BY <2>1, <2>3 DEF LogInOrder
    <3>2. \A v \in Writers : writer'[v].at # "idle" => v = w
      BY <2>1, <3>1
    <3>3. \A i \in Ids : event[i] # "NONE" => created[i] <= clock
      BY DEF LogInOrder
    <3> QED
      BY <2>1, <3>1, <3>2, <3>3 DEF IdsFollowTimes
  <2> QED
    BY <2>1, <2>2, <2>3 DEF LogInOrder
<1>4. ASSUME NEW w \in Writers, NEW u \in Users, NEW d \in Deltas, InsertXpEvent(w, u, d)
      PROVE  LogInOrder'
  <2>1. /\ writer[w].at = "begun" /\ UNCHANGED <<clock, overlap>>
        /\ \E i \in Ids :
            /\ \A j \in Ids : event[j] # "NONE" <=> j < i
            /\ event' = [event EXCEPT ![i] = "INSERTED"]
            /\ created' = [created EXCEPT ![i] = writer[w].time]
            /\ \A v \in Writers :
                /\ v # w => writer'[v] = writer[v]
                /\ v = w => /\ writer'[v].at = "inserted" /\ writer'[v].id = i
                            /\ writer'[v].time = writer[v].time
    BY <1>4, InsertIs
  <2>2. PICK i \in Ids :
            /\ \A j \in Ids : event[j] # "NONE" <=> j < i
            /\ event' = [event EXCEPT ![i] = "INSERTED"]
            /\ created' = [created EXCEPT ![i] = writer[w].time]
            /\ \A v \in Writers :
                /\ v # w => writer'[v] = writer[v]
                /\ v = w => /\ writer'[v].at = "inserted" /\ writer'[v].id = i
                            /\ writer'[v].time = writer[v].time
    BY <2>1
  <2>3. \A j \in Ids : event'[j] # "NONE" <=> j <= i
    BY <1>t, <2>2 DEF LogTypeOK
  <2>4. \A j \in Ids : /\ j # i => created'[j] = created[j]
                       /\ j = i => created'[j] = writer[w].time
    BY <2>2 DEF LogTypeOK
  <2>5. \A j, k \in Ids : j < k /\ event'[k] # "NONE" => event'[j] # "NONE"
    BY <1>t, <2>3
  <2>6. writer[w].time <= clock
    BY <2>1 DEF LogInOrder
  <2>7. \A j \in Ids : event'[j] # "NONE" => created'[j] <= clock'
    BY <1>t, <2>1, <2>2, <2>3, <2>4, <2>6 DEF LogInOrder
  <2>8. \A v \in Writers : writer'[v].at # "idle" => writer'[v].time <= clock'
    BY <2>1, <2>2, <2>6 DEF LogInOrder
  <2>9. ASSUME ~overlap' PROVE IdsFollowTimes'
    <3>1. IdsFollowTimes
      BY <2>1, <2>9 DEF LogInOrder
    <3>2. \A v \in Writers : writer'[v].at # "idle" => v = w
      BY <2>1, <2>2, <3>1 DEF IdsFollowTimes
    <3>3. \A j \in Ids : j < i => created'[j] <= writer[w].time
      BY <1>t, <2>1, <2>2, <2>4, <3>1 DEF IdsFollowTimes
    <3>4. \A j, k \in Ids : j < k /\ event'[j] # "NONE" /\ event'[k] # "NONE"
                                => created'[j] <= created'[k]
      <4> SUFFICES ASSUME NEW j \in Ids, NEW k \in Ids, j < k, event'[k] # "NONE"
                   PROVE  created'[j] <= created'[k]
        OBVIOUS
      <4>1. CASE k = i
        BY <2>4, <3>3, <4>1
      <4>2. CASE k # i
        <5>1. k < i /\ j < i /\ event[j] # "NONE" /\ event[k] # "NONE"
          BY <1>t, <2>2, <2>3, <4>2
        <5>2. created[j] <= created[k]
          BY <3>1, <5>1 DEF IdsFollowTimes
        <5> QED
          BY <1>t, <2>4, <5>1, <5>2
      <4> QED
        BY <4>1, <4>2
    <3>5. \A v \in Writers, j \in Ids :
              writer'[v].at # "idle" /\ event'[j] # "NONE" => created'[j] <= writer'[v].time
      BY <1>t, <2>2, <2>3, <2>4, <3>2, <3>3
    <3>6. \A v \in Writers, j \in Ids :
              writer'[v].at = "inserted" /\ event'[j] # "NONE" => j <= writer'[v].id
      BY <2>2, <2>3, <3>2
    <3> QED
      BY <3>2, <3>4, <3>5, <3>6 DEF IdsFollowTimes
  <2> QED
    BY <2>5, <2>7, <2>8, <2>9 DEF LogInOrder
<1>5. ASSUME NEW w \in Writers, NEW o \in {"COMMITTED", "ABORTED"}, EndTx(w, o)
      PROVE  LogInOrder'
  <2>1. /\ event' = [event EXCEPT ![writer[w].id] = o]
        /\ writer[w].id \in Ids /\ event[writer[w].id] = "INSERTED"
        /\ UNCHANGED <<created, clock, overlap>>
        /\ \A v \in Writers : /\ v # w => writer'[v] = writer[v]
                              /\ v = w => writer'[v].at = "idle"
    BY <1>5, EndIs
  <2>2. \A j \in Ids : event'[j] # "NONE" <=> event[j] # "NONE"
    BY <2>1 DEF LogTypeOK
  <2>3. IdsFollowTimes => IdsFollowTimes'
    BY <2>1, <2>2 DEF IdsFollowTimes
  <2> QED
    BY <2>1, <2>2, <2>3 DEF LogInOrder
<1> QED
  BY <1>1, <1>2, <1>3, <1>4, <1>5 DEF LogNext

(* What is committed stays as it is; and as long as no two transactions were *)
(* open at once, what is committed next has the highest id.                  *)
LEMMA LogGrows ==
    ASSUME LogTypeOK, RowsOfWriters, LogInOrder, LogNext \/ UNCHANGED log
    PROVE  /\ \A i \in Ids : event[i] = "COMMITTED" => event'[i] = "COMMITTED"
           /\ \A i \in Ids : event[i] # "NONE" => /\ owner'[i] = owner[i]
                                                  /\ delta'[i] = delta[i]
           /\ \A i, j \in Ids :
                  /\ event'[j] = "COMMITTED" /\ event[j] # "COMMITTED"
                  /\ ~overlap /\ event[i] = "COMMITTED"
                  => i < j
           /\ overlap => overlap'
<1> DEFINE Kept == \A i \in Ids : event[i] = "COMMITTED" => event'[i] = "COMMITTED"
           Owned == \A i \in Ids :
                        event[i] # "NONE" => owner'[i] = owner[i] /\ delta'[i] = delta[i]
           Last == \A i, j \in Ids :
                       /\ event'[j] = "COMMITTED" /\ event[j] # "COMMITTED"
                       /\ ~overlap /\ event[i] = "COMMITTED"
                       => i < j
           Overlaps == overlap => overlap'
<1>1. ASSUME UNCHANGED log \/ Tick PROVE Kept /\ Owned /\ Last /\ Overlaps
  BY <1>1 DEF log, Tick
<1>2. ASSUME NEW w \in Writers, BeginTx(w) PROVE Kept /\ Owned /\ Last /\ Overlaps
  BY <1>2 DEF BeginTx, LogTypeOK
<1>3. ASSUME NEW w \in Writers, NEW u \in Users, NEW d \in Deltas, InsertXpEvent(w, u, d)
      PROVE  Kept /\ Owned /\ Last /\ Overlaps
  <2>1. PICK i \in Ids :
            /\ \A j \in Ids : event[j] # "NONE" <=> j < i
            /\ event' = [event EXCEPT ![i] = "INSERTED"]
            /\ owner' = [owner EXCEPT ![i] = u]
            /\ delta' = [delta EXCEPT ![i] = d]
    BY <1>3, InsertIs
  <2>2. event[i] = "NONE" /\ overlap' = overlap
    BY <1>3, <2>1, InsertIs, BoundsAssumption DEF Ids
  <2> QED
    BY <2>1, <2>2 DEF LogTypeOK
<1>4. ASSUME NEW w \in Writers, NEW o \in {"COMMITTED", "ABORTED"}, EndTx(w, o)
      PROVE  Kept /\ Owned /\ Last /\ Overlaps
  <2>1. /\ event' = [event EXCEPT ![writer[w].id] = o]
        /\ writer[w].at = "inserted"
        /\ writer[w].id \in Ids /\ event[writer[w].id] = "INSERTED"
        /\ UNCHANGED <<owner, delta, overlap>>
    BY <1>4, EndIs
  <2>2. \A j \in Ids : event'[j] = IF j = writer[w].id THEN o ELSE event[j]
    BY <2>1 DEF LogTypeOK
  <2>3. ASSUME NEW i \in Ids, ~overlap, event[i] = "COMMITTED" PROVE i < writer[w].id
    <3>1. i <= writer[w].id /\ i # writer[w].id
      BY <2>1, <2>3 DEF LogInOrder, IdsFollowTimes
    <3>2. i \in Int /\ writer[w].id \in Int
      BY <2>1, BoundsAssumption DEF Ids
    <3> QED
      BY <3>1, <3>2
  <2> QED
    BY <2>1, <2>2, <2>3
<1>5. Kept /\ Owned /\ Last /\ Overlaps
  <2> HIDE DEF Kept, Owned, Last, Overlaps
  <2> QED
    BY <1>1, <1>2, <1>3, <1>4 DEF LogNext
<1> QED
  BY <1>5

-----------------------------------------------------------------------------
(* Levels.                                                                   *)

(* There is a level, and the levels are the numbers up to the last.          *)
LEMMA LevelsAre == Levels = 1 .. Len(MinXp) /\ Len(MinXp) \in Nat /\ 1 \in Levels
  BY LevelsAssumption DEF Levels

(* Some level is the highest whose threshold is reached, or none is.         *)
LEMMA ResolveType ==
    ASSUME NEW xp \in Int
    PROVE  ResolveLevel(xp) \in Levels
<1> DEFINE Met == {m \in Levels : MinXp[m] <= xp}
           Gaps == {Len(MinXp) - m : m \in Met}
<1>1. \E l \in Levels : (l = 1 \/ MinXp[l] <= xp) /\ \A m \in Levels : MinXp[m] <= xp => m <= l
  <2>1. CASE Met = {}
    BY <2>1, LevelsAre
  <2>2. CASE Met # {}
    <3>1. Gaps \subseteq Nat /\ Gaps # {}
      BY <2>2, LevelsAre
    <3>2. PICK g \in Gaps : \A h \in Gaps : g <= h
      BY <3>1, LeastNatural
    <3>3. PICK l \in Met : g = Len(MinXp) - l
      OBVIOUS
    <3>4. ASSUME NEW m \in Met PROVE m <= l
      <4>1. Len(MinXp) - l <= Len(MinXp) - m
        BY <3>2, <3>3
      <4>2. m \in Int /\ l \in Int /\ Len(MinXp) \in Int
        BY LevelsAre
      <4> QED
        BY <4>1, <4>2
    <3> QED
      BY <3>4
  <2> QED
    BY <2>1, <2>2
<1> QED
  BY <1>1 DEF ResolveLevel

-----------------------------------------------------------------------------
(* How often an id occurs in a sequence.                                     *)

(* How often an event was applied is a natural, and 0 when it was not.       *)
LEMMA TimesType ==
    ASSUME NEW s \in Seq(Ids), NEW i
    PROVE  /\ IsFiniteSet({k \in DOMAIN s : s[k] = i}) /\ Times(s, i) \in Nat
           /\ Times(s, i) # 0 => \E k \in DOMAIN s : s[k] = i
<1> DEFINE K == {k \in DOMAIN s : s[k] = i}
<1>1. IsFiniteSet(1 .. Len(s)) /\ K \in SUBSET (1 .. Len(s))
  BY FS_Interval
<1>2. IsFiniteSet(K)
  BY <1>1, FS_Subset
<1>3. Cardinality(K) \in Nat
  BY <1>2, FS_CardinalityType
<1>4. K = {} => Cardinality(K) = 0
  BY FS_EmptySet
<1> QED
  BY <1>2, <1>3, <1>4 DEF Times

(* Nothing was applied before the first event.                               *)
LEMMA TimesNone == ASSUME NEW i PROVE Times(<<>>, i) = 0
<1>1. {k \in DOMAIN <<>> : <<>>[k] = i} = {}
  OBVIOUS
<1> QED
  BY <1>1, FS_EmptySet DEF Times

(* Applying an event counts it once more, and no other.                      *)
LEMMA TimesAppend ==
    ASSUME NEW s \in Seq(Ids), NEW e \in Ids, NEW i
    PROVE  Times(Append(s, e), i) = Times(s, i) + IF i = e THEN 1 ELSE 0
<1> DEFINE t == Append(s, e)
           n == Len(s) + 1
           K == {k \in DOMAIN s : s[k] = i}
<1>1. /\ DOMAIN t = 1 .. n /\ DOMAIN s = 1 .. n - 1 /\ n \in Nat \ {0} /\ t[n] = e
      /\ \A k \in 1 .. n - 1 : t[k] = s[k]
  OBVIOUS
<1>2. n \notin K
  OBVIOUS
<1>3. IsFiniteSet(K) /\ Cardinality(K) \in Nat
  BY TimesType DEF Times
<1> HIDE DEF t, n
<1>4. {k \in DOMAIN t : t[k] = i} = IF i = e THEN K \cup {n} ELSE K
  <2>1. \A k \in DOMAIN t : k \in DOMAIN s \/ k = n
    BY <1>1
  <2>2. \A k \in DOMAIN s : k \in DOMAIN t /\ t[k] = s[k]
    BY <1>1
  <2>3. n \in DOMAIN t
    BY <1>1
  <2> QED
    BY <1>1, <2>1, <2>2, <2>3
<1> HIDE DEF K
<1>5. Cardinality(K \cup {n}) = Cardinality(K) + 1
  BY <1>2, <1>3, FS_AddElement
<1>6. Times(t, i) = Cardinality(IF i = e THEN K \cup {n} ELSE K) /\ Times(s, i) = Cardinality(K)
  BY <1>4 DEF Times, K
<1> QED
  BY <1>3, <1>5, <1>6 DEF t

(* Counts with those of a transaction added are counts.                      *)
LEMMA WithType ==
    ASSUME NEW c \in [Ids -> Nat], NEW s \in Seq(Ids)
    PROVE  With(c, s) \in [Ids -> Nat]
<1>1. \A i \in Ids : Times(s, i) \in Nat
  BY TimesType
<1> QED
  BY <1>1 DEF With

(* A transaction that applied nothing adds nothing.                          *)
LEMMA WithNone ==
    ASSUME NEW c \in [Ids -> Nat]
    PROVE  With(c, <<>>) = c
  BY TimesNone DEF With

-----------------------------------------------------------------------------
(* Totals.                                                                   *)

(* A total of counted events is an integer.                                  *)
LEMMA TotalType ==
    ASSUME NEW c \in [Ids -> Nat], NEW d \in [Ids -> Int]
    PROVE  /\ Weighted(c, d) \in [Ids -> Int] /\ Total(c, d) \in Int
<1>1. \A i \in Ids : c[i] * d[i] \in Int
  OBVIOUS
<1>2. Weighted(c, d) \in [Ids -> Int]
  BY <1>1 DEF Weighted
<1>3. Total(c, d) \in Int
  BY <1>2, IdsFinite, IntSumType DEF Total
<1> QED
  BY <1>2, <1>3

(* One event taken once more adds its XP.                                    *)
LEMMA TotalMore ==
    ASSUME NEW c \in [Ids -> Nat], NEW e \in [Ids -> Nat], NEW d \in [Ids -> Int],
           NEW i \in Ids, e[i] = c[i] + 1, \A j \in Ids \ {i} : e[j] = c[j]
    PROVE  Total(e, d) = Total(c, d) + d[i]
<1> DEFINE f == Weighted(c, d)
           h == Weighted(e, d)
<1>1. f \in [Ids -> Int] /\ h \in [Ids -> Int]
  BY TotalType
<1>2. \A j \in Ids \ {i} : h[j] = f[j]
  BY DEF Weighted
<1>3. h[i] = f[i] + d[i]
  <2>1. f[i] = c[i] * d[i] /\ h[i] = (c[i] + 1) * d[i]
    BY DEF Weighted
  <2>2. c[i] \in Int /\ d[i] \in Int
    OBVIOUS
  <2>3. \A x, y \in Int : (x + 1) * y = x * y + y
    OBVIOUS
  <2> QED
    BY <2>1, <2>2, <2>3
<1> HIDE DEF f, h
<1>4. d[i] \in Int /\ \A x \in Ids : f[x] \in Int
  BY <1>1
<1>5. IntSum(Ids, h) = IntSum(Ids, f) + d[i]
  BY <1>1, <1>2, <1>3, <1>4, IdsFinite, IntSumMore
<1> QED
  BY <1>5 DEF Total, f, h

(* What an event that is not taken is worth does not matter.                 *)
LEMMA TotalSame ==
    ASSUME NEW c \in [Ids -> Nat], NEW d \in [Ids -> Int], NEW e \in [Ids -> Int],
           \A i \in Ids : c[i] # 0 => e[i] = d[i]
    PROVE  Total(c, e) = Total(c, d)
<1>1. \A i \in Ids : Weighted(c, d)[i] = Weighted(c, e)[i]
  <2> SUFFICES ASSUME NEW i \in Ids PROVE c[i] * d[i] = c[i] * e[i]
    BY DEF Weighted
  <2>1. CASE c[i] = 0
    <3>1. d[i] \in Int /\ e[i] \in Int
      OBVIOUS
    <3> QED
      BY <2>1, <3>1
  <2>2. CASE c[i] # 0
    BY <2>2
  <2> QED
    BY <2>1, <2>2
<1>2. Ids \subseteq DOMAIN Weighted(c, d) /\ Ids \subseteq DOMAIN Weighted(c, e)
  BY DEF Weighted
<1>3. IntSum(Ids, Weighted(c, d)) = IntSum(Ids, Weighted(c, e))
  BY <1>1, <1>2, IntSumSame
<1> QED
  BY <1>3 DEF Total

(* The sum the property takes is this total.                                 *)
LEMMA CountedSum ==
    ASSUME NEW c \in [Ids -> Nat], NEW d \in [Ids -> Int]
    PROVE  MapThenSumSet(LAMBDA i : c[i] * d[i], Ids) = Total(c, d)
<1> DEFINE S == Ids
           f == Weighted(c, d)
           G(g) == [s \in SUBSET S |->
                       IF s = {} THEN 0 ELSE c[Pick(s)] * d[Pick(s)] + g[s \ {Pick(s)}]]
           sum == CHOOSE g : g = G(g)
           h == [s \in SUBSET S |-> IntSum(s, f)]
<1>1. MapThenSumSet(LAMBDA i : c[i] * d[i], Ids) = sum[S]
  BY DEF MapThenSumSet, MapThenFoldSet, Pick
<1>2. IsFiniteSet(S) /\ DOMAIN f = S /\ \A i \in S : f[i] \in Int
  <2>1. f \in [Ids -> Int]
    BY TotalType
  <2> HIDE DEF f
  <2> QED
    BY <2>1, IdsFinite
<1>3. ASSUME NEW g PROVE SumsUp(g, S, f) <=> g = G(g)
  <2>1. \A s \in SUBSET S : s # {} => f[Pick(s)] = c[Pick(s)] * d[Pick(s)]
    BY DEF Pick, Weighted
  <2> HIDE DEF f
  <2>2. G(g) = [s \in SUBSET S |-> IF s = {} THEN 0 ELSE f[Pick(s)] + g[s \ {Pick(s)}]]
    BY <2>1
  <2> QED
    BY <2>2 DEF SumsUp
<1> HIDE DEF f, G
<1>4. SumsUp(h, S, f)
  BY <1>2, SumExists
<1>5. sum = G(sum)
  <2> HIDE DEF h
  <2>1. h = G(h)
    BY <1>3, <1>4
  <2> QED
    BY <2>1
<1> HIDE DEF sum
<1>6. sum[S] = IntSum(S, f)
  <2>1. SumsUp(sum, S, f)
    BY <1>3, <1>5
  <2> QED
    BY <1>2, <2>1, SumUnique
<1> QED
  BY <1>1, <1>6 DEF f, Total

-----------------------------------------------------------------------------
(* Chains.                                                                   *)

(* A level-up from where the chain ends makes it one longer.                 *)
LEMMA ChainAppend ==
    ASSUME NEW u \in Seq(LevelUp), NEW v \in Seq(LevelUp), NEW e \in LevelUp,
           Chain(u \o v, e.from), e.to > e.from
    PROVE  Chain(u \o Append(v, e), e.to)
<1> DEFINE s == u \o v
           t == u \o Append(v, e)
           n == Len(u) + Len(v)
<1>1. /\ n \in Nat /\ Len(s) = n /\ Len(t) = n + 1 /\ t[n + 1] = e
      /\ \A k \in 1 .. n : t[k] = s[k]
  OBVIOUS
<1> HIDE DEF s, t, n
<1>2. \A k \in 0 .. n : Reached(t, k) = Reached(s, k)
  BY <1>1 DEF Reached
<1>3. ASSUME NEW k \in 1 .. n + 1
      PROVE  t[k].from = Reached(t, k - 1) /\ t[k].to > t[k].from
  <2>1. k \in 1 .. n \/ k = n + 1
    BY <1>1
  <2>2. CASE k \in 1 .. n
    <3>1. k - 1 \in 0 .. n
      BY <1>1, <2>2
    <3>2. Chain(s, e.from)
      BY DEF s
    <3> QED
      BY <1>1, <1>2, <2>2, <3>1, <3>2 DEF Chain
  <2>3. CASE k = n + 1
    <3>1. k - 1 = n /\ n \in 0 .. n
      BY <1>1, <2>3
    <3>2. e.from = Reached(s, n)
      BY <1>1 DEF Chain, s
    <3> QED
      BY <1>1, <1>2, <2>3, <3>1, <3>2
  <2> QED
    BY <2>1, <2>2, <2>3
<1>4. e.to = Reached(t, n + 1)
  BY <1>1 DEF Reached
<1>5. Chain(t, e.to)
  BY <1>1, <1>3, <1>4 DEF Chain
<1> QED
  BY <1>5 DEF t

-----------------------------------------------------------------------------
(* The steps.                                                                *)

Row == [total : Int, level : Levels, last : Ids \cup {0}]
Tx == [at : {"idle", "applying"}, todo : SUBSET Ids, done : Seq(Ids), total : Int,
       level : Levels, last : Ids \cup {0}, ups : Seq(LevelUp)]

(* The type invariant, by the names of its sets.                             *)
LEMMA TypeOKIs ==
    TypeOK <=> /\ LogTypeOK /\ row \in Row /\ ups \in Seq(LevelUp)
               /\ worker \in [Workers -> Tx] /\ counted \in [Ids -> Nat]
  BY DEF TypeOK, Row, Tx

(* The user's committed events only become more; those that are there keep   *)
(* what they are worth; as long as the ids follow the times, new ones come   *)
(* behind them.                                                              *)
LEMMA MoreOfUser ==
    ASSUME LogTypeOK, RowsOfWriters, LogInOrder, LogNext \/ UNCHANGED log
    PROVE  /\ OfUser \subseteq OfUser' /\ (overlap => overlap')
           /\ \A i \in OfUser : delta'[i] = delta[i]
           /\ ~overlap => \A i \in OfUser : \A j \in OfUser' \ OfUser : i < j
<1>1. \A i \in Ids : event[i] = "COMMITTED" =>
          event'[i] = "COMMITTED" /\ owner'[i] = owner[i] /\ delta'[i] = delta[i]
  BY LogGrows
<1>2. overlap => overlap'
  BY LogGrows
<1>3. \A i \in OfUser : i \in Ids /\ event[i] = "COMMITTED" /\ owner[i] = User
  BY DEF OfUser, Mine
<1>4. \A i \in Ids : event'[i] = "COMMITTED" /\ owner'[i] = User => i \in OfUser'
  BY DEF OfUser, Mine
<1>5. ASSUME NEW j \in OfUser', j \notin OfUser
      PROVE  j \in Ids /\ event'[j] = "COMMITTED" /\ event[j] # "COMMITTED"
  <2>1. j \in Ids /\ event'[j] = "COMMITTED" /\ owner'[j] = User
    BY <1>5 DEF OfUser, Mine
  <2>2. ~(event[j] = "COMMITTED" /\ owner[j] = User)
    BY <1>5, <2>1 DEF OfUser, Mine
  <2> QED
    BY <1>1, <2>1, <2>2
<1>6. ASSUME ~overlap, NEW i \in OfUser, NEW j \in OfUser' \ OfUser PROVE i < j
  BY <1>3, <1>5, <1>6, LogGrows
<1> QED
  BY <1>1, <1>2, <1>3, <1>4, <1>6

(* Events may be written and committed at any time, also while a worker has  *)
(* read the ones before.                                                     *)
LEMMA LogKeeps ==
    ASSUME Inv, LogNext \/ UNCHANGED log, UNCHANGED <<row, ups, worker, counted>>
    PROVE  Inv'
<1> DEFINE M == OfUser
           N == OfUser'
<1>t. /\ row \in Row /\ worker \in [Workers -> Tx] /\ counted \in [Ids -> Nat]
      /\ delta \in [Ids -> Int] /\ LogTypeOK
  BY TypeOKIs DEF Inv, LogTypeOK
<1>1. LogTypeOK' /\ OwnersKnown' /\ RowsOfWriters' /\ LogInOrder'
  BY <1>t, LogStep, RowsStep, OrderStep DEF Inv
<1>2. TypeOK'
  BY <1>1, TypeOKIs DEF Inv, TypeOK
<1>3. OneAtATime'
  BY DEF Inv, OneAtATime
<1>4. /\ M \subseteq N /\ M \subseteq Ids /\ (overlap => overlap')
      /\ \A i \in M : delta'[i] = delta[i]
      /\ ~overlap => \A i \in M : \A j \in N \ M : i < j
  BY <1>t, MoreOfUser DEF Inv, OfUser
<1>5. delta' \in [Ids -> Int]
  BY <1>1 DEF LogTypeOK
<1>6. N \subseteq Ids /\ \A i \in Ids : i \in Int /\ 0 < i
  BY BoundsAssumption DEF OfUser, Ids
<1> HIDE DEF M, N
<1>7. ASSUME NEW c \in [Ids -> Nat], \A i \in Ids : c[i] # 0 => i \in M
      PROVE  Total(c, delta') = Total(c, delta)
  <2>1. \A i \in Ids : c[i] # 0 => delta'[i] = delta[i]
    BY <1>4, <1>7
  <2> QED
    BY <1>t, <1>5, <2>1, TotalSame
(* A new event comes after all that are counted, and is not.                 *)
<1>8. ASSUME NEW c \in [Ids -> Nat], \A i \in Ids : c[i] # 0 => i \in M,
             NEW l \in M \cup {0}, ~overlap, TakenTo(M, c, l)
      PROVE  TakenTo(N, c, l)
  <2> SUFFICES ASSUME NEW j \in N PROVE c[j] = IF j <= l THEN 1 ELSE 0
    BY DEF TakenTo
  <2>1. CASE j \in M
    BY <1>8, <2>1 DEF TakenTo
  <2>2. CASE j \notin M
    <3>1. c[j] = 0
      BY <1>6, <1>8, <2>2
    <3>2. l < j
      BY <1>4, <1>6, <1>8, <2>2
    <3>3. l \in Int /\ j \in Int
      BY <1>4, <1>6
    <3> QED
      BY <3>1, <3>2, <3>3
  <2> QED
    BY <2>1, <2>2
<1>9. RowIsRight'
  <2>1. RowFits(M, delta, row, ups, counted) /\ (~overlap => TakenTo(M, counted, row.last))
    BY DEF Inv, RowIsRight, M
  <2>2. RowFits(N, delta', row, ups, counted)
    BY <1>t, <1>4, <1>7, <2>1 DEF RowFits
  <2>3. ~overlap' => TakenTo(N, counted, row.last)
    BY <1>t, <1>4, <1>8, <2>1 DEF RowFits
  <2> QED
    BY <2>2, <2>3 DEF RowIsRight, N
<1>10. TransactionsAreRight'
  <2> SUFFICES ASSUME NEW p \in Workers, worker[p].at # "idle"
               PROVE  /\ TxFits(N, delta', ups, counted, worker[p])
                      /\ ~overlap' =>
                             /\ TakenTo(N, With(counted, worker[p].done), worker[p].last)
                             /\ NextOnes(N, worker[p].todo, worker[p].last)
    BY DEF TransactionsAreRight, N
  <2> DEFINE x == worker[p]
             c == With(counted, x.done)
  <2>1. /\ TxFits(M, delta, ups, counted, x)
        /\ ~overlap => TakenTo(M, c, x.last) /\ NextOnes(M, x.todo, x.last)
    BY DEF Inv, TransactionsAreRight, M
  <2>2. x \in Tx /\ x.done \in Seq(Ids)
    BY <1>t DEF Tx
  <2> HIDE DEF x
  <2>3. c \in [Ids -> Nat]
    BY <1>t, <2>2, WithType
  <2>4. \A i \in Ids : c[i] # 0 => i \in M
    <3> SUFFICES ASSUME NEW i \in Ids, c[i] # 0 PROVE i \in M
      OBVIOUS
    <3>1. c[i] = counted[i] + Times(x.done, i)
      BY DEF With
    <3>2. counted[i] \in Nat /\ Times(x.done, i) \in Nat
      BY <1>t, <2>2, TimesType
    <3>3. counted[i] # 0 \/ Times(x.done, i) # 0
      BY <3>1, <3>2
    <3>4. counted[i] # 0 => i \in M
      BY DEF Inv, RowIsRight, RowFits, M
    <3>5. Times(x.done, i) # 0 => i \in M
      <4> SUFFICES ASSUME Times(x.done, i) # 0 PROVE i \in M
        OBVIOUS
      <4>1. PICK k \in DOMAIN x.done : x.done[k] = i
        BY <2>2, TimesType
      <4>2. \A m \in DOMAIN x.done : x.done[m] \in M
        BY <2>1 DEF TxFits
      <4> QED
        BY <4>1, <4>2
    <3> QED
      BY <3>3, <3>4, <3>5
  <2> HIDE DEF c
  <2>5. x.total = Total(c, delta) /\ x.last \in M \cup {0} /\ x.todo \subseteq M
    BY <2>1 DEF TxFits, c
  <2>6. TxFits(N, delta', ups, counted, x)
    <3>1. Total(c, delta') = Total(c, delta)
      BY <1>7, <2>3, <2>4
    <3> QED
      BY <1>4, <2>1, <2>5, <3>1 DEF TxFits, c
  <2>7. ASSUME ~overlap' PROVE TakenTo(N, c, x.last) /\ NextOnes(N, x.todo, x.last)
    <3>1. ~overlap /\ TakenTo(M, c, x.last) /\ NextOnes(M, x.todo, x.last)
      BY <1>4, <2>1, <2>7
    <3>2. TakenTo(N, c, x.last)
      BY <1>8, <2>3, <2>4, <2>5, <3>1
    <3>3. \A i \in M, j \in N : j < i => j \in M
      <4>1. ASSUME NEW i \in M, NEW j \in N, j < i, j \notin M PROVE FALSE
        <5>1. i < j /\ i \in Int /\ j \in Int
          BY <1>4, <1>6, <3>1, <4>1
        <5> QED
          BY <4>1, <5>1
      <4> QED
        BY <4>1
    <3>4. NextOnes(N, x.todo, x.last)
      BY <2>5, <3>1, <3>3 DEF NextOnes
    <3> QED
      BY <3>2, <3>4
  <2> QED
    BY <2>6, <2>7 DEF x, c
<1> QED
  BY <1>1, <1>2, <1>3, <1>9, <1>10 DEF Inv

(* A step of the one transaction there is: what has to be shown of it.       *)
LEMMA TxStep ==
    ASSUME Inv, UNCHANGED log, NEW p \in Workers, NEW x \in Tx,
           \A q \in Workers \ {p} : worker[q].at = "idle",
           worker' = [worker EXCEPT ![p] = x],
           row' \in Row, ups' \in Seq(LevelUp), counted' \in [Ids -> Nat],
           RowFits(OfUser, delta, row', ups', counted'),
           ~overlap => TakenTo(OfUser, counted', row'.last),
           x.at # "idle" => TxFits(OfUser, delta, ups', counted', x),
           x.at # "idle" /\ ~overlap => /\ TakenTo(OfUser, With(counted', x.done), x.last)
                                        /\ NextOnes(OfUser, x.todo, x.last)
    PROVE  Inv'
<1>1. LogTypeOK' /\ OwnersKnown' /\ RowsOfWriters' /\ LogInOrder'
  BY LogStep, RowsStep, OrderStep, TypeOKIs DEF Inv
<1>2. worker \in [Workers -> Tx]
  BY TypeOKIs DEF Inv
<1>3. /\ worker' \in [Workers -> Tx] /\ worker'[p] = x
      /\ \A q \in Workers : worker'[q].at # "idle" => q = p
  BY <1>2
<1>4. TypeOK'
  BY <1>1, <1>3 DEF TypeOK, Row, Tx
<1>5. OneAtATime'
  BY <1>3 DEF OneAtATime
<1>6. UNCHANGED <<OfUser, delta, overlap>>
  BY DEF log, OfUser, Mine
<1>7. RowIsRight'
  BY <1>6 DEF RowIsRight
<1>8. TransactionsAreRight'
  BY <1>3, <1>6 DEF TransactionsAreRight
<1> QED
  BY <1>1, <1>4, <1>5, <1>7, <1>8 DEF Inv

(* The types that the inductive invariant gives.                             *)
LEMMA InvParts ==
    ASSUME Inv
    PROVE  /\ row \in Row /\ ups \in Seq(LevelUp) /\ worker \in [Workers -> Tx]
           /\ counted \in [Ids -> Nat] /\ delta \in [Ids -> Int] /\ LogTypeOK
           /\ OfUser \subseteq Ids
           /\ RowFits(OfUser, delta, row, ups, counted)
           /\ ~overlap => TakenTo(OfUser, counted, row.last)
  BY TypeOKIs DEF Inv, LogTypeOK, OfUser, RowIsRight

(* What the inductive invariant says of the transaction that is open.        *)
LEMMA TxParts ==
    ASSUME Inv, NEW p \in Workers, worker[p].at # "idle"
    PROVE  /\ worker[p] \in Tx
           /\ \A q \in Workers \ {p} : worker[q].at = "idle"
           /\ TxFits(OfUser, delta, ups, counted, worker[p])
           /\ ~overlap => /\ TakenTo(OfUser, With(counted, worker[p].done), worker[p].last)
                          /\ NextOnes(OfUser, worker[p].todo, worker[p].last)
  BY TypeOKIs DEF Inv, OneAtATime, TransactionsAreRight

(* An idle worker is of its type.                                            *)
LEMMA IdleIs == IdleWorker \in Tx /\ IdleWorker.at = "idle"
<1>1. <<>> \in Seq(Ids) /\ <<>> \in Seq(LevelUp) /\ 1 \in Levels
  BY LevelsAre
<1> QED
  BY <1>1 DEF IdleWorker, Tx

(* The transaction starts as the row, with every unreconciled event to do.   *)
LEMMA FetchKeeps ==
    ASSUME Inv, NEW p \in Workers, FetchEvents(p)
    PROVE  Inv'
<1> DEFINE x == [IdleWorker EXCEPT !.at = "applying", !.todo = Unreconciled,
                                   !.total = row.total, !.level = row.level,
                                   !.last = row.last]
<1>t. /\ row \in Row /\ ups \in Seq(LevelUp) /\ counted \in [Ids -> Nat] /\ OfUser \subseteq Ids
      /\ RowFits(OfUser, delta, row, ups, counted)
      /\ ~overlap => TakenTo(OfUser, counted, row.last)
  BY InvParts
<1>1. /\ worker' = [worker EXCEPT ![p] = x] /\ UNCHANGED <<log, row, ups, counted>>
      /\ \A q \in Workers \ {p} : worker[q].at = "idle"
  BY DEF FetchEvents, UserLockFree
<1>2. /\ x.at = "applying" /\ x.todo = Unreconciled /\ x.done = <<>> /\ x.total = row.total
      /\ x.level = row.level /\ x.last = row.last /\ x.ups = <<>>
  BY DEF IdleWorker
<1>3. Unreconciled \subseteq OfUser
  BY DEF Unreconciled, OfUser
<1>4. x \in Tx
  <2>1. <<>> \in Seq(Ids) /\ <<>> \in Seq(LevelUp) /\ Unreconciled \in SUBSET Ids
    BY <1>t, <1>3
  <2>2. row.total \in Int /\ row.level \in Levels /\ row.last \in Ids \cup {0}
    BY <1>t DEF Row
  <2>3. IdleWorker \in Tx
    BY IdleIs
  <2> QED
    BY <2>1, <2>2, <2>3 DEF Tx
<1> HIDE DEF x
<1>5. With(counted, x.done) = counted /\ ups \o x.ups = ups
  BY <1>t, <1>2, WithNone
<1>6. TxFits(OfUser, delta, ups, counted, x)
  <2>1. \A k \in DOMAIN x.done : x.done[k] \in OfUser
    BY <1>2
  <2> QED
    BY <1>t, <1>2, <1>3, <1>5, <2>1 DEF TxFits, RowFits
<1>7. NextOnes(OfUser, x.todo, x.last)
  BY <1>2 DEF NextOnes, Unreconciled, OfUser
<1>8. ~overlap => TakenTo(OfUser, With(counted, x.done), x.last)
  BY <1>t, <1>2, <1>5
<1> QED
  BY <1>t, <1>1, <1>4, <1>6, <1>7, <1>8, TxStep

(* One event more: its XP, and the level it leads to.                        *)
LEMMA ApplyKeeps ==
    ASSUME Inv, NEW p \in Workers, ApplyEvent(p)
    PROVE  Inv'
<1> DEFINE y == worker[p]
           i == Earliest(y.todo)
           newTotal == y.total + delta[i]
           resolved == ResolveLevel(newTotal)
           rises == resolved > y.level
           e == [from |-> y.level, to |-> resolved, event |-> i]
           x == worker'[p]
<1>t. /\ row \in Row /\ ups \in Seq(LevelUp) /\ worker \in [Workers -> Tx]
      /\ counted \in [Ids -> Nat] /\ delta \in [Ids -> Int] /\ LogTypeOK /\ OfUser \subseteq Ids
      /\ RowFits(OfUser, delta, row, ups, counted)
      /\ ~overlap => TakenTo(OfUser, counted, row.last)
  BY InvParts
<1>1. y.at = "applying" /\ y.todo # {} /\ UNCHANGED <<log, row, ups, counted>>
  BY DEF ApplyEvent
<1>2. /\ y \in Tx
      /\ \A q \in Workers \ {p} : worker[q].at = "idle"
      /\ TxFits(OfUser, delta, ups, counted, y)
      /\ ~overlap => /\ TakenTo(OfUser, With(counted, y.done), y.last)
                     /\ NextOnes(OfUser, y.todo, y.last)
  BY <1>1, TxParts
<1>3. /\ y.todo \in SUBSET Ids /\ y.done \in Seq(Ids) /\ y.total \in Int /\ y.level \in Levels
      /\ y.ups \in Seq(LevelUp)
  BY <1>2 DEF Tx
<1>4. i \in y.todo /\ i \in Ids /\ i \in OfUser /\ \A j \in y.todo \ {i} : Before(i, j)
  <2>1. i \in y.todo /\ \A j \in y.todo \ {i} : Before(i, j)
    BY <1>t, <1>1, <1>3, EarliestIs
  <2> QED
    BY <1>2, <1>3, <2>1 DEF TxFits
<1> HIDE DEF i
<1>5. newTotal \in Int /\ resolved \in Levels
  <2>1. delta[i] \in Int
    BY <1>t, <1>4
  <2>2. newTotal \in Int
    BY <1>3, <2>1
  <2> HIDE DEF newTotal
  <2> QED
    BY <2>2, ResolveType
<1>6. worker' = [worker EXCEPT ![p] =
          [y EXCEPT !.todo = y.todo \ {i}, !.done = Append(y.done, i), !.total = newTotal,
                    !.last = i, !.level = IF rises THEN resolved ELSE y.level,
                    !.ups = IF rises THEN Append(y.ups, e) ELSE y.ups]]
  BY <1>t DEF ApplyEvent, i
<1> HIDE DEF newTotal, resolved
<1>7. x = [at |-> "applying", todo |-> y.todo \ {i}, done |-> Append(y.done, i),
           total |-> newTotal, level |-> IF rises THEN resolved ELSE y.level, last |-> i,
           ups |-> IF rises THEN Append(y.ups, e) ELSE y.ups]
  BY <1>t, <1>1, <1>2, <1>6 DEF Tx
<1>8. worker' = [worker EXCEPT ![p] = x]
  BY <1>t, <1>6
<1> HIDE DEF x
<1>9. e \in LevelUp /\ e.from = y.level /\ e.to = resolved
  BY <1>3, <1>4, <1>5, LevelsAre DEF LevelUp
<1> HIDE DEF e, y
<1>10. /\ x.at = "applying" /\ x.todo = y.todo \ {i} /\ x.done = Append(y.done, i)
       /\ x.total = newTotal /\ x.last = i
       /\ rises => x.level = resolved /\ x.ups = Append(y.ups, e)
       /\ ~rises => x.level = y.level /\ x.ups = y.ups
  BY <1>7
<1>11. x \in Tx
  <2>1. Append(y.done, i) \in Seq(Ids) /\ Append(y.ups, e) \in Seq(LevelUp)
    BY <1>3, <1>4, <1>9
  <2>2. (IF rises THEN resolved ELSE y.level) \in Levels
    BY <1>3, <1>5
  <2>3. (IF rises THEN Append(y.ups, e) ELSE y.ups) \in Seq(LevelUp)
    BY <1>3, <2>1
  <2>4. y.todo \ {i} \in SUBSET Ids
    BY <1>3
  <2> HIDE DEF rises
  <2> QED
    BY <1>4, <1>5, <1>7, <2>1, <2>2, <2>3, <2>4 DEF Tx
<1>12. /\ With(counted, y.done) \in [Ids -> Nat] /\ With(counted, x.done) \in [Ids -> Nat]
       /\ With(counted, x.done)[i] = With(counted, y.done)[i] + 1
       /\ \A j \in Ids \ {i} : With(counted, x.done)[j] = With(counted, y.done)[j]
  <2>1. With(counted, y.done) \in [Ids -> Nat] /\ With(counted, x.done) \in [Ids -> Nat]
    <3>1. x.done \in Seq(Ids)
      BY <1>11 DEF Tx
    <3> QED
      BY <1>t, <1>3, <3>1, WithType
  <2>2. \A j \in Ids : Times(x.done, j) = Times(y.done, j) + IF j = i THEN 1 ELSE 0
    BY <1>3, <1>4, <1>10, TimesAppend
  <2>3. \A j \in Ids : Times(y.done, j) \in Nat /\ counted[j] \in Nat
    BY <1>t, <1>3, TimesType
  <2> QED
    BY <1>4, <2>1, <2>2, <2>3 DEF With
<1>13. TxFits(OfUser, delta, ups, counted, x)
  <2>1. x.todo \subseteq OfUser /\ x.last \in OfUser \cup {0}
    BY <1>2, <1>4, <1>10 DEF TxFits
  <2>2. ASSUME NEW k \in DOMAIN x.done PROVE x.done[k] \in OfUser
    <3>1. (k \in DOMAIN y.done /\ x.done[k] = y.done[k]) \/ x.done[k] = i
      BY <1>3, <1>4, <1>10
    <3> QED
      BY <1>2, <1>4, <3>1 DEF TxFits
  <2>3. x.total = Total(With(counted, x.done), delta)
    <3>1. Total(With(counted, x.done), delta) = Total(With(counted, y.done), delta) + delta[i]
      <4> DEFINE c == With(counted, y.done)
                 f == With(counted, x.done)
      <4>1. /\ c \in [Ids -> Nat] /\ f \in [Ids -> Nat] /\ f[i] = c[i] + 1
            /\ \A j \in Ids \ {i} : f[j] = c[j]
        BY <1>12
      <4> HIDE DEF c, f
      <4>2. Total(f, delta) = Total(c, delta) + delta[i]
        <5>1. delta \in [Ids -> Int] /\ i \in Ids
          BY <1>t, <1>4
        <5> QED
          BY ONLY <4>1, <5>1, TotalMore
      <4> QED
        BY <4>2 DEF c, f
    <3>2. y.total = Total(With(counted, y.done), delta)
      BY <1>2 DEF TxFits
    <3> QED
      BY <1>10, <3>1, <3>2 DEF newTotal
  <2>4. Chain(ups \o x.ups, x.level)
    <3>1. Chain(ups \o y.ups, y.level)
      BY <1>2 DEF TxFits
    <3>2. CASE rises
      <4>1. Chain(ups \o Append(y.ups, e), e.to)
        BY <1>t, <1>3, <1>9, <3>1, <3>2, ChainAppend
      <4> QED
        BY <1>9, <1>10, <3>2, <4>1
    <3>3. CASE ~rises
      BY <1>10, <3>1, <3>3
    <3> QED
      BY <3>2, <3>3
  <2> QED
    BY <2>1, <2>2, <2>3, <2>4 DEF TxFits
(* In a log whose ids follow the times, the earliest event has the least id. *)
<1>14. ASSUME ~overlap
       PROVE  /\ TakenTo(OfUser, With(counted, x.done), x.last)
              /\ NextOnes(OfUser, x.todo, x.last)
  <2>1. /\ TakenTo(OfUser, With(counted, y.done), y.last) /\ NextOnes(OfUser, y.todo, y.last)
    BY <1>2, <1>14
  <2>2. \A j \in Ids : j \in Int
    BY DEF Ids
  <2>3. y.last \in Int
    BY <1>2, <2>2 DEF Tx
  <2>4. \A j \in y.todo \ {i} : i < j
    <3> SUFFICES ASSUME NEW j \in y.todo, j # i, ~(i < j) PROVE FALSE
      OBVIOUS
    <3>1. j \in OfUser /\ j \in Ids /\ j < i
      BY <1>2, <1>3, <1>4, <2>2 DEF TxFits
    <3>2. event[i] # "NONE" /\ event[j] # "NONE"
      BY <1>4, <3>1 DEF OfUser, Mine
    <3>3. created[j] <= created[i]
      BY <1>4, <1>14, <3>1, <3>2 DEF Inv, LogInOrder, IdsFollowTimes
    <3>4. created[i] \in Int /\ created[j] \in Int
      BY <1>t, <1>4, <3>1, BoundsAssumption DEF LogTypeOK
    <3>5. Before(i, j)
      BY <1>4
    <3> QED
      BY <1>4, <2>2, <3>1, <3>3, <3>4, <3>5 DEF Before
  <2>5. i > y.last /\ \A j \in OfUser : y.last < j /\ j < i => j \in y.todo
    BY <1>4, <2>1 DEF NextOnes
  <2>6. \A j \in OfUser : y.last < j => ~(j < i)
    <3> SUFFICES ASSUME NEW j \in OfUser, y.last < j, j < i PROVE FALSE
      OBVIOUS
    <3>1. j \in y.todo /\ j \in Int /\ i \in Int
      BY <1>t, <1>4, <2>2, <2>5
    <3>2. j # i => i < j
      BY <2>4, <3>1
    <3> QED
      BY <3>1, <3>2
  <2>7. TakenTo(OfUser, With(counted, x.done), i)
    <3> DEFINE c == With(counted, y.done)
               d == With(counted, x.done)
    <3>1. ASSUME NEW j \in OfUser PROVE d[j] = IF j <= i THEN 1 ELSE 0
      <4>1. j \in Ids /\ j \in Int /\ i \in Int
        BY <1>t, <1>4, <2>2
      <4>2. c[j] = IF j <= y.last THEN 1 ELSE 0
        BY <2>1 DEF TakenTo
      <4>3. d[i] = c[i] + 1 /\ (j # i => d[j] = c[j])
        BY <1>12, <4>1
      <4> HIDE DEF c, d
      <4>4. CASE j = i
        BY <2>3, <2>5, <4>1, <4>2, <4>3, <4>4
      <4>5. CASE j # i
        BY <2>3, <2>5, <2>6, <4>1, <4>2, <4>3, <4>5
      <4> QED
        BY <4>4, <4>5
    <3> QED
      BY <3>1 DEF TakenTo
  <2>8. NextOnes(OfUser, x.todo, i)
    <3> SUFFICES ASSUME NEW k \in x.todo
                 PROVE  k > i /\ \A j \in OfUser : i < j /\ j < k => j \in x.todo
      BY DEF NextOnes
    <3>1. k \in y.todo /\ k # i /\ i < k /\ k \in Int /\ i \in Int
      BY <1>3, <1>4, <1>10, <2>2, <2>4
    <3>2. ASSUME NEW j \in OfUser, i < j, j < k PROVE j \in x.todo
      <4>1. j \in Int /\ y.last < j /\ j # i
        BY <1>t, <2>2, <2>3, <2>5, <3>1, <3>2
      <4>2. j \in y.todo
        BY <2>1, <3>1, <3>2, <4>1 DEF NextOnes
      <4> QED
        BY <1>10, <4>1, <4>2
    <3> QED
      BY <3>1, <3>2
  <2> QED
    BY <1>10, <2>7, <2>8
<1> QED
  BY <1>t, <1>1, <1>2, <1>8, <1>11, <1>13, <1>14, TxStep

(* The transaction becomes the row.                                          *)
LEMMA SaveKeeps ==
    ASSUME Inv, NEW p \in Workers, SaveProgress(p)
    PROVE  Inv'
<1> DEFINE y == worker[p]
<1>t. /\ ups \in Seq(LevelUp) /\ counted \in [Ids -> Nat] /\ OfUser \subseteq Ids
      /\ RowFits(OfUser, delta, row, ups, counted)
  BY InvParts
<1>1. /\ y.at = "applying"
      /\ row' = [total |-> y.total, level |-> y.level, last |-> y.last]
      /\ ups' = ups \o y.ups
      /\ counted' = [i \in Ids |-> counted[i] + TimesDone(p, i)]
      /\ worker' = [worker EXCEPT ![p] = IdleWorker] /\ UNCHANGED log
  BY DEF SaveProgress
<1>2. /\ y \in Tx
      /\ \A q \in Workers \ {p} : worker[q].at = "idle"
      /\ TxFits(OfUser, delta, ups, counted, y)
      /\ ~overlap => TakenTo(OfUser, With(counted, y.done), y.last)
  BY <1>1, TxParts
<1>3. counted' = With(counted, y.done)
  BY <1>1 DEF With, Times, TimesDone
<1>4. /\ y.done \in Seq(Ids) /\ y.total \in Int /\ y.level \in Levels
      /\ y.ups \in Seq(LevelUp) /\ y.last \in Ids \cup {0}
  BY <1>2 DEF Tx
<1> HIDE DEF y
<1>5. row' \in Row /\ ups' \in Seq(LevelUp) /\ counted' \in [Ids -> Nat]
  <2>1. counted' \in [Ids -> Nat]
    BY <1>t, <1>3, <1>4, WithType
  <2>2. row' \in Row
    BY <1>1, <1>4 DEF Row
  <2>3. ups' \in Seq(LevelUp)
    BY <1>t, <1>1, <1>4
  <2> QED
    BY <2>1, <2>2, <2>3
<1>6. ASSUME NEW i \in Ids, counted'[i] # 0 PROVE i \in OfUser
  <2>1. counted'[i] = counted[i] + Times(y.done, i)
    BY <1>3 DEF With
  <2>2. counted[i] \in Nat /\ Times(y.done, i) \in Nat
    BY <1>t, <1>4, TimesType
  <2>3. counted[i] # 0 \/ Times(y.done, i) # 0
    BY <1>6, <2>1, <2>2
  <2>4. counted[i] # 0 => i \in OfUser
    BY <1>t DEF RowFits
  <2>5. ASSUME Times(y.done, i) # 0 PROVE i \in OfUser
    <3>1. PICK k \in DOMAIN y.done : y.done[k] = i
      BY <1>4, <2>5, TimesType
    <3>2. \A m \in DOMAIN y.done : y.done[m] \in OfUser
      BY <1>2 DEF TxFits
    <3> QED
      BY <3>1, <3>2
  <2> QED
    BY <2>3, <2>4, <2>5
<1>7. /\ row'.last = y.last /\ row'.level = y.level /\ row'.total = y.total
  BY <1>1
<1>8. RowFits(OfUser, delta, row', ups', counted')
  BY <1>1, <1>2, <1>3, <1>6, <1>7 DEF TxFits, RowFits
<1>9. ~overlap => TakenTo(OfUser, counted', row'.last)
  BY <1>2, <1>3, <1>7
<1> QED
  BY <1>1, <1>2, <1>5, <1>8, <1>9, IdleIs, TxStep

(* A worker that dies loses its own state only.                              *)
LEMMA DiesKeeps ==
    ASSUME Inv, NEW p \in Workers, WorkerDies(p)
    PROVE  Inv'
<1>1. /\ worker[p].at # "idle" /\ UNCHANGED <<log, row, ups, counted>>
      /\ worker' = [worker EXCEPT ![p] = IdleWorker]
  BY DEF WorkerDies
<1>2. \A q \in Workers \ {p} : worker[q].at = "idle"
  BY <1>1, TxParts
<1> QED
  BY <1>1, <1>2, InvParts, IdleIs, TxStep

-----------------------------------------------------------------------------
(* The theorems.                                                             *)

(* The inductive invariant holds at first.                                   *)
LEMMA InvInit == Init => Inv
<1> SUFFICES ASSUME Init PROVE Inv
  OBVIOUS
<1>1. LogTypeOK /\ OwnersKnown
  BY LogStarts DEF Init
<1>2. RowsOfWriters /\ LogInOrder
  <2>1. \A i \in Ids : event[i] = "NONE"
    BY DEF Init, LogInit
  <2>2. \A w \in Writers : writer[w].at = "idle"
    BY DEF Init, LogInit, IdleWriter
  <2> QED
    BY <2>1, <2>2 DEF RowsOfWriters, LogInOrder, IdsFollowTimes
<1>3. /\ row = [total |-> 0, level |-> 1, last |-> 0] /\ ups = <<>>
      /\ \A p \in Workers : worker[p].at = "idle"
      /\ \A i \in Ids : counted[i] = 0
  BY IdleIs DEF Init
<1>4. TypeOK
  <2>1. worker \in [Workers -> Tx]
    <3>1. worker = [p \in Workers |-> IdleWorker]
      BY DEF Init
    <3> QED
      BY <3>1, IdleIs
  <2>2. counted \in [Ids -> Nat] /\ counted = [i \in Ids |-> 0]
    BY DEF Init
  <2>3. row \in Row /\ ups \in Seq(LevelUp)
    BY <1>3, LevelsAre DEF Row
  <2> QED
    BY <1>1, <2>1, <2>2, <2>3, TypeOKIs
<1>5. OfUser = {}
  BY DEF OfUser, Mine, Init, LogInit
<1>6. RowIsRight
  <2>1. counted \in [Ids -> Nat] /\ delta \in [Ids -> Int]
    BY <1>1, <1>4, TypeOKIs DEF LogTypeOK
  <2>2. Total(counted, delta) = 0
    <3> DEFINE f == Weighted(counted, delta)
               z == [i \in Ids |-> 0]
    <3>1. \A i \in Ids : f[i] = 0
      BY <1>3, <2>1 DEF Weighted
    <3>2. DOMAIN f = Ids
      BY DEF Weighted
    <3> HIDE DEF f
    <3>3. Gain(f) = z /\ Loss(f) = z
      BY <3>1, <3>2 DEF Gain, Loss
    <3>4. SumOver(Ids, Gain(f)) = SumOver(Ids, Loss(f)) /\ SumOver(Ids, Gain(f)) \in Nat
      BY <3>3, IdsFinite, SumFinite
    <3> QED
      BY <3>4 DEF Total, IntSum, f
  <2>3. Chain(ups, row.level)
    BY <1>3 DEF Chain, Reached
  <2> QED
    BY <1>3, <1>5, <2>2, <2>3 DEF RowIsRight, RowFits, TakenTo
<1> QED
  BY <1>1, <1>2, <1>3, <1>4, <1>6 DEF Inv, OneAtATime, TransactionsAreRight

(* Every step keeps the inductive invariant.                                 *)
LEMMA InvStep == Inv /\ [Next]_vars => Inv'
<1> SUFFICES ASSUME Inv, [Next]_vars PROVE Inv'
  OBVIOUS
<1>1. CASE LogNext /\ UNCHANGED <<row, ups, worker, counted>>
  BY <1>1, LogKeeps
<1>2. ASSUME NEW p \in Workers, FetchEvents(p) PROVE Inv'
  BY <1>2, FetchKeeps
<1>3. ASSUME NEW p \in Workers, ApplyEvent(p) PROVE Inv'
  BY <1>3, ApplyKeeps
<1>4. ASSUME NEW p \in Workers, SaveProgress(p) PROVE Inv'
  BY <1>4, SaveKeeps
<1>5. ASSUME NEW p \in Workers, WorkerDies(p) PROVE Inv'
  BY <1>5, DiesKeeps
<1>6. CASE UNCHANGED vars
  BY <1>6, LogKeeps DEF vars
<1> QED
  BY <1>1, <1>2, <1>3, <1>4, <1>5, <1>6 DEF Next

(* In every reachable state the row, its level-ups and the open transaction  *)
(* are what the committed events of the user make of them.                   *)
THEOREM Invariance == Spec => []Inv
  BY InvInit, InvStep, PTL DEF Spec

(* The log, the row and the transactions keep their types; in particular     *)
(* some level is always resolved, whatever the total.                        *)
THEOREM TypeCorrect == Spec => []TypeOK
<1>1. Inv => TypeOK
  BY DEF Inv
<1> QED
  BY <1>1, Invariance, PTL

(* The saved total is the sum of the events counted into it, its level the   *)
(* end of an unbroken chain of level-ups, and its cursor separates what is   *)
(* counted from what is not as long as no two awards were open at once.      *)
THEOREM ReconciliationExact == Spec => []ReconciliationIsExact
<1>1. ASSUME Inv PROVE ReconciliationIsExact
  <2>1. /\ counted \in [Ids -> Nat] /\ delta \in [Ids -> Int] /\ ups \in Seq(LevelUp)
        /\ RowFits(OfUser, delta, row, ups, counted)
        /\ ~overlap => TakenTo(OfUser, counted, row.last)
    BY <1>1, InvParts
  <2>2. TotalIsCounted
    <3>1. row.total = Total(counted, delta)
      BY <2>1 DEF RowFits
    <3>2. MapThenSumSet(LAMBDA i : counted[i] * delta[i], Ids) = Total(counted, delta)
      BY <2>1, CountedSum
    <3> QED
      BY <3>1, <3>2 DEF TotalIsCounted
  <2>3. LevelUpsChain
    <3>1. Chain(ups, row.level) /\ Len(ups) \in Nat
      BY <2>1 DEF RowFits
    <3>2. \A k \in 1 .. Len(ups) : k \in 0 .. Len(ups) /\ k - 1 \in 0 .. Len(ups)
      BY <3>1
    <3>3. Len(ups) \in 0 .. Len(ups)
      BY <3>1
    <3> QED
      BY <3>1, <3>2, <3>3 DEF LevelUpsChain, Chain, Reached
  <2>4. CursorIsExact
    BY <2>1 DEF CursorIsExact, TakenTo, OfUser
  <2> QED
    BY <2>2, <2>3, <2>4 DEF ReconciliationIsExact
<1>2. Inv => ReconciliationIsExact
  BY <1>1
<1> QED
  BY <1>2, Invariance, PTL
=============================================================================
