------------------------- MODULE Leaderboard_proofs -------------------------
(***************************************************************************)
(* Proofs about Leaderboard for every set of users, writers and finalizers *)
(* and every number of events, failures and rows in a batch.               *)
(***************************************************************************)
EXTENDS Leaderboard, SharedLemmas

(* Users may be without number, those on the board are not.                  *)
FiniteBoard == IsFiniteSet(DOMAIN board) /\ IsFiniteSet(lw.users)

(* The week is finalized once, by one finalizer; nobody else ever has        *)
(* winners to reward, and the winners it still has to reward have no reward. *)
OneFinalizer ==
    /\ final = NotFinal =>
           rewards = {} /\ \A f \in Finalizers : fin[f].at \notin {"finalized", "issuing"}
    /\ \A f, g \in Finalizers :
           fin[f].at \in {"finalized", "issuing"} /\ fin[g].at \in {"finalized", "issuing"} => f = g
    /\ \A f \in Finalizers :
           /\ fin[f].at = "finalized" => rewards = {}
           /\ fin[f].at = "issuing" => \A r \in rewards : r.user \notin DOMAIN fin[f].winners

Inv == TypeOK /\ OwnersKnown /\ FiniteBoard /\ RanksAreExact /\ OneFinalizer /\ OneTierPerUser

-----------------------------------------------------------------------------
(* The XP log.                                                               *)

(* There are finitely many event ids.                                        *)
LEMMA IdsFinite == IsFiniteSet(Ids) /\ \A S \in SUBSET Ids : IsFiniteSet(S)
<1>1. IsFiniteSet(1 .. MaxId)
  BY BoundsAssumption, FS_Interval
<1> QED
  BY <1>1, FS_Subset DEF Ids

(* The log starts well typed.                                                *)
LEMMA LogStarts == ASSUME LogInit PROVE LogTypeOK /\ OwnersKnown
<1>1. 0 \in 0 .. MaxTime
  BY BoundsAssumption
<1>2. IdleWriter \in [at : {"idle", "begun", "inserted"}, time : 0 .. MaxTime,
                      id : Ids \cup {NoId}]
  BY <1>1 DEF IdleWriter
<1>3. writer \in [Writers -> [at : {"idle", "begun", "inserted"}, time : 0 .. MaxTime,
                              id : Ids \cup {NoId}]]
  <2> HIDE DEF IdleWriter
  <2> QED
    BY <1>2 DEF LogInit
<1>4. event \in [Ids -> {"NONE", "INSERTED", "COMMITTED", "ABORTED"}] /\ overlap \in BOOLEAN
  <2>1. event = [i \in Ids |-> "NONE"] /\ overlap = FALSE
    BY DEF LogInit
  <2> QED
    BY <2>1
<1>5. owner \in [Ids -> Users \cup {NoUser}]
  <2>1. owner = [i \in Ids |-> NoUser]
    BY DEF LogInit
  <2> QED
    BY <2>1
<1>6. delta \in [Ids -> Int]
  <2>1. delta = [i \in Ids |-> 0]
    BY DEF LogInit
  <2> QED
    BY <2>1
<1>7. created \in [Ids -> 0 .. MaxTime] /\ clock \in 0 .. MaxTime
  BY <1>1 DEF LogInit
<1>8. LogTypeOK
  BY <1>3, <1>4, <1>7, <1>5, <1>6 DEF LogTypeOK
<1>9. OwnersKnown
  BY DEF LogInit, OwnersKnown, IdleWriter
<1> QED
  BY <1>8, <1>9

(* A step of the log leaves it well typed and its owners known.              *)
LEMMA LogStep ==
    ASSUME LogTypeOK, OwnersKnown, LogNext \/ UNCHANGED log
    PROVE  LogTypeOK' /\ OwnersKnown'
<1>1. CASE UNCHANGED log
  BY <1>1 DEF log, LogTypeOK, OwnersKnown
<1>2. ASSUME Tick PROVE LogTypeOK' /\ OwnersKnown'
  <2>1. clock' \in 0 .. MaxTime
    BY <1>2, BoundsAssumption DEF LogTypeOK, Tick
  <2> QED
    BY <1>2, <2>1 DEF Tick, LogTypeOK, OwnersKnown
<1>3. ASSUME NEW w \in Writers, BeginTx(w) PROVE LogTypeOK' /\ OwnersKnown'
  <2> DEFINE begun == [IdleWriter EXCEPT !.at = "begun", !.time = clock]
  <2>1. writer' = [writer EXCEPT ![w] = begun] /\ UNCHANGED <<event, owner, delta, created, clock>>
    BY <1>3 DEF BeginTx
  <2>2. /\ begun \in [at : {"idle", "begun", "inserted"}, time : 0 .. MaxTime, id : Ids \cup {NoId}]
        /\ begun.at = "begun"
    BY DEF IdleWriter, LogTypeOK
  <2> HIDE DEF begun
  <2>3. overlap' \in BOOLEAN
    BY <1>3 DEF BeginTx
  <2>4. LogTypeOK'
    BY <2>1, <2>2, <2>3 DEF LogTypeOK
  <2>5. OwnersKnown'
    BY <2>1, <2>2 DEF LogTypeOK, OwnersKnown
  <2> QED
    BY <2>4, <2>5
<1>4. ASSUME NEW w \in Writers, NEW u \in Users, NEW d \in Deltas, InsertXpEvent(w, u, d)
      PROVE  LogTypeOK' /\ OwnersKnown'
  <2>1. PICK i \in Ids :
            /\ event' = [event EXCEPT ![i] = "INSERTED"]
            /\ owner' = [owner EXCEPT ![i] = u]
            /\ delta' = [delta EXCEPT ![i] = d]
            /\ created' = [created EXCEPT ![i] = writer[w].time]
            /\ writer' = [writer EXCEPT ![w].at = "inserted", ![w].id = i]
    BY <1>4 DEF InsertXpEvent
  <2>2. d \in Int /\ writer[w].time \in 0 .. MaxTime /\ UNCHANGED <<clock, overlap>>
    BY <1>4, DeltasAssumption DEF LogTypeOK, InsertXpEvent
  <2>3. writer' \in [Writers -> [at : {"idle", "begun", "inserted"}, time : 0 .. MaxTime,
                                id : Ids \cup {NoId}]]
    <3>1. \A v \in Writers : writer[v] \in [at : {"idle", "begun", "inserted"},
                                            time : 0 .. MaxTime, id : Ids \cup {NoId}]
      BY DEF LogTypeOK
    <3>2. writer' = [v \in Writers |->
                        IF v = w THEN [writer[v] EXCEPT !.at = "inserted", !.id = i]
                        ELSE writer[v]]
      BY <2>1 DEF LogTypeOK
    <3> QED
      BY <3>1, <3>2
  <2>4. LogTypeOK'
    BY <2>1, <2>2, <2>3 DEF LogTypeOK
  <2>5. OwnersKnown'
    BY <2>1 DEF LogTypeOK, OwnersKnown
  <2> QED
    BY <2>4, <2>5
<1>5. ASSUME NEW w \in Writers, NEW o \in {"COMMITTED", "ABORTED"}, EndTx(w, o)
      PROVE  LogTypeOK' /\ OwnersKnown'
  <2>1. /\ event' = [event EXCEPT ![writer[w].id] = o]
        /\ writer' = [writer EXCEPT ![w] = [at |-> "idle", time |-> 0, id |-> NoId]]
        /\ UNCHANGED <<owner, delta, created, clock, overlap>>
        /\ writer[w].at = "inserted"
    BY <1>5 DEF EndTx, IdleWriter
  <2>2. LogTypeOK'
    <3>1. o \in {"NONE", "INSERTED", "COMMITTED", "ABORTED"} /\ 0 \in 0 .. MaxTime
      BY BoundsAssumption
    <3>2. event' \in [Ids -> {"NONE", "INSERTED", "COMMITTED", "ABORTED"}]
      BY <2>1, <3>1 DEF LogTypeOK
    <3>3. writer' \in [Writers -> [at : {"idle", "begun", "inserted"}, time : 0 .. MaxTime,
                                  id : Ids \cup {NoId}]]
      BY <2>1, <3>1 DEF LogTypeOK
    <3> QED
      BY <2>1, <3>2, <3>3 DEF LogTypeOK
  <2>3. writer[w].id \in Ids /\ event[writer[w].id] # "NONE"
    BY <2>1 DEF OwnersKnown
  <2>4. OwnersKnown'
    BY <2>1, <2>3 DEF LogTypeOK, OwnersKnown
  <2> QED
    BY <2>2, <2>4
<1> QED
  BY <1>1, <1>2, <1>3, <1>4, <1>5 DEF LogNext

(* The reverse order of the events.                                          *)
Later == {p \in Ids \X Ids : Before(p[2], p[1])}

(* Time and then id order any set of events, from the last to the first.     *)
LEMMA EventsOrdered ==
    ASSUME LogTypeOK, NEW S, S \subseteq Ids
    PROVE  Orders(Later, S)
<1>1. \A i \in Ids : created[i] \in Int /\ i \in Int
  BY BoundsAssumption DEF LogTypeOK, Ids
<1> QED
  BY <1>1 DEF Orders, Later, Before

(* The sum the readers take of the events' XP is an integer sum.             *)
LEMMA XpSum ==
    ASSUME LogTypeOK, NEW S, S \subseteq Ids
    PROVE  MapThenSumSet(LAMBDA i : delta[i], S) = IntSum(S, [i \in S |-> delta[i]])
<1> DEFINE f == [i \in S |-> delta[i]]
           G(g) == [s \in SUBSET S |->
                       IF s = {} THEN 0 ELSE delta[Pick(s)] + g[s \ {Pick(s)}]]
           sum == CHOOSE g : g = G(g)
           h == [s \in SUBSET S |-> IntSum(s, f)]
<1>1. MapThenSumSet(LAMBDA i : delta[i], S) = sum[S]
  BY DEF MapThenSumSet, MapThenFoldSet, Pick
<1>2. IsFiniteSet(S) /\ DOMAIN f = S /\ \A i \in S : f[i] \in Int
  BY IdsFinite DEF LogTypeOK
<1>3. ASSUME NEW g PROVE SumsUp(g, S, f) <=> g = G(g)
  <2>1. \A s \in SUBSET S : s # {} => f[Pick(s)] = delta[Pick(s)]
    BY DEF Pick
  <2> HIDE DEF f
  <2>2. G(g) = [s \in SUBSET S |-> IF s = {} THEN 0 ELSE f[Pick(s)] + g[s \ {Pick(s)}]]
    BY <2>1
  <2> QED
    BY <2>2 DEF SumsUp
<1> HIDE DEF f, G
<1>4. SumsUp(h, S, f)
  BY <1>2, SumExists
<1>5. sum = G(sum)
  <2> HIDE DEF h
  <2>1. h = G(h)
    BY <1>3, <1>4
  <2> QED
    BY <2>1
<1> HIDE DEF sum
<1>6. sum[S] = IntSum(S, f)
  <2>1. SumsUp(sum, S, f)
    BY <1>3, <1>5
  <2> QED
    BY <1>2, <2>1, SumUnique
<1> QED
  BY <1>1, <1>6 DEF f

-----------------------------------------------------------------------------
(* Scores.                                                                   *)

(* A score is a number, and its tie-break is an event's or beyond them all.  *)
LEMMA ScoreType ==
    ASSUME LogTypeOK, NEW u
    PROVE  /\ ComputeScore(u).score \in Int
           /\ ComputeScore(u).tieTime \in 0 .. MaxTime + 1
           /\ ComputeScore(u).tieId \in 0 .. MaxId + 1
<1> DEFINE S == OfWeek(u)
           total == MapThenSumSet(LAMBDA i : delta[i], S)
           latest == CHOOSE i \in S : \A j \in S \ {i} : Before(j, i)
<1>1. ComputeScore(u) =
          IF total = 0
          THEN [score |-> 0, tieTime |-> MaxTime + 1, tieId |-> MaxId + 1]
          ELSE [score |-> total, tieTime |-> created[latest], tieId |-> latest]
  BY DEF ComputeScore
<1>2. S \subseteq Ids /\ IsFiniteSet(S)
  BY IdsFinite DEF OfWeek, Committed
<1>3. total = IntSum(S, [i \in S |-> delta[i]])
  BY <1>2, XpSum
<1> HIDE DEF total
<1>4. total \in Int
  <2> DEFINE f == [i \in S |-> delta[i]]
  <2>1. DOMAIN f = S /\ \A i \in S : f[i] \in Int
    BY <1>2 DEF LogTypeOK
  <2> HIDE DEF f, S
  <2>2. IntSum(S, f) \in Int
    BY <1>2, <2>1, IntSumType
  <2> QED
    BY <1>3, <2>2 DEF f
<1>5. ASSUME total # 0 PROVE latest \in S
  <2>1. S # {}
    <3>1. SUFFICES ASSUME S = {} PROVE FALSE
      OBVIOUS
    <3> HIDE DEF S
    <3> QED
      BY <1>3, <1>5, <3>1, IntSumEmpty
  <2>2. Orders(Later, S)
    BY <1>2, EventsOrdered
  <2> HIDE DEF S
  <2>3. \E i \in S : \A j \in S \ {i} : <<i, j>> \in Later
    BY <1>2, <2>1, <2>2, FirstExists
  <2>4. \E i \in S : \A j \in S \ {i} : Before(j, i)
    BY <2>3 DEF Later
  <2> QED
    BY <2>4
<1> HIDE DEF latest, S
<1>6. MaxTime \in Nat /\ MaxId \in Nat
  BY BoundsAssumption
<1>7. CASE total = 0
  BY <1>1, <1>6, <1>7
<1>8. CASE total # 0
  <2>1. latest \in Ids
    BY <1>2, <1>5, <1>8
  <2>2. created[latest] \in 0 .. MaxTime + 1 /\ latest \in 0 .. MaxId + 1
    BY <1>6, <2>1 DEF LogTypeOK, Ids
  <2> QED
    BY <1>1, <1>4, <1>8, <2>2
<1> QED
  BY <1>7, <1>8

-----------------------------------------------------------------------------
(* Ranks.                                                                    *)

IsBoard(b) == DOMAIN b \subseteq Users /\ \A u \in DOMAIN b : b[u] \in Row
Better(b) == {p \in Users \X Users : Ahead(b, p[1], p[2])}

(* The order of the board ends at the user id, so it is strict and total.    *)
LEMMA BoardOrdered ==
    ASSUME NEW b, IsBoard(b)
    PROVE  Orders(Better(b), Eligible(b))
<1>1. \A u \in Eligible(b) : u \in DOMAIN b /\ u \in Users /\ u \in Int
  <2>1. Eligible(b) \subseteq DOMAIN b /\ DOMAIN b \subseteq Users
    BY DEF Eligible, IsBoard
  <2>2. \A u \in Users : u \in Int
    BY UsersAssumption
  <2> QED
    BY <2>1, <2>2
<1>2. \A u \in Eligible(b) : b[u].score \in Int /\ b[u].tieTime \in Int /\ b[u].tieId \in Int
  BY <1>1 DEF IsBoard, Row
<1>3. \A u, v \in Eligible(b) : <<u, v>> \in Better(b) <=> Ahead(b, u, v)
  BY <1>1 DEF Better
<1>4. \A u \in Eligible(b) : ~Ahead(b, u, u)
  BY <1>1, <1>2 DEF Ahead
<1>5. \A u, v, w \in Eligible(b) : Ahead(b, u, v) /\ Ahead(b, v, w) => Ahead(b, u, w)
  BY <1>1, <1>2 DEF Ahead
<1>6. \A u, v \in Eligible(b) : u # v => Ahead(b, u, v) \/ Ahead(b, v, u)
  BY <1>1, <1>2 DEF Ahead
<1> QED
  BY <1>3, <1>4, <1>5, <1>6 DEF Orders

(* The users ahead of one are those under it in the board's order, and finitely many. *)
LEMMA RanksAreUnder ==
    ASSUME NEW b, IsBoard(b), IsFiniteSet(DOMAIN b), NEW u \in DOMAIN b
    PROVE  /\ {v \in Eligible(b) : Ahead(b, v, u)} = Under(Better(b), Eligible(b), u)
           /\ Cardinality({v \in Eligible(b) : Ahead(b, v, u)}) \in Nat
           /\ IsFiniteSet(Eligible(b))
<1>1. Eligible(b) \subseteq Users /\ u \in Users /\ Eligible(b) \in SUBSET DOMAIN b
  BY DEF IsBoard, Eligible
<1>2. \A v \in Eligible(b) : <<v, u>> \in Better(b) <=> Ahead(b, v, u)
  BY <1>1 DEF Better
<1>3. {v \in Eligible(b) : Ahead(b, v, u)} = Under(Better(b), Eligible(b), u)
  BY <1>2 DEF Under
<1>4. IsFiniteSet(Eligible(b))
  BY <1>1, FS_Subset
<1> QED
  BY <1>3, <1>4, UnderFinite

RanksExactIn(b) ==
    /\ {b[u].rank : u \in Eligible(b)} = 1 .. Cardinality(Eligible(b))
    /\ \A u, v \in Eligible(b) : Ahead(b, u, v) => b[u].rank < b[v].rank
    /\ \A u \in DOMAIN b \ Eligible(b) : b[u].rank = 0

(* A reranked board keeps its users, scores and eligibility.                 *)
LEMMA RerankKeeps ==
    ASSUME NEW b, IsBoard(b), IsFiniteSet(DOMAIN b)
    PROVE  /\ DOMAIN Rerank(b) = DOMAIN b /\ IsBoard(Rerank(b))
           /\ Eligible(Rerank(b)) = Eligible(b)
           /\ \A u, v \in DOMAIN b : Ahead(Rerank(b), u, v) <=> Ahead(b, u, v)
           /\ \A u \in DOMAIN b :
                  Rerank(b)[u].rank = IF b[u].eligible
                                      THEN 1 + Cardinality({v \in Eligible(b) : Ahead(b, v, u)})
                                      ELSE 0
<1> DEFINE r == Rerank(b)
           k(u) == IF b[u].eligible
                   THEN 1 + Cardinality({v \in Eligible(b) : Ahead(b, v, u)}) ELSE 0
<1>1. DOMAIN r = DOMAIN b
  BY DEF Rerank
<1>2. \A u \in DOMAIN b : r[u] = [b[u] EXCEPT !.rank = k(u)]
  BY DEF Rerank
<1>3. \A u \in DOMAIN b : b[u] \in Row /\ k(u) \in Nat
  <2>1. ASSUME NEW u \in DOMAIN b PROVE k(u) \in Nat
    <3>1. Cardinality({v \in Eligible(b) : Ahead(b, v, u)}) \in Nat
      BY RanksAreUnder
    <3> QED
      BY <3>1
  <2> QED
    BY <2>1 DEF IsBoard
<1> HIDE DEF r, k
<1>4. \A u \in DOMAIN b :
          /\ r[u] \in Row /\ r[u].score = b[u].score /\ r[u].tieTime = b[u].tieTime
          /\ r[u].tieId = b[u].tieId /\ r[u].eligible = b[u].eligible /\ r[u].rank = k(u)
  BY <1>2, <1>3 DEF Row
<1>5. IsBoard(r)
  BY <1>1, <1>4 DEF IsBoard
<1>6. Eligible(r) = Eligible(b)
  BY <1>1, <1>4 DEF Eligible
<1>7. \A u, v \in DOMAIN b : Ahead(r, u, v) <=> Ahead(b, u, v)
  BY <1>4 DEF Ahead
<1> QED
  BY <1>1, <1>4, <1>5, <1>6, <1>7 DEF r, k

(* However the board was ranked before, reranking numbers its eligible rows  *)
(* in order from one, and takes the rank of all the others.                  *)
LEMMA RerankIsExact ==
    ASSUME NEW b, IsBoard(b), IsFiniteSet(DOMAIN b)
    PROVE  RanksExactIn(Rerank(b))
<1> DEFINE r == Rerank(b)
           E == Eligible(b)
           R == Better(b)
<1>1. /\ DOMAIN r = DOMAIN b /\ Eligible(r) = E /\ E \subseteq DOMAIN b
      /\ \A u, v \in DOMAIN b : Ahead(r, u, v) <=> Ahead(b, u, v)
  BY RerankKeeps DEF Eligible
<1>2. \A u \in E : r[u].rank = 1 + Cardinality(Under(R, E, u))
  <2>1. SUFFICES ASSUME NEW u \in E
                 PROVE  r[u].rank = 1 + Cardinality(Under(R, E, u))
    OBVIOUS
  <2>2. u \in DOMAIN b /\ b[u].eligible
    BY DEF Eligible
  <2>3. r[u].rank = 1 + Cardinality({v \in E : Ahead(b, v, u)})
    BY <2>2, RerankKeeps
  <2>4. {v \in E : Ahead(b, v, u)} = Under(R, E, u)
    BY <2>2, RanksAreUnder
  <2> QED
    BY <2>3, <2>4
<1>3. \A u \in DOMAIN b \ E : r[u].rank = 0
  BY RerankKeeps DEF Eligible
<1>4. Orders(R, E) /\ IsFiniteSet(E)
  <2>1. E \in SUBSET DOMAIN b
    BY <1>1
  <2> QED
    BY <2>1, BoardOrdered, FS_Subset
<1>5. \A u, v \in E : Ahead(b, u, v) => <<u, v>> \in R
  BY <1>1 DEF Better, IsBoard
<1> HIDE DEF r, E, R
<1>6. {r[u].rank : u \in E} = 1 .. Cardinality(E)
  <2>1. {r[u].rank : u \in E} = {1 + Cardinality(Under(R, E, u)) : u \in E}
    BY <1>2
  <2> QED
    BY <1>4, <2>1, PlacesAreExact
<1>7. ASSUME NEW u \in E, NEW v \in E, Ahead(r, u, v) PROVE r[u].rank < r[v].rank
  <2>1. <<u, v>> \in R
    BY <1>1, <1>5, <1>7
  <2>2. Cardinality(Under(R, E, u)) < Cardinality(Under(R, E, v))
    BY <1>4, <2>1, UnderGrows
  <2>3. Cardinality(Under(R, E, u)) \in Nat /\ Cardinality(Under(R, E, v)) \in Nat
    BY <1>4, UnderFinite
  <2> QED
    BY <1>2, <2>2, <2>3
<1> QED
  BY <1>1, <1>3, <1>6, <1>7 DEF RanksExactIn, r

-----------------------------------------------------------------------------
(* The board.                                                                *)

(* A batch is a finite set of events whose owners are known.                 *)
LEMMA BatchIs ==
    ASSUME LogTypeOK, OwnersKnown
    PROVE  /\ Batch \subseteq Ids /\ IsFiniteSet(Batch)
           /\ \A i \in Batch : owner[i] \in Users
           /\ Batch # {} => Max(Batch) \in Batch
<1>1. Batch \subseteq Ids /\ \A i \in Batch : event[i] = "COMMITTED"
  BY DEF Batch, Committed
<1>2. IsFiniteSet(Batch)
  BY <1>1, IdsFinite
<1>3. \A i \in Batch : owner[i] \in Users
  BY <1>1 DEF OwnersKnown
<1>4. ASSUME Batch # {} PROVE Max(Batch) \in Batch
  <2> DEFINE Above == {p \in Ids \X Ids : p[1] > p[2]}
  <2>1. \A i \in Batch : i \in Ids /\ i \in Int
    BY <1>1, BoundsAssumption DEF Ids
  <2>2. \A i, j \in Batch : <<i, j>> \in Above <=> i > j
    BY <2>1
  <2>3. Orders(Above, Batch)
    BY <2>1, <2>2 DEF Orders
  <2>4. \E i \in Batch : \A j \in Batch \ {i} : <<i, j>> \in Above
    BY <1>2, <1>4, <2>3, FirstExists
  <2> HIDE DEF Above
  <2>5. PICK i \in Batch : \A j \in Batch \ {i} : <<i, j>> \in Above
    BY <2>4
  <2>6. ASSUME NEW j \in Batch PROVE i >= j
    <3>1. i \in Int /\ j \in Int
      BY <2>1
    <3>2. i = j \/ i > j
      BY <2>2, <2>5
    <3> QED
      BY <3>1, <3>2
  <2> QED
    BY <2>6 DEF Max
<1> QED
  BY <1>1, <1>2, <1>3, <1>4

(* The type invariant, with the users and the ranks of finalizers taken together. *)
LEMMA TypeOKIs ==
    TypeOK <=> /\ LogTypeOK /\ IsBoard(board)
               /\ lw \in [at : {"idle", "gathered", "applied"}, users : SUBSET Users,
                          max : 0 .. MaxId]
               /\ cursor \in 0 .. MaxId
               /\ final = NotFinal \/ IsRanking(final)
               /\ DOMAIN fin = Finalizers
               /\ \A f \in Finalizers :
                      /\ DOMAIN fin[f] = {"at", "winners"}
                      /\ fin[f].at \in {"idle", "due", "finalized", "issuing"}
                      /\ IsRanking(fin[f].winners)
               /\ rewards \subseteq Reward
               /\ crashes \in 0 .. MaxCrashes
  BY DEF TypeOK, IsBoard

(* Whatever happens to the board, it stays finite and well typed, and after  *)
(* each transaction its ranks are exact.                                     *)
LEMMA BoardStep ==
    ASSUME Inv, [Next]_vars
    PROVE  IsBoard(board') /\ IsFiniteSet(DOMAIN board') /\ RanksExactIn(board')
<1>t. /\ LogTypeOK /\ IsBoard(board) /\ IsFiniteSet(DOMAIN board) /\ RanksExactIn(board)
      /\ lw.users \subseteq Users /\ IsFiniteSet(lw.users)
  BY TypeOKIs DEF Inv, FiniteBoard, RanksAreExact, RanksExactIn
<1>1. CASE UNCHANGED board
  BY <1>t, <1>1
<1>2. ASSUME NEW b, IsBoard(b), IsFiniteSet(DOMAIN b), board' = Rerank(b)
      PROVE  IsBoard(board') /\ IsFiniteSet(DOMAIN board') /\ RanksExactIn(board')
  BY <1>2, RerankKeeps, RerankIsExact
<1>3. ASSUME NEW elig \in SUBSET lw.users, ApplySlice(elig)
      PROVE  IsBoard(board') /\ IsFiniteSet(DOMAIN board') /\ RanksExactIn(board')
  <2> DEFINE b == [u \in DOMAIN board \cup lw.users |->
                      IF u \in lw.users THEN UpsertState(u, u \in elig) ELSE board[u]]
  <2>1. board' = board \/ board' = Rerank(b)
    BY <1>3 DEF ApplySlice
  <2>2. DOMAIN b = DOMAIN board \cup lw.users /\ DOMAIN b \subseteq Users
    BY <1>t DEF IsBoard
  <2>3. IsFiniteSet(DOMAIN b)
    BY <1>t, <2>2, FS_Union
  <2>4. ASSUME NEW u \in lw.users PROVE UpsertState(u, u \in elig) \in Row
    <3> DEFINE k == IF u \in DOMAIN board THEN board[u].rank ELSE 0
    <3>1. k \in Nat
      BY <1>t DEF IsBoard, Row
    <3>2. ASSUME NEW e \in BOOLEAN PROVE UpsertState(u, e) \in Row
      <4>1. UpsertState(u, e) =
                [score |-> ComputeScore(u).score, tieTime |-> ComputeScore(u).tieTime,
                 tieId |-> ComputeScore(u).tieId, eligible |-> e, rank |-> k]
        BY DEF UpsertState
      <4> HIDE DEF k
      <4> QED
        BY <1>t, <3>1, <4>1, ScoreType DEF Row
    <3>3. (u \in elig) = TRUE \/ (u \in elig) = FALSE
      OBVIOUS
    <3> QED
      BY <3>2, <3>3
  <2>5. IsBoard(b)
    BY <1>t, <2>2, <2>4 DEF IsBoard
  <2> HIDE DEF b
  <2> QED
    BY <1>t, <1>2, <2>1, <2>3, <2>5
<1>4. ASSUME NEW f \in Finalizers, Finalize(f)
      PROVE  IsBoard(board') /\ IsFiniteSet(DOMAIN board') /\ RanksExactIn(board')
  BY <1>t, <1>2, <1>4 DEF Finalize
<1>5. CASE LogNext /\ UNCHANGED <<board, worker, closing, crashes>>
  BY <1>1, <1>5
<1>6. CASE Gather \/ SetCursor \/ LwFails
  BY <1>1, <1>6 DEF Gather, SetCursor, LwFails
<1>7. ASSUME NEW f \in Finalizers,
             \/ FindDue(f) \/ AlreadyFinalized(f) \/ IdentifyWinners(f) \/ Issue(f) \/ EndTick(f)
             \/ FinFails(f)
      PROVE  UNCHANGED board
  BY <1>7 DEF FindDue, AlreadyFinalized, IdentifyWinners, Issue, EndTick, FinFails
<1>8. CASE UNCHANGED vars
  BY <1>1, <1>8 DEF vars
<1> QED
  BY <1>1, <1>3, <1>4, <1>5, <1>6, <1>7, <1>8 DEF Next, LeaderboardNext

-----------------------------------------------------------------------------
(* Types.                                                                    *)

(* The ranks of the eligible rows of an exactly ranked board are a ranking.  *)
LEMMA RanksRank ==
    ASSUME NEW b, IsBoard(b), IsFiniteSet(DOMAIN b), RanksExactIn(b), NEW S \in SUBSET Eligible(b)
    PROVE  IsRanking([u \in S |-> b[u].rank]) /\ [u \in S |-> b[u].rank] # NotFinal
<1>1. S \subseteq Users
  BY DEF Eligible, IsBoard
<1>2. \A u \in S : b[u].rank \in 1 .. Cardinality(Eligible(b))
  BY DEF RanksExactIn
<1>3. \A u \in S : b[u].rank \in Nat \ {0}
  BY <1>2
<1>4. [u \in S |-> b[u].rank] \in [S -> Nat]
  BY <1>3
<1> QED
  BY <1>1, <1>3, <1>4, NotFinalAssumption DEF IsRanking

(* Every step keeps the worker's types, and the users it gathered finite.    *)
LEMMA WorkerTypes ==
    ASSUME Inv, [Next]_vars
    PROVE  /\ lw' \in [at : {"idle", "gathered", "applied"}, users : SUBSET Users, max : 0 .. MaxId]
           /\ IsFiniteSet(lw'.users) /\ cursor' \in 0 .. MaxId /\ crashes' \in 0 .. MaxCrashes
<1>t. /\ LogTypeOK /\ OwnersKnown /\ IsFiniteSet(lw.users) /\ cursor \in 0 .. MaxId
      /\ lw \in [at : {"idle", "gathered", "applied"}, users : SUBSET Users, max : 0 .. MaxId]
      /\ crashes \in 0 .. MaxCrashes /\ MaxCrashes \in Nat /\ MaxId \in Nat
  BY TypeOKIs, WeekAssumption, BoundsAssumption DEF Inv, FiniteBoard
<1> DEFINE Goal == /\ lw' \in [at : {"idle", "gathered", "applied"}, users : SUBSET Users,
                              max : 0 .. MaxId]
                   /\ IsFiniteSet(lw'.users)
                   /\ cursor' \in 0 .. MaxId /\ crashes' \in 0 .. MaxCrashes
<1>0. IdleLw \in [at : {"idle", "gathered", "applied"}, users : SUBSET Users, max : 0 .. MaxId]
      /\ IsFiniteSet(IdleLw.users)
  BY <1>t, FS_EmptySet DEF IdleLw
<1>1. CASE UNCHANGED <<lw, cursor, crashes>>
  BY <1>t, <1>1
<1>2. ASSUME Gather PROVE Goal
  <2> DEFINE S == {j \in Batch : created[j] < WeekEnd}
             us == {owner[i] : i \in S}
             g == [i \in S |-> owner[i]]
  <2>1. lw' = [at |-> "gathered", max |-> Max(Batch), users |-> us] /\ Batch # {}
    BY <1>2 DEF Gather
  <2>2. UNCHANGED <<cursor, crashes>>
    BY <1>2 DEF Gather
  <2>3. Max(Batch) \in 0 .. MaxId
    <3>1. Max(Batch) \in Ids
      BY <1>t, <2>1, BatchIs
    <3> QED
      BY <1>t, <3>1 DEF Ids
  <2>4. us \subseteq Users
    BY <1>t, BatchIs
  <2>5. IsFiniteSet(S)
    <3>1. S \in SUBSET Ids
      BY <1>t, BatchIs
    <3> QED
      BY <3>1, IdsFinite
  <2>6. g \in Surjection(S, us)
    BY DEF Surjection
  <2>7. IsFiniteSet(us)
    BY <2>5, <2>6, FS_Surjection
  <2> HIDE DEF us
  <2> QED
    BY <1>t, <2>1, <2>2, <2>3, <2>4, <2>7
<1>3. ASSUME NEW elig \in SUBSET lw.users, ApplySlice(elig) PROVE Goal
  <2>1. lw' = [lw EXCEPT !.at = "applied"] /\ UNCHANGED <<cursor, crashes>>
    BY <1>3 DEF ApplySlice
  <2>2. lw'.users = lw.users
    BY <1>t, <2>1
  <2>3. lw' \in [at : {"idle", "gathered", "applied"}, users : SUBSET Users, max : 0 .. MaxId]
    BY <1>t, <2>1
  <2> QED
    BY <1>t, <2>1, <2>2, <2>3
<1>4. ASSUME SetCursor \/ LwFails PROVE Goal
  <2>1. lw' = IdleLw /\ (cursor' = lw.max \/ cursor' = cursor)
        /\ (crashes' = crashes \/ (crashes < MaxCrashes /\ crashes' = crashes + 1))
    BY <1>4 DEF SetCursor, LwFails
  <2>2. cursor' \in 0 .. MaxId /\ crashes' \in 0 .. MaxCrashes
    BY <1>t, <2>1
  <2> QED
    BY <1>0, <2>1, <2>2
<1>5. ASSUME NEW f \in Finalizers, FinFails(f) PROVE Goal
  <2>1. crashes < MaxCrashes /\ crashes' = crashes + 1 /\ UNCHANGED <<lw, cursor>>
    BY <1>5 DEF FinFails, worker
  <2> QED
    BY <1>t, <2>1
<1>6. ASSUME NEW f \in Finalizers,
             \/ FindDue(f) \/ Finalize(f) \/ AlreadyFinalized(f) \/ IdentifyWinners(f)
             \/ Issue(f) \/ EndTick(f)
      PROVE  UNCHANGED <<lw, cursor, crashes>>
  BY <1>6 DEF FindDue, Finalize, AlreadyFinalized, IdentifyWinners, Issue, EndTick, worker
<1>7. CASE LogNext /\ UNCHANGED <<board, worker, closing, crashes>>
  BY <1>1, <1>7 DEF worker
<1>8. CASE UNCHANGED vars
  BY <1>1, <1>8 DEF vars, worker
<1> QED
  BY <1>1, <1>2, <1>3, <1>4, <1>5, <1>6, <1>7, <1>8 DEF Next, LeaderboardNext

(* What a finalizer may hold.                                                *)
IsTick(t) ==
    /\ DOMAIN t = {"at", "winners"}
    /\ t.at \in {"idle", "due", "finalized", "issuing"}
    /\ IsRanking(t.winners)

(* The values a finalizer's tick goes through are of its type.               *)
LEMMA TickTypes ==
    /\ IsTick(IdleFin)
    /\ \A w : IsRanking(w) => IsTick([at |-> "issuing", winners |-> w])
    /\ \A t, s : IsTick(t) /\ s \in {"idle", "due", "finalized", "issuing"}
                     => IsTick([t EXCEPT !.at = s])
    /\ \A t, w : IsTick(t) /\ IsRanking(w) => IsTick([t EXCEPT !.winners = w])
<1>1. IsRanking(<<>>)
  BY DEF IsRanking
<1>2. IsTick(IdleFin)
  BY <1>1 DEF IsTick, IdleFin
<1>3. \A w : IsRanking(w) => IsTick([at |-> "issuing", winners |-> w])
  BY DEF IsTick
<1>4. ASSUME NEW t, NEW s \in {"idle", "due", "finalized", "issuing"}, IsTick(t)
      PROVE  IsTick([t EXCEPT !.at = s])
  BY <1>4 DEF IsTick
<1>5. ASSUME NEW t, NEW w, IsRanking(w), IsTick(t) PROVE IsTick([t EXCEPT !.winners = w])
  BY <1>5 DEF IsTick
<1> QED
  BY <1>2, <1>3, <1>4, <1>5

(* One step of the closing of the week: the finalization row, the ticks of   *)
(* the finalizers and the rewards keep their types, the week is finalized    *)
(* once, and whoever is rewarded was not rewarded before.                    *)
Closing(fl, fn, rw) ==
    /\ fl = NotFinal \/ IsRanking(fl)
    /\ DOMAIN fn = Finalizers /\ \A f \in Finalizers : IsTick(fn[f])
    /\ rw \subseteq Reward
    /\ fl = NotFinal => rw = {} /\ \A f \in Finalizers : fn[f].at \notin {"finalized", "issuing"}
    /\ \A f, g \in Finalizers :
           fn[f].at \in {"finalized", "issuing"} /\ fn[g].at \in {"finalized", "issuing"} => f = g
    /\ \A f \in Finalizers :
           /\ fn[f].at = "finalized" => rw = {}
           /\ fn[f].at = "issuing" => \A r \in rw : r.user \notin DOMAIN fn[f].winners
    /\ \A r, q \in rw : r.user = q.user => r = q

(* The inductive invariant, with its part on finalization as a predicate of values. *)
LEMMA ClosingIs ==
    Inv <=> /\ LogTypeOK /\ OwnersKnown /\ IsBoard(board) /\ FiniteBoard /\ RanksExactIn(board)
            /\ lw \in [at : {"idle", "gathered", "applied"}, users : SUBSET Users,
                       max : 0 .. MaxId]
            /\ cursor \in 0 .. MaxId /\ crashes \in 0 .. MaxCrashes
            /\ Closing(final, fin, rewards)
  BY TypeOKIs DEF Inv, RanksAreExact, RanksExactIn, OneFinalizer, OneTierPerUser, Closing, IsTick

(* The steps of a finalizer, each on its own tick.                           *)
LEMMA ClosingStep ==
    ASSUME Inv, [Next]_vars
    PROVE  Closing(final', fin', rewards')
<1>t. /\ Closing(final, fin, rewards) /\ IsBoard(board) /\ IsFiniteSet(DOMAIN board)
      /\ RanksExactIn(board)
  BY ClosingIs DEF FiniteBoard
<1>b. IsBoard(board') /\ IsFiniteSet(DOMAIN board') /\ RanksExactIn(board')
  BY BoardStep
<1>1. CASE UNCHANGED <<final, fin, rewards>>
  BY <1>t, <1>1
(* A tick that neither finalizes nor rewards.                                *)
<1>2. ASSUME NEW f \in Finalizers, NEW t, IsTick(t), t.at \notin {"finalized", "issuing"},
             fin' = [fin EXCEPT ![f] = t], UNCHANGED <<final, rewards>>
      PROVE  Closing(final', fin', rewards')
  <2>1. DOMAIN fin' = Finalizers /\ fin'[f] = t /\ \A g \in Finalizers : g # f => fin'[g] = fin[g]
    BY <1>t, <1>2 DEF Closing
  <2>2. \A g \in Finalizers : IsTick(fin'[g])
    BY <1>t, <1>2, <2>1 DEF Closing
  <2>3. \A g \in Finalizers : fin'[g].at \in {"finalized", "issuing"} => g # f
    BY <1>2, <2>1
  <2> QED
    BY <1>t, <1>2, <2>1, <2>2, <2>3 DEF Closing
<1>3. ASSUME NEW f \in Finalizers, FindDue(f) PROVE Closing(final', fin', rewards')
  <2> DEFINE t == [fin[f] EXCEPT !.at = "due"]
  <2>1. IsTick(fin[f])
    BY <1>t DEF Closing
  <2>2. IsTick(t)
    BY <2>1, TickTypes
  <2>3. t.at = "due"
    BY <2>1 DEF IsTick
  <2>4. fin' = [fin EXCEPT ![f] = t] /\ UNCHANGED <<final, rewards>>
    BY <1>3 DEF FindDue
  <2> HIDE DEF t
  <2> QED
    BY <1>2, <2>2, <2>3, <2>4
<1>4. ASSUME NEW f \in Finalizers, AlreadyFinalized(f) \/ EndTick(f) \/ FinFails(f)
      PROVE  Closing(final', fin', rewards')
  <2>1. fin' = [fin EXCEPT ![f] = IdleFin] /\ UNCHANGED <<final, rewards>>
    BY <1>4 DEF AlreadyFinalized, EndTick, FinFails
  <2>2. IsTick(IdleFin) /\ IdleFin.at = "idle"
    BY TickTypes DEF IdleFin
  <2> HIDE DEF IdleFin
  <2> QED
    BY <1>2, <2>1, <2>2
<1>5. ASSUME NEW f \in Finalizers, Finalize(f) PROVE Closing(final', fin', rewards')
  <2> DEFINE t == [fin[f] EXCEPT !.at = "finalized"]
  <2>1. IsTick(fin[f])
    BY <1>t DEF Closing
  <2>2. IsTick(t)
    BY <2>1, TickTypes
  <2>3. t.at = "finalized"
    BY <2>1 DEF IsTick
  <2>4. fin' = [fin EXCEPT ![f] = t] /\ UNCHANGED rewards /\ final = NotFinal
    BY <1>5 DEF Finalize
  <2>5. final' = [u \in Eligible(board') |-> board'[u].rank]
    BY <1>5 DEF Finalize
  <2>6. final' # NotFinal /\ IsRanking(final')
    BY <1>b, <2>5, RanksRank
  <2> HIDE DEF t
  <2>7. DOMAIN fin' = Finalizers /\ fin'[f] = t /\ \A g \in Finalizers : g # f => fin'[g] = fin[g]
    BY <1>t, <2>4 DEF Closing
  <2>8. /\ rewards = {} /\ \A g \in Finalizers : fin[g].at \notin {"finalized", "issuing"}
    BY <1>t, <2>4 DEF Closing
  <2>9. \A g \in Finalizers : fin'[g].at \in {"finalized", "issuing"} => g = f
    BY <2>7, <2>8
  <2>10. \A g \in Finalizers : IsTick(fin'[g])
    BY <1>t, <2>2, <2>7 DEF Closing
  <2> QED
    BY <2>4, <2>6, <2>7, <2>8, <2>9, <2>10 DEF Closing
<1>6. ASSUME NEW f \in Finalizers, IdentifyWinners(f) PROVE Closing(final', fin', rewards')
  <2> DEFINE W == {v \in Eligible(board) : board[v].rank \in 1 .. 10}
             w == [u \in W |-> board[u].rank]
             t == [at |-> "issuing", winners |-> w]
  <2>1. fin' = [fin EXCEPT ![f] = t] /\ UNCHANGED <<final, rewards>> /\ fin[f].at = "finalized"
    BY <1>6 DEF IdentifyWinners
  <2>2. IsRanking(w)
    BY <1>t, RanksRank
  <2> HIDE DEF w
  <2>3. IsTick(t) /\ t.at = "issuing"
    BY <2>2, TickTypes
  <2> HIDE DEF t
  <2>4. DOMAIN fin' = Finalizers /\ fin'[f] = t /\ \A g \in Finalizers : g # f => fin'[g] = fin[g]
    BY <1>t, <2>1 DEF Closing
  <2>5. rewards = {} /\ final # NotFinal
    BY <1>t, <2>1 DEF Closing
  <2>6. \A g \in Finalizers : fin'[g].at \in {"finalized", "issuing"} => g = f
    BY <1>t, <2>1, <2>4 DEF Closing
  <2>7. \A g \in Finalizers : IsTick(fin'[g])
    BY <1>t, <2>3, <2>4 DEF Closing
  <2> QED
    BY <1>t, <2>1, <2>4, <2>5, <2>6, <2>7 DEF Closing
<1>7. ASSUME NEW f \in Finalizers, Issue(f) PROVE Closing(final', fin', rewards')
  <2> DEFINE winners == fin[f].winners
  <2>1. /\ fin[f].at = "issuing" /\ IsTick(fin[f]) /\ IsRanking(winners)
        /\ \A r \in rewards : r.user \notin DOMAIN winners
    BY <1>t, <1>7 DEF Issue, Closing, IsTick
  <2>2. PICK u \in DOMAIN winners :
            /\ rewards' = rewards \cup {[user |-> u, tier |-> Tier(winners[u])]}
            /\ fin' = [fin EXCEPT ![f].winners = [v \in DOMAIN winners \ {u} |-> winners[v]]]
    BY <1>7 DEF Issue
  <2>3. UNCHANGED final
    BY <1>7 DEF Issue
  <2> DEFINE w == [v \in DOMAIN winners \ {u} |-> winners[v]]
             t == [fin[f] EXCEPT !.winners = w]
             new == [user |-> u, tier |-> Tier(winners[u])]
  <2> HIDE DEF winners
  <2>4. IsRanking(w) /\ DOMAIN w = DOMAIN winners \ {u}
    BY <2>1 DEF IsRanking
  <2>5. new \in Reward /\ new.user = u
    BY <2>1 DEF IsRanking, Reward, Tiers, Tier
  <2> HIDE DEF w, new
  <2>6. IsTick(t) /\ t.at = "issuing" /\ t.winners = w
    <3>1. IsTick(t)
      BY <2>1, <2>4, TickTypes
    <3> QED
      BY <2>1, <3>1 DEF IsTick
  <2>7. fin' = [fin EXCEPT ![f] = t] /\ rewards' = rewards \cup {new}
    BY <2>2 DEF w, new, winners
  <2> HIDE DEF t
  <2>8. DOMAIN fin' = Finalizers /\ fin'[f] = t /\ \A g \in Finalizers : g # f => fin'[g] = fin[g]
    BY <1>t, <2>7 DEF Closing
  <2>9. \A g \in Finalizers : IsTick(fin'[g])
    BY <1>t, <2>6, <2>8 DEF Closing
  <2>10. final # NotFinal
    BY <1>t, <2>1 DEF Closing
  <2>11. \A g \in Finalizers : fin'[g].at \in {"finalized", "issuing"} => g = f
    BY <1>t, <2>1, <2>8 DEF Closing
  <2>12. \A r \in rewards' : r.user \notin DOMAIN w
    BY <2>1, <2>4, <2>5, <2>7
  <2>13. \A r, q \in rewards' : r.user = q.user => r = q
    BY <1>t, <2>1, <2>5, <2>7 DEF Closing
  <2>14. rewards' \subseteq Reward
    BY <1>t, <2>5, <2>7 DEF Closing
  <2> QED
    BY <1>t, <2>3, <2>6, <2>8, <2>9, <2>10, <2>11, <2>12, <2>13, <2>14 DEF Closing
<1>8. CASE LogNext /\ UNCHANGED <<board, worker, closing, crashes>>
  BY <1>1, <1>8 DEF closing
<1>9. CASE Gather \/ (\E elig \in SUBSET lw.users : ApplySlice(elig)) \/ SetCursor \/ LwFails
  BY <1>1, <1>9 DEF Gather, ApplySlice, SetCursor, LwFails, closing
<1>10. CASE UNCHANGED vars
  BY <1>1, <1>10 DEF vars, closing
<1> QED
  BY <1>3, <1>4, <1>5, <1>6, <1>7, <1>8, <1>9, <1>10 DEF Next, LeaderboardNext

-----------------------------------------------------------------------------
(* The theorems.                                                             *)

(* The inductive invariant holds at first.                                   *)
LEMMA InvInit == Init => Inv
<1> SUFFICES ASSUME Init PROVE Inv
  OBVIOUS
<1>1. LogTypeOK /\ OwnersKnown
  BY LogStarts DEF Init
<1>3. DOMAIN board = {} /\ Eligible(board) = {}
  BY DEF Init, Eligible
<1>4. IsBoard(board) /\ RanksExactIn(board)
  <2>1. Cardinality(Eligible(board)) = 0
    BY <1>3, FS_EmptySet
  <2> QED
    BY <1>3, <2>1 DEF IsBoard, RanksExactIn
<1>5. FiniteBoard
  BY <1>3, FS_EmptySet DEF FiniteBoard, Init, IdleLw
<1>6. /\ lw \in [at : {"idle", "gathered", "applied"}, users : SUBSET Users, max : 0 .. MaxId]
      /\ cursor \in 0 .. MaxId /\ crashes \in 0 .. MaxCrashes
  BY BoundsAssumption, WeekAssumption DEF Init, IdleLw
<1>7. Closing(final, fin, rewards)
  <2>1. \A f \in Finalizers : fin[f] = IdleFin
    BY DEF Init
  <2>2. IsTick(IdleFin) /\ IdleFin.at = "idle"
    BY TickTypes DEF IdleFin
  <2>3. final = NotFinal /\ rewards = {} /\ DOMAIN fin = Finalizers
    BY DEF Init
  <2> HIDE DEF IdleFin
  <2> QED
    BY <2>1, <2>2, <2>3 DEF Closing
<1> QED
  BY <1>1, <1>4, <1>5, <1>6, <1>7, ClosingIs

(* Every step keeps the inductive invariant.                                 *)
LEMMA InvStep == Inv /\ [Next]_vars => Inv'
<1> SUFFICES ASSUME Inv, [Next]_vars PROVE Inv'
  OBVIOUS
<1>1. LogTypeOK' /\ OwnersKnown'
  <2>1. LogNext \/ UNCHANGED log
    BY DEF Next, LeaderboardNext, vars, Gather, ApplySlice, SetCursor, LwFails, FindDue, Finalize,
           AlreadyFinalized, IdentifyWinners, Issue, EndTick, FinFails
  <2> QED
    BY <2>1, ClosingIs, LogStep
<1>2. IsBoard(board') /\ IsFiniteSet(DOMAIN board') /\ RanksExactIn(board')
  BY BoardStep
<1>3. /\ lw' \in [at : {"idle", "gathered", "applied"}, users : SUBSET Users, max : 0 .. MaxId]
      /\ IsFiniteSet(lw'.users) /\ cursor' \in 0 .. MaxId /\ crashes' \in 0 .. MaxCrashes
  BY WorkerTypes
<1>4. Closing(final', fin', rewards')
  BY ClosingStep
<1>5. FiniteBoard'
  BY <1>2, <1>3 DEF FiniteBoard
<1>6. TypeOK'
  BY <1>1, <1>2, <1>3, <1>4 DEF TypeOK, IsBoard, Closing, IsTick
<1>7. RanksAreExact'
  BY <1>2 DEF RanksAreExact, RanksExactIn, Eligible, Ahead
<1>8. OneFinalizer' /\ OneTierPerUser'
  BY <1>4 DEF OneFinalizer, OneTierPerUser, Closing
<1> QED
  BY <1>1, <1>5, <1>6, <1>7, <1>8 DEF Inv

(* In every reachable state: types, ranks, the one finalization of the week  *)
(* and the rewards of its winners.                                           *)
THEOREM Invariance == Spec => []Inv
  BY InvInit, InvStep, PTL DEF Spec

(* The log, the board, the ticks of all workers and the rewards keep their   *)
(* types; every rank and every reward is of a user.                          *)
THEOREM TypeCorrect == Spec => []TypeOK
<1>1. Inv => TypeOK
  BY DEF Inv
<1> QED
  BY <1>1, Invariance, PTL

(* After every transaction on the board the ranks are 1 .. n over its        *)
(* eligible rows in the order of scores, tie-breaks and user ids, whatever   *)
(* slice of users it wrote and whoever became eligible or ceased to be.      *)
THEOREM RanksExact == Spec => []RanksAreExact
<1>1. Inv => RanksAreExact
  BY DEF Inv
<1> QED
  BY <1>1, Invariance, PTL

(* Nobody is rewarded in two tiers of the week, however many finalizers find *)
(* the week due and wherever they fail.                                      *)
THEOREM OneTier == Spec => []OneTierPerUser
<1>1. Inv => OneTierPerUser
  BY DEF Inv
<1> QED
  BY <1>1, Invariance, PTL
=============================================================================
