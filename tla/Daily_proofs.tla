---------------------------- MODULE Daily_proofs ----------------------------
(***************************************************************************)
(* Proofs about what a day's votes move: for any windows, bricks, votes,   *)
(* challenges, recheck settings and rows to link.                          *)
(***************************************************************************)
EXTENDS Daily, SharedLemmas

-----------------------------------------------------------------------------
(* A user's sessions and streaks.                                            *)

(* The bricks counted in a window, the completed windows, their days.        *)
SessionKinds == {"MORNING", "EVENING"}
WindowIds == DOMAIN WindowKind
CountedBricks(w) == {b \in Bricks : <<w, b>> \in sCounts}
Completed == {w \in WindowIds : sAfter[w] > 0}
CompletedOf(k) == {w \in Completed : WindowKind[w] = k}
CompletedDays(k) == {WindowDay[w] : w \in CompletedOf(k)}

(* Votes come in the order of their windows, and no completed window is later *)
(* than a vote the cursor has still before it.                               *)
VotesInOrder ==
    /\ \A i, j \in DOMAIN sVotes : i <= j => sVotes[i].window <= sVotes[j].window
    /\ \A i \in DOMAIN sVotes : sVotes[i].window <= sNow
    /\ \A u \in Completed :
          u <= sNow /\ \A i \in DOMAIN sVotes : sCursor < i => u <= sVotes[i].window

(* A batch is the votes after the cursor, one by one.                        *)
BatchFits ==
    /\ sCursor <= Len(sVotes)
    /\ \/ sWorker = Session!IdleWorker
       \/ /\ sWorker.step \in {"fetched", "saved"} /\ sWorker.batch # <<>>
          /\ \A i \in DOMAIN sWorker.batch :
                sWorker.batch[i] = sCursor + i /\ sCursor + i <= Len(sVotes)

(* A stance is a vote on its brick, the last of those the cursor has passed   *)
(* or the one right after it.                                                *)
StancesFit ==
    /\ \A b \in Bricks :
          /\ sActive[b] <= sCursor + 1
          /\ sActive[b] # 0 => sActive[b] \in DOMAIN sVotes /\ sVotes[sActive[b]].brick = b
    /\ \A i \in 1 .. sCursor : i <= sActive[sVotes[i].brick]
    /\ sWorker.step = "saved" => sActive[sVotes[sCursor + 1].brick] = sCursor + 1

(* The partial count never exceeds the rows, and is exact but in the window   *)
(* that the guest's conversion writes into.                                  *)
SessionRowsFit(w) ==
    /\ CountedBricks(w) \subseteq WindowItems[w]
    /\ sPartial[w] <= Cardinality(CountedBricks(w))
    /\ w \in Completed => Cardinality(CountedBricks(w)) >= Session!Target(w)
    /\ w # sGuest.window =>
          /\ Cardinality(CountedBricks(w)) >= Session!Target(w) => w \in Completed
          /\ sPartial[w] = IF CountedBricks(w) = {} THEN -1 ELSE Cardinality(CountedBricks(w))

(* A conversion under way has a window, and counted no more than its rows.    *)
GuestFits ==
    /\ sGuest.step = "none" => sGuest.window = 0
    /\ sGuest.step \in {"inserting", "counted"} => sGuest.window \in WindowIds
    /\ sGuest.step = "counted" => sGuest.count <= Cardinality(CountedBricks(sGuest.window))

(* The streak row of a kind is that of its last completion.                  *)
StreakRowFits(k) ==
    \/ /\ CompletedOf(k) = {}
       /\ sLastDay[k] = 0 /\ sStreak[k] = 0 /\ sLongest[k] = 0
    \/ /\ \E l \in CompletedOf(k) :
             /\ sLastDay[k] = WindowDay[l] /\ sStreak[k] = sAfter[l]
             /\ \A u \in CompletedOf(k) : WindowDay[u] <= WindowDay[l]
       /\ \E l \in CompletedOf(k) : sLongest[k] = sAfter[l]
       /\ \A u \in CompletedOf(k) : sAfter[u] <= sLongest[k]

Broken(w) == sAfter[w] = 1 /\ \E u \in CompletedOf(WindowKind[w]) : WindowDay[u] < WindowDay[w]
BreaksFit ==
    \A k \in SessionKinds, d \in Nat :
        <<k, d>> \in sBreaks <=> \E w \in CompletedOf(k) : WindowDay[w] = d /\ Broken(w)
RunsFit ==
    \A w \in Completed :
        sAfter[w] = Cardinality(RunOf(CompletedDays(WindowKind[w]), WindowDay[w]))

SessionInv ==
    /\ Session!TypeOK
    /\ VotesInOrder /\ BatchFits /\ StancesFit
    /\ \A w \in WindowIds : SessionRowsFit(w)
    /\ GuestFits
    /\ \A k \in SessionKinds : StreakRowFits(k)
    /\ BreaksFit /\ RunsFit

(* The windows are numbers, their days positive and in their order.           *)
LEMMA WindowsAre ==
    /\ WindowIds = 1 .. Len(WindowKind) /\ Len(WindowKind) \in Nat \ {0}
    /\ \A w \in WindowIds : /\ w \in Nat \ {0} /\ WindowKind[w] \in SessionKinds
                            /\ WindowDay[w] \in Nat \ {0} /\ WindowItems[w] \subseteq Bricks
                            /\ Session!Target(w) \in Nat \ {0}
    /\ \A v, w \in WindowIds : v < w =>
          /\ WindowDay[v] <= WindowDay[w]
          /\ WindowKind[v] = WindowKind[w] => WindowDay[v] < WindowDay[w]
<1> USE WindowsAssumption DEF WindowIds, SessionKinds
<1>1. WindowIds = 1 .. Len(WindowKind) /\ Len(WindowKind) \in Nat \ {0}
  OBVIOUS
<1>2. ASSUME NEW w \in WindowIds
      PROVE  /\ w \in Nat \ {0} /\ WindowKind[w] \in SessionKinds
             /\ WindowDay[w] \in Nat \ {0} /\ WindowItems[w] \subseteq Bricks
  BY <1>1
<1>3. ASSUME NEW w \in WindowIds PROVE Session!Target(w) \in Nat \ {0}
  BY <1>2, TargetsAssumption DEF Session!Target
<1>4. ASSUME NEW v \in WindowIds, NEW w \in WindowIds, v < w
      PROVE  /\ WindowDay[v] <= WindowDay[w]
             /\ WindowKind[v] = WindowKind[w] => WindowDay[v] < WindowDay[w]
  <2>1. WindowDay[v] \in Nat /\ WindowDay[w] \in Nat
    BY <1>2
  <2>2. /\ WindowDay[v] <= WindowDay[w]
        /\ WindowKind[v] = WindowKind[w] => WindowDay[v] # WindowDay[w]
    BY <1>4
  <2> QED
    BY <2>1, <2>2
<1> QED
  BY <1>1, <1>2, <1>3, <1>4

(* Rows are finitely many.                                                   *)
LEMMA RowsFinite ==
    ASSUME NEW w
    PROVE  IsFiniteSet(CountedBricks(w)) /\ Cardinality(CountedBricks(w)) \in Nat
<1>1. CountedBricks(w) \in SUBSET Bricks
  BY DEF CountedBricks
<1> QED
  BY <1>1, BricksAssumption, FS_Subset, FS_CardinalityType

(* A greatest element is the maximum.                                        *)
LEMMA MaximumIs ==
    ASSUME NEW S, S \subseteq Int, NEW x \in S, \A y \in S : y <= x
    PROVE  Session!Max(S) = x
<1>1. \A y \in S : (\A z \in S : y >= z) => y = x
  OBVIOUS
<1>2. \A y \in S : x >= y
  OBVIOUS
<1> QED
  BY <1>1, <1>2, Zenon DEF Session!Max

(* A set of numbers up to n has a greatest element.                          *)
LEMMA MaximumExists ==
    ASSUME NEW n \in Nat, NEW S, S \subseteq 0 .. n, S # {}
    PROVE  \E x \in S : \A y \in S : y <= x
<1> DEFINE Back == {n - y : y \in S}
<1>1. Back \subseteq Nat /\ Back # {}
  <2>1. \A y \in S : n - y \in Nat
    OBVIOUS
  <2>2. PICK y \in S : TRUE
    OBVIOUS
  <2>3. n - y \in Back
    OBVIOUS
  <2> QED
    BY <2>1, <2>3
<1>2. PICK m \in Back : \A k \in Back : m <= k
  BY <1>1, LeastNatural
<1>3. PICK x \in S : m = n - x
  OBVIOUS
<1>4. ASSUME NEW y \in S PROVE y <= x
  BY <1>2, <1>3
<1> QED
  BY <1>4

(* The maximum of two numbers.                                               *)
LEMMA LargerIs ==
    ASSUME NEW a \in Int, NEW b \in Int
    PROVE  Session!Max({a, b}) = IF a <= b THEN b ELSE a
<1>1. CASE a <= b
  BY <1>1, MaximumIs
<1>2. CASE ~(a <= b)
  BY <1>2, MaximumIs
<1> QED
  BY <1>1, <1>2

(* An element of a sequence.                                                *)
LEMMA ElementOfSeq ==
    ASSUME NEW S, NEW q \in Seq(S), NEW i \in DOMAIN q
    PROVE  q[i] \in S
  OBVIOUS

(* The rest of a sequence.                                                   *)
LEMMA TailOfSeq ==
    ASSUME NEW S, NEW q \in Seq(S), q # <<>>
    PROVE  /\ Tail(q) \in Seq(S) /\ Len(Tail(q)) = Len(q) - 1 /\ Head(q) \in S
           /\ \A i \in DOMAIN Tail(q) : i + 1 \in DOMAIN q /\ Tail(q)[i] = q[i + 1]
  OBVIOUS

(* The types, variable by variable.                                          *)
LEMMA SessionTypes ==
    ASSUME SessionInv
    PROVE  /\ sNow \in WindowIds /\ sCursor \in Nat
           /\ Len(sVotes) \in Nat /\ DOMAIN sVotes = 1 .. Len(sVotes)
           /\ \A i \in DOMAIN sVotes : sVotes[i].window \in WindowIds /\ sVotes[i].brick \in Bricks
           /\ sWorker.batch \in Seq(1 .. SessionVotes)
           /\ sActive \in [Bricks -> Nat]
           /\ sPartial \in [WindowIds -> Nat \cup {-1}] /\ sAfter \in [WindowIds -> Nat]
           /\ sStreak \in [SessionKinds -> Nat] /\ sLastDay \in [SessionKinds -> Nat]
           /\ sLongest \in [SessionKinds -> Nat]
           /\ sGuest.count \in Nat /\ sGuest.todo \in Seq(Bricks)
           /\ SessionVotes \in Nat
<1>1. Session!TypeOK /\ Session!Windows = WindowIds
  BY DEF SessionInv, Session!Windows, WindowIds
<1>2. sVotes \in Seq([window : WindowIds, brick : Bricks])
  BY <1>1, Zenon DEF Session!TypeOK
<1>3. Len(sVotes) \in Nat /\ DOMAIN sVotes = 1 .. Len(sVotes)
  BY <1>2
<1>4. ASSUME NEW i \in DOMAIN sVotes
      PROVE  sVotes[i].window \in WindowIds /\ sVotes[i].brick \in Bricks
  <2>1. PICK v \in [window : WindowIds, brick : Bricks] : v = sVotes[i]
    BY <1>2, ElementOfSeq, Zenon
  <2> QED
    BY <2>1
<1>5. sWorker.batch \in Seq(1 .. SessionVotes)
  <2>1. sWorker \in [step : {"idle", "fetched", "saved"}, batch : Seq(1 .. SessionVotes)]
    BY <1>1, Zenon DEF Session!TypeOK
  <2> QED
    BY <2>1
<1>6. /\ sNow \in WindowIds /\ sCursor \in 0 .. SessionVotes
      /\ sActive \in [Bricks -> 0 .. SessionVotes]
      /\ sPartial \in [WindowIds -> Nat \cup {-1}] /\ sAfter \in [WindowIds -> Nat]
      /\ sStreak \in [SessionKinds -> Nat] /\ sLastDay \in [SessionKinds -> Nat]
      /\ sLongest \in [SessionKinds -> Nat]
  BY <1>1, Zenon DEF Session!TypeOK, SessionKinds
<1>7. sGuest.count \in Nat /\ sGuest.todo \in Seq(Bricks)
  <2>1. sGuest \in [step : {"none", "inserting", "counted", "over"},
                    window : WindowIds \cup {0}, todo : Seq(Bricks), count : Nat]
    BY <1>1, Zenon DEF Session!TypeOK
  <2> QED
    BY <2>1
<1>8. sCursor \in Nat /\ sActive \in [Bricks -> Nat]
  BY <1>6, SessionsAssumption
<1> QED
  BY <1>3, <1>4, <1>5, <1>6, <1>7, <1>8, SessionsAssumption, Zenon

(* What the worker does with the vote after the cursor: it passes it over, or *)
(* counts its brick, and that may complete the window.                       *)
SoFar(w) == IF sPartial[w] <= 0 THEN 1 ELSE sPartial[w] + 1
Grown(w) == Session!NextStreak(sStreak[WindowKind[w]], sLastDay[WindowKind[w]], WindowDay[w])
CompletionRows == <<sAfter, sStreak, sLastDay, sLongest, sBreaks, sXp>>
Counts(w, b) ==
    /\ b \in WindowItems[w] /\ b \notin CountedBricks(w)
    /\ sCounts' = sCounts \cup {<<w, b>>}
    /\ sPartial' = [sPartial EXCEPT ![w] = SoFar(w)]
Completes(w) ==
    /\ SoFar(w) >= Session!Target(w) /\ sAfter[w] = 0
    /\ sAfter' = [sAfter EXCEPT ![w] = Grown(w)]
    /\ sStreak' = [sStreak EXCEPT ![WindowKind[w]] = Grown(w)]
    /\ sLastDay' = [sLastDay EXCEPT ![WindowKind[w]] = WindowDay[w]]
    /\ sLongest' = [sLongest EXCEPT ![WindowKind[w]] =
                        IF sLongest[WindowKind[w]] <= Grown(w) THEN Grown(w) ELSE @]
    /\ sBreaks' = IF sStreak[WindowKind[w]] > 0 /\ Grown(w) = 1
                  THEN sBreaks \cup {<<WindowKind[w], WindowDay[w]>>} ELSE sBreaks
    /\ sXp' = sXp \cup {<<"session_completion", w>>, <<"streak_bonus", w>>}

(* One vote processed: its stance, its brick counted in its window, and the   *)
(* window's completion when that brick was the last one.                      *)
LEMMA ProcessIs ==
    ASSUME SessionInv, Session!Process
    PROVE  \E id \in DOMAIN sVotes, w \in WindowIds, b \in Bricks :
              /\ id = sCursor + 1 /\ sVotes[id].window = w /\ sVotes[id].brick = b
              /\ sWorker.step = "fetched" /\ sWorker' = [sWorker EXCEPT !.step = "saved"]
              /\ sActive' = [sActive EXCEPT ![b] = id]
              /\ UNCHANGED <<sNow, sBuilt, sVotes, sCursor, sGuest>>
              /\ \/ UNCHANGED <<sCounts, sPartial, CompletionRows>>
                 \/ /\ Counts(w, b)
                    /\ \/ Completes(w)
                       \/ /\ UNCHANGED CompletionRows
                          /\ SoFar(w) < Session!Target(w) \/ sAfter[w] # 0
<1> DEFINE id == Head(sWorker.batch)
           w == sVotes[id].window
           b == sVotes[id].brick
<1>1. /\ sWorker.step = "fetched" /\ sWorker' = [sWorker EXCEPT !.step = "saved"]
      /\ Session!ProcessVote(id)
      /\ UNCHANGED <<sNow, sBuilt, sVotes, sCursor, sGuest>>
  BY DEF Session!Process
<1>2. /\ sWorker.batch \in Seq(1 .. SessionVotes) /\ sWorker.batch # <<>>
      /\ \A i \in DOMAIN sWorker.batch :
            sWorker.batch[i] = sCursor + i /\ sCursor + i <= Len(sVotes)
  BY <1>1 DEF SessionInv, BatchFits, Session!TypeOK, Session!IdleWorker
<1>3. id = sCursor + 1 /\ id <= Len(sVotes)
  BY <1>2, SessionTypes
<1>4. id \in DOMAIN sVotes /\ w \in WindowIds /\ b \in Bricks
  <2>1. id \in DOMAIN sVotes
    BY <1>3, SessionTypes
  <2> QED
    BY <2>1, SessionTypes
<1>5. sPartial[w] \in Int /\ WindowKind[w] \in SessionKinds
  <2>1. sPartial[w] \in Nat \cup {-1}
    BY <1>4, SessionTypes
  <2> QED
    BY <1>4, <2>1, WindowsAre
<1>6. Session!Max({sPartial[w], 0}) + 1 = SoFar(w)
  BY <1>5, LargerIs DEF SoFar
<1> HIDE DEF id
<1>7. sActive' = [sActive EXCEPT ![b] = id]
  BY <1>1, Zenon DEF Session!ProcessVote
<1>8. CASE ~Session!Creditable(sVotes[id])
  <2>1. UNCHANGED <<sCounts, sPartial, CompletionRows>>
    BY <1>1, <1>8, Zenon DEF Session!ProcessVote, CompletionRows
  <2> QED
    BY <1>1, <1>3, <1>4, <1>7, <2>1
<1>9. CASE Session!Creditable(sVotes[id])
  <2>1. Counts(w, b)
    <3>1. b \in WindowItems[w] /\ b \notin CountedBricks(w)
      BY <1>9 DEF Session!Creditable, CountedBricks
    <3>2. sCounts' = sCounts \cup {<<w, b>>}
      BY <1>1, <1>9, Zenon DEF Session!ProcessVote
    <3>3. sPartial' = [sPartial EXCEPT ![w] = Session!Max({sPartial[w], 0}) + 1]
      BY <1>1, <1>9, Zenon DEF Session!ProcessVote
    <3> QED
      BY <1>6, <3>1, <3>2, <3>3 DEF Counts
  <2>2. CASE SoFar(w) >= Session!Target(w) /\ sAfter[w] = 0
    <3>1. Session!Complete(w)
      BY <1>1, <1>6, <1>9, <2>2, Zenon DEF Session!ProcessVote
    <3>2. /\ sAfter' = [sAfter EXCEPT ![w] = Grown(w)]
          /\ sStreak' = [sStreak EXCEPT ![WindowKind[w]] = Grown(w)]
          /\ sLastDay' = [sLastDay EXCEPT ![WindowKind[w]] = WindowDay[w]]
          /\ sBreaks' = IF sStreak[WindowKind[w]] > 0 /\ Grown(w) = 1
                  THEN sBreaks \cup {<<WindowKind[w], WindowDay[w]>>} ELSE sBreaks
          /\ sXp' = sXp \cup {<<"session_completion", w>>, <<"streak_bonus", w>>}
          /\ sLongest' = [sLongest EXCEPT ![WindowKind[w]] = Session!Max({@, Grown(w)})]
      BY <3>1, Zenon DEF Session!Complete, Session!ApplyCompletion, Grown
    <3>3. /\ sLongest[WindowKind[w]] \in Int /\ sStreak[WindowKind[w]] \in Int
      BY <1>5, SessionTypes
    <3>4. Grown(w) \in Int
      BY <3>3 DEF Grown, Session!NextStreak
    <3>5. Session!Max({sLongest[WindowKind[w]], Grown(w)})
             = IF sLongest[WindowKind[w]] <= Grown(w) THEN Grown(w) ELSE sLongest[WindowKind[w]]
      BY <3>3, <3>4, LargerIs
    <3>6. Completes(w)
      BY <2>2, <3>2, <3>5, Zenon DEF Completes
    <3> QED
      BY <1>1, <1>3, <1>4, <1>7, <2>1, <3>6
  <2>3. CASE ~(SoFar(w) >= Session!Target(w) /\ sAfter[w] = 0)
    <3>1. UNCHANGED CompletionRows
      BY <1>1, <1>6, <1>9, <2>3, Zenon DEF Session!ProcessVote, CompletionRows
    <3>2. SoFar(w) < Session!Target(w) \/ sAfter[w] # 0
      BY <1>4, <1>5, <2>3, WindowsAre DEF SoFar
    <3> QED
      BY <1>1, <1>3, <1>4, <1>7, <2>1, <3>1, <3>2
  <2> QED
    BY <2>2, <2>3
<1> QED
  BY <1>8, <1>9

(* The minimum of two numbers.                                               *)
LEMMA LesserIs ==
    ASSUME NEW a \in Int, NEW b \in Int
    PROVE  Session!Min({a, b}) = IF a <= b THEN a ELSE b
<1>1. Session!Min({a, b}) = CHOOSE x \in {a, b} : \A y \in {a, b} : x <= y
  BY DEF Session!Min
<1>2. CASE a <= b
  BY <1>1, <1>2
<1>3. CASE ~(a <= b)
  BY <1>1, <1>3
<1> QED
  BY <1>2, <1>3

(* A fetch reads the votes after the cursor, at most a batch of them.        *)
LEMMA FetchIs ==
    ASSUME SessionInv, Session!Fetch
    PROVE  \E n \in Nat \ {0} :
              /\ sCursor + n <= Len(sVotes)
              /\ sWorker' = [step |-> "fetched", batch |-> [i \in 1 .. n |-> sCursor + i]]
              /\ UNCHANGED <<sNow, sBuilt, sVotes, sCursor, sActive, sCounts, sPartial,
                             CompletionRows, sGuest>>
<1> DEFINE n == Session!Min({Batch, Len(sVotes) - sCursor})
<1>1. sCursor \in Nat /\ Len(sVotes) \in Nat /\ sCursor < Len(sVotes)
  BY SessionTypes DEF Session!Fetch
<1>2. n = IF Batch <= Len(sVotes) - sCursor THEN Batch ELSE Len(sVotes) - sCursor
  BY <1>1, BatchAssumption, LesserIs
<1>3. n \in Nat \ {0} /\ sCursor + n <= Len(sVotes)
  BY <1>1, <1>2, BatchAssumption
<1>4. sWorker' = [step |-> "fetched", batch |-> [i \in 1 .. n |-> sCursor + i]]
  BY Zenon DEF Session!Fetch
<1>5. UNCHANGED <<sNow, sBuilt, sVotes, sCursor, sActive, sCounts, sPartial, CompletionRows,
                  sGuest>>
  BY DEF Session!Fetch, Session!progress, CompletionRows
<1> HIDE DEF n
<1> QED
  BY <1>3, <1>4, <1>5

(* A batch that is not empty begins with the vote after the cursor.          *)
LEMMA BatchHead ==
    ASSUME SessionInv, sWorker.step # "idle"
    PROVE  /\ sWorker.step \in {"fetched", "saved"} /\ sWorker.batch # <<>>
           /\ Head(sWorker.batch) = sCursor + 1 /\ sCursor + 1 \in DOMAIN sVotes
           /\ sCursor + 1 \in Nat
           /\ \A i \in DOMAIN sWorker.batch :
                 sWorker.batch[i] = sCursor + i /\ sCursor + i <= Len(sVotes)
<1>1. /\ sWorker.step \in {"fetched", "saved"} /\ sWorker.batch # <<>>
      /\ \A i \in DOMAIN sWorker.batch :
            sWorker.batch[i] = sCursor + i /\ sCursor + i <= Len(sVotes)
  BY DEF SessionInv, BatchFits, Session!IdleWorker
<1> QED
  BY <1>1, SessionTypes

WorkerSet == [step : {"idle", "fetched", "saved"}, batch : Seq(1 .. SessionVotes)]
GuestSet == [step : {"none", "inserting", "counted", "over"}, window : WindowIds \cup {0},
             todo : Seq(Bricks), count : Nat]
VoteSet == [window : WindowIds, brick : Bricks]

(* The worker's own variables keep their types.                              *)
LEMMA WorkerTyped ==
    ASSUME SessionInv, [Session!Next]_ofSessions
    PROVE  sWorker' \in WorkerSet /\ sCursor' \in 0 .. SessionVotes
<1>1. sWorker \in WorkerSet /\ sCursor \in 0 .. SessionVotes /\ Len(sVotes) <= SessionVotes
  BY Zenon DEF SessionInv, Session!TypeOK, WorkerSet
<1>2. Session!IdleWorker \in WorkerSet
  <2>1. <<>> \in Seq(1 .. SessionVotes)
    OBVIOUS
  <2> QED
    BY <2>1 DEF Session!IdleWorker, WorkerSet
<1>3. CASE Session!Fetch
  <2>1. PICK n \in Nat \ {0} :
            /\ sCursor + n <= Len(sVotes)
            /\ sWorker' = [step |-> "fetched", batch |-> [i \in 1 .. n |-> sCursor + i]]
    BY <1>3, FetchIs
  <2>2. [i \in 1 .. n |-> sCursor + i] \in Seq(1 .. SessionVotes)
    <3>1. \A i \in 1 .. n : sCursor + i \in 1 .. SessionVotes
      BY <1>1, <2>1, SessionTypes
    <3> QED
      BY <3>1
  <2>3. sWorker' \in WorkerSet
    BY <2>1, <2>2, Zenon DEF WorkerSet
  <2> QED
    BY <1>1, <1>3, <2>3 DEF Session!Fetch
<1>4. CASE Session!MoveCursor
  <2>1. sWorker.step # "idle" /\ sCursor' = sCursor + 1
    BY <1>4, BatchHead DEF Session!MoveCursor
  <2>2. sCursor' \in 0 .. SessionVotes
    BY <1>1, <2>1, BatchHead, SessionTypes
  <2>3. Tail(sWorker.batch) \in Seq(1 .. SessionVotes)
    BY <2>1, BatchHead, SessionTypes, TailOfSeq, Zenon
  <2>4. sWorker' \in WorkerSet
    BY <1>2, <1>4, <2>3 DEF Session!MoveCursor, WorkerSet
  <2> QED
    BY <2>2, <2>4
<1>5. CASE Session!Process
  BY <1>1, <1>5 DEF Session!Process, WorkerSet
<1>6. CASE Session!WorkerDies
  BY <1>1, <1>2, <1>6 DEF Session!WorkerDies
<1>7. CASE sWorker' = sWorker /\ sCursor' = sCursor
  BY <1>1, <1>7
<1> QED
  BY <1>3, <1>4, <1>5, <1>6, <1>7
  DEF Session!Next, Session!WorkerStep, ofSessions, Session!NextWindow, Session!BuildSet,
      Session!Vote, Session!ConvertBegin, Session!ConvertInsert, Session!ConvertCount,
      Session!ConvertWrite, Session!ConvertDies


(* Signup's own variable keeps its type.                                     *)
LEMMA GuestTyped ==
    ASSUME SessionInv, [Session!Next]_ofSessions
    PROVE  sGuest' \in GuestSet
<1>1. sGuest \in GuestSet
  BY Zenon DEF SessionInv, Session!TypeOK, GuestSet, Session!Windows, WindowIds
<1>2. \A q \in Seq(Bricks) : [Session!NewGuest EXCEPT !.step = "inserting", !.window = sNow,
                                                     !.todo = q] \in GuestSet
  BY SessionTypes DEF GuestSet, Session!NewGuest
<1>3. [Session!NewGuest EXCEPT !.step = "over", !.window = sGuest.window] \in GuestSet
  <2>1. <<>> \in Seq(Bricks) /\ 0 \in Nat
    OBVIOUS
  <2> QED
    BY <1>1, <2>1 DEF GuestSet, Session!NewGuest
<1>4. CASE Session!ConvertBegin
  BY <1>2, <1>4, SessionsAssumption DEF Session!ConvertBegin
<1>5. CASE Session!ConvertInsert
  <2>1. Tail(sGuest.todo) \in Seq(Bricks)
    BY <1>5, SessionTypes, TailOfSeq, Zenon DEF Session!ConvertInsert
  <2> QED
    BY <1>1, <1>5, <2>1 DEF Session!ConvertInsert, GuestSet
<1>6. CASE Session!ConvertCount
  <2>1. Session!Cardinality(Session!CountedIn(sGuest.window))
          = Cardinality(CountedBricks(sGuest.window))
    BY Zenon DEF Session!Cardinality, Cardinality, Session!CountedIn, CountedBricks
  <2>2. PICK n \in Nat : sGuest' = [sGuest EXCEPT !.step = "counted", !.count = n]
    BY <1>6, <2>1, RowsFinite DEF Session!ConvertCount
  <2> QED
    BY <1>1, <2>2 DEF GuestSet
<1>7. CASE Session!ConvertWrite \/ Session!ConvertDies
  BY <1>3, <1>7 DEF Session!ConvertWrite, Session!ConvertDies
<1>8. CASE sGuest' = sGuest
  BY <1>1, <1>8
<1> QED
  BY <1>4, <1>5, <1>6, <1>7, <1>8
  DEF Session!Next, Session!WorkerStep, ofSessions, Session!NextWindow, Session!BuildSet,
      Session!Vote, Session!Fetch, Session!Process, Session!MoveCursor, Session!WorkerDies

(* The counts keep their types.                                              *)
LEMMA RowsTyped ==
    ASSUME SessionInv, [Session!Next]_ofSessions
    PROVE  sCounts' \subseteq WindowIds \X Bricks /\ sPartial' \in [WindowIds -> Nat \cup {-1}]
<1>1. sCounts \subseteq WindowIds \X Bricks /\ sPartial \in [WindowIds -> Nat \cup {-1}]
  BY Zenon DEF SessionInv, Session!TypeOK, Session!Windows, WindowIds
<1>2. CASE Session!Process
  <2>1. PICK w \in WindowIds, b \in Bricks :
            UNCHANGED <<sCounts, sPartial>> \/ Counts(w, b)
    BY <1>2, ProcessIs
  <2>2. SoFar(w) \in Nat
    BY <1>1 DEF SoFar
  <2> QED
    BY <1>1, <2>1, <2>2 DEF Counts
<1>3. CASE Session!ConvertBegin
  <2>1. sPartial[sNow] \in Nat \cup {-1}
    BY <1>1, SessionTypes
  <2>2. Session!Max({sPartial[sNow], 0}) \in Nat
    BY <2>1, LargerIs
  <2> QED
    BY <1>1, <1>3, <2>2 DEF Session!ConvertBegin
<1>4. CASE Session!ConvertInsert
  <2>1. Head(sGuest.todo) \in Bricks /\ sGuest.window \in WindowIds
    BY <1>4, SessionTypes, TailOfSeq DEF Session!ConvertInsert, SessionInv, GuestFits
  <2> QED
    BY <1>1, <1>4, <2>1 DEF Session!ConvertInsert
<1>5. CASE Session!ConvertWrite
  BY <1>1, <1>5, SessionTypes DEF Session!ConvertWrite
<1>6. CASE UNCHANGED <<sCounts, sPartial>>
  BY <1>1, <1>6
<1> QED
  BY <1>2, <1>3, <1>4, <1>5, <1>6
  DEF Session!Next, Session!WorkerStep, ofSessions, Session!NextWindow, Session!BuildSet,
      Session!Vote, Session!Fetch, Session!MoveCursor, Session!WorkerDies, Session!ConvertCount,
      Session!ConvertDies, Session!progress

(* A streak is a number, and a completion's is not 0.                        *)
LEMMA GrownIs ==
    ASSUME SessionInv, NEW w \in WindowIds
    PROVE  Grown(w) \in Nat
<1>1. sStreak[WindowKind[w]] \in Nat
  BY SessionTypes, WindowsAre
<1> QED
  BY <1>1 DEF Grown, Session!NextStreak

(* The completions keep their types.                                         *)
LEMMA CompletionsTyped ==
    ASSUME SessionInv, [Session!Next]_ofSessions
    PROVE  /\ sAfter' \in [WindowIds -> Nat]
           /\ sStreak' \in [SessionKinds -> Nat] /\ sLastDay' \in [SessionKinds -> Nat]
           /\ sLongest' \in [SessionKinds -> Nat]
           /\ sBreaks' \subseteq SessionKinds \X Nat
           /\ sXp' \subseteq {"session_completion", "streak_bonus"} \X WindowIds
<1>1. /\ sAfter \in [WindowIds -> Nat]
      /\ sStreak \in [SessionKinds -> Nat] /\ sLastDay \in [SessionKinds -> Nat]
      /\ sLongest \in [SessionKinds -> Nat]
      /\ sBreaks \subseteq SessionKinds \X Nat
      /\ sXp \subseteq {"session_completion", "streak_bonus"} \X WindowIds
  BY Zenon DEF SessionInv, Session!TypeOK, Session!Windows, WindowIds, SessionKinds
<1>2. CASE UNCHANGED CompletionRows
  BY <1>1, <1>2 DEF CompletionRows
<1>3. ASSUME NEW w \in WindowIds, Completes(w)
      PROVE  /\ sAfter' \in [WindowIds -> Nat]
             /\ sStreak' \in [SessionKinds -> Nat] /\ sLastDay' \in [SessionKinds -> Nat]
             /\ sLongest' \in [SessionKinds -> Nat]
             /\ sBreaks' \subseteq SessionKinds \X Nat
             /\ sXp' \subseteq {"session_completion", "streak_bonus"} \X WindowIds
  <2>1. Grown(w) \in Nat /\ WindowKind[w] \in SessionKinds /\ WindowDay[w] \in Nat
    BY GrownIs, WindowsAre
  <2> HIDE DEF Grown
  <2>2. sLongest' \in [SessionKinds -> Nat]
    BY <1>1, <1>3, <2>1 DEF Completes
  <2> QED
    BY <1>1, <1>3, <2>1, <2>2 DEF Completes
<1>4. CASE Session!Process
  <2>1. PICK w \in WindowIds : UNCHANGED CompletionRows \/ Completes(w)
    BY <1>4, ProcessIs
  <2> QED
    BY <1>2, <1>3, <2>1
<1> QED
  BY <1>2, <1>4
  DEF Session!Next, Session!WorkerStep, ofSessions, Session!NextWindow, Session!BuildSet,
      Session!Vote, Session!Fetch, Session!MoveCursor, Session!WorkerDies, Session!ConvertBegin,
      Session!ConvertInsert, Session!ConvertCount, Session!ConvertWrite, Session!ConvertDies,
      Session!progress, CompletionRows

(* Every variable of the sessions keeps its type.                            *)
LEMMA SessionTyped ==
    ASSUME SessionInv, [Session!Next]_ofSessions
    PROVE  Session!TypeOK'
<1>1. /\ sNow \in WindowIds /\ sBuilt \subseteq WindowIds
      /\ sVotes \in Seq(VoteSet) /\ Len(sVotes) <= SessionVotes
      /\ sActive \in [Bricks -> 0 .. SessionVotes]
  BY Zenon DEF SessionInv, Session!TypeOK, Session!Windows, WindowIds, VoteSet
<1>2. sNow' \in WindowIds /\ sBuilt' \subseteq WindowIds
  <2>1. CASE Session!NextWindow
    BY <1>1, <2>1, WindowsAre DEF Session!NextWindow
  <2>2. CASE Session!BuildSet
    BY <1>1, <2>2 DEF Session!BuildSet
  <2>3. CASE UNCHANGED <<sNow, sBuilt>>
    BY <1>1, <2>3
  <2> QED
    BY <2>1, <2>2, <2>3
    DEF Session!Next, Session!WorkerStep, ofSessions, Session!Vote, Session!Fetch,
        Session!Process, Session!MoveCursor, Session!WorkerDies, Session!ConvertBegin,
        Session!ConvertInsert, Session!ConvertCount, Session!ConvertWrite, Session!ConvertDies
<1>3. sVotes' \in Seq(VoteSet) /\ Len(sVotes') <= SessionVotes
  <2>1. ASSUME NEW b \in Bricks, Session!Vote(b)
        PROVE  sVotes' \in Seq(VoteSet) /\ Len(sVotes') <= SessionVotes
    <3>1. PICK v \in VoteSet : sVotes' = Append(sVotes, v)
      BY <1>1, <2>1, Zenon DEF Session!Vote, VoteSet
    <3>2. Len(sVotes) < SessionVotes
      BY <2>1 DEF Session!Vote
    <3> QED
      BY <1>1, <3>1, <3>2, SessionsAssumption
  <2>2. CASE UNCHANGED sVotes
    BY <1>1, <2>2
  <2> QED
    BY <2>1, <2>2
    DEF Session!Next, Session!WorkerStep, ofSessions, Session!NextWindow, Session!BuildSet,
        Session!Fetch, Session!Process, Session!MoveCursor, Session!WorkerDies,
        Session!ConvertBegin, Session!ConvertInsert, Session!ConvertCount,
        Session!ConvertWrite, Session!ConvertDies
<1>4. sActive' \in [Bricks -> 0 .. SessionVotes]
  <2>1. CASE Session!Process
    <3>1. PICK i \in DOMAIN sVotes, b \in Bricks : sActive' = [sActive EXCEPT ![b] = i]
      BY <2>1, ProcessIs
    <3>2. i \in 0 .. SessionVotes
      BY <1>1, SessionTypes
    <3> QED
      BY <1>1, <3>1, <3>2
  <2>2. CASE UNCHANGED sActive
    BY <1>1, <2>2
  <2> QED
    BY <2>1, <2>2
    DEF Session!Next, Session!WorkerStep, ofSessions, Session!NextWindow, Session!BuildSet,
        Session!Vote, Session!Fetch, Session!MoveCursor, Session!WorkerDies,
        Session!ConvertBegin, Session!ConvertInsert, Session!ConvertCount,
        Session!ConvertWrite, Session!ConvertDies, Session!progress
<1> QED
  BY <1>2, <1>3, <1>4, WorkerTyped, GuestTyped, RowsTyped, CompletionsTyped, Zenon
  DEF Session!TypeOK, Session!Windows, WindowIds, VoteSet, WorkerSet, GuestSet, SessionKinds

(* A completion comes after all the others: the vote that completes a window  *)
(* is not older than theirs.                                                 *)
LEMMA CompletionIs ==
    ASSUME SessionInv, sCursor + 1 \in DOMAIN sVotes,
           NEW w \in WindowIds, sVotes[sCursor + 1].window = w, Completes(w)
    PROVE  /\ w \notin Completed /\ Completed' = Completed \cup {w}
           /\ w <= sNow
           /\ \A i \in DOMAIN sVotes : sCursor < i => w <= sVotes[i].window
           /\ \A u \in Completed : u < w /\ sAfter'[u] = sAfter[u]
           /\ \A u \in CompletedOf(WindowKind[w]) : WindowDay[u] < WindowDay[w]
           /\ sAfter'[w] = Grown(w) /\ Grown(w) \in Nat \ {0}
           /\ Grown(w) = IF CompletedOf(WindowKind[w]) = {} THEN 1
                         ELSE IF WindowDay[w] = sLastDay[WindowKind[w]] + 1
                              THEN sStreak[WindowKind[w]] + 1 ELSE 1
<1> DEFINE k == WindowKind[w]
<1>1. k \in SessionKinds /\ w \in Nat
  BY WindowsAre
<1>2. VotesInOrder /\ StreakRowFits(k) /\ sAfter \in [WindowIds -> Nat]
  BY <1>1, SessionTypes DEF SessionInv
<1>3. w \notin Completed
  BY DEF Completes, Completed
<1>4. \A u \in Completed : u < w
  <2>1. sCursor < sCursor + 1
    BY SessionTypes
  <2>2. ASSUME NEW u \in Completed PROVE u < w
    <3>1. u <= w
      BY <1>2, <2>1 DEF VotesInOrder
    <3>2. u # w /\ u \in WindowIds
      BY <1>3 DEF Completed
    <3> QED
      BY <1>1, <3>1, <3>2, WindowsAre
  <2> QED
    BY <2>2
<1>5. \A u \in CompletedOf(k) : WindowDay[u] < WindowDay[w]
  BY <1>4, WindowsAre DEF CompletedOf, Completed
<1>6. w <= sNow /\ \A i \in DOMAIN sVotes : sCursor < i => w <= sVotes[i].window
  <2>1. w <= sNow
    BY <1>2 DEF VotesInOrder
  <2>2. ASSUME NEW i \in DOMAIN sVotes, sCursor < i PROVE w <= sVotes[i].window
    <3>1. sCursor + 1 <= i
      BY <2>2, SessionTypes
    <3> QED
      BY <1>2, <3>1 DEF VotesInOrder
  <2> QED
    BY <2>1, <2>2
<1>7. Grown(w) = IF CompletedOf(k) = {} THEN 1
                 ELSE IF WindowDay[w] = sLastDay[k] + 1 THEN sStreak[k] + 1 ELSE 1
  <2>1. CASE CompletedOf(k) = {}
    <3>1. sLastDay[k] = 0
      BY <1>2, <2>1 DEF StreakRowFits
    <3> QED
      BY <2>1, <3>1 DEF Grown, Session!NextStreak
  <2>2. CASE CompletedOf(k) # {}
    <3>1. PICK l \in CompletedOf(k) : sLastDay[k] = WindowDay[l]
      BY <1>2, <2>2 DEF StreakRowFits
    <3>2. WindowDay[l] \in Nat \ {0} /\ WindowDay[w] \in Nat
      BY <3>1, WindowsAre DEF CompletedOf, Completed
    <3>3. sLastDay[k] # 0 /\ sLastDay[k] # WindowDay[w]
      BY <1>5, <3>1, <3>2
    <3> QED
      BY <2>2, <3>3 DEF Grown, Session!NextStreak
  <2> QED
    BY <2>1, <2>2
<1>8. Grown(w) \in Nat \ {0}
  <2>1. sStreak[k] \in Nat
    BY <1>1, SessionTypes
  <2> QED
    BY <1>7, <2>1
<1>9. sAfter' = [sAfter EXCEPT ![w] = Grown(w)]
  BY DEF Completes
<1> HIDE DEF k
<1>10. sAfter'[w] = Grown(w) /\ \A u \in Completed : sAfter'[u] = sAfter[u]
  BY <1>2, <1>3, <1>9 DEF Completed
<1>11. Completed' = Completed \cup {w}
  <2>1. \A u \in WindowIds : u # w => sAfter'[u] = sAfter[u]
    BY <1>2, <1>9
  <2> QED
    BY <1>8, <1>10, <2>1 DEF Completed
<1> QED
  BY <1>3, <1>4, <1>5, <1>6, <1>7, <1>8, <1>10, <1>11 DEF k

(* Completions come of processing only.                                      *)
LEMMA OnlyProcessCompletes ==
    ASSUME SessionInv, [Session!Next]_ofSessions, ~Session!Process
    PROVE  UNCHANGED CompletionRows /\ Completed' = Completed
<1>1. UNCHANGED CompletionRows
  BY DEF Session!Next, Session!WorkerStep, ofSessions, Session!NextWindow, Session!BuildSet,
         Session!Vote, Session!Fetch, Session!MoveCursor, Session!WorkerDies,
         Session!ConvertBegin, Session!ConvertInsert, Session!ConvertCount,
         Session!ConvertWrite, Session!ConvertDies, Session!progress, CompletionRows
<1> QED
  BY <1>1 DEF CompletionRows, Completed

(* Votes stay in order.                                                      *)
LEMMA VotesStep ==
    ASSUME SessionInv, [Session!Next]_ofSessions
    PROVE  VotesInOrder'
<1>1. /\ VotesInOrder /\ sNow \in Nat /\ sCursor \in Nat
      /\ Len(sVotes) \in Nat /\ DOMAIN sVotes = 1 .. Len(sVotes)
      /\ \A i \in DOMAIN sVotes : sVotes[i].window \in Nat
      /\ \A u \in Completed : u \in Nat
  BY SessionTypes, WindowsAre DEF SessionInv, Completed
<1>2. CASE Session!NextWindow
  <2>1. Completed' = Completed
    BY <1>2 DEF Session!NextWindow, Session!progress, Completed
  <2>2. sNow' = sNow + 1 /\ sVotes' = sVotes /\ sCursor' = sCursor
    BY <1>2 DEF Session!NextWindow
  <2>3. /\ \A i \in DOMAIN sVotes : sVotes[i].window <= sNow + 1
        /\ \A u \in Completed : u <= sNow + 1
    BY <1>1 DEF VotesInOrder
  <2> QED
    BY <1>1, <2>1, <2>2, <2>3 DEF VotesInOrder
<1>3. ASSUME NEW b \in Bricks, Session!Vote(b) PROVE VotesInOrder'
  <2>1. Completed' = Completed /\ sNow' = sNow /\ sCursor' = sCursor
    BY <1>3 DEF Session!Vote, Session!progress, Completed
  <2>2. PICK v : v.window = sNow /\ sVotes' = Append(sVotes, v)
    BY <1>3 DEF Session!Vote
  <2>3. sVotes \in Seq(VoteSet)
    BY Zenon DEF SessionInv, Session!TypeOK, VoteSet, WindowIds, Session!Windows
  <2>4. /\ DOMAIN sVotes' = 1 .. Len(sVotes) + 1
        /\ \A i \in DOMAIN sVotes : sVotes'[i] = sVotes[i]
        /\ sVotes'[Len(sVotes) + 1] = v
    BY <2>2, <2>3
  <2>5. \A i \in DOMAIN sVotes' : \/ i \in DOMAIN sVotes /\ sVotes'[i] = sVotes[i]
                                  \/ i = Len(sVotes) + 1 /\ sVotes'[i].window = sNow
    BY <1>1, <2>2, <2>4
  <2>6. ASSUME NEW i \in DOMAIN sVotes', NEW j \in DOMAIN sVotes', i <= j
        PROVE  sVotes'[i].window <= sVotes'[j].window
    BY <1>1, <2>4, <2>5, <2>6 DEF VotesInOrder
  <2>7. \A i \in DOMAIN sVotes' : sVotes'[i].window <= sNow
    BY <1>1, <2>5 DEF VotesInOrder
  <2>8. \A u \in Completed :
          u <= sNow /\ \A i \in DOMAIN sVotes' : sCursor < i => u <= sVotes'[i].window
    BY <1>1, <2>5 DEF VotesInOrder
  <2> QED
    BY <2>1, <2>6, <2>7, <2>8 DEF VotesInOrder
<1>4. CASE Session!Process
  <2>1. PICK id \in DOMAIN sVotes, w \in WindowIds :
            /\ id = sCursor + 1 /\ sVotes[id].window = w
            /\ UNCHANGED <<sNow, sVotes, sCursor>>
            /\ UNCHANGED CompletionRows \/ Completes(w)
    BY <1>4, ProcessIs
  <2>2. CASE UNCHANGED CompletionRows
    <3>1. Completed' = Completed
      BY <2>2 DEF CompletionRows, Completed
    <3> QED
      BY <1>1, <2>1, <3>1 DEF VotesInOrder
  <2>3. CASE Completes(w)
    <3>1. /\ Completed' = Completed \cup {w} /\ w <= sNow
          /\ \A i \in DOMAIN sVotes : sCursor < i => w <= sVotes[i].window
      BY <2>1, <2>3, CompletionIs
    <3> QED
      BY <1>1, <2>1, <3>1 DEF VotesInOrder
  <2> QED
    BY <2>1, <2>2, <2>3
<1>5. CASE Session!MoveCursor
  <2>1. sCursor' = sCursor + 1 /\ sNow' = sNow /\ sVotes' = sVotes
    BY <1>5, BatchHead DEF Session!MoveCursor
  <2>2. Completed' = Completed
    BY <1>5 DEF Session!MoveCursor, Session!progress, Completed
  <2>3. \A i \in DOMAIN sVotes : sCursor + 1 < i => sCursor < i
    BY <1>1
  <2> QED
    BY <1>1, <2>1, <2>2, <2>3 DEF VotesInOrder
<1>6. CASE UNCHANGED <<sNow, sVotes, sCursor, sAfter>>
  <2>1. Completed' = Completed
    BY <1>6 DEF Completed
  <2> QED
    BY <1>1, <1>6, <2>1 DEF VotesInOrder
<1> QED
  BY <1>2, <1>3, <1>4, <1>5, <1>6
  DEF Session!Next, Session!WorkerStep, ofSessions, Session!BuildSet, Session!Fetch,
      Session!WorkerDies, Session!ConvertBegin, Session!ConvertInsert, Session!ConvertCount,
      Session!ConvertWrite, Session!ConvertDies, Session!progress


(* A batch stays what follows the cursor.                                    *)
LEMMA BatchStep ==
    ASSUME SessionInv, [Session!Next]_ofSessions
    PROVE  BatchFits'
<1>1. /\ BatchFits /\ sCursor \in Nat /\ Len(sVotes) \in Nat
      /\ sWorker.batch \in Seq(1 .. SessionVotes)
  BY SessionTypes DEF SessionInv
<1>2. ASSUME NEW b \in Bricks, Session!Vote(b) PROVE BatchFits'
  <2>1. sCursor' = sCursor /\ sWorker' = sWorker
    BY <1>2 DEF Session!Vote
  <2>2. PICK v : sVotes' = Append(sVotes, v)
    BY <1>2 DEF Session!Vote
  <2>3. sVotes \in Seq(VoteSet)
    BY Zenon DEF SessionInv, Session!TypeOK, VoteSet, WindowIds, Session!Windows
  <2>4. Len(sVotes') = Len(sVotes) + 1
    BY <2>2, <2>3
  <2>5. \A i \in DOMAIN sWorker.batch : sCursor + i <= Len(sVotes) => sCursor + i <= Len(sVotes) + 1
    BY <1>1
  <2> QED
    BY <1>1, <2>1, <2>4, <2>5 DEF BatchFits
<1>3. CASE Session!Fetch
  <2>1. PICK n \in Nat \ {0} :
            /\ sCursor + n <= Len(sVotes)
            /\ sWorker' = [step |-> "fetched", batch |-> [i \in 1 .. n |-> sCursor + i]]
            /\ UNCHANGED <<sVotes, sCursor>>
    BY <1>3, FetchIs
  <2>2. /\ sWorker'.step = "fetched" /\ sWorker'.batch = [i \in 1 .. n |-> sCursor + i]
    BY <2>1
  <2>3. sWorker'.batch # <<>>
    BY <2>2
  <2>4. \A i \in DOMAIN sWorker'.batch :
          sWorker'.batch[i] = sCursor + i /\ sCursor + i <= Len(sVotes)
    BY <1>1, <2>1, <2>2
  <2> QED
    BY <1>1, <2>1, <2>2, <2>3, <2>4 DEF BatchFits
<1>4. CASE Session!MoveCursor
  <2>1. sWorker.step # "idle" /\ sCursor' = sCursor + 1 /\ sVotes' = sVotes
    BY <1>4, BatchHead DEF Session!MoveCursor
  <2>2. sCursor + 1 <= Len(sVotes)
    BY <1>1, <2>1, BatchHead, SessionTypes
  <2>3. CASE Len(sWorker.batch) = 1
    <3>1. sWorker' = Session!IdleWorker
      BY <1>4, <2>3 DEF Session!MoveCursor
    <3> QED
      BY <2>1, <2>2, <3>1 DEF BatchFits, Session!IdleWorker
  <2>4. CASE Len(sWorker.batch) # 1
    <3>1. sWorker' = [step |-> "fetched", batch |-> Tail(sWorker.batch)]
      BY <1>4, <2>4 DEF Session!MoveCursor
    <3>2. /\ sWorker.batch # <<>>
          /\ \A i \in DOMAIN sWorker.batch :
                sWorker.batch[i] = sCursor + i /\ sCursor + i <= Len(sVotes)
      BY <2>1, BatchHead
    <3>3. /\ Tail(sWorker.batch) \in Seq(1 .. SessionVotes)
          /\ Len(Tail(sWorker.batch)) = Len(sWorker.batch) - 1
          /\ \A i \in DOMAIN Tail(sWorker.batch) :
                i + 1 \in DOMAIN sWorker.batch /\ Tail(sWorker.batch)[i] = sWorker.batch[i + 1]
      BY <1>1, <3>2, TailOfSeq, Zenon
    <3>4. Tail(sWorker.batch) # <<>>
      <4>1. Len(sWorker.batch) \in Nat /\ Len(sWorker.batch) # 0
        BY <1>1, <3>2
      <4>2. Len(Tail(sWorker.batch)) # 0
        BY <2>4, <3>3, <4>1
      <4>3. Len(<<>>) = 0
        OBVIOUS
      <4> QED
        BY <4>2, <4>3, Zenon
    <3>5. ASSUME NEW i \in DOMAIN Tail(sWorker.batch)
          PROVE  Tail(sWorker.batch)[i] = sCursor + 1 + i /\ sCursor + 1 + i <= Len(sVotes)
      <4>1. i \in Nat
        BY <3>3
      <4>2. sWorker.batch[i + 1] = sCursor + (i + 1) /\ sCursor + (i + 1) <= Len(sVotes)
        BY <3>2, <3>3
      <4> QED
        BY <1>1, <3>3, <4>1, <4>2
    <3>6. sWorker'.step = "fetched" /\ sWorker'.batch = Tail(sWorker.batch)
      BY <3>1
    <3> QED
      BY <2>1, <2>2, <3>4, <3>5, <3>6 DEF BatchFits
  <2> QED
    BY <2>3, <2>4
<1>5. CASE Session!Process
  <2>1. sWorker.step # "idle" /\ sWorker' = [sWorker EXCEPT !.step = "saved"]
        /\ UNCHANGED <<sVotes, sCursor>>
    BY <1>5 DEF Session!Process
  <2>2. sWorker \in WorkerSet
    BY Zenon DEF SessionInv, Session!TypeOK, WorkerSet
  <2>3. sWorker'.step = "saved" /\ sWorker'.batch = sWorker.batch
    BY <2>1, <2>2 DEF WorkerSet
  <2> QED
    BY <1>1, <2>1, <2>3, BatchHead DEF BatchFits
<1>6. CASE Session!WorkerDies
  BY <1>1, <1>6 DEF Session!WorkerDies, BatchFits
<1>7. CASE UNCHANGED <<sVotes, sCursor, sWorker>>
  BY <1>1, <1>7 DEF BatchFits
<1> QED
  BY <1>2, <1>3, <1>4, <1>5, <1>6, <1>7
  DEF Session!Next, Session!WorkerStep, ofSessions, Session!NextWindow, Session!BuildSet,
      Session!ConvertBegin, Session!ConvertInsert, Session!ConvertCount, Session!ConvertWrite,
      Session!ConvertDies

(* Stances stay those of the last votes.                                     *)
LEMMA StancesStep ==
    ASSUME SessionInv, [Session!Next]_ofSessions
    PROVE  StancesFit'
<1>1. /\ StancesFit /\ sCursor \in Nat /\ sCursor <= Len(sVotes)
      /\ Len(sVotes) \in Nat /\ DOMAIN sVotes = 1 .. Len(sVotes)
      /\ \A i \in DOMAIN sVotes : sVotes[i].brick \in Bricks
      /\ sActive \in [Bricks -> Nat]
  BY SessionTypes DEF SessionInv, BatchFits
<1>2. ASSUME NEW b \in Bricks, Session!Vote(b) PROVE StancesFit'
  <2>1. sCursor' = sCursor /\ sWorker' = sWorker /\ sActive' = sActive
    BY <1>2 DEF Session!Vote, Session!progress
  <2>2. PICK v : sVotes' = Append(sVotes, v)
    BY <1>2 DEF Session!Vote
  <2>3. sVotes \in Seq(VoteSet)
    BY Zenon DEF SessionInv, Session!TypeOK, VoteSet, WindowIds, Session!Windows
  <2>4. /\ DOMAIN sVotes \subseteq DOMAIN sVotes'
        /\ \A i \in DOMAIN sVotes : sVotes'[i] = sVotes[i]
    BY <2>2, <2>3
  <2>5. sWorker.step = "saved" => sCursor + 1 \in DOMAIN sVotes
    BY BatchHead
  <2>6. 1 .. sCursor \subseteq DOMAIN sVotes
    BY <1>1
  <2> QED
    BY <1>1, <2>1, <2>4, <2>5, <2>6 DEF StancesFit
<1>3. CASE Session!Process
  <2>1. PICK id \in DOMAIN sVotes, b \in Bricks :
            /\ id = sCursor + 1 /\ sVotes[id].brick = b
            /\ sActive' = [sActive EXCEPT ![b] = id]
            /\ UNCHANGED <<sVotes, sCursor>>
    BY <1>3, ProcessIs
  <2>2. sActive'[b] = id /\ \A c \in Bricks \ {b} : sActive'[c] = sActive[c]
    BY <1>1, <2>1
  <2>3. ASSUME NEW c \in Bricks
        PROVE  /\ sActive'[c] <= sCursor + 1
               /\ sActive'[c] # 0 => sActive'[c] \in DOMAIN sVotes /\ sVotes[sActive'[c]].brick = c
    BY <1>1, <2>1, <2>2 DEF StancesFit
  <2>4. ASSUME NEW i \in 1 .. sCursor PROVE i <= sActive'[sVotes[i].brick]
    <3>1. i \in DOMAIN sVotes /\ sVotes[i].brick \in Bricks /\ i <= sActive[sVotes[i].brick]
      BY <1>1 DEF StancesFit
    <3> QED
      BY <1>1, <2>1, <2>2, <3>1
  <2> QED
    BY <2>1, <2>2, <2>3, <2>4 DEF StancesFit
<1>4. CASE Session!MoveCursor
  <2>1. /\ sWorker.step = "saved" /\ sCursor' = sCursor + 1 /\ sVotes' = sVotes
        /\ sActive' = sActive /\ sWorker'.step # "saved"
    BY <1>4, BatchHead DEF Session!MoveCursor, Session!progress, Session!IdleWorker
  <2>2. sCursor + 1 <= sActive[sVotes[sCursor + 1].brick]
    BY <1>1, <2>1 DEF StancesFit
  <2>3. \A b \in Bricks : sActive[b] <= sCursor + 1 + 1
    BY <1>1 DEF StancesFit
  <2>4. \A i \in 1 .. sCursor + 1 : i \in 1 .. sCursor \/ i = sCursor + 1
    BY <1>1
  <2>5. \A i \in 1 .. sCursor + 1 : i <= sActive[sVotes[i].brick]
    BY <1>1, <2>2, <2>4 DEF StancesFit
  <2> QED
    BY <1>1, <2>1, <2>3, <2>5 DEF StancesFit
<1>5. CASE UNCHANGED <<sVotes, sCursor, sActive>> /\ sWorker'.step # "saved"
  BY <1>1, <1>5 DEF StancesFit
<1>6. CASE Session!Fetch
  <2>1. sWorker'.step = "fetched" /\ UNCHANGED <<sVotes, sCursor, sActive>>
    BY <1>6 DEF Session!Fetch, Session!progress
  <2> QED
    BY <1>5, <2>1
<1>7. CASE Session!WorkerDies
  <2>1. sWorker'.step = "idle" /\ UNCHANGED <<sVotes, sCursor, sActive>>
    BY <1>7 DEF Session!WorkerDies, Session!progress, Session!IdleWorker
  <2> QED
    BY <1>5, <2>1
<1>8. CASE UNCHANGED <<sVotes, sCursor, sActive, sWorker>>
  BY <1>1, <1>8 DEF StancesFit
<1> QED
  BY <1>2, <1>3, <1>4, <1>6, <1>7, <1>8
  DEF Session!Next, Session!WorkerStep, ofSessions, Session!NextWindow, Session!BuildSet,
      Session!ConvertBegin, Session!ConvertInsert, Session!ConvertCount, Session!ConvertWrite,
      Session!ConvertDies, Session!progress


(* Another counted brick is one row more.                                    *)
LEMMA OneRowMore ==
    ASSUME SessionInv, NEW w \in WindowIds, NEW b \in Bricks, b \notin CountedBricks(w),
           sCounts' = sCounts \cup {<<w, b>>}
    PROVE  /\ CountedBricks(w)' = CountedBricks(w) \cup {b}
           /\ Cardinality(CountedBricks(w)') = Cardinality(CountedBricks(w)) + 1
           /\ \A u : u # w => CountedBricks(u)' = CountedBricks(u)
<1>1. CountedBricks(w)' = CountedBricks(w) \cup {b}
  BY DEF CountedBricks
<1>2. Cardinality(CountedBricks(w) \cup {b}) = Cardinality(CountedBricks(w)) + 1
  BY RowsFinite, FS_AddElement
<1>3. Cardinality(CountedBricks(w)') = Cardinality(CountedBricks(w)) + 1
  BY <1>1, <1>2, Zenon
<1>4. \A u : u # w => CountedBricks(u)' = CountedBricks(u)
  BY DEF CountedBricks
<1> QED
  BY <1>1, <1>3, <1>4

(* The rows of a window that a step does not touch still fit.                *)
LEMMA RowsFitStill ==
    ASSUME NEW w \in WindowIds, SessionRowsFit(w), CountedBricks(w)' = CountedBricks(w),
           sPartial'[w] = sPartial[w], w \in Completed' <=> w \in Completed,
           sGuest'.window = sGuest.window \/ w = sGuest'.window
    PROVE  SessionRowsFit(w)'
<1>1. Cardinality(CountedBricks(w)') = Cardinality(CountedBricks(w))
  BY Zenon
<1> QED
  BY <1>1 DEF SessionRowsFit, Session!Target

(* The counts follow the rows through a processed vote.                      *)
LEMMA ProcessKeepsRows ==
    ASSUME SessionInv, Session!Process, NEW u \in WindowIds
    PROVE  SessionRowsFit(u)' /\ GuestFits'
<1>1. PICK id \in DOMAIN sVotes, w \in WindowIds, b \in Bricks :
          /\ id = sCursor + 1 /\ sVotes[id].window = w
          /\ sGuest' = sGuest
          /\ \/ UNCHANGED <<sCounts, sPartial, CompletionRows>>
             \/ /\ Counts(w, b)
                /\ \/ Completes(w)
                   \/ /\ UNCHANGED CompletionRows
                      /\ SoFar(w) < Session!Target(w) \/ sAfter[w] # 0
  BY ProcessIs
<1>2. SessionRowsFit(u) /\ GuestFits
  BY DEF SessionInv
<1>3. CASE UNCHANGED <<sCounts, sPartial, CompletionRows>>
  <2>1. CountedBricks(u)' = CountedBricks(u) /\ Completed' = Completed
        /\ CountedBricks(sGuest.window)' = CountedBricks(sGuest.window)
    BY <1>1, <1>3 DEF CountedBricks, Completed, CompletionRows
  <2>2. SessionRowsFit(u)'
    BY <1>1, <1>2, <1>3, <2>1, RowsFitStill
  <2>3. Cardinality(CountedBricks(sGuest.window))' = Cardinality(CountedBricks(sGuest.window))
    BY <2>1, Zenon
  <2> QED
    BY <1>1, <1>2, <2>2, <2>3 DEF GuestFits
<1>4. CASE /\ Counts(w, b)
           /\ \/ Completes(w)
              \/ /\ UNCHANGED CompletionRows
                 /\ SoFar(w) < Session!Target(w) \/ sAfter[w] # 0
  <2> DEFINE n == Cardinality(CountedBricks(w))
  <2>1. /\ CountedBricks(w)' = CountedBricks(w) \cup {b}
        /\ Cardinality(CountedBricks(w)') = n + 1 /\ n \in Nat
        /\ \A v : v # w => CountedBricks(v)' = CountedBricks(v)
    BY <1>4, OneRowMore, RowsFinite DEF Counts
  <2>2. /\ sPartial \in [WindowIds -> Nat \cup {-1}] /\ sAfter \in [WindowIds -> Nat]
        /\ Session!Target(w) \in Nat \ {0}
    BY SessionTypes, WindowsAre
  <2>3. sPartial'[w] = SoFar(w) /\ \A v \in WindowIds : v # w => sPartial'[v] = sPartial[v]
    BY <1>4, <2>2 DEF Counts
  <2>4. \A v \in WindowIds : v # w => (v \in Completed' <=> v \in Completed)
    <3>1. \A v \in WindowIds : v # w => sAfter'[v] = sAfter[v]
      BY <1>4, <2>2 DEF Completes, CompletionRows
    <3> QED
      BY <3>1 DEF Completed
  <2>5. /\ w \in Completed => w \in Completed'
        /\ w \in Completed' /\ w \notin Completed => SoFar(w) >= Session!Target(w)
        /\ SoFar(w) >= Session!Target(w) => w \in Completed'
    <3>1. CASE Completes(w)
      BY <1>1, <1>4, <3>1, CompletionIs DEF Completes
    <3>2. CASE /\ UNCHANGED CompletionRows
               /\ SoFar(w) < Session!Target(w) \/ sAfter[w] # 0
      <4>1. SoFar(w) \in Nat
        BY <2>2 DEF SoFar
      <4>2. sAfter[w] # 0 => w \in Completed
        BY <2>2 DEF Completed
      <4>3. Completed' = Completed
        BY <3>2 DEF CompletionRows, Completed
      <4> QED
        BY <2>2, <3>2, <4>1, <4>2, <4>3
    <3> QED
      BY <1>4, <3>1, <3>2
  <2>6. SessionRowsFit(w) /\ b \in WindowItems[w]
    BY <1>4 DEF SessionInv, Counts
  <2>7. SessionRowsFit(w)'
    <3>1. CountedBricks(w)' \subseteq WindowItems[w]
      BY <2>1, <2>6 DEF SessionRowsFit
    <3>2. SoFar(w) \in Nat /\ SoFar(w) <= n + 1
      BY <2>1, <2>2, <2>6 DEF SessionRowsFit, SoFar
    <3>3. w \in Completed' => n + 1 >= Session!Target(w)
      <4>1. w \in Completed => n >= Session!Target(w)
        BY <2>6 DEF SessionRowsFit
      <4> QED
        BY <2>1, <2>2, <2>5, <3>2, <4>1
    <3>4. w # sGuest.window => SoFar(w) = n + 1
      <4>1. CASE CountedBricks(w) = {}
        <5>1. n = 0
          BY <4>1, FS_EmptySet, Zenon
        <5> QED
          BY <2>6, <4>1, <5>1 DEF SessionRowsFit, SoFar
      <4>2. CASE CountedBricks(w) # {}
        <5>1. n # 0
          BY <4>2, RowsFinite, FS_EmptySet
        <5> QED
          BY <2>1, <2>6, <4>2, <5>1 DEF SessionRowsFit, SoFar
      <4> QED
        BY <4>1, <4>2
    <3>5. CountedBricks(w)' # {}
      BY <2>1
    <3> HIDE DEF n
    <3>6. w # sGuest.window => (n + 1 >= Session!Target(w) => w \in Completed')
      BY <2>5, <3>4
    <3>7. /\ Cardinality(CountedBricks(w))' = n + 1 /\ sGuest' = sGuest
          /\ Session!Target(w)' = Session!Target(w) /\ WindowItems' = WindowItems
      BY <1>1, <2>1 DEF Session!Target
    <3> QED
      BY <2>3, <3>1, <3>2, <3>3, <3>4, <3>5, <3>6, <3>7 DEF SessionRowsFit
  <2>8. SessionRowsFit(u)'
    <3>1. CASE u = w
      BY <2>7, <3>1
    <3>2. CASE u # w
      BY <1>1, <1>2, <2>1, <2>3, <2>4, <3>2, RowsFitStill
    <3> QED
      BY <3>1, <3>2
  <2>9. GuestFits'
    <3>1. Cardinality(CountedBricks(sGuest.window)) <= Cardinality(CountedBricks(sGuest.window))'
      <4>1. CASE sGuest.window = w
        <5>1. CountedBricks(sGuest.window)' = CountedBricks(w)'
          BY <1>1, <4>1 DEF CountedBricks
        <5>2. Cardinality(CountedBricks(sGuest.window))' = n + 1
          BY <2>1, <5>1, Zenon
        <5>3. Cardinality(CountedBricks(sGuest.window)) = n
          BY <4>1, Zenon
        <5> HIDE DEF n
        <5> QED
          BY <2>1, <5>2, <5>3
      <4>2. CASE sGuest.window # w
        <5>1. Cardinality(CountedBricks(sGuest.window))' = Cardinality(CountedBricks(sGuest.window))
          BY <1>1, <2>1, <4>2, Zenon
        <5> QED
          BY <5>1, RowsFinite
      <4> QED
        BY <4>1, <4>2
    <3>2. Cardinality(CountedBricks(sGuest.window))' \in Nat
      <4>1. CountedBricks(sGuest.window)' \in SUBSET Bricks
        BY DEF CountedBricks
      <4> QED
        BY <4>1, BricksAssumption, FS_Subset, FS_CardinalityType
    <3> QED
      BY <1>1, <1>2, <3>1, <3>2, RowsFinite, SessionTypes DEF GuestFits
  <2> QED
    BY <2>8, <2>9
<1> QED
  BY <1>1, <1>3, <1>4


(* The counts follow the rows through signup's statements.                   *)
LEMMA SignupKeepsRows ==
    ASSUME SessionInv, NEW u \in WindowIds,
           Session!ConvertBegin \/ Session!ConvertInsert \/ Session!ConvertCount
              \/ Session!ConvertWrite \/ Session!ConvertDies
    PROVE  SessionRowsFit(u)' /\ GuestFits'
<1>1. SessionRowsFit(u) /\ GuestFits /\ sGuest \in GuestSet
      /\ sPartial \in [WindowIds -> Nat \cup {-1}]
  BY SessionTypes, Zenon
  DEF SessionInv, Session!TypeOK, GuestSet, Session!Windows, WindowIds
<1>2. Completed' = Completed
  BY DEF Completed, Session!ConvertBegin, Session!ConvertInsert, Session!ConvertCount,
         Session!ConvertWrite, Session!ConvertDies, Session!progress
<1>3. Cardinality(CountedBricks(u)) \in Nat
  BY RowsFinite
<1>4. CASE Session!ConvertBegin
  <2>1. /\ sGuest'.step = "inserting" /\ sGuest'.window = sNow
        /\ sPartial' = [sPartial EXCEPT ![sNow] = Session!Max({@, 0})]
        /\ sCounts' = sCounts /\ sGuest.step = "none"
    BY <1>4 DEF Session!ConvertBegin, Session!NewGuest
  <2>2. GuestFits'
    BY <2>1, SessionTypes DEF GuestFits
  <2>3. CountedBricks(u)' = CountedBricks(u)
    BY <2>1 DEF CountedBricks
  <2>4. CASE u # sNow
    <3>1. sPartial'[u] = sPartial[u]
      BY <1>1, <2>1, <2>4
    <3>2. sGuest.window = 0
      BY <2>1 DEF SessionInv, GuestFits
    <3>3. u # sGuest.window
      BY <3>2, WindowsAre
    <3>4. Cardinality(CountedBricks(u))' = Cardinality(CountedBricks(u))
      BY <2>3, Zenon
    <3> QED
      BY <1>1, <1>2, <2>2, <2>3, <3>1, <3>3, <3>4 DEF SessionRowsFit, Session!Target
  <2>5. CASE u = sNow
    <3>1. sPartial[u] \in Nat \cup {-1}
      BY <1>1
    <3>2. sPartial'[u] = IF sPartial[u] <= 0 THEN 0 ELSE sPartial[u]
      BY <1>1, <2>1, <2>5, <3>1, LargerIs
    <3>3. Cardinality(CountedBricks(u))' = Cardinality(CountedBricks(u))
      BY <2>3, Zenon
    <3> QED
      BY <1>1, <1>2, <1>3, <2>1, <2>2, <2>3, <2>5, <3>1, <3>2, <3>3
         DEF SessionRowsFit, Session!Target
  <2> QED
    BY <2>4, <2>5
<1>5. CASE Session!ConvertInsert
  <2>1. /\ sGuest.step = "inserting" /\ sGuest.todo # <<>> /\ sPartial' = sPartial
        /\ sGuest' = [sGuest EXCEPT !.todo = Tail(@)]
        /\ sCounts' = IF Head(sGuest.todo) \in WindowItems[sGuest.window]
                      THEN sCounts \cup {<<sGuest.window, Head(sGuest.todo)>>} ELSE sCounts
    BY <1>5 DEF Session!ConvertInsert
  <2>2. sGuest'.step = "inserting" /\ sGuest'.window = sGuest.window /\ sGuest.window \in WindowIds
    BY <1>1, <2>1 DEF GuestSet, GuestFits
  <2>3. PICK g \in WindowIds : g = sGuest.window
    BY <2>2
  <2>4. GuestFits'
    BY <2>2 DEF GuestFits
  <2>5. PICK b \in Bricks : b = Head(sGuest.todo)
    BY <2>1, SessionTypes, TailOfSeq
  <2>6. CASE b \in WindowItems[g] /\ b \notin CountedBricks(g)
    <3>1. sCounts' = sCounts \cup {<<g, b>>}
      BY <2>1, <2>3, <2>5, <2>6
    <3>2. /\ CountedBricks(g)' = CountedBricks(g) \cup {b}
          /\ Cardinality(CountedBricks(g)') = Cardinality(CountedBricks(g)) + 1
          /\ \A v : v # g => CountedBricks(v)' = CountedBricks(v)
      BY <2>6, <3>1, OneRowMore
    <3>3. CASE u # g
      BY <1>1, <1>2, <2>1, <2>2, <2>4, <3>2, <3>3, RowsFitStill
    <3>4. CASE u = g
      <4>1. CountedBricks(u)' \subseteq WindowItems[u]
        BY <1>1, <2>6, <3>2, <3>4 DEF SessionRowsFit
      <4>2. Cardinality(CountedBricks(u))' = Cardinality(CountedBricks(u)) + 1
        BY <3>2, <3>4
      <4>3. sPartial[u] \in Int /\ Session!Target(u) \in Nat
            /\ Session!Target(u)' = Session!Target(u)
        BY <1>1, WindowsAre DEF Session!Target
      <4>4. /\ sPartial[u] <= Cardinality(CountedBricks(u)) + 1
            /\ u \in Completed => Cardinality(CountedBricks(u)) + 1 >= Session!Target(u)
        BY <1>1, <1>3, <4>3 DEF SessionRowsFit
      <4>5. u = sGuest'.window
        BY <2>2, <2>3, <3>4
      <4> QED
        BY <1>2, <2>1, <2>4, <4>1, <4>2, <4>3, <4>4, <4>5 DEF SessionRowsFit
    <3> QED
      BY <2>4, <3>3, <3>4
  <2>7. CASE ~(b \in WindowItems[g] /\ b \notin CountedBricks(g))
    <3>1. sCounts' = sCounts
      BY <2>1, <2>3, <2>5, <2>7 DEF CountedBricks
    <3>2. CountedBricks(u)' = CountedBricks(u)
      BY <3>1 DEF CountedBricks
    <3> QED
      BY <1>1, <1>2, <2>1, <2>2, <2>4, <3>2, RowsFitStill
  <2> QED
    BY <2>6, <2>7
<1>6. CASE Session!ConvertCount
  <2>1. Session!Cardinality(Session!CountedIn(sGuest.window))
           = Cardinality(CountedBricks(sGuest.window))
    BY Zenon DEF Session!Cardinality, Cardinality, Session!CountedIn, CountedBricks
  <2>2. PICK n \in Nat : /\ n = Cardinality(CountedBricks(sGuest.window))
                         /\ sGuest' = [sGuest EXCEPT !.step = "counted", !.count = n]
    BY <1>6, <2>1, RowsFinite DEF Session!ConvertCount
  <2>3. /\ sGuest'.step = "counted" /\ sGuest'.window = sGuest.window /\ sGuest'.count = n
        /\ sGuest.step = "inserting" /\ sCounts' = sCounts /\ sPartial' = sPartial
    BY <1>1, <1>6, <2>2 DEF Session!ConvertCount, Session!progress, GuestSet
  <2>4. CountedBricks(u)' = CountedBricks(u)
        /\ CountedBricks(sGuest.window)' = CountedBricks(sGuest.window)
    BY <2>3 DEF CountedBricks
  <2>5. Cardinality(CountedBricks(sGuest.window))' = n
    BY <2>2, <2>4, Zenon
  <2>6. GuestFits'
    BY <1>1, <2>3, <2>5 DEF GuestFits
  <2> QED
    BY <1>1, <1>2, <2>3, <2>4, <2>6, RowsFitStill
<1>7. CASE Session!ConvertWrite
  <2>1. /\ sGuest.step = "counted" /\ sPartial' = [sPartial EXCEPT ![sGuest.window] = sGuest.count]
        /\ sGuest'.step = "over" /\ sGuest'.window = sGuest.window /\ sCounts' = sCounts
    BY <1>7 DEF Session!ConvertWrite, Session!NewGuest
  <2>2. GuestFits'
    BY <2>1 DEF GuestFits
  <2>3. CountedBricks(u)' = CountedBricks(u)
    BY <2>1 DEF CountedBricks
  <2>4. CASE u # sGuest.window
    <3>1. sPartial'[u] = sPartial[u]
      BY <1>1, <2>1, <2>4
    <3> QED
      BY <1>1, <1>2, <2>1, <2>2, <2>3, <3>1, RowsFitStill
  <2>5. CASE u = sGuest.window
    <3>1. sPartial'[u] = sGuest.count /\ sGuest.count <= Cardinality(CountedBricks(u))
      BY <1>1, <2>1, <2>5 DEF GuestFits
    <3>2. Cardinality(CountedBricks(u))' = Cardinality(CountedBricks(u))
      BY <2>3, Zenon
    <3> QED
      BY <1>1, <1>2, <2>1, <2>2, <2>3, <2>5, <3>1, <3>2 DEF SessionRowsFit, Session!Target
  <2> QED
    BY <2>4, <2>5
<1>8. CASE Session!ConvertDies
  <2>1. /\ sGuest'.step = "over" /\ sGuest'.window = sGuest.window /\ sCounts' = sCounts
        /\ sPartial' = sPartial
    BY <1>8 DEF Session!ConvertDies, Session!NewGuest, Session!progress
  <2>2. GuestFits'
    BY <2>1 DEF GuestFits
  <2>3. CountedBricks(u)' = CountedBricks(u)
    BY <2>1 DEF CountedBricks
  <2> QED
    BY <1>1, <1>2, <2>1, <2>2, <2>3, RowsFitStill
<1> QED
  BY <1>4, <1>5, <1>6, <1>7, <1>8

(* The counts always follow the rows.                                        *)
LEMMA RowsStep ==
    ASSUME SessionInv, [Session!Next]_ofSessions, NEW u \in WindowIds
    PROVE  SessionRowsFit(u)' /\ GuestFits'
<1>1. CASE UNCHANGED <<sCounts, sPartial, sAfter, sGuest>>
  <2>1. /\ CountedBricks(u)' = CountedBricks(u) /\ Completed' = Completed
        /\ CountedBricks(sGuest.window)' = CountedBricks(sGuest.window)
    BY <1>1 DEF CountedBricks, Completed
  <2>2. Cardinality(CountedBricks(sGuest.window))' = Cardinality(CountedBricks(sGuest.window))
    BY <2>1, Zenon
  <2>3. SessionRowsFit(u) /\ GuestFits
    BY DEF SessionInv
  <2>4. SessionRowsFit(u)'
    BY <1>1, <2>1, <2>3, RowsFitStill
  <2> QED
    BY <1>1, <2>2, <2>3, <2>4 DEF GuestFits
<1> QED
  BY <1>1, ProcessKeepsRows, SignupKeepsRows
  DEF Session!Next, Session!WorkerStep, ofSessions, Session!NextWindow, Session!BuildSet,
      Session!Vote, Session!Fetch, Session!MoveCursor, Session!WorkerDies, Session!progress

(* A later day does not lengthen an earlier run.                             *)
LEMMA RunStays ==
    ASSUME NEW A, A \subseteq Nat, NEW t \in Nat, NEW d \in Nat, d < t
    PROVE  RunOf(A \cup {t}, d) = RunOf(A, d)
<1>1. \A e \in Nat : e <= d => e # t
  OBVIOUS
<1>2. \A e \in Nat : \A f \in e .. d : f # t
  BY <1>1
<1> QED
  BY <1>1, <1>2 DEF RunOf

(* The streak row, the breaks and the runs of the completions after one more. *)
LEMMA CompletionKeepsStreaks ==
    ASSUME SessionInv, sCursor + 1 \in DOMAIN sVotes,
           NEW w \in WindowIds, sVotes[sCursor + 1].window = w, Completes(w)
    PROVE  (\A k \in SessionKinds : StreakRowFits(k))' /\ BreaksFit' /\ RunsFit'
<1>1. PICK k \in SessionKinds, t \in Nat \ {0}, n \in Nat \ {0} :
          k = WindowKind[w] /\ t = WindowDay[w] /\ n = Grown(w)
  BY CompletionIs, WindowsAre
<1>2. /\ w \notin Completed /\ Completed' = Completed \cup {w}
      /\ \A u \in Completed : u < w /\ sAfter'[u] = sAfter[u]
      /\ \A u \in CompletedOf(k) : WindowDay[u] < t
      /\ sAfter'[w] = n
      /\ n = IF CompletedOf(k) = {} THEN 1
             ELSE IF t = sLastDay[k] + 1 THEN sStreak[k] + 1 ELSE 1
  BY <1>1, CompletionIs
<1>3. /\ CompletedOf(k)' = CompletedOf(k) \cup {w}
      /\ \A j : j # k => CompletedOf(j)' = CompletedOf(j)
      /\ \A j : w \notin CompletedOf(j) /\ CompletedOf(j) \subseteq Completed
      /\ \A u \in Completed : u \in CompletedOf(WindowKind[u])
  BY <1>1, <1>2 DEF CompletedOf
<1>4. /\ sAfter \in [WindowIds -> Nat] /\ sStreak \in [SessionKinds -> Nat]
      /\ sLastDay \in [SessionKinds -> Nat] /\ sLongest \in [SessionKinds -> Nat]
      /\ Completed \subseteq WindowIds
      /\ \A u \in Completed : WindowKind[u] \in SessionKinds /\ WindowDay[u] \in Nat \ {0}
  BY SessionTypes, WindowsAre DEF Completed
<1>5. /\ sStreak'[k] = n /\ sLastDay'[k] = t
      /\ sLongest'[k] = IF sLongest[k] <= n THEN n ELSE sLongest[k]
      /\ \A j \in SessionKinds : j # k => /\ sStreak'[j] = sStreak[j] /\ sLastDay'[j] = sLastDay[j]
                                          /\ sLongest'[j] = sLongest[j]
      /\ sBreaks' = IF sStreak[k] > 0 /\ n = 1 THEN sBreaks \cup {<<k, t>>} ELSE sBreaks
  BY <1>1, <1>4 DEF Completes
<1>6. \A j \in SessionKinds : StreakRowFits(j)
  BY DEF SessionInv
<1>7. ASSUME NEW j \in SessionKinds PROVE StreakRowFits(j)'
  <2>1. CASE j = k
    <3>1. w \in CompletedOf(k)' /\ sLastDay'[k] = WindowDay[w] /\ sStreak'[k] = sAfter'[w]
      BY <1>1, <1>2, <1>3, <1>5
    <3>2. \A u \in CompletedOf(k)' : WindowDay[u] <= WindowDay[w]
      BY <1>1, <1>2, <1>3, <1>4
    <3>3. /\ \E l \in CompletedOf(k)' : sLongest'[k] = sAfter'[l]
          /\ \A u \in CompletedOf(k)' : sAfter'[u] <= sLongest'[k]
      <4>1. CASE CompletedOf(k) = {}
        <5>1. sLongest[k] = 0
          BY <1>6, <4>1 DEF StreakRowFits
        <5> QED
          BY <1>2, <1>3, <1>5, <4>1, <5>1
      <4>2. CASE CompletedOf(k) # {}
        <5>1. /\ \E l \in CompletedOf(k) : sLongest[k] = sAfter[l]
              /\ \A u \in CompletedOf(k) : sAfter[u] <= sLongest[k]
          BY <1>6, <4>2 DEF StreakRowFits
        <5>2. /\ sLongest[k] \in Nat
              /\ \A u \in CompletedOf(k) : sAfter[u] \in Nat /\ sAfter'[u] = sAfter[u]
          BY <1>2, <1>3, <1>4
        <5> QED
          BY <1>2, <1>3, <1>5, <5>1, <5>2
      <4> QED
        BY <4>1, <4>2
    <3> QED
      BY <2>1, <3>1, <3>2, <3>3 DEF StreakRowFits
  <2>2. CASE j # k
    <3>1. /\ CompletedOf(j)' = CompletedOf(j)
          /\ \A u \in CompletedOf(j) : sAfter'[u] = sAfter[u]
      BY <1>2, <1>3, <2>2
    <3>2. StreakRowFits(j) /\ sStreak'[j] = sStreak[j] /\ sLastDay'[j] = sLastDay[j]
          /\ sLongest'[j] = sLongest[j]
      BY <1>5, <1>6, <2>2
    <3> QED
      BY <3>1, <3>2 DEF StreakRowFits
  <2> QED
    BY <2>1, <2>2
<1>8. BreaksFit'
  <2>1. ASSUME NEW j \in SessionKinds, NEW d \in Nat
        PROVE  <<j, d>> \in sBreaks'
                   <=> \E u \in CompletedOf(j)' : WindowDay[u] = d /\ Broken(u)'
    <3>1. \A u \in CompletedOf(j) : Broken(u)' <=> Broken(u)
      <4>1. ASSUME NEW u \in CompletedOf(j) PROVE Broken(u)' <=> Broken(u)
        <5>1. u \in Completed /\ WindowKind[u] = j /\ sAfter'[u] = sAfter[u]
          BY <1>2, <1>3 DEF CompletedOf
        <5>2. CASE j = k
          <6>1. ~(WindowDay[w] < WindowDay[u])
            BY <1>1, <1>2, <1>4, <5>1, <5>2
          <6> QED
            BY <1>3, <5>1, <5>2, <6>1 DEF Broken
        <5>3. CASE j # k
          BY <1>3, <5>1, <5>3 DEF Broken
        <5> QED
          BY <5>2, <5>3
      <4> QED
        BY <4>1
    <3>2. <<j, d>> \in sBreaks <=> \E u \in CompletedOf(j) : WindowDay[u] = d /\ Broken(u)
      BY DEF SessionInv, BreaksFit
    <3>3. CASE j # k
      <4>1. <<j, d>> \in sBreaks' <=> <<j, d>> \in sBreaks
        BY <1>5, <3>3
      <4>2. CompletedOf(j)' = CompletedOf(j)
        BY <1>3, <3>3
      <4> QED
        BY <3>1, <3>2, <4>1, <4>2, Zenon
    <3>4. CASE j = k
      <4>1. Broken(w)' <=> n = 1 /\ CompletedOf(k) # {}
        <5>1. ~(WindowDay[w] < WindowDay[w])
          BY <1>1
        <5> QED
          BY <1>1, <1>2, <1>3, <5>1 DEF Broken
      <4>2. sStreak[k] > 0 <=> CompletedOf(k) # {}
        <5>1. CASE CompletedOf(k) = {}
          BY <1>6, <5>1 DEF StreakRowFits
        <5>2. CASE CompletedOf(k) # {}
          <6>1. PICK l \in CompletedOf(k) : sStreak[k] = sAfter[l]
            BY <1>6, <5>2 DEF StreakRowFits
          <6>2. sAfter[l] > 0
            BY <6>1 DEF CompletedOf, Completed
          <6> QED
            BY <5>2, <6>1, <6>2
        <5> QED
          BY <5>1, <5>2
      <4>3. <<j, d>> \in sBreaks' <=> <<j, d>> \in sBreaks \/ (d = t /\ Broken(w)')
        BY <1>5, <3>4, <4>1, <4>2
      <4> QED
        BY <1>1, <1>3, <3>1, <3>2, <3>4, <4>3
    <3> QED
      BY <3>3, <3>4
  <2> QED
    BY <2>1 DEF BreaksFit
<1>9. RunsFit'
  <2>1. CompletedDays(k)' = CompletedDays(k) \cup {t}
    BY <1>1, <1>3 DEF CompletedDays
  <2>2. \A j : j # k => CompletedDays(j)' = CompletedDays(j)
    BY <1>3 DEF CompletedDays
  <2>3. \A j : CompletedDays(j) \subseteq Nat
    BY <1>3, <1>4 DEF CompletedDays
  <2>4. RunsFit
    BY DEF SessionInv
  <2>5. n = Cardinality(RunOf(CompletedDays(k) \cup {t}, t))
    <3>1. CASE CompletedOf(k) = {}
      <4>1. CompletedDays(k) = {}
        BY <3>1 DEF CompletedDays
      <4>2. {} \subseteq 1 .. 0 /\ RunOf({}, 0) = {} /\ Cardinality({}) = 0
        BY FS_EmptySet DEF RunOf
      <4>3. /\ 0 = t - 1 => Cardinality(RunOf({} \cup {t}, t)) = Cardinality(RunOf({}, 0)) + 1
            /\ 0 # t - 1 => Cardinality(RunOf({} \cup {t}, t)) = 1
        BY <1>1, <4>2, RunGrows
      <4> QED
        BY <1>2, <3>1, <4>1, <4>2, <4>3
    <3>2. CASE CompletedOf(k) # {}
      <4>1. PICK l \in CompletedOf(k) :
                /\ sLastDay[k] = WindowDay[l] /\ sStreak[k] = sAfter[l]
                /\ \A u \in CompletedOf(k) : WindowDay[u] <= WindowDay[l]
        BY <1>6, <3>2 DEF StreakRowFits
      <4>2. PICK d \in Nat \ {0} : d = WindowDay[l] /\ d < t
        BY <1>2, <1>3, <1>4, <4>1
      <4>3. CompletedDays(k) \subseteq 1 .. d
        BY <1>3, <1>4, <4>1, <4>2 DEF CompletedDays
      <4>4. sStreak[k] = Cardinality(RunOf(CompletedDays(k), d))
        BY <1>3, <2>4, <4>1, <4>2 DEF RunsFit, CompletedOf
      <4>5. /\ d = t - 1 => Cardinality(RunOf(CompletedDays(k) \cup {t}, t))
                              = Cardinality(RunOf(CompletedDays(k), d)) + 1
            /\ d # t - 1 => Cardinality(RunOf(CompletedDays(k) \cup {t}, t)) = 1
        <5>1. d \in Nat /\ t \in Nat /\ d < t
          BY <1>1, <4>2
        <5> QED
          BY <4>3, <5>1, RunGrows
      <4> QED
        BY <1>1, <1>2, <3>2, <4>1, <4>2, <4>4, <4>5
    <3> QED
      BY <3>1, <3>2
  <2>6. ASSUME NEW u \in Completed'
        PROVE  sAfter'[u] = Cardinality(RunOf(CompletedDays(WindowKind[u]), WindowDay[u]))'
    <3>1. CASE u = w
      <4>1. RunOf(CompletedDays(WindowKind[u]), WindowDay[u])' = RunOf(CompletedDays(k) \cup {t}, t)
        BY <1>1, <2>1, <3>1 DEF RunOf
      <4> QED
        BY <1>2, <2>5, <3>1, <4>1, Zenon
    <3>2. CASE u # w
      <4>1. u \in Completed /\ sAfter'[u] = sAfter[u]
        BY <1>2, <3>2
      <4>2. RunOf(CompletedDays(WindowKind[u]), WindowDay[u])'
               = RunOf(CompletedDays(WindowKind[u]), WindowDay[u])
        <5>1. CASE WindowKind[u] = k
          <6>1. WindowDay[u] \in Nat /\ WindowDay[u] < t
            BY <1>2, <1>3, <1>4, <4>1, <5>1
          <6>2. RunOf(CompletedDays(k) \cup {t}, WindowDay[u])
                  = RunOf(CompletedDays(k), WindowDay[u])
            BY <2>3, <6>1, RunStays
          <6>3. RunOf(CompletedDays(WindowKind[u]), WindowDay[u])'
                   = RunOf(CompletedDays(k) \cup {t}, WindowDay[u])
            BY <2>1, <5>1 DEF RunOf
          <6> QED
            BY <5>1, <6>2, <6>3
        <5>2. CASE WindowKind[u] # k
          BY <2>2, <5>2 DEF RunOf
        <5> QED
          BY <5>1, <5>2
      <4>3. sAfter[u] = Cardinality(RunOf(CompletedDays(WindowKind[u]), WindowDay[u]))
        BY <2>4, <4>1 DEF RunsFit
      <4> QED
        BY <4>1, <4>2, <4>3, Zenon
    <3> QED
      BY <3>1, <3>2
  <2> QED
    BY <2>6 DEF RunsFit
<1> QED
  BY <1>7, <1>8, <1>9

(* The streaks follow the completions.                                       *)
LEMMA StreaksStep ==
    ASSUME SessionInv, [Session!Next]_ofSessions
    PROVE  (\A k \in SessionKinds : StreakRowFits(k))' /\ BreaksFit' /\ RunsFit'
<1>1. CASE UNCHANGED CompletionRows
  <2>1. /\ Completed' = Completed /\ sAfter' = sAfter /\ sBreaks' = sBreaks
        /\ sStreak' = sStreak /\ sLastDay' = sLastDay /\ sLongest' = sLongest
    BY <1>1 DEF CompletionRows, Completed
  <2>2. \A k : CompletedOf(k)' = CompletedOf(k)
    BY <2>1 DEF CompletedOf
  <2>3. \A k : CompletedDays(k)' = CompletedDays(k)
    BY <2>2 DEF CompletedDays
  <2>4. (\A k \in SessionKinds : StreakRowFits(k)) /\ BreaksFit /\ RunsFit
    BY DEF SessionInv
  <2>5. \A k \in SessionKinds : StreakRowFits(k)'
    BY <2>1, <2>2, <2>4 DEF StreakRowFits
  <2>6. BreaksFit'
    BY <2>1, <2>2, <2>4 DEF BreaksFit, Broken
  <2>7. RunsFit'
    BY <2>1, <2>3, <2>4, Zenon DEF RunsFit
  <2> QED
    BY <2>5, <2>6, <2>7
<1>2. CASE Session!Process
  <2>1. PICK id \in DOMAIN sVotes, w \in WindowIds :
            /\ id = sCursor + 1 /\ sVotes[id].window = w
            /\ UNCHANGED CompletionRows \/ Completes(w)
    BY <1>2, ProcessIs
  <2> QED
    BY <1>1, <2>1, CompletionKeepsStreaks
<1> QED
  BY <1>1, <1>2, OnlyProcessCompletes

(* Every step of the sessions keeps their invariant.                         *)
LEMMA SessionInvStep == SessionInv /\ [Session!Next]_ofSessions => SessionInv'
<1> SUFFICES ASSUME SessionInv, [Session!Next]_ofSessions PROVE SessionInv'
  OBVIOUS
<1>1. Session!TypeOK' /\ VotesInOrder' /\ BatchFits' /\ StancesFit'
  BY SessionTyped, VotesStep, BatchStep, StancesStep
<1>2. (\A w \in WindowIds : SessionRowsFit(w))' /\ GuestFits'
  <2>1. \A w \in WindowIds : SessionRowsFit(w)' /\ GuestFits'
    BY RowsStep
  <2>2. WindowIds # {}
    BY WindowsAre
  <2> QED
    BY <2>1, <2>2
<1>3. (\A k \in SessionKinds : StreakRowFits(k))' /\ BreaksFit' /\ RunsFit'
  BY StreaksStep
<1> QED
  BY <1>1, <1>2, <1>3 DEF SessionInv

(* The sessions begin without a vote or a row.                               *)
LEMMA SessionInvInit == Session!Init => SessionInv
<1> SUFFICES ASSUME Session!Init PROVE SessionInv
  OBVIOUS
<1>1. /\ sNow = 1 /\ sBuilt = {} /\ sVotes = <<>> /\ sCursor = 0
      /\ sWorker = Session!IdleWorker /\ sActive = [b \in Bricks |-> 0]
      /\ sCounts = {} /\ sBreaks = {} /\ sXp = {}
      /\ sPartial = [w \in WindowIds |-> -1] /\ sAfter = [w \in WindowIds |-> 0]
      /\ sStreak = [k \in SessionKinds |-> 0] /\ sLastDay = [k \in SessionKinds |-> 0]
      /\ sLongest = [k \in SessionKinds |-> 0] /\ sGuest = Session!NewGuest
  BY DEF Session!Init, WindowIds, Session!Windows, SessionKinds
<1>2. DOMAIN sVotes = {} /\ Len(sVotes) = 0 /\ sVotes \in Seq(VoteSet)
  BY <1>1
<1>3. Completed = {}
  BY <1>1 DEF Completed
<1>4. Session!TypeOK
  <2>1. sNow \in WindowIds
    BY <1>1, WindowsAre
  <2>2. sWorker \in WorkerSet
    <3>1. <<>> \in Seq(1 .. SessionVotes)
      OBVIOUS
    <3> QED
      BY <1>1, <3>1 DEF Session!IdleWorker, WorkerSet
  <2>3. sGuest \in GuestSet
    <3>1. <<>> \in Seq(Bricks) /\ 0 \in Nat
      OBVIOUS
    <3> QED
      BY <1>1, <3>1 DEF Session!NewGuest, GuestSet
  <2>4. sActive \in [Bricks -> 0 .. SessionVotes]
    BY <1>1, SessionsAssumption
  <2>5. sPartial \in [WindowIds -> Nat \cup {-1}] /\ sAfter \in [WindowIds -> Nat]
    BY <1>1
  <2>6. /\ sStreak \in [SessionKinds -> Nat] /\ sLastDay \in [SessionKinds -> Nat]
        /\ sLongest \in [SessionKinds -> Nat]
    BY <1>1
  <2>7. Len(sVotes) <= SessionVotes /\ sCursor \in 0 .. SessionVotes
    BY <1>1, <1>2, SessionsAssumption
  <2>8. /\ sBuilt \subseteq WindowIds /\ sCounts \subseteq WindowIds \X Bricks
        /\ sBreaks \subseteq SessionKinds \X Nat
        /\ sXp \subseteq {"session_completion", "streak_bonus"} \X WindowIds
    BY <1>1
  <2> QED
    BY <1>2, <2>1, <2>2, <2>3, <2>4, <2>5, <2>6, <2>7, <2>8, Zenon
    DEF Session!TypeOK, Session!Windows, WindowIds, VoteSet, WorkerSet, GuestSet, SessionKinds
<1>5. VotesInOrder /\ BatchFits
  BY <1>1, <1>2, <1>3 DEF VotesInOrder, BatchFits
<1>6. StancesFit
  BY <1>1, <1>2 DEF StancesFit, Session!IdleWorker
<1>7. ASSUME NEW w \in WindowIds PROVE SessionRowsFit(w)
  <2>1. CountedBricks(w) = {} /\ Cardinality({}) = 0
    BY <1>1, FS_EmptySet DEF CountedBricks
  <2>2. Cardinality(CountedBricks(w)) = 0
    BY <2>1, Zenon
  <2>3. Session!Target(w) \in Nat \ {0} /\ sPartial[w] = -1
    BY <1>1, WindowsAre
  <2> QED
    BY <1>3, <2>1, <2>2, <2>3 DEF SessionRowsFit
<1>8. GuestFits
  BY <1>1 DEF GuestFits, Session!NewGuest
<1>9. \A k \in SessionKinds : StreakRowFits(k)
  BY <1>1, <1>3 DEF StreakRowFits, CompletedOf
<1>10. BreaksFit /\ RunsFit
  BY <1>1, <1>3 DEF BreaksFit, RunsFit, CompletedOf
<1> QED
  BY <1>4, <1>5, <1>6, <1>7, <1>8, <1>9, <1>10 DEF SessionInv

(* The stance a worker that caught up leaves is the last vote's.             *)
LEMMA StancesMean == SessionInv => Session!ActiveVoteIsLast
<1> SUFFICES ASSUME SessionInv, NEW b \in Bricks
             PROVE  LET all(n) == {0} \cup {i \in 1 .. n : sVotes[i].brick = b}
                    IN  /\ sActive[b] >= Session!Max(all(sCursor))
                        /\ sCursor = Len(sVotes) => sActive[b] = Session!Max(all(Len(sVotes)))
  <2>1. DOMAIN sVotes = 1 .. Len(sVotes)
    BY SessionTypes
  <2> QED
    BY <2>1, Zenon DEF Session!ActiveVoteIsLast
<1> DEFINE all(n) == {0} \cup {i \in 1 .. n : sVotes[i].brick = b}
<1>1. /\ StancesFit /\ sCursor \in Nat /\ Len(sVotes) \in Nat /\ DOMAIN sVotes = 1 .. Len(sVotes)
      /\ sActive[b] \in Nat
  BY SessionTypes DEF SessionInv
<1>2. all(sCursor) \subseteq 0 .. sCursor /\ all(sCursor) # {} /\ 0 \in all(sCursor)
  BY <1>1
<1>3. PICK x \in all(sCursor) : \A y \in all(sCursor) : y <= x
  <2> HIDE DEF all
  <2> QED
    BY <1>1, <1>2, MaximumExists
<1>4. Session!Max(all(sCursor)) = x
  <2>1. all(sCursor) \subseteq Int
    BY <1>1
  <2> HIDE DEF all
  <2> QED
    BY <1>3, <2>1, MaximumIs
<1>5. \A y \in all(sCursor) : y <= sActive[b]
  BY <1>1 DEF StancesFit
<1>6. sActive[b] >= x
  BY <1>1, <1>2, <1>3, <1>5
<1>7. ASSUME sCursor = Len(sVotes) PROVE sActive[b] = Session!Max(all(Len(sVotes)))
  <2>1. sActive[b] \in all(sCursor)
    BY <1>1, <1>7 DEF StancesFit
  <2>2. all(sCursor) \subseteq Int
    BY <1>1
  <2>3. Session!Max(all(sCursor)) = sActive[b]
    <3> HIDE DEF all
    <3> QED
      BY <1>5, <2>1, <2>2, MaximumIs
  <2> QED
    BY <1>7, <2>3
<1> QED
  BY <1>4, <1>6, <1>7

(* What the invariant says of the sessions.                                  *)
LEMMA SessionsMean == SessionInv => Session!SessionsFollowVotes
<1> SUFFICES ASSUME SessionInv PROVE Session!SessionsFollowVotes
  OBVIOUS
<1>1. \A w : Session!Cardinality(Session!CountedIn(w)) = Cardinality(CountedBricks(w))
  BY Zenon DEF Session!Cardinality, Cardinality, Session!CountedIn, CountedBricks
<1>2. \A w : Session!CountedIn(w) = CountedBricks(w)
  BY DEF Session!CountedIn, CountedBricks
<1>3. Session!Windows = WindowIds /\ Session!Done = Completed
  BY DEF Session!Windows, WindowIds, Session!Done, Completed
<1>4. \A w \in WindowIds : SessionRowsFit(w)
  BY DEF SessionInv
<1>5. Session!CompletionIsEarned
  <2>1. \A w \in WindowIds : /\ sPartial[w] <= Session!Cardinality(Session!CountedIn(w))
                             /\ Session!CountedIn(w) \subseteq WindowItems[w]
    BY <1>1, <1>2, <1>4 DEF SessionRowsFit
  <2>2. \A w \in Completed :
          w \in WindowIds /\ Session!Cardinality(Session!CountedIn(w)) >= Session!Target(w)
    BY <1>1, <1>4 DEF SessionRowsFit, Completed
  <2> QED
    BY <1>3, <2>1, <2>2, Zenon DEF Session!CompletionIsEarned
<1>6. Session!VotedSessionsComplete
  <2>1. ASSUME NEW w \in WindowIds \ {sGuest.window}
        PROVE  /\ Session!Cardinality(Session!CountedIn(w)) >= Session!Target(w) => w \in Completed
               /\ sPartial[w] = IF w \in {c[1] : c \in sCounts}
                                THEN Session!Cardinality(Session!CountedIn(w)) ELSE -1
    <3>1. w \in {c[1] : c \in sCounts} <=> CountedBricks(w) # {}
      <4>1. sCounts \subseteq WindowIds \X Bricks
        BY Zenon DEF SessionInv, Session!TypeOK, Session!Windows, WindowIds
      <4>2. \A c \in sCounts : c = <<c[1], c[2]>> /\ c[2] \in Bricks
        BY <4>1
      <4>3. ASSUME w \in {c[1] : c \in sCounts} PROVE CountedBricks(w) # {}
        <5>1. PICK c \in sCounts : w = c[1]
          BY <4>3
        <5>2. c[2] \in CountedBricks(w)
          BY <4>2, <5>1 DEF CountedBricks
        <5> QED
          BY <5>2
      <4>4. ASSUME CountedBricks(w) # {} PROVE w \in {c[1] : c \in sCounts}
        <5>1. PICK b \in Bricks : <<w, b>> \in sCounts
          BY <4>4 DEF CountedBricks
        <5>2. <<w, b>>[1] = w
          OBVIOUS
        <5> QED
          BY <5>1, <5>2
      <4> QED
        BY <4>3, <4>4
    <3>2. SessionRowsFit(w) /\ w # sGuest.window
      BY <1>4
    <3> QED
      BY <1>1, <3>1, <3>2 DEF SessionRowsFit
  <2> QED
    BY <1>3, <2>1, Zenon DEF Session!VotedSessionsComplete
<1> QED
  BY <1>5, <1>6, StancesMean DEF Session!SessionsFollowVotes

(* What it says of the streaks.                                              *)
LEMMA StreaksMean == SessionInv => Session!StreaksAreRuns
<1> SUFFICES ASSUME SessionInv PROVE Session!StreaksAreRuns
  OBVIOUS
<1>1. Session!Windows = WindowIds /\ Session!Done = Completed
  BY DEF Session!Windows, WindowIds, Session!Done, Completed
<1>2. \A k : {w \in Completed : WindowKind[w] = k} = CompletedOf(k)
  BY DEF CompletedOf
<1>3. ASSUME NEW w \in Completed PROVE sAfter[w] = Session!RunTo(w)
  <2>1. {WindowDay[u] : u \in {v \in Session!Done : WindowKind[v] = WindowKind[w]}}
           = CompletedDays(WindowKind[w])
    BY <1>1, <1>2, Zenon DEF CompletedDays
  <2>2. Session!RunTo(w) = Session!Cardinality(RunOf(CompletedDays(WindowKind[w]), WindowDay[w]))
    BY <2>1, Zenon DEF Session!RunTo, RunOf
  <2>3. Session!Cardinality(RunOf(CompletedDays(WindowKind[w]), WindowDay[w]))
           = Cardinality(RunOf(CompletedDays(WindowKind[w]), WindowDay[w]))
    BY Zenon DEF Session!Cardinality, Cardinality
  <2> QED
    BY <2>2, <2>3 DEF SessionInv, RunsFit
<1>4. ASSUME NEW k \in SessionKinds
      PROVE  LET own == {w \in Completed : WindowKind[w] = k}
             IN  /\ sLastDay[k] = Session!Max({0} \cup {WindowDay[w] : w \in own})
                 /\ sStreak[k] = Session!Max({0} \cup
                      {sAfter[w] : w \in {v \in own : WindowDay[v] = sLastDay[k]}})
                 /\ sLongest[k] = Session!Max({0} \cup {sAfter[w] : w \in own})
                 /\ {b[2] : b \in {c \in sBreaks : c[1] = k}}
                       = {WindowDay[w] : w \in {v \in own :
                            sAfter[v] = 1 /\ \E u \in own : WindowDay[u] < WindowDay[v]}}
  <2> DEFINE own == CompletedOf(k)
             latest == {v \in own : WindowDay[v] = sLastDay[k]}
  <2>1. /\ StreakRowFits(k) /\ BreaksFit
        /\ sLastDay[k] \in Nat /\ sStreak[k] \in Nat /\ sLongest[k] \in Nat
        /\ \A w \in own : w \in WindowIds /\ WindowDay[w] \in Nat /\ sAfter[w] \in Nat /\ w \in Nat
                          /\ WindowKind[w] = k
    BY SessionTypes, WindowsAre DEF SessionInv, CompletedOf, Completed
  <2>2. sLastDay[k] = Session!Max({0} \cup {WindowDay[w] : w \in own})
    <3> DEFINE S == {0} \cup {WindowDay[w] : w \in own}
    <3>1. S \subseteq Int
      BY <2>1
    <3>2. sLastDay[k] \in S /\ \A y \in S : y <= sLastDay[k]
      BY <2>1 DEF StreakRowFits
    <3> HIDE DEF S
    <3>3. Session!Max(S) = sLastDay[k]
      BY <3>1, <3>2, MaximumIs
    <3> QED
      BY <3>3 DEF S
  <2>3. sStreak[k] = Session!Max({0} \cup {sAfter[w] : w \in latest})
    <3> DEFINE S == {0} \cup {sAfter[w] : w \in latest}
    <3>1. S \subseteq Int
      BY <2>1
    <3>2. sStreak[k] \in S /\ \A y \in S : y <= sStreak[k]
      <4>1. CASE own = {}
        BY <2>1, <4>1 DEF StreakRowFits
      <4>2. CASE own # {}
        <5>1. PICK l \in own : sLastDay[k] = WindowDay[l] /\ sStreak[k] = sAfter[l]
          BY <2>1, <4>2 DEF StreakRowFits
        <5>2. ASSUME NEW v \in latest PROVE v = l
          <6>1. v \in own /\ WindowDay[v] = WindowDay[l]
            BY <5>1, <5>2
          <6>2. ~(v < l) /\ ~(l < v)
            BY <2>1, <5>1, <6>1, WindowsAre
          <6> QED
            BY <2>1, <5>1, <6>1, <6>2
        <5>3. l \in latest
          BY <5>1
        <5> QED
          BY <2>1, <5>1, <5>2, <5>3
      <4> QED
        BY <4>1, <4>2
    <3> HIDE DEF S
    <3>3. Session!Max(S) = sStreak[k]
      BY <3>1, <3>2, MaximumIs
    <3> QED
      BY <3>3 DEF S
  <2>4. sLongest[k] = Session!Max({0} \cup {sAfter[w] : w \in own})
    <3> DEFINE S == {0} \cup {sAfter[w] : w \in own}
    <3>1. S \subseteq Int
      BY <2>1
    <3>2. sLongest[k] \in S /\ \A y \in S : y <= sLongest[k]
      BY <2>1 DEF StreakRowFits
    <3> HIDE DEF S
    <3>3. Session!Max(S) = sLongest[k]
      BY <3>1, <3>2, MaximumIs
    <3> QED
      BY <3>3 DEF S
  <2>5. {b[2] : b \in {c \in sBreaks : c[1] = k}}
           = {WindowDay[w] : w \in {v \in own :
                sAfter[v] = 1 /\ \E u \in own : WindowDay[u] < WindowDay[v]}}
    <3> DEFINE L == {b[2] : b \in {c \in sBreaks : c[1] = k}}
               R == {WindowDay[w] : w \in {v \in own :
                       sAfter[v] = 1 /\ \E u \in own : WindowDay[u] < WindowDay[v]}}
    <3>1. sBreaks \subseteq SessionKinds \X Nat
      BY Zenon DEF SessionInv, Session!TypeOK, SessionKinds
    <3>2. \A v \in own : Broken(v) <=> sAfter[v] = 1 /\ \E u \in own : WindowDay[u] < WindowDay[v]
      BY <2>1 DEF Broken
    <3>3. \A d \in L : d \in Nat /\ <<k, d>> \in sBreaks
      <4>1. \A c \in sBreaks : c = <<c[1], c[2]>> /\ c[2] \in Nat
        BY <3>1
      <4> QED
        BY <4>1
    <3>4. \A d : <<k, d>> \in sBreaks => d \in L
      <4>1. \A d : <<k, d>>[1] = k /\ <<k, d>>[2] = d
        OBVIOUS
      <4> QED
        BY <4>1
    <3>5. \A d \in Nat : <<k, d>> \in sBreaks <=> d \in R
      BY <2>1, <3>2 DEF BreaksFit
    <3>6. \A d \in R : d \in Nat
      BY <2>1
    <3> HIDE DEF L, R
    <3>7. L = R
      BY <3>3, <3>4, <3>5, <3>6
    <3> QED
      BY <3>7 DEF L, R
  <2> QED
    BY <1>2, <2>2, <2>3, <2>4, <2>5, Zenon
<1> QED
  BY <1>1, <1>3, <1>4, Zenon DEF Session!StreaksAreRuns, SessionKinds

-----------------------------------------------------------------------------
(* A user's challenges.                                                     *)

(* The templates, and what is in a list of them.                             *)
DailyTemplates == {DailyPool[i] : i \in DOMAIN DailyPool} \cup OtherDailies
ListedIn(q) == {q[i] : i \in DOMAIN q}

(* The dailies are finitely many, and no weekly is one.                      *)
LEMMA TemplatesAre ==
    /\ Assigned!Dailies = DailyTemplates /\ Assigned!Templates = DailyTemplates \cup Weeklies
    /\ IsFiniteSet(DailyTemplates) /\ Weeklies \cap DailyTemplates = {}
    /\ DailyPool \in Seq(DailyTemplates)
    /\ \A t \in DailyTemplates \cup Weeklies : ChallengeTarget[t] \in Nat \ {0}
<1>1. Assigned!Dailies = DailyTemplates
  BY Zenon DEF Assigned!Dailies, Assigned!Range, DailyTemplates
<1>2. DailyPool \in Seq(DailyTemplates) /\ Weeklies \cap DailyTemplates = {}
      /\ ChallengeTarget \in [DailyTemplates \cup Weeklies -> Nat \ {0}]
  BY ChallengesAssumption, Zenon DEF DailyTemplates
<1>3. IsFiniteSet({DailyPool[i] : i \in DOMAIN DailyPool})
  <2> DEFINE S == {DailyPool[i] : i \in DOMAIN DailyPool}
  <2>1. DOMAIN DailyPool = 1 .. Len(DailyPool) /\ Len(DailyPool) \in Nat
    BY <1>2
  <2>2. IsFiniteSet(DOMAIN DailyPool)
    BY <2>1, FS_Interval
  <2>3. [i \in DOMAIN DailyPool |-> DailyPool[i]] \in Surjection(DOMAIN DailyPool, S)
    BY DEF Surjection
  <2> QED
    BY <2>2, <2>3, FS_Surjection
<1>4. IsFiniteSet(DailyTemplates)
  BY <1>3, ChallengesAssumption, FS_Union DEF DailyTemplates
<1> QED
  BY <1>1, <1>2, <1>4 DEF Assigned!Templates

(* The selected weeklies are weeklies.                                       *)
LEMMA WeeklySelectionIs ==
    ASSUME NEW m, NEW s \in Assigned!WeeklySelections(m)
    PROVE  s \in Seq(Weeklies)
<1>1. s \in UNION {[1 .. n -> Weeklies] : n \in 0 .. Len(WeeklySlots)}
  BY DEF Assigned!WeeklySelections
<1>2. PICK n \in 0 .. Len(WeeklySlots) : s \in [1 .. n -> Weeklies]
  BY <1>1
<1>3. n \in Nat
  BY <1>2
<1> QED
  BY <1>2, <1>3

(* The candidates are the dailies, each of them.                             *)
LEMMA CandidatesAre ==
    ASSUME NEW order \in Assigned!SetToSeqs(OtherDailies)
    PROVE  /\ DailyPool \o order \in Seq(DailyTemplates)
           /\ \A t \in DailyTemplates :
                \E i \in DOMAIN (DailyPool \o order) : (DailyPool \o order)[i] = t
<1>1. DailyPool \in Seq(DailyTemplates) /\ IsFiniteSet(OtherDailies)
  BY TemplatesAre, ChallengesAssumption
<1>2. PICK n \in Nat : n = Cardinality(OtherDailies)
  BY <1>1, FS_CardinalityType
<1>3. order \in [1 .. n -> OtherDailies] /\ \A i, j \in 1 .. n : i # j => order[i] # order[j]
  <2>1. Assigned!Cardinality(OtherDailies) = n
    BY <1>2, Zenon DEF Assigned!Cardinality, Cardinality
  <2> QED
    BY <2>1, Zenon DEF Assigned!SetToSeqs
<1>4. order \in Seq(DailyTemplates)
  BY <1>3 DEF DailyTemplates
<1>5. \A t \in OtherDailies : \E i \in 1 .. n : order[i] = t
  <2>1. order \in Injection(1 .. n, OtherDailies)
    BY <1>3, Zenon DEF Injection, IsInjective
  <2>2. Cardinality(1 .. n) = n
    BY FS_Interval
  <2>3. order \in Surjection(1 .. n, OtherDailies)
    BY <1>1, <1>2, <2>1, <2>2, FS_Injection
  <2> QED
    BY <2>3 DEF Surjection
<1>6. DailyPool \o order \in Seq(DailyTemplates)
  BY <1>1, <1>4
<1>7. ASSUME NEW t \in DailyTemplates
      PROVE  \E i \in DOMAIN (DailyPool \o order) : (DailyPool \o order)[i] = t
  <2>1. CASE t \in OtherDailies
    <3>1. PICK i \in 1 .. n : order[i] = t
      BY <1>5, <2>1
    <3>2. Len(order) = n
      BY <1>3
    <3>3. /\ Len(DailyPool) + i \in DOMAIN (DailyPool \o order)
          /\ (DailyPool \o order)[Len(DailyPool) + i] = t
      BY <1>1, <1>4, <3>1, <3>2
    <3> QED
      BY <3>3
  <2>2. CASE t \notin OtherDailies
    <3>1. PICK i \in DOMAIN DailyPool : DailyPool[i] = t
      BY <2>2 DEF DailyTemplates
    <3>2. i \in DOMAIN (DailyPool \o order) /\ (DailyPool \o order)[i] = t
      BY <1>1, <1>4, <3>1
    <3> QED
      BY <3>2
  <2> QED
    BY <2>1, <2>2
<1> QED
  BY <1>6, <1>7

(* Five dailies are selected: of fewer, some signature that passes would be   *)
(* missing, and its first candidate would have been taken.                   *)
LEMMA DailySelectionIs ==
    ASSUME NEW m \in Moments, NEW s \in Assigned!DailySelections(m)
    PROVE  s \in Seq(DailyTemplates) /\ Cardinality(ListedIn(s)) = DailyCount
<1>1. PICK order \in Assigned!SetToSeqs(OtherDailies) :
          s \in Assigned!SelectFiveWithOverlapRule(DailyPool \o order, m)
  BY DEF Assigned!DailySelections
<1>2. PICK c \in Seq(DailyTemplates) :
          /\ s \in Assigned!SelectFiveWithOverlapRule(c, m)
          /\ \A t \in DailyTemplates : \E i \in DOMAIN c : c[i] = t
  <2>1. DailyPool \o order \in Seq(DailyTemplates)
    BY CandidatesAre
  <2> QED
    BY <1>1, <2>1, CandidatesAre
<1>3. PICK p \in UNION {[1 .. n -> DOMAIN c] : n \in 0 .. DailyCount} :
          Assigned!Takes(p, c, m) /\ s = [n \in DOMAIN p |-> c[p[n]]]
  BY <1>2, Zenon DEF Assigned!SelectFiveWithOverlapRule
<1>4. PICK k \in 0 .. DailyCount : p \in [1 .. k -> DOMAIN c]
  BY <1>3
<1>5. /\ k \in Nat /\ k <= DailyCount /\ DailyCount \in Nat
      /\ DOMAIN c = 1 .. Len(c) /\ Len(c) \in Nat
      /\ \A i \in DOMAIN c : c[i] \in DailyTemplates
  BY <1>4, ChallengesAssumption
<1>6. s \in [1 .. k -> DailyTemplates] /\ \A n \in 1 .. k : s[n] = c[p[n]]
  BY <1>3, <1>4, <1>5
<1>7. /\ \A a, b \in 1 .. k : a < b => p[a] < p[b]
      /\ \A i \in DOMAIN c :
            (\E n \in 1 .. k : p[n] = i) <=>
               /\ m \in OpenAt[c[i]] /\ Cardinality({n \in 1 .. k : p[n] < i}) < DailyCount
               /\ \A n \in {n \in 1 .. k : p[n] < i} : Signature[c[p[n]]] # Signature[c[i]]
  <2>1. DOMAIN p = 1 .. k
    BY <1>4
  <2>2. \A a, b \in 1 .. k : a < b => p[a] < p[b]
    BY <1>3, <2>1, Zenon DEF Assigned!Takes
  <2>3. ASSUME NEW i \in DOMAIN c
        PROVE  (\E n \in 1 .. k : p[n] = i) <=>
                  /\ m \in OpenAt[c[i]] /\ Cardinality({n \in 1 .. k : p[n] < i}) < DailyCount
                  /\ \A n \in {n \in 1 .. k : p[n] < i} : Signature[c[p[n]]] # Signature[c[i]]
    <3>1. Assigned!Cardinality({n \in 1 .. k : p[n] < i}) = Cardinality({n \in 1 .. k : p[n] < i})
      BY Zenon DEF Assigned!Cardinality, Cardinality
    <3>2. i \in Assigned!Range(p) <=> \E n \in 1 .. k : p[n] = i
      BY <2>1, Zenon DEF Assigned!Range
    <3> QED
      BY <1>3, <2>1, <3>1, <3>2, Zenon DEF Assigned!Takes, Assigned!Satisfiable
  <2> QED
    BY <2>2, <2>3
<1>8. ASSUME NEW a \in 1 .. k, NEW b \in 1 .. k, a # b
      PROVE  Signature[s[a]] # Signature[s[b]]
  <2>1. \A x, y \in 1 .. k : x < y => Signature[s[x]] # Signature[s[y]]
    <3>1. ASSUME NEW x \in 1 .. k, NEW y \in 1 .. k, x < y
          PROVE  Signature[s[x]] # Signature[s[y]]
      <4>1. p[y] \in DOMAIN c /\ x \in {n \in 1 .. k : p[n] < p[y]}
        BY <1>4, <1>7, <3>1
      <4>2. \E n \in 1 .. k : p[n] = p[y]
        BY <3>1
      <4>3. \A n \in {n \in 1 .. k : p[n] < p[y]} : Signature[c[p[n]]] # Signature[c[p[y]]]
        BY <1>7, <4>1, <4>2
      <4> QED
        BY <1>6, <3>1, <4>1, <4>3
    <3> QED
      BY <3>1
  <2>2. a < b \/ b < a
    BY <1>8
  <2> QED
    BY <2>1, <2>2
<1>9. IsFiniteSet(1 .. k) /\ Cardinality(1 .. k) = k
  BY <1>5, FS_Interval
<1>10. k = DailyCount
  <2> DEFINE open == {u \in DailyTemplates : m \in OpenAt[u]}
             all == {Signature[t] : t \in open}
             taken == {Signature[s[n]] : n \in 1 .. k}
  <2>1. Cardinality(all) >= DailyCount
    BY ChallengesAssumption, Zenon DEF DailyTemplates
  <2>2. IsFiniteSet(taken) /\ Cardinality(taken) <= k
    <3>1. [n \in 1 .. k |-> Signature[s[n]]] \in Surjection(1 .. k, taken)
      BY DEF Surjection
    <3> QED
      BY <1>9, <3>1, FS_Surjection
  <2>3. SUFFICES ASSUME k < DailyCount PROVE FALSE
    BY <1>5
  <2>4. ASSUME NEW t \in open PROVE Signature[t] \in taken
    <3>1. PICK i \in DOMAIN c : c[i] = t
      BY <1>2
    <3>2. CASE \E n \in 1 .. k : p[n] = i
      BY <1>6, <3>1, <3>2
    <3>3. CASE ~ \E n \in 1 .. k : p[n] = i
      <4>1. Cardinality({n \in 1 .. k : p[n] < i}) < DailyCount
        <5>1. {n \in 1 .. k : p[n] < i} \in SUBSET (1 .. k)
          OBVIOUS
        <5>2. Cardinality({n \in 1 .. k : p[n] < i}) <= k
              /\ Cardinality({n \in 1 .. k : p[n] < i}) \in Nat
          BY <1>9, <5>1, FS_Subset, FS_CardinalityType
        <5> QED
          BY <1>5, <2>3, <5>2
      <4>2. PICK n \in {n \in 1 .. k : p[n] < i} : Signature[c[p[n]]] = Signature[c[i]]
        BY <1>7, <3>1, <3>3, <4>1
      <4> QED
        BY <1>6, <3>1, <4>2
    <3> QED
      BY <3>2, <3>3
  <2>5. all \in SUBSET taken
    BY <2>4
  <2> HIDE DEF all, taken
  <2>6. Cardinality(all) <= k /\ Cardinality(all) \in Nat
    <3>1. /\ Cardinality(all) <= Cardinality(taken)
          /\ Cardinality(all) \in Nat /\ Cardinality(taken) \in Nat
      BY <2>2, <2>5, FS_Subset, FS_CardinalityType
    <3> QED
      BY <1>5, <2>2, <3>1
  <2> QED
    BY <1>5, <2>1, <2>3, <2>6
<1>11. Cardinality(ListedIn(s)) = k
  <2>1. DOMAIN s = 1 .. k
    BY <1>6
  <2>2. s \in Surjection(1 .. k, ListedIn(s))
    BY <1>6, <2>1 DEF Surjection, ListedIn
  <2>3. s \in Injection(1 .. k, ListedIn(s))
    <3>1. \A a, b \in 1 .. k : s[a] = s[b] => a = b
      BY <1>8
    <3>2. s \in [1 .. k -> ListedIn(s)]
      BY <1>6, <2>1 DEF ListedIn
    <3> QED
      BY <2>1, <3>1, <3>2, Zenon DEF Injection, IsInjective
  <2> QED
    BY <1>9, <2>2, <2>3, FS_Surjection
<1> QED
  BY <1>5, <1>6, <1>10, <1>11

-----------------------------------------------------------------------------
(* The votes of q above f and up to n that count for t, and what they make.   *)
Matches(t, v) == v.type \in TypesOf[t] /\ (t \in DailyTemplates => v.at <= DayEnd)
CountedIn(q, t, f, n) == {i \in 1 .. n : i > f /\ Matches(t, q[i])}
BricksIn(q, S) == {q[i].brick : i \in S}
ScoreIn(q, t, f, n) ==
    Cardinality(IF t \in Distinct THEN BricksIn(q, CountedIn(q, t, f, n))
                ELSE CountedIn(q, t, f, n))

(* The bricks of finitely many votes.                                        *)
LEMMA BricksAreFew ==
    ASSUME NEW q, NEW S, IsFiniteSet(S)
    PROVE  IsFiniteSet(BricksIn(q, S)) /\ Cardinality(BricksIn(q, S)) <= Cardinality(S)
<1>1. [i \in S |-> q[i].brick] \in Surjection(S, BricksIn(q, S))
  BY DEF Surjection, BricksIn
<1> QED
  BY <1>1, FS_Surjection

(* A score is at most the number of votes, grows with them, and is 0 when     *)
(* all of them came before.                                                  *)
LEMMA ScoreGrows ==
    ASSUME NEW q, NEW t, NEW f \in Nat, NEW n \in Nat
    PROVE  /\ ScoreIn(q, t, f, n) \in 0 .. n
           /\ \A m \in 0 .. n : ScoreIn(q, t, f, m) <= ScoreIn(q, t, f, n)
           /\ f >= n => ScoreIn(q, t, f, n) = 0
<1>1. IsFiniteSet(1 .. n) /\ Cardinality(1 .. n) = n
  BY FS_Interval
<1>2. CountedIn(q, t, f, n) \in SUBSET (1 .. n)
  BY DEF CountedIn
<1>3. IsFiniteSet(CountedIn(q, t, f, n)) /\ Cardinality(CountedIn(q, t, f, n)) <= n
      /\ Cardinality(CountedIn(q, t, f, n)) \in Nat
  BY <1>1, <1>2, FS_Subset, FS_CardinalityType
<1>4. /\ IsFiniteSet(BricksIn(q, CountedIn(q, t, f, n)))
      /\ Cardinality(BricksIn(q, CountedIn(q, t, f, n))) \in Nat
      /\ Cardinality(BricksIn(q, CountedIn(q, t, f, n))) <= n
  <2>1. /\ IsFiniteSet(BricksIn(q, CountedIn(q, t, f, n)))
        /\ Cardinality(BricksIn(q, CountedIn(q, t, f, n)))
             <= Cardinality(CountedIn(q, t, f, n))
    BY <1>3, BricksAreFew
  <2>2. Cardinality(BricksIn(q, CountedIn(q, t, f, n))) \in Nat
    BY <2>1, FS_CardinalityType
  <2> QED
    BY <1>3, <2>1, <2>2
<1>5. ScoreIn(q, t, f, n) \in 0 .. n
  <2>1. CASE t \in Distinct
    <3>1. ScoreIn(q, t, f, n) = Cardinality(BricksIn(q, CountedIn(q, t, f, n)))
      BY <2>1, Zenon DEF ScoreIn
    <3> QED
      BY <1>4, <3>1
  <2>2. CASE t \notin Distinct
    <3>1. ScoreIn(q, t, f, n) = Cardinality(CountedIn(q, t, f, n))
      BY <2>2, Zenon DEF ScoreIn
    <3> QED
      BY <1>3, <3>1
  <2> QED
    BY <2>1, <2>2
<1>6. ASSUME NEW m \in 0 .. n PROVE ScoreIn(q, t, f, m) <= ScoreIn(q, t, f, n)
  <2>1. CountedIn(q, t, f, m) \in SUBSET CountedIn(q, t, f, n)
    BY DEF CountedIn
  <2>2. BricksIn(q, CountedIn(q, t, f, m)) \in SUBSET BricksIn(q, CountedIn(q, t, f, n))
    BY <2>1 DEF BricksIn
  <2>3. CASE t \in Distinct
    <3>1. ScoreIn(q, t, f, n) = Cardinality(BricksIn(q, CountedIn(q, t, f, n)))
          /\ ScoreIn(q, t, f, m) = Cardinality(BricksIn(q, CountedIn(q, t, f, m)))
      BY <2>3, Zenon DEF ScoreIn
    <3> QED
      BY <1>4, <2>2, <3>1, FS_Subset
  <2>4. CASE t \notin Distinct
    <3>1. ScoreIn(q, t, f, n) = Cardinality(CountedIn(q, t, f, n))
          /\ ScoreIn(q, t, f, m) = Cardinality(CountedIn(q, t, f, m))
      BY <2>4, Zenon DEF ScoreIn
    <3> QED
      BY <1>3, <2>1, <3>1, FS_Subset
  <2> QED
    BY <2>3, <2>4
<1>7. ASSUME f >= n PROVE ScoreIn(q, t, f, n) = 0
  <2>1. CountedIn(q, t, f, n) = {}
    BY <1>7 DEF CountedIn
  <2>2. BricksIn(q, CountedIn(q, t, f, n)) = {}
    BY <2>1 DEF BricksIn
  <2> QED
    BY <2>1, <2>2, FS_EmptySet, Zenon DEF ScoreIn
<1> QED
  BY <1>5, <1>6, <1>7

(* A score is the same for another list with the same votes.                 *)
LEMMA ScoreSame ==
    ASSUME NEW q, NEW p, NEW t, NEW f \in Nat, NEW n \in Nat, \A i \in 1 .. n : p[i] = q[i]
    PROVE  ScoreIn(p, t, f, n) = ScoreIn(q, t, f, n)
<1>1. CountedIn(p, t, f, n) = CountedIn(q, t, f, n)
  BY DEF CountedIn
<1>2. CountedIn(q, t, f, n) \in SUBSET (1 .. n)
  BY DEF CountedIn
<1>3. BricksIn(p, CountedIn(q, t, f, n)) = BricksIn(q, CountedIn(q, t, f, n))
  BY <1>2 DEF BricksIn
<1> QED
  BY <1>1, <1>3, Zenon DEF ScoreIn

(* A score is the same with one vote more that does not count.               *)
LEMMA ScoreSkips ==
    ASSUME NEW q, NEW t, NEW f \in Nat, NEW n \in Nat, ~Matches(t, q[n + 1])
    PROVE  ScoreIn(q, t, f, n + 1) = ScoreIn(q, t, f, n)
<1>1. \A i : i \in 1 .. (n + 1) <=> (i \in 1 .. n \/ i = n + 1)
  OBVIOUS
<1>2. \A i : i \in CountedIn(q, t, f, n + 1) <=> i \in CountedIn(q, t, f, n)
  BY <1>1, Zenon DEF CountedIn
<1>3. CountedIn(q, t, f, n + 1) = CountedIn(q, t, f, n)
  BY <1>2
<1> QED
  BY <1>3, Zenon DEF ScoreIn

(* With at least k different bricks there are k votes with different bricks,  *)
(* and the other way round.                                                  *)
LEMMA VotesOfBricks ==
    ASSUME NEW q, NEW S, IsFiniteSet(S), NEW k \in Nat
    PROVE  Cardinality(BricksIn(q, S)) >= k <=>
             \E T \in SUBSET S : /\ Cardinality(T) = k
                                 /\ \A v, w \in T : q[v].brick = q[w].brick => v = w
<1> DEFINE B == BricksIn(q, S)
<1>1. IsFiniteSet(B) /\ Cardinality(B) \in Nat
  BY BricksAreFew, FS_CardinalityType
<1>2. ASSUME Cardinality(B) >= k
      PROVE  \E T \in SUBSET S : /\ Cardinality(T) = k
                                 /\ \A v, w \in T : q[v].brick = q[w].brick => v = w
  <2>1. PICK f : f \in Bijection(1 .. Cardinality(B), B)
    BY <1>1, FS_NatBijection, FS_CardinalityType DEF ExistsBijection
  <2>2. /\ f \in [1 .. Cardinality(B) -> B]
        /\ \A i, j \in 1 .. Cardinality(B) : f[i] = f[j] => i = j
    BY <2>1, Zenon DEF Bijection, Injection, IsInjective
  <2>3. 1 .. k \in SUBSET (1 .. Cardinality(B))
    BY <1>1, <1>2
  <2> DEFINE g == [j \in 1 .. k |-> CHOOSE i \in S : q[i].brick = f[j]]
             T == {g[j] : j \in 1 .. k}
  <2>4. ASSUME NEW j \in 1 .. k PROVE g[j] \in S /\ q[g[j]].brick = f[j]
    <3>1. f[j] \in B
      BY <2>2, <2>3
    <3>2. \E i \in S : q[i].brick = f[j]
      BY <3>1 DEF BricksIn
    <3> QED
      BY <3>2
  <2>5. \A i, j \in 1 .. k : g[i] = g[j] => i = j
    BY <2>2, <2>3, <2>4
  <2>6. DOMAIN g = 1 .. k
    OBVIOUS
  <2> HIDE DEF g
  <2>7. g \in Surjection(1 .. k, T) /\ g \in Injection(1 .. k, T)
    <3>1. g \in [1 .. k -> T]
      <4>1. g = [j \in 1 .. k |-> g[j]]
        BY DEF g
      <4> QED
        BY <4>1
    <3> QED
      BY <2>5, <3>1, Zenon DEF Surjection, Injection, IsInjective
  <2>8. Cardinality(T) = k
    <3>1. IsFiniteSet(1 .. k) /\ Cardinality(1 .. k) = k
      BY FS_Interval
    <3> QED
      BY <2>7, <3>1, FS_Surjection
  <2>9. T \in SUBSET S /\ \A v, w \in T : q[v].brick = q[w].brick => v = w
    <3>1. T \in SUBSET S
      BY <2>4
    <3>2. ASSUME NEW v \in T, NEW w \in T, q[v].brick = q[w].brick PROVE v = w
      <4>1. PICK i \in 1 .. k : v = g[i]
        OBVIOUS
      <4>2. PICK j \in 1 .. k : w = g[j]
        OBVIOUS
      <4>3. f[i] = f[j]
        BY <2>4, <3>2, <4>1, <4>2
      <4> QED
        BY <2>2, <2>3, <4>1, <4>2, <4>3
    <3> QED
      BY <3>1, <3>2
  <2> QED
    BY <2>8, <2>9
<1>3. ASSUME NEW T \in SUBSET S, Cardinality(T) = k,
             \A v, w \in T : q[v].brick = q[w].brick => v = w
      PROVE  Cardinality(B) >= k
  <2>1. IsFiniteSet(T)
    BY FS_Subset
  <2> DEFINE h == [v \in T |-> q[v].brick]
  <2>2. h \in Injection(T, B)
    <3>1. h \in [T -> B]
      BY DEF BricksIn
    <3>2. \A v, w \in T : h[v] = h[w] => v = w
      BY <1>3
    <3> HIDE DEF h
    <3> QED
      BY <3>1, <3>2, Zenon DEF Injection, IsInjective
  <2>3. Cardinality(T) <= Cardinality(B)
    BY <1>1, <2>2, FS_Injection
  <2> QED
    BY <1>1, <1>3, <2>3
<1> QED
  BY <1>2, <1>3

-----------------------------------------------------------------------------
AllTemplates == DailyTemplates \cup Weeklies

RowType == [from : Nat, progress : Nat, done : BOOLEAN]

(* The types, and what the worker and the requests hold in each step.         *)
TablesTyped ==
    /\ cNow \in Moments
    /\ cVotes \in Seq(Assigned!Votes) /\ Len(cVotes) <= ChallengeVotes
    /\ cBonus \in BOOLEAN /\ cDisturbed \in BOOLEAN
    /\ cCursor \in Nat /\ cCursor <= Len(cVotes)
ChallengeRowsTyped ==
    /\ DOMAIN cRows \in SUBSET AllTemplates
    /\ \A t \in DOMAIN cRows : /\ cRows[t] \in RowType /\ cRows[t].from <= Len(cVotes)
                               /\ cRows[t].progress <= Len(cVotes)
ChallengeWorkerTyped ==
    /\ cWorker \in [step : {"idle", "weekly", "commit", "cursor"}, from : Nat,
                    todo : Seq(AllTemplates)]
    /\ cWorker.from <= Len(cVotes)
    /\ cWorker.step # "idle" => cCursor < Len(cVotes)
    /\ cWorker.step \in {"weekly", "commit"} => cWorker.from > cCursor
CallsTyped ==
    /\ cRequest \in [Requests -> [step : {"idle", "find", "insert"}, scope : {"daily", "weekly"},
                                  at : Moments, todo : Seq(AllTemplates)]]
    /\ \A r \in Requests : cRequest[r].step = "insert" => cRequest[r].todo # <<>>
ChallengesTyped == TablesTyped /\ ChallengeRowsTyped /\ ChallengeWorkerTyped /\ CallsTyped

(* The votes whose rows are counted: after COMMIT also the one at the cursor. *)
Processed(w, c) == IF w.step = "cursor" THEN c + 1 ELSE c

(* A completed row has its votes; another one lacks some, counted up to where *)
(* the worker is.                                                            *)
RowFits(row, t, q, n) ==
    IF row.done THEN ScoreIn(q, t, row.from, Len(q)) >= ChallengeTarget[t]
    ELSE /\ row.progress < ChallengeTarget[t]
         /\ ScoreIn(q, t, row.from, n) < ChallengeTarget[t]
RowsFitVotes ==
    \A t \in DOMAIN cRows : RowFits(cRows[t], t, cVotes, Processed(cWorker, cCursor))

DoneIn(table) == {t \in DOMAIN table \cap DailyTemplates : table[t].done}
BonusFits == cBonus <=> Cardinality(DoneIn(cRows)) >= DailyCount

(* While one assigner writes, its list completes the slate.                  *)
Whole(S) == S = {} \/ Cardinality(S) = DailyCount
DailyRows == DOMAIN cRows \cap DailyTemplates
Inserting(r) == cRequest[r].step = "insert"
WorkerInserts == cWorker.step \in {"weekly", "commit"} /\ cWorker.todo # <<>>
SlateFits ==
    /\ \A r, u \in Requests : Inserting(r) /\ Inserting(u) => r = u
    /\ WorkerInserts =>
          /\ \A r \in Requests : ~Inserting(r)
          /\ Whole(DailyRows \cup (ListedIn(cWorker.todo) \cap DailyTemplates))
    /\ \A r \in Requests : Inserting(r) =>
          Whole(DailyRows \cup (ListedIn(cRequest[r].todo) \cap DailyTemplates))
    /\ (\A r \in Requests : ~Inserting(r)) => Whole(DailyRows)

ChallengeInv ==
    ChallengesTyped /\ RowsFitVotes /\ BonusFits /\ (~cDisturbed => SlateFits)

(* What recomputeProgress counts, and what the votes alone tell, is the score. *)
LEMMA RecomputeIs ==
    ASSUME ChallengesTyped, NEW table, NEW t \in DOMAIN table, table[t].from \in Nat
    PROVE  Assigned!RecomputeProgress(table, t) = ScoreIn(cVotes, t, table[t].from, Len(cVotes))
<1> DEFINE S == CountedIn(cVotes, t, table[t].from, Len(cVotes))
<1>1. DOMAIN cVotes = 1 .. Len(cVotes)
  BY DEF ChallengesTyped, TablesTyped, ChallengeRowsTyped, ChallengeWorkerTyped
<1>2. {i \in DOMAIN cVotes : i > table[t].from /\ Assigned!PredicateMatches(t, cVotes[i])
                             /\ (t \in Assigned!Dailies => Assigned!InDay(cVotes[i]))} = S
  BY <1>1, TemplatesAre, Zenon DEF CountedIn, Matches, Assigned!PredicateMatches, Assigned!InDay
<1>3. BricksIn(cVotes, S) = {cVotes[i].brick : i \in S}
  BY DEF BricksIn
<1>4. Assigned!RecomputeProgress(table, t)
        = Assigned!Cardinality(IF t \in Distinct THEN {cVotes[i].brick : i \in S} ELSE S)
  BY <1>2, Zenon DEF Assigned!RecomputeProgress
<1>5. \A X : Assigned!Cardinality(X) = Cardinality(X)
  BY Zenon DEF Assigned!Cardinality, Cardinality
<1> QED
  BY <1>3, <1>4, <1>5, Zenon DEF ScoreIn

(* A row is earned when and only when its score reaches the target.          *)
LEMMA EarnedIs ==
    ASSUME ChallengesTyped, NEW t \in DOMAIN cRows
    PROVE  Assigned!Earned(t) <=>
             ScoreIn(cVotes, t, cRows[t].from, Len(cVotes)) >= ChallengeTarget[t]
<1> DEFINE S == CountedIn(cVotes, t, cRows[t].from, Len(cVotes))
<1>1. DOMAIN cVotes = 1 .. Len(cVotes) /\ Len(cVotes) \in Nat
  BY DEF ChallengesTyped, TablesTyped, ChallengeRowsTyped, ChallengeWorkerTyped
<1>2. {v \in DOMAIN cVotes : /\ v > cRows[t].from /\ cVotes[v].type \in TypesOf[t]
                             /\ t \in Assigned!Dailies => cVotes[v].at <= DayEnd} = S
  BY <1>1, TemplatesAre, Zenon DEF CountedIn, Matches
<1>3. \A X : Assigned!Cardinality(X) = Cardinality(X)
  BY Zenon DEF Assigned!Cardinality, Cardinality
<1>4. Assigned!Earned(t) <=>
        IF t \in Distinct
        THEN \E T \in SUBSET S : /\ Cardinality(T) = ChallengeTarget[t]
                                 /\ \A v, w \in T : cVotes[v].brick = cVotes[w].brick => v = w
        ELSE Cardinality(S) >= ChallengeTarget[t]
  BY <1>2, <1>3, Zenon DEF Assigned!Earned
<1>5. IsFiniteSet(S) /\ ChallengeTarget[t] \in Nat
  <2>1. S \in SUBSET (1 .. Len(cVotes)) /\ IsFiniteSet(1 .. Len(cVotes))
    BY <1>1, FS_Interval DEF CountedIn
  <2>2. IsFiniteSet(S)
    BY <2>1, FS_Subset
  <2>3. t \in DailyTemplates \cup Weeklies
    BY DEF ChallengesTyped, TablesTyped, ChallengeRowsTyped, ChallengeWorkerTyped, AllTemplates
  <2> QED
    BY <2>2, <2>3, TemplatesAre
<1> HIDE DEF S
<1>6. CASE t \in Distinct
  <2>1. ScoreIn(cVotes, t, cRows[t].from, Len(cVotes)) = Cardinality(BricksIn(cVotes, S))
    BY <1>6, Zenon DEF ScoreIn, S
  <2>2. Cardinality(BricksIn(cVotes, S)) >= ChallengeTarget[t] <=>
          \E T \in SUBSET S : /\ Cardinality(T) = ChallengeTarget[t]
                              /\ \A v, w \in T : cVotes[v].brick = cVotes[w].brick => v = w
    BY <1>5, VotesOfBricks
  <2> QED
    BY <1>4, <1>6, <2>1, <2>2, Zenon
<1>7. CASE t \notin Distinct
  <2>1. ScoreIn(cVotes, t, cRows[t].from, Len(cVotes)) = Cardinality(S)
    BY <1>7, Zenon DEF ScoreIn, S
  <2> QED
    BY <1>4, <1>7, <2>1, Zenon
<1> QED
  BY <1>6, <1>7

(* The next step of the challenges.                                          *)
LEMMA ChallengeSteps ==
    ASSUME Assigned!Next
    PROVE  \/ \E r \in Requests, scope \in {"daily", "weekly"} : Assigned!Call(r, scope)
           \/ \E r \in Requests : Assigned!Choose(r)
           \/ \E r \in Requests : Assigned!Insert(r)
           \/ \E r \in Requests : Assigned!RequestDies(r)
           \/ Assigned!Begin \/ Assigned!ChooseWeeklies \/ Assigned!Commit
           \/ Assigned!MoveCursor \/ Assigned!WorkerDies
           \/ \E kind \in VoteKinds : Assigned!Vote(kind)
           \/ Assigned!Tick
  BY Zenon DEF Assigned!Next

(* What is selected for the day, or for the week.                            *)
LEMMA SelectionsAre ==
    ASSUME ChallengesTyped, NEW m \in Moments, NEW scope \in {"daily", "weekly"},
           NEW s \in Assigned!Selections(scope, m)
    PROVE  /\ s \in Seq(AllTemplates)
           /\ scope = "weekly" => s \in Seq(Weeklies)
           /\ scope = "daily" =>
                \/ s = <<>>
                \/ DailyRows = {} /\ s \in Seq(DailyTemplates)
                   /\ Cardinality(ListedIn(s)) = DailyCount
           /\ scope = "daily" /\ DailyRows = {} => s # <<>>
<1>1. CASE scope = "daily"
  <2>1. Assigned!Assigned("daily") = DailyRows
    BY TemplatesAre, Zenon DEF Assigned!Assigned, Assigned!Of, DailyRows
  <2>2. CASE DailyRows # {}
    <3>1. s = <<>>
      BY <1>1, <2>1, <2>2, Zenon DEF Assigned!Selections
    <3> QED
      BY <1>1, <2>2, <3>1
  <2>3. CASE DailyRows = {}
    <3>1. s \in Assigned!DailySelections(m)
      BY <1>1, <2>1, <2>3, Zenon DEF Assigned!Selections
    <3>2. s \in Seq(DailyTemplates) /\ Cardinality(ListedIn(s)) = DailyCount
      BY <3>1, DailySelectionIs
    <3>3. s # <<>>
      <4>1. SUFFICES ASSUME s = <<>> PROVE FALSE
        OBVIOUS
      <4>2. ListedIn(s) = {}
        BY <4>1 DEF ListedIn
      <4>3. Cardinality({}) = 0
        BY FS_EmptySet
      <4> QED
        BY <3>2, <4>2, <4>3, ChallengesAssumption
    <3>4. s \in Seq(AllTemplates)
      BY <3>2 DEF AllTemplates
    <3> QED
      BY <1>1, <2>3, <3>2, <3>3, <3>4
  <2> QED
    BY <2>2, <2>3
<1>2. CASE scope = "weekly"
  <2>1. s = <<>> \/ s \in Assigned!WeeklySelections(m)
    BY <1>2, Zenon DEF Assigned!Selections
  <2>2. s \in Seq(Weeklies)
    <3>1. <<>> \in Seq(Weeklies)
      OBVIOUS
    <3> QED
      BY <2>1, <3>1, WeeklySelectionIs, Zenon
  <2>3. s \in Seq(AllTemplates)
    BY <2>2 DEF AllTemplates
  <2> QED
    BY <1>2, <2>2, <2>3
<1> QED
  BY <1>1, <1>2

(* A row that an INSERT adds, and a row after a recount.                      *)
Fresh(f) == [from |-> f, progress |-> 0, done |-> FALSE]
Recounted(row, t, n) ==
    [row EXCEPT !.progress = n, !.done = n # row.progress /\ n >= ChallengeTarget[t]]

(* The rows after an INSERT.                                                 *)
LEMMA InsertedAre ==
    ASSUME NEW ts, NEW f
    PROVE  /\ DOMAIN Assigned!Inserted(ts, f) = DOMAIN cRows \cup ts
           /\ \A t \in DOMAIN cRows : Assigned!Inserted(ts, f)[t] = cRows[t]
           /\ \A t \in ts : t \notin DOMAIN cRows => Assigned!Inserted(ts, f)[t] = Fresh(f)
  BY DEF Assigned!Inserted, Fresh

(* The range of a list.                                                      *)
LEMMA RangeIs == \A q : Assigned!Range(q) = ListedIn(q)
  BY Zenon DEF Assigned!Range, ListedIn

(* The fields of such rows.                                                  *)
LEMMA FreshIs ==
    ASSUME NEW f \in Nat
    PROVE  /\ Fresh(f) \in RowType /\ Fresh(f).from = f
           /\ Fresh(f).progress = 0 /\ ~Fresh(f).done
  BY DEF Fresh, RowType

(* The fields of a recounted row.                                            *)
LEMMA RecountedRowIs ==
    ASSUME NEW row \in RowType, NEW t, NEW n \in Nat
    PROVE  /\ Recounted(row, t, n) \in RowType /\ Recounted(row, t, n).from = row.from
           /\ Recounted(row, t, n).progress = n
           /\ Recounted(row, t, n).done <=> n # row.progress /\ n >= ChallengeTarget[t]
<1>1. (n # row.progress /\ n >= ChallengeTarget[t]) \in BOOLEAN
  BY Zenon
<1>2. PICK b \in BOOLEAN : b = (n # row.progress /\ n >= ChallengeTarget[t])
  BY <1>1, Zenon
<1>3. Recounted(row, t, n) = [row EXCEPT !.progress = n, !.done = b]
  BY <1>2, Zenon DEF Recounted
<1>4. /\ [row EXCEPT !.progress = n, !.done = b] \in RowType
      /\ [row EXCEPT !.progress = n, !.done = b].from = row.from
      /\ [row EXCEPT !.progress = n, !.done = b].progress = n
      /\ [row EXCEPT !.progress = n, !.done = b].done = b
  BY DEF RowType
<1> QED
  BY <1>2, <1>3, <1>4, Zenon

(* The worker's table at COMMIT: the rows there were and its own, some of     *)
(* them recounted.                                                           *)
LEMMA ChallengeCommitIs ==
    ASSUME ChallengesTyped, Assigned!Commit
    PROVE  /\ cWorker.step = "commit"
           /\ DOMAIN cRows' = DOMAIN cRows \cup ListedIn(cWorker.todo)
           /\ \A t \in DOMAIN cRows' : \E row \in RowType :
                /\ \/ t \in DOMAIN cRows /\ row = cRows[t]
                   \/ t \notin DOMAIN cRows /\ row = Fresh(cWorker.from)
                /\ \/ /\ ~row.done /\ Matches(t, cVotes[cCursor + 1])
                      /\ cRows'[t] =
                           Recounted(row, t, ScoreIn(cVotes, t, row.from, Len(cVotes)))
                   \/ /\ cRows'[t] = row
                      /\ ~row.done => ~Matches(t, cVotes[cCursor + 1])
           /\ cWorker' = [Assigned!Sleeping EXCEPT !.step = "cursor"]
           /\ UNCHANGED <<cNow, cVotes, cCursor, cRequest, cDisturbed>>
<1>1. PICK table : table = Assigned!Inserted(ListedIn(cWorker.todo), cWorker.from)
  OBVIOUS
<1>2. /\ cWorker.step = "commit"
      /\ cRows' = [t \in DOMAIN table |->
            IF t \in Assigned!Active(table) THEN Assigned!Progressed(table, t) ELSE table[t]]
      /\ cWorker' = [Assigned!Sleeping EXCEPT !.step = "cursor"]
      /\ UNCHANGED <<cNow, cVotes, cCursor, cRequest, cDisturbed>>
  BY <1>1, RangeIs, Zenon DEF Assigned!Commit
<1>3. /\ DOMAIN table = DOMAIN cRows \cup ListedIn(cWorker.todo)
      /\ \A t \in DOMAIN cRows : table[t] = cRows[t]
      /\ \A t \in DOMAIN table : t \notin DOMAIN cRows => table[t] = Fresh(cWorker.from)
  <2>1. PICK ts, f : ts = ListedIn(cWorker.todo) /\ f = cWorker.from
    OBVIOUS
  <2>2. /\ DOMAIN table = DOMAIN cRows \cup ts
        /\ \A t \in DOMAIN cRows : table[t] = cRows[t]
        /\ \A t \in ts : t \notin DOMAIN cRows => table[t] = Fresh(f)
    <3>1. table = [t \in DOMAIN cRows \cup ts |->
                     IF t \in DOMAIN cRows THEN cRows[t] ELSE Fresh(f)]
      BY <1>1, <2>1, Zenon DEF Assigned!Inserted, Fresh
    <3> QED
      BY <3>1
  <2> QED
    BY <2>1, <2>2
<1>4. \A t : t \in Assigned!Active(table) <=>
         t \in DOMAIN table /\ ~table[t].done /\ Matches(t, cVotes[cCursor + 1])
  BY TemplatesAre, Zenon
     DEF Matches, Assigned!Active, Assigned!PredicateMatches, Assigned!Current, Assigned!InDay
<1>5. \A t \in DOMAIN table : table[t] \in RowType
  <2>1. Fresh(cWorker.from) \in RowType
    BY FreshIs DEF ChallengesTyped, TablesTyped, ChallengeRowsTyped, ChallengeWorkerTyped
  <2>2. \A t \in DOMAIN cRows : cRows[t] \in RowType
    BY DEF ChallengesTyped, TablesTyped, ChallengeRowsTyped, ChallengeWorkerTyped, RowType
  <2> QED
    BY <1>3, <2>1, <2>2, Zenon
<1>6. ASSUME NEW t \in DOMAIN table
      PROVE  Assigned!Progressed(table, t)
               = Recounted(table[t], t, ScoreIn(cVotes, t, table[t].from, Len(cVotes)))
  <2>1. table[t].from \in Nat
    BY <1>5 DEF RowType
  <2>2. Assigned!RecomputeProgress(table, t)
          = ScoreIn(cVotes, t, table[t].from, Len(cVotes))
    BY <2>1, RecomputeIs
  <2> QED
    BY <2>2, Zenon DEF Assigned!Progressed, Recounted
<1>7. ASSUME NEW t \in DOMAIN cRows'
      PROVE  \E row \in RowType :
                /\ \/ t \in DOMAIN cRows /\ row = cRows[t]
                   \/ t \notin DOMAIN cRows /\ row = Fresh(cWorker.from)
                /\ \/ /\ ~row.done /\ Matches(t, cVotes[cCursor + 1])
                      /\ cRows'[t] =
                           Recounted(row, t, ScoreIn(cVotes, t, row.from, Len(cVotes)))
                   \/ /\ cRows'[t] = row
                      /\ ~row.done => ~Matches(t, cVotes[cCursor + 1])
  <2>1. t \in DOMAIN table
    BY <1>2, Zenon
  <2>2. PICK row \in RowType : row = table[t]
    BY <1>5, <2>1, Zenon
  <2>3. \/ t \in DOMAIN cRows /\ row = cRows[t]
        \/ t \notin DOMAIN cRows /\ row = Fresh(cWorker.from)
    BY <1>3, <2>1, <2>2, Zenon
  <2>4. cRows'[t] = IF t \in Assigned!Active(table) THEN Assigned!Progressed(table, t)
                    ELSE table[t]
    BY <1>2, <2>1, Zenon
  <2>5. CASE t \in Assigned!Active(table)
    <3>1. /\ ~row.done /\ Matches(t, cVotes[cCursor + 1])
          /\ cRows'[t] = Recounted(row, t, ScoreIn(cVotes, t, row.from, Len(cVotes)))
      BY <1>4, <1>6, <2>1, <2>2, <2>4, <2>5, Zenon
    <3> QED
      BY <2>3, <3>1, Zenon
  <2>6. CASE t \notin Assigned!Active(table)
    <3>1. /\ cRows'[t] = row
          /\ ~row.done => ~Matches(t, cVotes[cCursor + 1])
      <4>1. cRows'[t] = row
        BY <2>2, <2>4, <2>6, Zenon
      <4>2. ~row.done => ~Matches(t, cVotes[cCursor + 1])
        BY <1>4, <2>1, <2>2, <2>6
      <4> QED
        BY <4>1, <4>2, Zenon
    <3> QED
      BY <2>3, <3>1, Zenon
  <2> QED
    BY <2>5, <2>6
<1>8. DOMAIN cRows' = DOMAIN cRows \cup ListedIn(cWorker.todo)
  BY <1>2, <1>3, Zenon
<1> QED
  BY <1>2, <1>7, <1>8, Zenon

(* The vote at the cursor.                                                   *)
LEMMA CurrentIs ==
    ASSUME ChallengesTyped, cWorker.step # "idle" \/ cCursor < Len(cVotes)
    PROVE  /\ cCursor < Len(cVotes) /\ cCursor + 1 \in 1 .. Len(cVotes)
           /\ Assigned!Current = cVotes[cCursor + 1] /\ Assigned!Current.at \in Moments
<1>1. cCursor < Len(cVotes) /\ cCursor \in Nat /\ Len(cVotes) \in Nat
  BY DEF ChallengesTyped, TablesTyped, ChallengeWorkerTyped
<1>2. cCursor + 1 \in 1 .. Len(cVotes)
  BY <1>1
<1>3. cVotes[cCursor + 1] \in Assigned!Votes
  BY <1>2 DEF ChallengesTyped, TablesTyped
<1>4. PICK k \in VoteKinds, m \in Moments :
         cVotes[cCursor + 1] = [type |-> k.type, brick |-> k.brick, at |-> m]
  BY <1>3 DEF Assigned!Votes
<1>5. Assigned!Current = cVotes[cCursor + 1]
  BY Zenon DEF Assigned!Current
<1> QED
  BY <1>1, <1>2, <1>4, <1>5

(* What a request holds next.                                                *)
LEMMA CallsStep ==
    ASSUME ChallengesTyped, [Assigned!Next]_ofChallenges
    PROVE  CallsTyped'
<1> DEFINE CallType == [step : {"idle", "find", "insert"}, scope : {"daily", "weekly"},
                        at : Moments, todo : Seq(AllTemplates)]
           Fits(c) == c \in CallType /\ (c.step = "insert" => c.todo # <<>>)
<1>1. cRequest \in [Requests -> CallType] /\ \A r \in Requests : Fits(cRequest[r])
  BY DEF ChallengesTyped, CallsTyped
<1>2. Fits(Assigned!Idle)
  <2>1. <<>> \in Seq(AllTemplates) /\ 1 \in Moments
    BY ChallengesAssumption
  <2> QED
    BY <2>1 DEF Assigned!Idle
<1>3. SUFFICES ASSUME cRequest' # cRequest PROVE CallsTyped'
  BY <1>1 DEF CallsTyped
<1>4. SUFFICES ASSUME NEW r \in Requests, NEW c, Fits(c), cRequest' = [cRequest EXCEPT ![r] = c]
               PROVE  CallsTyped'
  <2>1. ASSUME NEW r \in Requests, NEW scope \in {"daily", "weekly"}, Assigned!Call(r, scope)
        PROVE  CallsTyped'
    <3>1. PICK c : c = [step |-> "find", scope |-> scope, at |-> cNow, todo |-> <<>>]
      OBVIOUS
    <3>2. cRequest' = [cRequest EXCEPT ![r] = c]
      BY <2>1, <3>1 DEF Assigned!Call
    <3>3. Fits(c)
      <4>1. cNow \in Moments /\ <<>> \in Seq(AllTemplates)
        BY DEF ChallengesTyped, TablesTyped
      <4> QED
        BY <3>1, <4>1
    <3> QED
      BY <1>4, <3>2, <3>3
  <2>2. ASSUME NEW r \in Requests, Assigned!Choose(r) PROVE CallsTyped'
    <3>1. PICK s \in Assigned!Selections(cRequest[r].scope, cRequest[r].at) :
             cRequest' = [cRequest EXCEPT ![r] =
               IF s = <<>> THEN Assigned!Idle
               ELSE [cRequest[r] EXCEPT !.step = "insert", !.todo = s]]
      BY <2>2 DEF Assigned!Choose
    <3>2. s \in Seq(AllTemplates)
      <4>1. cRequest[r].scope \in {"daily", "weekly"} /\ cRequest[r].at \in Moments
        BY <1>1
      <4> QED
        BY <3>1, <4>1, SelectionsAre
    <3>3. CASE s = <<>>
      <4>1. cRequest' = [cRequest EXCEPT ![r] = Assigned!Idle]
        BY <3>1, <3>3, Zenon
      <4> QED
        BY <1>2, <1>4, <4>1
    <3>4. CASE s # <<>>
      <4>1. PICK c : c = [cRequest[r] EXCEPT !.step = "insert", !.todo = s]
        OBVIOUS
      <4>2. cRequest' = [cRequest EXCEPT ![r] = c]
        BY <3>1, <3>4, <4>1, Zenon
      <4>3. Fits(c)
        BY <1>1, <3>2, <3>4, <4>1
      <4> QED
        BY <1>4, <4>2, <4>3
    <3> QED
      BY <3>3, <3>4
  <2>3. ASSUME NEW r \in Requests, Assigned!Insert(r) PROVE CallsTyped'
    <3>1. cRequest' = [cRequest EXCEPT ![r] =
               IF Len(cRequest[r].todo) = 1 THEN Assigned!Idle
               ELSE [cRequest[r] EXCEPT !.todo = Tail(cRequest[r].todo)]]
          /\ cRequest[r].step = "insert"
      BY <2>3, Zenon DEF Assigned!Insert
    <3>2. CASE Len(cRequest[r].todo) = 1
      <4>1. cRequest' = [cRequest EXCEPT ![r] = Assigned!Idle]
        BY <3>1, <3>2, Zenon
      <4> QED
        BY <1>2, <1>4, <4>1
    <3>3. CASE Len(cRequest[r].todo) # 1
      <4>1. PICK c : c = [cRequest[r] EXCEPT !.todo = Tail(cRequest[r].todo)]
        OBVIOUS
      <4>2. cRequest' = [cRequest EXCEPT ![r] = c]
        BY <3>1, <3>3, <4>1, Zenon
      <4>3. PICK q \in Seq(AllTemplates) : q = cRequest[r].todo /\ q # <<>>
        BY <1>1, <3>1
      <4>4. Tail(q) \in Seq(AllTemplates) /\ Len(Tail(q)) = Len(q) - 1
        BY <4>3, TailOfSeq
      <4>5. Tail(q) # <<>>
        <5>1. Len(<<>>) = 0 /\ Len(q) \in Nat
          BY <4>3
        <5>2. Len(q) # 1
          BY <3>3, <4>3, Zenon
        <5>3. Len(Tail(q)) # 0
          BY <4>4, <5>1, <5>2
        <5> QED
          BY <5>1, <5>3, Zenon
      <4>6. Fits(c)
        <5>1. PICK p \in Seq(AllTemplates) : p = Tail(q) /\ p # <<>>
          BY <4>4, <4>5
        <5>2. c = [cRequest[r] EXCEPT !.todo = p]
          BY <4>1, <4>3, <5>1
        <5> QED
          BY <1>1, <5>1, <5>2
      <4> QED
        BY <1>4, <4>2, <4>6
    <3> QED
      BY <3>2, <3>3
  <2>4. ASSUME NEW r \in Requests, Assigned!RequestDies(r) PROVE CallsTyped'
    <3>1. cRequest' = [cRequest EXCEPT ![r] = Assigned!Idle]
      BY <2>4, Zenon DEF Assigned!RequestDies
    <3> QED
      BY <1>2, <1>4, <3>1
  <2>5. ASSUME \/ Assigned!Begin \/ Assigned!ChooseWeeklies \/ Assigned!Commit
               \/ Assigned!MoveCursor \/ Assigned!WorkerDies
               \/ (\E kind \in VoteKinds : Assigned!Vote(kind)) \/ Assigned!Tick
        PROVE  FALSE
    BY <1>3, <2>5 DEF Assigned!Begin, Assigned!ChooseWeeklies, Assigned!Commit,
       Assigned!MoveCursor, Assigned!WorkerDies, Assigned!Vote, Assigned!Tick
  <2>6. Assigned!Next
    BY <1>3 DEF ofChallenges
  <2> QED
    BY <2>1, <2>2, <2>3, <2>4, <2>5, <2>6, ChallengeSteps
<1>5. cRequest' \in [Requests -> CallType]
  BY <1>1, <1>4
<1>6. \A u \in Requests : cRequest'[u].step = "insert" => cRequest'[u].todo # <<>>
  BY <1>1, <1>4
<1> QED
  BY <1>5, <1>6 DEF CallsTyped

(* The tables grow: a vote, the cursor's step; the log only at its end.       *)
LEMMA TablesStep ==
    ASSUME ChallengesTyped, [Assigned!Next]_ofChallenges
    PROVE  /\ TablesTyped'
           /\ Len(cVotes) <= Len(cVotes') /\ Len(cVotes') \in Nat
           /\ \A i \in 1 .. Len(cVotes) : cVotes'[i] = cVotes[i]
           /\ \/ UNCHANGED cVotes
              \/ UNCHANGED <<cRows, cBonus, cCursor, cWorker, cRequest, cDisturbed>>
<1>1. /\ TablesTyped /\ Len(cVotes) \in Nat /\ cDisturbed \in BOOLEAN /\ cBonus \in BOOLEAN
      /\ \A i \in 1 .. Len(cVotes) : cVotes[i] = cVotes[i]
  BY DEF ChallengesTyped, TablesTyped
<1>2. ASSUME NEW kind \in VoteKinds, Assigned!Vote(kind)
      PROVE  /\ TablesTyped'
             /\ Len(cVotes) <= Len(cVotes') /\ Len(cVotes') \in Nat
             /\ \A i \in 1 .. Len(cVotes) : cVotes'[i] = cVotes[i]
             /\ UNCHANGED <<cRows, cBonus, cCursor, cWorker, cRequest, cDisturbed>>
  <2>1. PICK v : v = [type |-> kind.type, brick |-> kind.brick, at |-> cNow]
    OBVIOUS
  <2>2. v \in Assigned!Votes
    BY <1>1, <2>1 DEF Assigned!Votes, TablesTyped
  <2>3. /\ cVotes' = Append(cVotes, v) /\ Len(cVotes) < ChallengeVotes
        /\ UNCHANGED <<cNow, cRows, cBonus, cCursor, cWorker, cRequest, cDisturbed>>
    BY <1>2, <2>1, Zenon DEF Assigned!Vote
  <2>4. cVotes' \in Seq(Assigned!Votes) /\ Len(cVotes') = Len(cVotes) + 1
        /\ \A i \in 1 .. Len(cVotes) : cVotes'[i] = cVotes[i]
    BY <1>1, <2>2, <2>3 DEF TablesTyped
  <2> QED
    BY <1>1, <2>3, <2>4, ChallengesAssumption DEF TablesTyped
<1>3. ASSUME \A kind \in VoteKinds : ~Assigned!Vote(kind) PROVE UNCHANGED cVotes
  BY <1>3, ChallengeSteps DEF ofChallenges, Assigned!Call, Assigned!Choose, Assigned!Insert,
     Assigned!RequestDies, Assigned!Begin, Assigned!ChooseWeeklies, Assigned!Commit,
     Assigned!MoveCursor, Assigned!WorkerDies, Assigned!Tick, Assigned!tables
<1>4. ASSUME UNCHANGED cVotes, Assigned!Next PROVE TablesTyped'
  <2>1. cNow' \in Moments
    BY <1>1, <1>4, ChallengeSteps DEF TablesTyped, Assigned!Call, Assigned!Choose,
       Assigned!Insert, Assigned!RequestDies, Assigned!Begin, Assigned!ChooseWeeklies,
       Assigned!Commit, Assigned!MoveCursor, Assigned!WorkerDies, Assigned!Tick, Assigned!Vote,
       Assigned!tables
  <2>2. cCursor' = cCursor \/ (cWorker.step # "idle" /\ cCursor' = cCursor + 1)
    BY <1>4, ChallengeSteps DEF Assigned!Call, Assigned!Choose,
       Assigned!Insert, Assigned!RequestDies, Assigned!Begin, Assigned!ChooseWeeklies,
       Assigned!Commit, Assigned!MoveCursor, Assigned!WorkerDies, Assigned!Tick, Assigned!Vote,
       Assigned!tables
  <2>3. cCursor' \in Nat /\ cCursor' <= Len(cVotes)
    BY <1>1, <2>2 DEF ChallengesTyped, TablesTyped, ChallengeWorkerTyped
  <2>4. cBonus' \in BOOLEAN
    <3>1. CASE Assigned!Commit
      BY <3>1, Zenon DEF Assigned!Commit
    <3>2. CASE ~Assigned!Commit
      <4>1. cBonus' = cBonus
        BY <1>4, <3>2, ChallengeSteps DEF Assigned!Call, Assigned!Choose,
           Assigned!Insert, Assigned!RequestDies, Assigned!Begin, Assigned!ChooseWeeklies,
           Assigned!MoveCursor, Assigned!WorkerDies, Assigned!Tick, Assigned!Vote,
           Assigned!tables
      <4> QED
        BY <1>1, <4>1
    <3> QED
      BY <3>1, <3>2
  <2>5. cDisturbed' \in BOOLEAN
    <3>1. ASSUME NEW r \in Requests, Assigned!Choose(r) PROVE cDisturbed' \in BOOLEAN
      BY <3>1, Zenon DEF Assigned!Choose
    <3>2. ASSUME NEW r \in Requests, Assigned!RequestDies(r) PROVE cDisturbed' \in BOOLEAN
      BY <3>2, Zenon DEF Assigned!RequestDies
    <3>3. CASE Assigned!Begin
      BY <3>3, Zenon DEF Assigned!Begin
    <3>4. CASE Assigned!ChooseWeeklies
      BY <3>4, Zenon DEF Assigned!ChooseWeeklies
    <3>5. ASSUME \/ \E r \in Requests, scope \in {"daily", "weekly"} : Assigned!Call(r, scope)
                 \/ \E r \in Requests : Assigned!Insert(r)
                 \/ Assigned!Commit \/ Assigned!MoveCursor \/ Assigned!WorkerDies
                 \/ \E kind \in VoteKinds : Assigned!Vote(kind)
                 \/ Assigned!Tick
          PROVE  cDisturbed' = cDisturbed
      BY <3>5 DEF Assigned!Call, Assigned!Insert, Assigned!Commit, Assigned!MoveCursor,
         Assigned!WorkerDies, Assigned!Tick, Assigned!Vote
    <3> QED
      BY <1>1, <1>4, <3>1, <3>2, <3>3, <3>4, <3>5, ChallengeSteps, Zenon
  <2> QED
    BY <1>1, <1>4, <2>1, <2>3, <2>4, <2>5 DEF TablesTyped
<1>5. CASE \E kind \in VoteKinds : Assigned!Vote(kind)
  BY <1>2, <1>5, Zenon
<1>6. CASE Assigned!Next /\ \A kind \in VoteKinds : ~Assigned!Vote(kind)
  <2>1. UNCHANGED cVotes
    BY <1>3, <1>6, Zenon
  <2>2. TablesTyped'
    BY <1>4, <1>6, <2>1, Zenon
  <2>3. Len(cVotes') = Len(cVotes) /\ \A i \in 1 .. Len(cVotes) : cVotes'[i] = cVotes[i]
    BY <2>1, Zenon
  <2> QED
    BY <1>1, <2>1, <2>2, <2>3
<1>7. CASE UNCHANGED ofChallenges
  BY <1>1, <1>7 DEF ofChallenges, TablesTyped
<1> QED
  BY <1>5, <1>6, <1>7

(* The worker's steps.                                                       *)
LEMMA WorkerMoves ==
    ASSUME ChallengesTyped, [Assigned!Next]_ofChallenges, UNCHANGED cVotes
    PROVE  ChallengeWorkerTyped'
<1>1. /\ Len(cVotes) \in Nat /\ cCursor \in Nat /\ ChallengeWorkerTyped
  BY DEF ChallengesTyped, TablesTyped
<1>2. ChallengeWorkerTyped' \/ cWorker' # cWorker \/ cCursor' # cCursor
  BY <1>1 DEF ChallengeWorkerTyped
<1>3. \/ UNCHANGED <<cWorker, cCursor>>
      \/ Assigned!Begin \/ Assigned!ChooseWeeklies \/ Assigned!Commit
      \/ Assigned!MoveCursor \/ Assigned!WorkerDies
  BY ChallengeSteps DEF ofChallenges, Assigned!Call, Assigned!Choose, Assigned!Insert,
     Assigned!RequestDies, Assigned!Vote, Assigned!Tick, Assigned!tables
<1>4. SUFFICES ASSUME \/ Assigned!Begin \/ Assigned!ChooseWeeklies \/ Assigned!Commit
                      \/ Assigned!MoveCursor \/ Assigned!WorkerDies
               PROVE  ChallengeWorkerTyped'
  BY <1>2, <1>3, Zenon
<1>5. CASE Assigned!Begin
  <2>1. PICK s : /\ s \in IF Assigned!InDay(Assigned!Current)
                          THEN Assigned!Selections("daily", Assigned!Current.at) ELSE {<<>>}
                 /\ cWorker' = [step |-> "weekly", from |-> Len(cVotes), todo |-> s]
                 /\ cCursor' = cCursor /\ cCursor < Len(cVotes)
    BY <1>5 DEF Assigned!Begin, Assigned!tables
  <2>2. s \in Seq(AllTemplates)
    <3>1. Assigned!Current.at \in Moments
      BY <2>1, CurrentIs
    <3>2. <<>> \in Seq(AllTemplates)
      OBVIOUS
    <3> QED
      BY <2>1, <3>1, <3>2, SelectionsAre
  <2> QED
    BY <1>1, <2>1, <2>2 DEF ChallengeWorkerTyped
<1>6. CASE Assigned!ChooseWeeklies
  <2>1. PICK s \in Assigned!Selections("weekly", Assigned!Current.at) :
            /\ cWorker' = [cWorker EXCEPT !.step = "commit", !.todo = cWorker.todo \o s]
            /\ cCursor' = cCursor /\ cWorker.step = "weekly"
    BY <1>6 DEF Assigned!ChooseWeeklies, Assigned!tables
  <2>2. s \in Seq(AllTemplates)
    <3>1. Assigned!Current.at \in Moments
      BY <2>1, CurrentIs
    <3> QED
      BY <3>1, <2>1, SelectionsAre
  <2>3. PICK q \in Seq(AllTemplates) : q = cWorker.todo \o s
    <3>1. PICK p \in Seq(AllTemplates) : p = cWorker.todo
      BY <1>1 DEF ChallengeWorkerTyped
    <3>2. p \o s \in Seq(AllTemplates)
      BY <2>2
    <3> QED
      BY <3>1, <3>2, Zenon
  <2>4. cWorker' = [cWorker EXCEPT !.step = "commit", !.todo = q]
    BY <2>1, <2>3, Zenon
  <2> QED
    BY <1>1, <2>1, <2>4 DEF ChallengeWorkerTyped
<1>7. Assigned!Sleeping = [step |-> "idle", from |-> 0, todo |-> <<>>]
      /\ <<>> \in Seq(AllTemplates)
  BY DEF Assigned!Sleeping
<1>8. CASE Assigned!Commit
  <2>1. cWorker' = [step |-> "cursor", from |-> 0, todo |-> <<>>]
        /\ cCursor' = cCursor /\ cWorker.step = "commit"
    <3>1. cWorker' = [Assigned!Sleeping EXCEPT !.step = "cursor"]
          /\ cCursor' = cCursor /\ cWorker.step = "commit"
      BY <1>8, ChallengeCommitIs
    <3> QED
      BY <1>7, <3>1
  <2> QED
    BY <1>1, <1>7, <2>1 DEF ChallengeWorkerTyped
<1>9. CASE Assigned!MoveCursor \/ Assigned!WorkerDies
  <2>1. cWorker' = Assigned!Sleeping
    BY <1>9 DEF Assigned!MoveCursor, Assigned!WorkerDies
  <2>2. cWorker' = [step |-> "idle", from |-> 0, todo |-> <<>>]
    BY <1>7, <2>1, Zenon
  <2> QED
    BY <1>1, <1>7, <2>2 DEF ChallengeWorkerTyped
<1> QED
  BY <1>4, <1>5, <1>6, <1>8, <1>9

-----------------------------------------------------------------------------
(* A row that fits: with more votes, and counted less far, it still does.     *)
LEMMA RowStillFits ==
    ASSUME NEW row \in RowType, NEW t \in AllTemplates, NEW q, NEW p,
           NEW m \in Nat, NEW n \in Nat, Len(q) \in Nat, Len(p) \in Nat, Len(q) <= Len(p),
           m <= n, n <= Len(q), \A i \in 1 .. Len(q) : p[i] = q[i],
           RowFits(row, t, q, n)
    PROVE  RowFits(row, t, p, m)
<1>1. row.from \in Nat /\ ChallengeTarget[t] \in Nat
  BY TemplatesAre DEF RowType, AllTemplates
<1>2. CASE row.done
  <2>1. ScoreIn(q, t, row.from, Len(q)) >= ChallengeTarget[t]
    BY <1>2, Zenon DEF RowFits
  <2>2. ScoreIn(p, t, row.from, Len(q)) = ScoreIn(q, t, row.from, Len(q))
    BY <1>1, ScoreSame
  <2>3. ScoreIn(p, t, row.from, Len(q)) <= ScoreIn(p, t, row.from, Len(p))
        /\ ScoreIn(p, t, row.from, Len(p)) \in Nat
    <3>1. Len(q) \in 0 .. Len(p)
      OBVIOUS
    <3> QED
      BY <1>1, <3>1, ScoreGrows
  <2>4. ScoreIn(p, t, row.from, Len(p)) >= ChallengeTarget[t]
    <3>1. ScoreIn(q, t, row.from, Len(q)) \in Nat
      BY <1>1, ScoreGrows
    <3> QED
      BY <1>1, <2>1, <2>2, <2>3, <3>1
  <2> QED
    BY <1>2, <2>4, Zenon DEF RowFits
<1>3. CASE ~row.done
  <2>1. row.progress < ChallengeTarget[t] /\ ScoreIn(q, t, row.from, n) < ChallengeTarget[t]
    BY <1>3, Zenon DEF RowFits
  <2>2. \A i \in 1 .. m : p[i] = q[i]
    OBVIOUS
  <2>3. ScoreIn(p, t, row.from, m) = ScoreIn(q, t, row.from, m)
    BY <1>1, <2>2, ScoreSame
  <2>4. ScoreIn(q, t, row.from, m) <= ScoreIn(q, t, row.from, n)
        /\ ScoreIn(q, t, row.from, m) \in Nat /\ ScoreIn(q, t, row.from, n) \in Nat
    <3>1. m \in 0 .. n
      OBVIOUS
    <3> QED
      BY <1>1, <3>1, ScoreGrows
  <2>5. ScoreIn(p, t, row.from, m) < ChallengeTarget[t]
    BY <1>1, <2>1, <2>3, <2>4
  <2> QED
    BY <1>3, <2>1, <2>5, Zenon DEF RowFits
<1> QED
  BY <1>2, <1>3

(* A new row fits: no vote after it is counted yet.                          *)
LEMMA FreshFits ==
    ASSUME NEW t \in AllTemplates, NEW q, NEW f \in Nat, NEW n \in Nat, n <= f
    PROVE  Fresh(f) \in RowType /\ RowFits(Fresh(f), t, q, n)
<1>1. Fresh(f) \in RowType /\ Fresh(f).from = f /\ Fresh(f).progress = 0 /\ ~Fresh(f).done
  BY FreshIs
<1>2. ScoreIn(q, t, f, n) = 0
  BY ScoreGrows
<1>3. ChallengeTarget[t] \in Nat \ {0}
  BY TemplatesAre DEF AllTemplates
<1>4. 0 < ChallengeTarget[t]
  BY <1>3
<1> QED
  BY <1>1, <1>2, <1>4, Zenon DEF RowFits

(* A recounted row fits, counted to the end.                                 *)
LEMMA RecountedFits ==
    ASSUME NEW row \in RowType, ~row.done, NEW t \in AllTemplates, NEW q, NEW m \in Nat,
           NEW n \in Nat, n <= m, Len(q) \in Nat, m <= Len(q), RowFits(row, t, q, n)
    PROVE  /\ Recounted(row, t, ScoreIn(q, t, row.from, Len(q))) \in RowType
           /\ Recounted(row, t, ScoreIn(q, t, row.from, Len(q))).from = row.from
           /\ Recounted(row, t, ScoreIn(q, t, row.from, Len(q))).progress <= Len(q)
           /\ RowFits(Recounted(row, t, ScoreIn(q, t, row.from, Len(q))), t, q, m)
<1>1. row.from \in Nat /\ ChallengeTarget[t] \in Nat /\ row.progress \in Nat
  BY TemplatesAre DEF RowType, AllTemplates
<1>2. PICK s : s = ScoreIn(q, t, row.from, Len(q))
  OBVIOUS
<1>3. s \in 0 .. Len(q) /\ s \in Nat
  <2>1. s \in 0 .. Len(q)
    BY <1>1, <1>2, ScoreGrows
  <2> QED
    BY <2>1
<1>4. PICK new : new = Recounted(row, t, s)
  OBVIOUS
<1>5. /\ new \in RowType /\ new.from = row.from /\ new.progress = s
      /\ new.done <=> s # row.progress /\ s >= ChallengeTarget[t]
  BY <1>3, <1>4, RecountedRowIs
<1>6. row.progress < ChallengeTarget[t]
  BY Zenon DEF RowFits
<1>7. RowFits(new, t, q, m)
  <2>1. CASE new.done
    <3>1. s >= ChallengeTarget[t]
      BY <1>5, <2>1, Zenon
    <3> QED
      BY <1>2, <1>5, <2>1, <3>1, Zenon DEF RowFits
  <2>2. CASE ~new.done
    <3>1. s < ChallengeTarget[t]
      <4>1. s = row.progress \/ ~(s >= ChallengeTarget[t])
        BY <1>5, <2>2, Zenon
      <4> QED
        BY <1>1, <1>3, <1>6, <4>1
    <3>2. ScoreIn(q, t, row.from, m) <= s
      <4>1. m \in 0 .. Len(q)
        OBVIOUS
      <4> QED
        BY <1>1, <1>2, <4>1, ScoreGrows
    <3>3. ScoreIn(q, t, row.from, m) \in Nat
      BY <1>1, ScoreGrows
    <3>4. ScoreIn(q, t, row.from, m) < ChallengeTarget[t]
      BY <1>1, <1>3, <3>1, <3>2, <3>3
    <3> QED
      BY <1>5, <2>2, <3>1, <3>4, Zenon DEF RowFits
  <2> QED
    BY <2>1, <2>2
<1>8. new.progress <= Len(q)
  BY <1>3, <1>5
<1> QED
  BY <1>2, <1>4, <1>5, <1>7, <1>8, Zenon

(* How far the rows are counted.                                             *)
LEMMA ProcessedIs ==
    ASSUME ChallengesTyped
    PROVE  /\ Processed(cWorker, cCursor) \in Nat
           /\ Processed(cWorker, cCursor) <= Len(cVotes) /\ Len(cVotes) \in Nat
<1>1. /\ cCursor \in Nat /\ Len(cVotes) \in Nat /\ cCursor <= Len(cVotes)
      /\ cWorker.step # "idle" => cCursor < Len(cVotes)
  BY DEF ChallengesTyped, TablesTyped, ChallengeWorkerTyped
<1>2. CASE cWorker.step = "cursor"
  <2>1. Processed(cWorker, cCursor) = cCursor + 1
    BY <1>2, Zenon DEF Processed
  <2> QED
    BY <1>1, <1>2, <2>1
<1>3. CASE cWorker.step # "cursor"
  <2>1. Processed(cWorker, cCursor) = cCursor
    BY <1>3, Zenon DEF Processed
  <2> QED
    BY <1>1, <2>1
<1> QED
  BY <1>2, <1>3

(* Only an INSERT and the worker's COMMIT write rows, and only COMMIT counts  *)
(* further.                                                                  *)
LEMMA RowsStand ==
    ASSUME ChallengesTyped, [Assigned!Next]_ofChallenges, ~Assigned!Commit,
           \A r \in Requests : ~Assigned!Insert(r)
    PROVE  /\ UNCHANGED cRows
           /\ Processed(cWorker', cCursor') <= Processed(cWorker, cCursor)
           /\ Processed(cWorker', cCursor') \in Nat
<1>1. cCursor \in Nat
  BY DEF ChallengesTyped, TablesTyped
<1>2. UNCHANGED cRows
  BY ChallengeSteps DEF ofChallenges, Assigned!Call, Assigned!Choose, Assigned!RequestDies,
     Assigned!Begin, Assigned!ChooseWeeklies, Assigned!MoveCursor, Assigned!WorkerDies,
     Assigned!Vote, Assigned!Tick, Assigned!tables
<1>3. \/ UNCHANGED <<cWorker, cCursor>>
      \/ Assigned!Begin \/ Assigned!ChooseWeeklies
      \/ Assigned!MoveCursor \/ Assigned!WorkerDies
  BY ChallengeSteps DEF ofChallenges, Assigned!Call, Assigned!Choose,
     Assigned!RequestDies, Assigned!Vote, Assigned!Tick, Assigned!tables
<1>4. CASE UNCHANGED <<cWorker, cCursor>>
  BY <1>2, <1>4, ProcessedIs
<1>5. ASSUME cWorker'.step # "cursor",
             (cCursor' = cCursor) \/ (cWorker.step = "cursor" /\ cCursor' = cCursor + 1)
      PROVE  /\ Processed(cWorker', cCursor') <= Processed(cWorker, cCursor)
             /\ Processed(cWorker', cCursor') \in Nat
  <2>1. Processed(cWorker', cCursor') = cCursor'
    BY <1>5, Zenon DEF Processed
  <2>2. cWorker.step # "cursor" => Processed(cWorker, cCursor) = cCursor
    BY Zenon DEF Processed
  <2>3. cWorker.step = "cursor" => Processed(cWorker, cCursor) = cCursor + 1
    BY Zenon DEF Processed
  <2> QED
    BY <1>1, <1>5, <2>1, <2>2, <2>3
<1>6. CASE Assigned!Begin
  <2>1. cWorker'.step # "cursor" /\ cCursor' = cCursor
    BY <1>6 DEF Assigned!Begin, Assigned!tables
  <2> QED
    BY <1>2, <1>5, <2>1
<1>7. CASE Assigned!ChooseWeeklies
  <2>1. cWorker'.step # "cursor" /\ cCursor' = cCursor
    <3>1. PICK s : cWorker' = [cWorker EXCEPT !.step = "commit", !.todo = s]
      BY <1>7 DEF Assigned!ChooseWeeklies
    <3>2. cWorker \in [step : {"idle", "weekly", "commit", "cursor"}, from : Nat,
                       todo : Seq(AllTemplates)]
      BY DEF ChallengesTyped, ChallengeWorkerTyped
    <3>3. cCursor' = cCursor
      BY <1>7 DEF Assigned!ChooseWeeklies, Assigned!tables
    <3> QED
      BY <3>1, <3>2, <3>3
  <2> QED
    BY <1>2, <1>5, <2>1
<1>8. CASE Assigned!MoveCursor \/ Assigned!WorkerDies
  <2>1. /\ cWorker'.step # "cursor"
        /\ (cCursor' = cCursor) \/ (cWorker.step = "cursor" /\ cCursor' = cCursor + 1)
    BY <1>8 DEF Assigned!MoveCursor, Assigned!WorkerDies, Assigned!Sleeping, Assigned!tables
  <2> QED
    BY <1>2, <1>5, <2>1
<1> QED
  BY <1>3, <1>4, <1>6, <1>7, <1>8

(* The row that a request inserts.                                           *)
LEMMA ChallengeInsertIs ==
    ASSUME ChallengesTyped, NEW r \in Requests, Assigned!Insert(r)
    PROVE  /\ cRequest[r].step = "insert" /\ cRequest[r].todo \in Seq(AllTemplates)
           /\ cRequest[r].todo # <<>> /\ Head(cRequest[r].todo) \in AllTemplates
           /\ DOMAIN cRows' = DOMAIN cRows \cup {Head(cRequest[r].todo)}
           /\ \A t \in DOMAIN cRows : cRows'[t] = cRows[t]
           /\ \A t \in DOMAIN cRows' : t \notin DOMAIN cRows => cRows'[t] = Fresh(Len(cVotes))
           /\ UNCHANGED <<cNow, cVotes, cBonus, cCursor, cWorker, cDisturbed>>
<1>1. /\ cRequest[r].step = "insert"
      /\ cRows' = Assigned!Inserted({Head(cRequest[r].todo)}, Len(cVotes))
      /\ UNCHANGED <<cNow, cVotes, cBonus, cCursor, cWorker, cDisturbed>>
  BY Zenon DEF Assigned!Insert
<1>2. cRequest[r].todo \in Seq(AllTemplates) /\ cRequest[r].todo # <<>>
  BY <1>1 DEF ChallengesTyped, CallsTyped
<1>3. PICK h \in AllTemplates : h = Head(cRequest[r].todo)
  BY <1>2, TailOfSeq, Zenon
<1>4. cRows' = [t \in DOMAIN cRows \cup {h} |->
                  IF t \in DOMAIN cRows THEN cRows[t] ELSE Fresh(Len(cVotes))]
  BY <1>1, <1>3, Zenon DEF Assigned!Inserted, Fresh
<1>5. /\ DOMAIN cRows' = DOMAIN cRows \cup {h}
      /\ \A t \in DOMAIN cRows : cRows'[t] = cRows[t]
      /\ \A t \in DOMAIN cRows' : t \notin DOMAIN cRows => cRows'[t] = Fresh(Len(cVotes))
  BY <1>4
<1> QED
  BY <1>1, <1>2, <1>3, <1>5, Zenon

(* Rows are written, and counted, as the votes say.                          *)
LEMMA ChallengeRowsStep ==
    ASSUME ChallengesTyped, RowsFitVotes, [Assigned!Next]_ofChallenges
    PROVE  ChallengeRowsTyped' /\ RowsFitVotes'
<1> DEFINE n == Processed(cWorker, cCursor)
           m == Processed(cWorker', cCursor')
<1>1. /\ n \in Nat /\ n <= Len(cVotes) /\ Len(cVotes) \in Nat
      /\ DOMAIN cRows \in SUBSET AllTemplates
      /\ \A t \in DOMAIN cRows :
           /\ cRows[t] \in RowType /\ cRows[t].from <= Len(cVotes)
           /\ cRows[t].progress <= Len(cVotes) /\ RowFits(cRows[t], t, cVotes, n)
  BY ProcessedIs DEF ChallengesTyped, ChallengeRowsTyped, RowsFitVotes
<1>2. /\ Len(cVotes) <= Len(cVotes') /\ Len(cVotes') \in Nat
      /\ \A i \in 1 .. Len(cVotes) : cVotes'[i] = cVotes[i]
  BY TablesStep
<1> HIDE DEF n, m
<1>3. SUFFICES /\ DOMAIN cRows' \in SUBSET AllTemplates
               /\ \A t \in DOMAIN cRows' :
                    /\ cRows'[t] \in RowType /\ cRows'[t].from <= Len(cVotes')
                    /\ cRows'[t].progress <= Len(cVotes') /\ RowFits(cRows'[t], t, cVotes', m)
  BY Zenon DEF ChallengeRowsTyped, RowsFitVotes, m
<1>4. ASSUME NEW t \in DOMAIN cRows, cRows'[t] = cRows[t], m \in Nat, m <= n
      PROVE  /\ cRows'[t] \in RowType /\ cRows'[t].from <= Len(cVotes')
             /\ cRows'[t].progress <= Len(cVotes') /\ RowFits(cRows'[t], t, cVotes', m)
  <2>1. t \in AllTemplates /\ cRows[t] \in RowType
    BY <1>1
  <2>2. RowFits(cRows[t], t, cVotes', m)
    BY <1>1, <1>2, <1>4, <2>1, RowStillFits
  <2>3. cRows[t].from \in Nat /\ cRows[t].progress \in Nat
    BY <2>1 DEF RowType
  <2>4. cRows[t].from <= Len(cVotes') /\ cRows[t].progress <= Len(cVotes')
    BY <1>1, <1>2, <2>3
  <2> QED
    BY <1>4, <2>1, <2>2, <2>4, Zenon
<1>5. ASSUME NEW t \in AllTemplates, NEW f \in Nat, f <= Len(cVotes'), m \in Nat, m <= f,
             cRows'[t] = Fresh(f)
      PROVE  /\ cRows'[t] \in RowType /\ cRows'[t].from <= Len(cVotes')
             /\ cRows'[t].progress <= Len(cVotes') /\ RowFits(cRows'[t], t, cVotes', m)
  <2>1. Fresh(f) \in RowType /\ RowFits(Fresh(f), t, cVotes', m)
    BY <1>5, FreshFits
  <2>2. Fresh(f).from = f /\ Fresh(f).progress = 0
    BY FreshIs
  <2>3. Fresh(f).from <= Len(cVotes') /\ Fresh(f).progress <= Len(cVotes')
    BY <1>2, <1>5, <2>2
  <2> QED
    BY <1>5, <2>1, <2>3, Zenon
<1>6. CASE ~Assigned!Commit /\ \A r \in Requests : ~Assigned!Insert(r)
  <2>1. cRows' = cRows /\ m \in Nat /\ m <= n
    BY <1>6, RowsStand DEF n, m
  <2> QED
    BY <1>1, <1>4, <2>1
<1>7. ASSUME NEW r \in Requests, Assigned!Insert(r)
      PROVE  /\ DOMAIN cRows' \in SUBSET AllTemplates
             /\ \A t \in DOMAIN cRows' :
                  /\ cRows'[t] \in RowType /\ cRows'[t].from <= Len(cVotes')
                  /\ cRows'[t].progress <= Len(cVotes') /\ RowFits(cRows'[t], t, cVotes', m)
  <2>1. /\ DOMAIN cRows' = DOMAIN cRows \cup {Head(cRequest[r].todo)}
        /\ Head(cRequest[r].todo) \in AllTemplates
        /\ \A t \in DOMAIN cRows : cRows'[t] = cRows[t]
        /\ \A t \in DOMAIN cRows' : t \notin DOMAIN cRows => cRows'[t] = Fresh(Len(cVotes))
        /\ UNCHANGED <<cNow, cVotes, cBonus, cCursor, cWorker, cDisturbed>>
    BY <1>7, ChallengeInsertIs
  <2>2. m = n
    BY <2>1, Zenon DEF m, n
  <2>3. DOMAIN cRows' \in SUBSET AllTemplates
    BY <1>1, <2>1
  <2>4. ASSUME NEW t \in DOMAIN cRows'
        PROVE  /\ cRows'[t] \in RowType /\ cRows'[t].from <= Len(cVotes')
               /\ cRows'[t].progress <= Len(cVotes') /\ RowFits(cRows'[t], t, cVotes', m)
    <3>1. CASE t \in DOMAIN cRows
      BY <1>1, <1>4, <2>1, <2>2, <3>1
    <3>2. CASE t \notin DOMAIN cRows
      <4>1. cRows'[t] = Fresh(Len(cVotes)) /\ t \in AllTemplates
        BY <2>1, <2>3, <3>2
      <4> QED
        BY <1>1, <1>2, <1>5, <2>1, <2>2, <4>1
    <3> QED
      BY <3>1, <3>2
  <2> QED
    BY <2>3, <2>4
<1>8. CASE Assigned!Commit
  <2>1. /\ DOMAIN cRows' = DOMAIN cRows \cup ListedIn(cWorker.todo)
        /\ cWorker' = [Assigned!Sleeping EXCEPT !.step = "cursor"]
        /\ cWorker.step = "commit"
        /\ UNCHANGED <<cNow, cVotes, cCursor, cRequest, cDisturbed>>
    BY <1>8, ChallengeCommitIs
  <2>2. /\ cCursor \in Nat /\ cCursor < Len(cVotes) /\ cWorker.from \in Nat
        /\ cWorker.from > cCursor /\ cWorker.from <= Len(cVotes)
        /\ cWorker.todo \in Seq(AllTemplates)
    BY <2>1 DEF ChallengesTyped, TablesTyped, ChallengeWorkerTyped
  <2>3. n = cCursor /\ m = cCursor + 1 /\ m <= cWorker.from /\ m \in Nat /\ m <= Len(cVotes)
    <3>1. n = cCursor
      BY <2>1, Zenon DEF n, Processed
    <3>2. cWorker'.step = "cursor"
      BY <2>1 DEF Assigned!Sleeping
    <3>3. m = cCursor' + 1
      BY <3>2, Zenon DEF m, Processed
    <3> QED
      BY <2>1, <2>2, <3>1, <3>3
  <2>4. DOMAIN cRows' \in SUBSET AllTemplates
    <3>1. ListedIn(cWorker.todo) \in SUBSET AllTemplates
      BY <2>2 DEF ListedIn
    <3> QED
      BY <1>1, <2>1, <3>1
  <2>5. ASSUME NEW t \in DOMAIN cRows'
        PROVE  /\ cRows'[t] \in RowType /\ cRows'[t].from <= Len(cVotes')
               /\ cRows'[t].progress <= Len(cVotes') /\ RowFits(cRows'[t], t, cVotes', m)
    <3>1. PICK row \in RowType :
            /\ \/ t \in DOMAIN cRows /\ row = cRows[t]
               \/ t \notin DOMAIN cRows /\ row = Fresh(cWorker.from)
            /\ \/ /\ ~row.done /\ Matches(t, cVotes[cCursor + 1])
                  /\ cRows'[t] = Recounted(row, t, ScoreIn(cVotes, t, row.from, Len(cVotes)))
               \/ /\ cRows'[t] = row
                  /\ ~row.done => ~Matches(t, cVotes[cCursor + 1])
      BY <1>8, ChallengeCommitIs
    <3>2. t \in AllTemplates
      BY <2>4
    <3>3. /\ row.from <= Len(cVotes) /\ row.progress <= Len(cVotes)
          /\ RowFits(row, t, cVotes, n)
      <4>1. CASE t \in DOMAIN cRows
        BY <1>1, <3>1, <4>1
      <4>2. CASE t \notin DOMAIN cRows
        <5>1. row = Fresh(cWorker.from)
          BY <3>1, <4>2, Zenon
        <5>2. n <= cWorker.from
          BY <2>2, <2>3
        <5>3. row.from = cWorker.from /\ row.progress = 0
          BY <2>2, <5>1, FreshIs
        <5>4. RowFits(row, t, cVotes, n)
          BY <1>1, <2>2, <3>2, <5>1, <5>2, FreshFits
        <5> QED
          BY <1>1, <2>2, <5>3, <5>4
      <4> QED
        BY <4>1, <4>2
    <3>4. CASE cRows'[t] = Recounted(row, t, ScoreIn(cVotes, t, row.from, Len(cVotes)))
               /\ ~row.done
      <4>1. PICK new : new = Recounted(row, t, ScoreIn(cVotes, t, row.from, Len(cVotes)))
        OBVIOUS
      <4>2. n <= m
        BY <2>2, <2>3
      <4>3. /\ new \in RowType /\ new.from = row.from
            /\ new.progress <= Len(cVotes) /\ RowFits(new, t, cVotes, m)
        BY <1>1, <2>3, <3>2, <3>3, <3>4, <4>1, <4>2, RecountedFits
      <4> QED
        BY <2>1, <3>3, <3>4, <4>1, <4>3, Zenon
    <3>5. CASE cRows'[t] = row /\ (~row.done => ~Matches(t, cVotes[cCursor + 1]))
      <4>1. RowFits(row, t, cVotes, m)
        <5>1. CASE row.done
          BY <3>3, <5>1, Zenon DEF RowFits
        <5>2. CASE ~row.done
          <6>1. row.from \in Nat
            BY DEF RowType
          <6>2. ScoreIn(cVotes, t, row.from, cCursor + 1) = ScoreIn(cVotes, t, row.from, cCursor)
            BY <2>2, <3>5, <5>2, <6>1, ScoreSkips
          <6> QED
            BY <2>3, <3>3, <5>2, <6>2, Zenon DEF RowFits
        <5> QED
          BY <5>1, <5>2
      <4> QED
        BY <2>1, <3>3, <3>5, <4>1, Zenon
    <3> QED
      BY <3>1, <3>4, <3>5, Zenon
  <2> QED
    BY <2>4, <2>5
<1> QED
  BY <1>6, <1>7, <1>8

-----------------------------------------------------------------------------
(* The completed dailies are finitely many.                                  *)
LEMMA DoneAre ==
    ASSUME NEW table
    PROVE  /\ IsFiniteSet(DoneIn(table)) /\ Cardinality(DoneIn(table)) \in Nat
           /\ IsFiniteSet(DOMAIN table \cap DailyTemplates)
           /\ Cardinality(DoneIn(table)) <= Cardinality(DOMAIN table \cap DailyTemplates)
           /\ Cardinality(DOMAIN table \cap DailyTemplates) \in Nat
<1>1. /\ DOMAIN table \cap DailyTemplates \in SUBSET DailyTemplates
      /\ IsFiniteSet(DailyTemplates)
  BY TemplatesAre
<1>2. IsFiniteSet(DOMAIN table \cap DailyTemplates)
  BY <1>1, FS_Subset
<1>3. DoneIn(table) \in SUBSET (DOMAIN table \cap DailyTemplates)
  BY DEF DoneIn
<1> QED
  BY <1>2, <1>3, FS_Subset, FS_CardinalityType

(* Five dailies are done, as the worker asks.                                *)
LEMMA AllFiveIs ==
    ASSUME NEW table
    PROVE  Assigned!AllFive(table) <=> Cardinality(DoneIn(table)) >= DailyCount
<1>1. \A X : Assigned!Cardinality(X) = Cardinality(X)
  BY Zenon DEF Assigned!Cardinality, Cardinality
<1>2. Assigned!Done(table) = DoneIn(table)
  BY TemplatesAre, Zenon DEF Assigned!Done, DoneIn
<1>3. Assigned!AllFive(table) <=>
        /\ Cardinality(DOMAIN table \cap DailyTemplates) >= DailyCount
        /\ Cardinality(DoneIn(table)) >= DailyCount
  BY <1>1, <1>2, TemplatesAre, Zenon DEF Assigned!AllFive
<1>4. Cardinality(DoneIn(table)) >= DailyCount
        => Cardinality(DOMAIN table \cap DailyTemplates) >= DailyCount
  BY DoneAre, ChallengesAssumption
<1> QED
  BY <1>3, <1>4, Zenon

(* The bonus is minted with the fifth daily, and never without.              *)
LEMMA BonusStep ==
    ASSUME ChallengesTyped, BonusFits, [Assigned!Next]_ofChallenges
    PROVE  BonusFits'
<1>1. CASE ~Assigned!Commit /\ \A r \in Requests : ~Assigned!Insert(r)
  <2>1. cRows' = cRows
    BY <1>1, RowsStand
  <2>2. cBonus' = cBonus
    BY <1>1, ChallengeSteps DEF ofChallenges, Assigned!Call, Assigned!Choose,
       Assigned!RequestDies, Assigned!Begin, Assigned!ChooseWeeklies, Assigned!MoveCursor,
       Assigned!WorkerDies, Assigned!Vote, Assigned!Tick, Assigned!tables
  <2> QED
    BY <2>1, <2>2, Zenon DEF BonusFits
<1>2. ASSUME NEW r \in Requests, Assigned!Insert(r) PROVE BonusFits'
  <2>1. /\ \A t \in DOMAIN cRows : cRows'[t] = cRows[t]
        /\ DOMAIN cRows \in SUBSET DOMAIN cRows'
        /\ \A t \in DOMAIN cRows' : t \notin DOMAIN cRows => cRows'[t] = Fresh(Len(cVotes))
        /\ cBonus' = cBonus
    BY <1>2, ChallengeInsertIs
  <2>2. ~Fresh(Len(cVotes)).done
    BY DEF Fresh
  <2>3. \A t : t \in DoneIn(cRows') <=> t \in DoneIn(cRows)
    BY <2>1, <2>2 DEF DoneIn
  <2>4. DoneIn(cRows') = DoneIn(cRows)
    BY <2>3
  <2> QED
    BY <2>1, <2>4, Zenon DEF BonusFits
<1>3. CASE Assigned!Commit
  <2>1. /\ cWorker.step = "commit"
        /\ DOMAIN cRows' = DOMAIN cRows \cup ListedIn(cWorker.todo)
        /\ \A t \in DOMAIN cRows' : \E row \in RowType :
             /\ \/ t \in DOMAIN cRows /\ row = cRows[t]
                \/ t \notin DOMAIN cRows /\ row = Fresh(cWorker.from)
             /\ \/ /\ ~row.done /\ Matches(t, cVotes[cCursor + 1])
                   /\ cRows'[t] =
                        Recounted(row, t, ScoreIn(cVotes, t, row.from, Len(cVotes)))
                \/ /\ cRows'[t] = row
                   /\ ~row.done => ~Matches(t, cVotes[cCursor + 1])
    BY <1>3, ChallengeCommitIs
  <2>2. cBonus' = (cBonus \/ (Assigned!InDay(Assigned!Current) /\ Assigned!AllFive(cRows')))
    BY <1>3, Zenon DEF Assigned!Commit
  <2>3. ASSUME NEW t \in DOMAIN cRows, cRows[t].done
        PROVE  t \in DOMAIN cRows' /\ cRows'[t].done
    <3>1. t \in DOMAIN cRows'
      BY <2>1, Zenon
    <3>2. cRows'[t] = cRows[t]
      BY <2>1, <2>3, <3>1, Zenon
    <3> QED
      BY <2>3, <3>1, <3>2, Zenon
  <2>4. DoneIn(cRows) \in SUBSET DoneIn(cRows')
    BY <2>3 DEF DoneIn
  <2>5. Cardinality(DoneIn(cRows)) >= DailyCount => Cardinality(DoneIn(cRows')) >= DailyCount
    <3>1. /\ IsFiniteSet(DoneIn(cRows')) /\ Cardinality(DoneIn(cRows')) \in Nat
          /\ Cardinality(DoneIn(cRows)) \in Nat
      BY DoneAre
    <3>2. Cardinality(DoneIn(cRows)) <= Cardinality(DoneIn(cRows'))
      BY <2>4, <3>1, FS_Subset
    <3> QED
      BY <3>1, <3>2, ChallengesAssumption
  <2>6. CASE Assigned!InDay(Assigned!Current)
    <3>1. cBonus' = (cBonus \/ Assigned!AllFive(cRows'))
      BY <2>2, <2>6, Zenon
    <3>2. Assigned!AllFive(cRows') <=> Cardinality(DoneIn(cRows')) >= DailyCount
      BY AllFiveIs
    <3> QED
      BY <2>5, <3>1, <3>2, Zenon DEF BonusFits
  <2>7. CASE ~Assigned!InDay(Assigned!Current)
    <3>1. cBonus' <=> cBonus
      BY <2>2, <2>7, Zenon
    <3>2. ASSUME NEW t \in DailyTemplates PROVE ~Matches(t, cVotes[cCursor + 1])
      BY <2>7, Zenon DEF Matches, Assigned!InDay, Assigned!Current
    <3>3. ASSUME NEW t \in DoneIn(cRows') PROVE t \in DoneIn(cRows)
      <4>1. t \in DOMAIN cRows' /\ t \in DailyTemplates /\ cRows'[t].done
        BY DEF DoneIn
      <4>2. PICK row \in RowType :
              /\ \/ t \in DOMAIN cRows /\ row = cRows[t]
                 \/ t \notin DOMAIN cRows /\ row = Fresh(cWorker.from)
              /\ cRows'[t] = row
        BY <2>1, <3>2, <4>1, Zenon
      <4>3. ~Fresh(cWorker.from).done
        BY DEF Fresh
      <4> QED
        BY <4>1, <4>2, <4>3, Zenon DEF DoneIn
    <3>4. DoneIn(cRows') = DoneIn(cRows)
      BY <2>4, <3>3
    <3> QED
      BY <3>1, <3>4, Zenon DEF BonusFits
  <2> QED
    BY <2>6, <2>7
<1> QED
  BY <1>1, <1>2, <1>3

-----------------------------------------------------------------------------
(* What is in a list put together of two, and in a list and in its rest.      *)
LEMMA ListedOfTwo ==
    ASSUME NEW S, NEW p \in Seq(S), NEW q \in Seq(S)
    PROVE  ListedIn(p \o q) = ListedIn(p) \cup ListedIn(q)
<1>1. /\ DOMAIN p = 1 .. Len(p) /\ DOMAIN q = 1 .. Len(q)
      /\ Len(p) \in Nat /\ Len(q) \in Nat
      /\ DOMAIN (p \o q) = 1 .. (Len(p) + Len(q))
      /\ \A i \in 1 .. Len(p) : (p \o q)[i] = p[i]
      /\ \A i \in 1 .. Len(q) : (p \o q)[Len(p) + i] = q[i]
  OBVIOUS
<1>2. \A x : x \in ListedIn(p \o q) => x \in ListedIn(p) \cup ListedIn(q)
  <2>1. ASSUME NEW i \in 1 .. (Len(p) + Len(q))
        PROVE  (p \o q)[i] \in ListedIn(p) \cup ListedIn(q)
    <3>1. CASE i \in 1 .. Len(p)
      BY <1>1, <3>1 DEF ListedIn
    <3>2. CASE i \notin 1 .. Len(p)
      <4>1. PICK j \in 1 .. Len(q) : i = Len(p) + j
        <5>1. i - Len(p) \in 1 .. Len(q) /\ i = Len(p) + (i - Len(p))
          BY <1>1, <3>2
        <5> QED
          BY <5>1
      <4> QED
        BY <1>1, <4>1 DEF ListedIn
    <3> QED
      BY <3>1, <3>2
  <2> QED
    BY <1>1, <2>1 DEF ListedIn
<1>3. \A x : x \in ListedIn(p) => x \in ListedIn(p \o q)
  <2>1. \A i \in 1 .. Len(p) : i \in 1 .. (Len(p) + Len(q))
    BY <1>1
  <2> QED
    BY <1>1, <2>1, Zenon DEF ListedIn
<1>4. \A x : x \in ListedIn(q) => x \in ListedIn(p \o q)
  <2>1. \A i \in 1 .. Len(q) : Len(p) + i \in 1 .. (Len(p) + Len(q))
    BY <1>1
  <2> QED
    BY <1>1, <2>1, Zenon DEF ListedIn
<1> QED
  BY <1>2, <1>3, <1>4

(* The members of a list are its head and those of the rest.                 *)
LEMMA ListedOfTail ==
    ASSUME NEW S, NEW q \in Seq(S), q # <<>>
    PROVE  /\ ListedIn(q) = {Head(q)} \cup ListedIn(Tail(q))
           /\ Len(q) = 1 => ListedIn(q) = {Head(q)}
<1>1. /\ DOMAIN q = 1 .. Len(q) /\ Len(q) \in Nat /\ 1 \in DOMAIN q /\ Head(q) = q[1]
      /\ Tail(q) \in Seq(S) /\ Len(Tail(q)) = Len(q) - 1
      /\ DOMAIN Tail(q) = 1 .. (Len(q) - 1)
  OBVIOUS
<1>2. \A i \in DOMAIN Tail(q) : i + 1 \in DOMAIN q /\ Tail(q)[i] = q[i + 1]
  BY TailOfSeq
<1>3. \A x : x \in ListedIn(q) => x \in {Head(q)} \cup ListedIn(Tail(q))
  <2>1. ASSUME NEW i \in DOMAIN q, i # 1 PROVE q[i] \in ListedIn(Tail(q))
    <3>1. PICK j \in DOMAIN Tail(q) : j + 1 = i
      <4>1. i - 1 \in DOMAIN Tail(q) /\ (i - 1) + 1 = i
        BY <1>1, <2>1
      <4> QED
        BY <4>1
    <3> QED
      BY <1>2, <3>1 DEF ListedIn
  <2> QED
    BY <1>1, <2>1 DEF ListedIn
<1>4. \A x : x \in {Head(q)} \cup ListedIn(Tail(q)) => x \in ListedIn(q)
  <2>1. \A x : x \in ListedIn(Tail(q)) => x \in ListedIn(q)
    BY <1>2, Zenon DEF ListedIn
  <2>2. Head(q) \in ListedIn(q)
    BY <1>1, Zenon DEF ListedIn
  <2> QED
    BY <2>1, <2>2
<1>5. Len(q) = 1 => ListedIn(q) = {Head(q)}
  <2>1. Len(q) = 1 => \A i \in DOMAIN q : i = 1
    BY <1>1
  <2> QED
    BY <1>1, <2>1 DEF ListedIn
<1> QED
  BY <1>3, <1>4, <1>5

(* The empty list has no members.                                            *)
LEMMA ListedOfNone == ListedIn(<<>>) = {}
<1>1. DOMAIN <<>> = {}
  OBVIOUS
<1> QED
  BY <1>1, Zenon DEF ListedIn

(* A step that leaves the dailies and the lists of the assigners alone.      *)
LEMMA SlateKept ==
    ASSUME SlateFits, DailyRows' = DailyRows,
           \A r \in Requests : Inserting(r)' <=> Inserting(r),
           \A r \in Requests : Inserting(r) => cRequest'[r].todo = cRequest[r].todo,
           WorkerInserts' => WorkerInserts /\ cWorker'.todo = cWorker.todo
    PROVE  SlateFits'
<1>1. \A r, u \in Requests : Inserting(r)' /\ Inserting(u)' => r = u
  BY Zenon DEF SlateFits
<1>2. WorkerInserts' =>
        /\ \A r \in Requests : ~Inserting(r)'
        /\ Whole(DailyRows' \cup (ListedIn(cWorker'.todo) \cap DailyTemplates))
  BY Zenon DEF SlateFits
<1>3. ASSUME NEW r \in Requests, Inserting(r)'
      PROVE  Whole(DailyRows' \cup (ListedIn(cRequest'[r].todo) \cap DailyTemplates))
  BY <1>3, Zenon DEF SlateFits
<1>4. (\A r \in Requests : ~Inserting(r)') => Whole(DailyRows')
  BY Zenon DEF SlateFits
<1> QED
  BY <1>1, <1>2, <1>3, <1>4, Zenon DEF SlateFits, Inserting

(* The slate stays whole: the assigner that chose when nobody was writing     *)
(* writes alone, unless another chooses too.                                 *)
LEMMA SlateStep ==
    ASSUME ChallengesTyped, ~cDisturbed => SlateFits, [Assigned!Next]_ofChallenges, ~cDisturbed'
    PROVE  SlateFits'
<1>1. /\ cWorker \in [step : {"idle", "weekly", "commit", "cursor"}, from : Nat,
                      todo : Seq(AllTemplates)]
      /\ cRequest \in [Requests -> [step : {"idle", "find", "insert"},
                         scope : {"daily", "weekly"}, at : Moments, todo : Seq(AllTemplates)]]
      /\ Weeklies \cap DailyTemplates = {} /\ cWorker.todo \in Seq(AllTemplates)
  BY TemplatesAre DEF ChallengesTyped, ChallengeWorkerTyped, CallsTyped
<1>2. /\ Assigned!Assigning = {r \in Requests : Inserting(r)}
      /\ Assigned!WorkerAssigns <=> WorkerInserts
  BY Zenon DEF Assigned!Assigning, Assigned!WorkerAssigns, Inserting, WorkerInserts
<1>3. \A r \in Requests : cRequest[r].step = "insert" <=> Inserting(r)
  BY Zenon DEF Inserting
<1>4. ASSUME UNCHANGED <<cRows, cRequest>>,
             WorkerInserts' => WorkerInserts /\ cWorker'.todo = cWorker.todo, SlateFits
      PROVE  SlateFits'
  <2>1. DailyRows' = DailyRows
    BY <1>4, Zenon DEF DailyRows
  <2>2. \A r \in Requests : Inserting(r)' <=> Inserting(r)
    BY <1>4, Zenon DEF Inserting
  <2>3. \A r \in Requests : Inserting(r) => cRequest'[r].todo = cRequest[r].todo
    BY <1>4, Zenon
  <2> QED
    BY <1>4, <2>1, <2>2, <2>3, SlateKept, Zenon
<1>5. ASSUME NEW s \in Seq(Weeklies) PROVE ListedIn(s) \cap DailyTemplates = {}
  <2>1. ListedIn(s) \in SUBSET Weeklies
    BY DEF ListedIn
  <2> QED
    BY <1>1, <2>1
<1>6. CASE UNCHANGED ofChallenges
  BY <1>4, <1>6 DEF ofChallenges, WorkerInserts
<1>7. ASSUME NEW kind \in VoteKinds, Assigned!Vote(kind) PROVE SlateFits'
  BY <1>4, <1>7 DEF Assigned!Vote, WorkerInserts
<1>8. CASE Assigned!Tick
  BY <1>4, <1>8 DEF Assigned!Tick, Assigned!tables, WorkerInserts
<1>9. CASE Assigned!MoveCursor \/ Assigned!WorkerDies
  <2>1. ~WorkerInserts' /\ UNCHANGED <<cRows, cRequest, cDisturbed>>
    BY <1>9 DEF Assigned!MoveCursor, Assigned!WorkerDies, Assigned!Sleeping, Assigned!tables,
       WorkerInserts
  <2> QED
    BY <1>4, <2>1
<1>10. ASSUME NEW r \in Requests, NEW scope \in {"daily", "weekly"}, Assigned!Call(r, scope)
       PROVE  SlateFits'
  <2>1. /\ cRequest[r].step = "idle"
        /\ cRequest' = [cRequest EXCEPT ![r] =
              [step |-> "find", scope |-> scope, at |-> cNow, todo |-> <<>>]]
        /\ UNCHANGED <<cRows, cWorker, cDisturbed>>
    BY <1>10 DEF Assigned!Call, Assigned!tables
  <2>2. \A u \in Requests : (cRequest'[u].step = "insert" <=> cRequest[u].step = "insert")
          /\ (cRequest[u].step = "insert" => cRequest'[u].todo = cRequest[u].todo)
    BY <1>1, <2>1
  <2>3. DailyRows' = DailyRows
    BY <2>1, Zenon DEF DailyRows
  <2>4. \A u \in Requests : (Inserting(u)' <=> Inserting(u))
          /\ (Inserting(u) => cRequest'[u].todo = cRequest[u].todo)
    BY <2>2, Zenon DEF Inserting
  <2>5. WorkerInserts' => WorkerInserts /\ cWorker'.todo = cWorker.todo
    BY <2>1 DEF WorkerInserts
  <2> QED
    BY <2>1, <2>3, <2>4, <2>5, SlateKept, Zenon
<1>11. ASSUME NEW r \in Requests, Assigned!RequestDies(r) PROVE FALSE
  BY <1>11, Zenon DEF Assigned!RequestDies
<1>12. CASE Assigned!Begin
  <2>1. PICK s : /\ s \in IF Assigned!InDay(Assigned!Current)
                          THEN Assigned!Selections("daily", Assigned!Current.at) ELSE {<<>>}
                 /\ cWorker' = [step |-> "weekly", from |-> Len(cVotes), todo |-> s]
                 /\ cDisturbed' = (cDisturbed \/ (s # <<>> /\ Assigned!Assigning # {}))
                 /\ cCursor < Len(cVotes)
                 /\ UNCHANGED <<cRows, cRequest>>
    BY <1>12, Zenon DEF Assigned!Begin, Assigned!tables
  <2>2. SlateFits /\ (s # <<>> => \A r \in Requests : ~Inserting(r))
    BY <1>2, <2>1
  <2>3. CASE s = <<>>
    <3>1. ~WorkerInserts'
      BY <2>1, <2>3 DEF WorkerInserts
    <3> QED
      BY <1>4, <2>1, <2>2, <3>1
  <2>4. CASE s # <<>>
    <3>1. s \in Assigned!Selections("daily", Assigned!Current.at)
      BY <2>1, <2>4
    <3>2. Assigned!Current.at \in Moments
      BY <2>1, CurrentIs
    <3>3. DailyRows = {} /\ s \in Seq(DailyTemplates) /\ Cardinality(ListedIn(s)) = DailyCount
      BY <2>4, <3>1, <3>2, SelectionsAre
    <3>4. DailyRows' = {}
      BY <2>1, <3>3, Zenon DEF DailyRows
    <3>5. \A r \in Requests : ~Inserting(r)'
      BY <2>1, <2>2, <2>4, Zenon DEF Inserting
    <3>6. cWorker'.todo = s
      BY <2>1
    <3>7. ListedIn(s) \in SUBSET DailyTemplates
      BY <3>3 DEF ListedIn
    <3>8. {} \cup (ListedIn(s) \cap DailyTemplates) = ListedIn(s)
      BY <3>7
    <3>9. Whole(DailyRows' \cup (ListedIn(cWorker'.todo) \cap DailyTemplates))
      BY <3>3, <3>4, <3>6, <3>8, Zenon DEF Whole
    <3>10. Whole(DailyRows')
      BY <3>4, Zenon DEF Whole
    <3> QED
      BY <3>5, <3>9, <3>10, Zenon DEF SlateFits, Inserting
  <2> QED
    BY <2>3, <2>4
<1>13. CASE Assigned!ChooseWeeklies
  <2>1. PICK s \in Assigned!Selections("weekly", Assigned!Current.at) :
            /\ cWorker' = [cWorker EXCEPT !.step = "commit", !.todo = cWorker.todo \o s]
            /\ cDisturbed' = (cDisturbed \/ (s # <<>> /\ Assigned!Assigning # {}))
            /\ cWorker.step = "weekly" /\ UNCHANGED <<cRows, cRequest>>
    BY <1>13, Zenon DEF Assigned!ChooseWeeklies, Assigned!tables
  <2>2. SlateFits /\ (s # <<>> => \A r \in Requests : ~Inserting(r))
    BY <1>2, <2>1
  <2>3. s \in Seq(Weeklies) /\ s \in Seq(AllTemplates)
    <3>1. Assigned!Current.at \in Moments
      BY <2>1, CurrentIs
    <3> QED
      BY <2>1, <3>1, SelectionsAre
  <2>4. PICK p \in Seq(AllTemplates) : p = cWorker.todo
    BY <1>1
  <2>5. cWorker'.todo = p \o s
    BY <1>1, <2>1, <2>4
  <2>6. ListedIn(cWorker'.todo) \cap DailyTemplates = ListedIn(p) \cap DailyTemplates
    <3>1. ListedIn(p \o s) = ListedIn(p) \cup ListedIn(s)
      BY <2>3, ListedOfTwo
    <3> QED
      BY <1>5, <2>3, <2>5, <3>1
  <2>7. DailyRows' = DailyRows /\ \A r \in Requests : Inserting(r)' <=> Inserting(r)
    BY <2>1, Zenon DEF DailyRows, Inserting
  <2>8. CASE p # <<>>
    <3>1. WorkerInserts
      BY <2>1, <2>4, <2>8, Zenon DEF WorkerInserts
    <3>2. /\ \A r \in Requests : ~Inserting(r)'
          /\ Whole(DailyRows' \cup (ListedIn(cWorker'.todo) \cap DailyTemplates))
          /\ Whole(DailyRows')
      BY <2>2, <2>4, <2>6, <2>7, <3>1, Zenon DEF SlateFits
    <3> QED
      BY <3>2, Zenon DEF SlateFits, Inserting
  <2>9. CASE p = <<>> /\ s # <<>>
    <3>1. Whole(DailyRows') /\ \A r \in Requests : ~Inserting(r)'
      BY <2>2, <2>7, <2>9, Zenon DEF SlateFits
    <3>2. ListedIn(cWorker'.todo) \cap DailyTemplates = {}
      BY <2>6, <2>9, ListedOfNone
    <3>3. DailyRows' \cup {} = DailyRows'
      OBVIOUS
    <3>4. Whole(DailyRows' \cup (ListedIn(cWorker'.todo) \cap DailyTemplates))
      BY <3>1, <3>2, <3>3, Zenon
    <3> QED
      BY <3>1, <3>4, Zenon DEF SlateFits, Inserting
  <2>10. CASE p = <<>> /\ s = <<>>
    <3>1. p \o s = <<>>
      BY <2>10
    <3>2. ~WorkerInserts'
      BY <2>5, <3>1, Zenon DEF WorkerInserts
    <3> QED
      BY <1>4, <2>1, <2>2, <3>2
  <2> QED
    BY <2>8, <2>9, <2>10
<1>14. CASE Assigned!Commit
  <2>1. /\ cWorker.step = "commit"
        /\ DOMAIN cRows' = DOMAIN cRows \cup ListedIn(cWorker.todo)
        /\ cWorker' = [Assigned!Sleeping EXCEPT !.step = "cursor"]
        /\ UNCHANGED <<cRequest, cDisturbed>>
    BY <1>14, ChallengeCommitIs
  <2>2. ~WorkerInserts'
    <3>1. cWorker'.todo = <<>>
      BY <2>1 DEF Assigned!Sleeping
    <3> QED
      BY <3>1, Zenon DEF WorkerInserts
  <2>3. DailyRows' = DailyRows \cup (ListedIn(cWorker.todo) \cap DailyTemplates)
    BY <2>1 DEF DailyRows
  <2>4. SlateFits /\ \A r \in Requests : Inserting(r)' <=> Inserting(r)
    BY <2>1, Zenon DEF Inserting
  <2>5. CASE cWorker.todo = <<>>
    <3>1. DailyRows' = DailyRows
      BY <2>3, <2>5, ListedOfNone
    <3> QED
      BY <2>1, <2>2, <2>4, <3>1, SlateKept, Zenon
  <2>6. CASE cWorker.todo # <<>>
    <3>1. WorkerInserts
      BY <2>1, <2>6, Zenon DEF WorkerInserts
    <3>2. Whole(DailyRows') /\ \A r \in Requests : ~Inserting(r)'
      BY <2>3, <2>4, <3>1, Zenon DEF SlateFits
    <3> QED
      BY <2>2, <3>2, Zenon DEF SlateFits, Inserting
  <2> QED
    BY <2>5, <2>6
<1>15. ASSUME NEW r \in Requests, Assigned!Choose(r) PROVE SlateFits'
  <2>1. PICK s \in Assigned!Selections(cRequest[r].scope, cRequest[r].at) :
           cRequest' = [cRequest EXCEPT ![r] =
             IF s = <<>> THEN Assigned!Idle
             ELSE [cRequest[r] EXCEPT !.step = "insert", !.todo = s]]
    BY <1>15, Zenon DEF Assigned!Choose
  <2>2. /\ cRequest[r].step = "find" /\ UNCHANGED <<cRows, cWorker>>
        /\ cDisturbed' = (cDisturbed \/ Assigned!Assigning # {} \/ Assigned!WorkerAssigns)
    BY <1>15, Zenon DEF Assigned!Choose, Assigned!tables
  <2>3. SlateFits /\ ~WorkerInserts /\ \A u \in Requests : ~Inserting(u)
    BY <1>2, <2>2
  <2>4. cRequest[r].scope \in {"daily", "weekly"} /\ cRequest[r].at \in Moments
    BY <1>1
  <2>5. \A u \in Requests \ {r} : cRequest'[u] = cRequest[u]
    BY <1>1, <2>1
  <2>6. DailyRows' = DailyRows /\ ~WorkerInserts' /\ Whole(DailyRows)
    BY <2>2, <2>3, Zenon DEF DailyRows, WorkerInserts, SlateFits
  <2>7. \A u \in Requests \ {r} : ~Inserting(u)'
    BY <2>3, <2>5, Zenon DEF Inserting
  <2>8. CASE s = <<>>
    <3>1. cRequest'[r] = Assigned!Idle
      BY <1>1, <2>1, <2>8
    <3>2. cRequest'[r].step # "insert"
      BY <3>1 DEF Assigned!Idle
    <3>3. \A u \in Requests : ~Inserting(u)'
      BY <2>7, <3>2 DEF Inserting
    <3> QED
      BY <2>6, <3>3, Zenon DEF SlateFits, Inserting
  <2>9. CASE s # <<>>
    <3>1. cRequest'[r].step = "insert" /\ cRequest'[r].todo = s
      BY <1>1, <2>1, <2>9
    <3>2. Whole(DailyRows' \cup (ListedIn(s) \cap DailyTemplates))
      <4>1. CASE cRequest[r].scope = "daily"
        <5>1. DailyRows = {} /\ s \in Seq(DailyTemplates)
              /\ Cardinality(ListedIn(s)) = DailyCount
          BY <2>1, <2>4, <2>9, <4>1, SelectionsAre
        <5>2. ListedIn(s) \in SUBSET DailyTemplates
          BY <5>1 DEF ListedIn
        <5>3. DailyRows' \cup (ListedIn(s) \cap DailyTemplates) = ListedIn(s)
          BY <2>6, <5>1, <5>2
        <5> QED
          BY <5>1, <5>3, Zenon DEF Whole
      <4>2. CASE cRequest[r].scope = "weekly"
        <5>1. s \in Seq(Weeklies)
          BY <2>1, <2>4, <4>2, SelectionsAre
        <5>2. ListedIn(s) \cap DailyTemplates = {}
          BY <1>5, <5>1
        <5>3. DailyRows' \cup (ListedIn(s) \cap DailyTemplates) = DailyRows
          BY <2>6, <5>2
        <5> QED
          BY <2>6, <5>3, Zenon
      <4> QED
        BY <2>4, <4>1, <4>2
    <3>3. \A u \in Requests : Inserting(u)' <=> u = r
      BY <2>7, <3>1 DEF Inserting
    <3>4. \A u \in Requests : Inserting(u)' =>
             Whole(DailyRows' \cup (ListedIn(cRequest'[u].todo) \cap DailyTemplates))
      BY <3>1, <3>2, <3>3, Zenon
    <3> QED
      BY <2>6, <3>3, <3>4, Zenon DEF SlateFits, Inserting
  <2> QED
    BY <2>8, <2>9
<1>16. ASSUME NEW r \in Requests, Assigned!Insert(r) PROVE SlateFits'
  <2>1. /\ cRequest[r].step = "insert" /\ cRequest[r].todo \in Seq(AllTemplates)
        /\ cRequest[r].todo # <<>>
        /\ DOMAIN cRows' = DOMAIN cRows \cup {Head(cRequest[r].todo)}
        /\ UNCHANGED <<cWorker, cDisturbed>>
    BY <1>16, ChallengeInsertIs
  <2>2. cRequest' = [cRequest EXCEPT ![r] =
             IF Len(cRequest[r].todo) = 1 THEN Assigned!Idle
             ELSE [cRequest[r] EXCEPT !.todo = Tail(cRequest[r].todo)]]
    BY <1>16, Zenon DEF Assigned!Insert
  <2>3. SlateFits /\ Inserting(r) /\ ~WorkerInserts /\ ~WorkerInserts'
        /\ \A u \in Requests \ {r} : ~Inserting(u)
    <3>1. SlateFits /\ Inserting(r)
      BY <2>1, Zenon DEF Inserting
    <3>2. ~WorkerInserts /\ \A u \in Requests \ {r} : ~Inserting(u)
      BY <3>1 DEF SlateFits
    <3> QED
      BY <2>1, <3>1, <3>2, Zenon DEF WorkerInserts
  <2>4. \A u \in Requests \ {r} : ~Inserting(u)'
    <3>1. \A u \in Requests \ {r} : cRequest'[u] = cRequest[u]
      BY <1>1, <2>2
    <3> QED
      BY <2>3, <3>1, Zenon DEF Inserting
  <2>5. Whole(DailyRows \cup (ListedIn(cRequest[r].todo) \cap DailyTemplates))
    BY <2>3, Zenon DEF SlateFits
  <2>6. PICK q \in Seq(AllTemplates) : q = cRequest[r].todo /\ q # <<>>
    BY <2>1
  <2>7. /\ ListedIn(q) = {Head(q)} \cup ListedIn(Tail(q))
        /\ Len(q) = 1 => ListedIn(q) = {Head(q)}
    BY <2>6, ListedOfTail
  <2>8. DailyRows' = DailyRows \cup ({Head(q)} \cap DailyTemplates)
    BY <2>1, <2>6 DEF DailyRows
  <2>9. CASE Len(q) = 1
    <3>1. cRequest'[r] = Assigned!Idle
      BY <1>1, <2>2, <2>6, <2>9
    <3>2. cRequest'[r].step # "insert"
      BY <3>1 DEF Assigned!Idle
    <3>3. \A u \in Requests : ~Inserting(u)'
      BY <2>4, <3>2 DEF Inserting
    <3>4. Whole(DailyRows')
      BY <2>5, <2>6, <2>7, <2>8, <2>9, Zenon
    <3> QED
      BY <2>3, <3>3, <3>4, Zenon DEF SlateFits, Inserting
  <2>10. CASE Len(q) # 1
    <3>1. cRequest' = [cRequest EXCEPT ![r] = [cRequest[r] EXCEPT !.todo = Tail(q)]]
      BY <2>2, <2>6, <2>10, Zenon
    <3>2. cRequest'[r].step = "insert" /\ cRequest'[r].todo = Tail(q)
      BY <1>1, <2>1, <3>1
    <3>3. \A u \in Requests : Inserting(u)' <=> u = r
      BY <2>4, <3>2 DEF Inserting
    <3>4. DailyRows' \cup (ListedIn(Tail(q)) \cap DailyTemplates)
            = DailyRows \cup (ListedIn(q) \cap DailyTemplates)
      BY <2>7, <2>8
    <3>5. Whole(DailyRows' \cup (ListedIn(Tail(q)) \cap DailyTemplates))
      BY <2>5, <2>6, <3>4, Zenon
    <3>6. \A u \in Requests : Inserting(u)' =>
             Whole(DailyRows' \cup (ListedIn(cRequest'[u].todo) \cap DailyTemplates))
      BY <3>2, <3>3, <3>5, Zenon
    <3>7. ~ \A u \in Requests : ~Inserting(u)'
      BY <3>3, Zenon
    <3> QED
      BY <2>3, <3>3, <3>6, <3>7, Zenon DEF SlateFits, Inserting
  <2> QED
    BY <2>9, <2>10
<1> QED
  BY <1>6, <1>7, <1>8, <1>9, <1>10, <1>11, <1>12, <1>13, <1>14, <1>15, <1>16, ChallengeSteps,
     Zenon

-----------------------------------------------------------------------------
(* The invariant is kept by every step of the challenges.                     *)
LEMMA ChallengeInvStep ==
    ASSUME ChallengeInv, [Assigned!Next]_ofChallenges
    PROVE  ChallengeInv'
<1>1. ChallengesTyped /\ RowsFitVotes /\ BonusFits /\ (~cDisturbed => SlateFits)
  BY Zenon DEF ChallengeInv
<1>2. TablesTyped' /\ CallsTyped' /\ ChallengeRowsTyped' /\ RowsFitVotes' /\ BonusFits'
  BY <1>1, TablesStep, CallsStep, ChallengeRowsStep, BonusStep
<1>3. ChallengeWorkerTyped'
  <2>1. CASE UNCHANGED cVotes
    BY <1>1, <2>1, WorkerMoves
  <2>2. CASE ~ UNCHANGED cVotes
    <3>1. /\ UNCHANGED <<cWorker, cCursor>>
          /\ Len(cVotes) <= Len(cVotes') /\ Len(cVotes') \in Nat
      BY <1>1, <2>2, TablesStep
    <3>2. ChallengeWorkerTyped /\ Len(cVotes) \in Nat /\ cCursor \in Nat
      BY <1>1 DEF ChallengesTyped, TablesTyped
    <3> QED
      BY <3>1, <3>2 DEF ChallengeWorkerTyped
  <2> QED
    BY <2>1, <2>2
<1>4. ~cDisturbed' => SlateFits'
  BY <1>1, SlateStep
<1> QED
  BY <1>2, <1>3, <1>4, Zenon DEF ChallengeInv, ChallengesTyped

(* It holds before the first vote and the first request.                      *)
LEMMA ChallengeInvInit ==
    ASSUME Assigned!Init
    PROVE  ChallengeInv
<1>1. /\ cNow = 1 /\ cVotes = <<>> /\ cRows = <<>> /\ cBonus = FALSE /\ cCursor = 0
      /\ cWorker = [step |-> "idle", from |-> 0, todo |-> <<>>]
      /\ cRequest = [r \in Requests |->
                       [step |-> "idle", scope |-> "daily", at |-> 1, todo |-> <<>>]]
      /\ cDisturbed = FALSE
  BY Zenon DEF Assigned!Init, Assigned!Sleeping, Assigned!Idle
<1>2. /\ Len(cVotes) = 0 /\ DOMAIN cRows = {} /\ <<>> \in Seq(AllTemplates)
      /\ cVotes \in Seq(Assigned!Votes)
  BY <1>1
<1>3. TablesTyped
  <2>1. 1 \in Moments /\ ChallengeVotes \in Nat
    BY ChallengesAssumption
  <2>2. cBonus \in BOOLEAN /\ cDisturbed \in BOOLEAN /\ cCursor \in Nat
    BY <1>1
  <2>3. Len(cVotes) <= ChallengeVotes /\ cCursor <= Len(cVotes)
    BY <1>1, <1>2, <2>1
  <2> QED
    BY <1>1, <1>2, <2>1, <2>2, <2>3, Zenon DEF TablesTyped
<1>4. ChallengeRowsTyped /\ RowsFitVotes
  BY <1>2 DEF ChallengeRowsTyped, RowsFitVotes
<1>5. ChallengeWorkerTyped
  <2>1. cCursor \in Nat /\ Len(cVotes) \in Nat /\ cWorker.step = "idle" /\ cWorker.from = 0
    BY <1>1, <1>2
  <2>2. cWorker \in [step : {"idle", "weekly", "commit", "cursor"}, from : Nat,
                     todo : Seq(AllTemplates)]
    BY <1>1, <1>2
  <2> QED
    BY <1>2, <2>1, <2>2 DEF ChallengeWorkerTyped
<1>6. CallsTyped
  <2>1. PICK c : c = [step |-> "idle", scope |-> "daily", at |-> 1, todo |-> <<>>]
    OBVIOUS
  <2>2. /\ c \in [step : {"idle", "find", "insert"}, scope : {"daily", "weekly"},
                  at : Moments, todo : Seq(AllTemplates)]
        /\ c.step # "insert"
    BY <1>2, <2>1, ChallengesAssumption
  <2>3. cRequest = [r \in Requests |-> c]
    BY <1>1, <2>1, Zenon
  <2> QED
    BY <2>2, <2>3 DEF CallsTyped
<1>7. BonusFits
  <2>1. DoneIn(cRows) = {}
    BY <1>2 DEF DoneIn
  <2>2. Cardinality({}) = 0 /\ ~(0 >= DailyCount)
    BY FS_EmptySet, ChallengesAssumption
  <2> QED
    BY <1>1, <2>1, <2>2, Zenon DEF BonusFits
<1>8. SlateFits
  <2>1. \A r \in Requests : ~Inserting(r)
    BY <1>1 DEF Inserting
  <2>2. ~WorkerInserts
    BY <1>1 DEF WorkerInserts
  <2>3. DailyRows = {}
    BY <1>2 DEF DailyRows
  <2> QED
    BY <2>1, <2>2, <2>3, Zenon DEF SlateFits, Whole
<1> QED
  BY <1>3, <1>4, <1>5, <1>6, <1>7, <1>8, Zenon DEF ChallengeInv, ChallengesTyped

(* It gives the challenges' type.                                            *)
LEMMA ChallengesHaveType ==
    ASSUME ChallengeInv
    PROVE  Assigned!TypeOK
<1>1. ChallengesTyped /\ TablesTyped /\ ChallengeRowsTyped /\ ChallengeWorkerTyped /\ CallsTyped
  BY Zenon DEF ChallengeInv, ChallengesTyped
<1>2. /\ Len(cVotes) \in Nat /\ Len(cVotes) <= ChallengeVotes /\ ChallengeVotes \in Nat
      /\ Assigned!Templates = AllTemplates
  BY <1>1, ChallengesAssumption, TemplatesAre DEF TablesTyped, AllTemplates
<1>3. /\ cNow \in Moments /\ cVotes \in Seq(Assigned!Votes)
      /\ cBonus \in BOOLEAN /\ cDisturbed \in BOOLEAN /\ cCursor \in 0 .. Len(cVotes)
  BY <1>1, <1>2 DEF TablesTyped
<1>4. ASSUME NEW t \in DOMAIN cRows PROVE cRows[t] \in Assigned!Row
  <2>1. PICK row \in RowType : row = cRows[t] /\ row.from <= Len(cVotes)
                               /\ row.progress <= Len(cVotes)
    BY <1>1 DEF ChallengeRowsTyped
  <2>2. row \in [from : 0 .. ChallengeVotes, progress : 0 .. ChallengeVotes, done : BOOLEAN]
    BY <1>2, <2>1 DEF RowType
  <2> QED
    BY <2>1, <2>2, Zenon DEF Assigned!Row
<1>5. DOMAIN cRows \subseteq Assigned!Templates /\ Assigned!Range(cRows) \subseteq Assigned!Row
  <2>1. DOMAIN cRows \subseteq Assigned!Templates
    BY <1>1, <1>2 DEF ChallengeRowsTyped
  <2> QED
    BY <1>4, <2>1, Zenon DEF Assigned!Range
<1>6. ASSUME NEW q \in Seq(AllTemplates)
      PROVE  Assigned!Range(q) \subseteq Assigned!Templates
  <2>1. ListedIn(q) \subseteq AllTemplates
    BY DEF ListedIn
  <2> QED
    BY <1>2, <2>1, RangeIs, Zenon
<1>7. /\ cWorker.step \in {"idle", "weekly", "commit", "cursor"}
      /\ cWorker.from \in 0 .. Len(cVotes) /\ cWorker.todo \in Seq(AllTemplates)
  BY <1>1, <1>2 DEF ChallengeWorkerTyped
<1>8. \A r \in Requests :
         /\ cRequest[r].step \in {"idle", "find", "insert"}
         /\ cRequest[r].scope \in {"daily", "weekly"} /\ cRequest[r].at \in Moments
         /\ cRequest[r].todo \in Seq(AllTemplates)
  BY <1>1 DEF CallsTyped
<1> QED
  BY <1>2, <1>3, <1>5, <1>6, <1>7, <1>8, Zenon DEF Assigned!TypeOK

(* It means that challenges, bonus and slate follow the votes.               *)
LEMMA ChallengesMean ==
    ASSUME ChallengeInv
    PROVE  Assigned!ChallengesFollowVotes
<1>1. ChallengesTyped /\ RowsFitVotes /\ BonusFits /\ (~cDisturbed => SlateFits)
  BY Zenon DEF ChallengeInv
<1>2. ASSUME NEW t \in DOMAIN cRows
      PROVE  Assigned!Earned(t) <=>
               ScoreIn(cVotes, t, cRows[t].from, Len(cVotes)) >= ChallengeTarget[t]
  BY <1>1, EarnedIs
<1>3. Assigned!CompletionIsEarned
  <2>1. ASSUME NEW t \in DOMAIN cRows, cRows[t].done PROVE Assigned!Earned(t)
    <3>1. ScoreIn(cVotes, t, cRows[t].from, Len(cVotes)) >= ChallengeTarget[t]
      BY <1>1, <2>1, Zenon DEF RowsFitVotes, RowFits
    <3> QED
      BY <1>2, <3>1, Zenon
  <2> QED
    BY <2>1, Zenon DEF Assigned!CompletionIsEarned
<1>4. Assigned!EarnedIsCompleted
  <2>1. ASSUME cCursor = Len(cVotes), NEW t \in DOMAIN cRows, ~cRows[t].done
        PROVE  ~Assigned!Earned(t)
    <3>1. cWorker.step # "cursor" /\ Len(cVotes) \in Nat
      BY <1>1, <2>1 DEF ChallengesTyped, TablesTyped, ChallengeWorkerTyped
    <3>2. Processed(cWorker, cCursor) = Len(cVotes)
      BY <2>1, <3>1, Zenon DEF Processed
    <3>3. ScoreIn(cVotes, t, cRows[t].from, Len(cVotes)) < ChallengeTarget[t]
      BY <1>1, <2>1, <3>2, Zenon DEF RowsFitVotes, RowFits
    <3>4. t \in AllTemplates /\ cRows[t] \in RowType
      BY <1>1 DEF ChallengesTyped, ChallengeRowsTyped
    <3>5. ChallengeTarget[t] \in Nat /\ cRows[t].from \in Nat
      BY <3>4, TemplatesAre DEF AllTemplates, RowType
    <3>6. ScoreIn(cVotes, t, cRows[t].from, Len(cVotes)) \in Nat
      BY <3>1, <3>5, ScoreGrows
    <3>7. ~(ScoreIn(cVotes, t, cRows[t].from, Len(cVotes)) >= ChallengeTarget[t])
      BY <3>3, <3>5, <3>6
    <3> QED
      BY <1>2, <3>7, Zenon
  <2> QED
    BY <2>1, Zenon DEF Assigned!EarnedIsCompleted
<1>5. \A X : Assigned!Cardinality(X) = Cardinality(X)
  BY Zenon DEF Assigned!Cardinality, Cardinality
<1>6. Assigned!BonusForFive
  <2>1. Assigned!Done(cRows) = DoneIn(cRows)
    BY TemplatesAre, Zenon DEF Assigned!Done, DoneIn
  <2> QED
    BY <1>1, <1>5, <2>1, Zenon DEF Assigned!BonusForFive, BonusFits
<1>7. Assigned!SlateIsWhole
  <2>1. Assigned!Assigned("daily") = DailyRows
    BY TemplatesAre, Zenon DEF Assigned!Assigned, Assigned!Of, DailyRows
  <2>2. ASSUME ~cDisturbed, Assigned!Assigning = {}, DailyRows # {}
        PROVE  Cardinality(DailyRows) = DailyCount
    <3>1. \A r \in Requests : ~Inserting(r)
      BY <2>2, Zenon DEF Assigned!Assigning, Inserting
    <3>2. Whole(DailyRows)
      BY <1>1, <2>2, <3>1, Zenon DEF SlateFits
    <3> QED
      BY <2>2, <3>2, Zenon DEF Whole
  <2> QED
    BY <1>5, <2>1, <2>2, Zenon DEF Assigned!SlateIsWhole
<1> QED
  BY <1>3, <1>4, <1>6, <1>7, Zenon DEF Assigned!ChallengesFollowVotes

-----------------------------------------------------------------------------
(* A brick's freezes, rechecks and credits.                                 *)

(* The columns of a brick's row, and what a step does to its window.         *)
BrickRows == [freeze : BOOLEAN, until : -1 .. FreezeMax, updated : Nat,
              needs : BOOLEAN, state : {"NONE", "WATCH", "ACTIVE"},
              started : -1 .. Cooldown, expires : -1 .. RecheckWindow,
              confidence : Int, cycleAge : Int, weight : {0, 10, 20, 50},
              opposing : BOOLEAN, price : {1, 2}, startPrice : {1, 2}]

SameWindow(q, r) ==
    q.needs = r.needs /\ q.state = r.state /\ q.started = r.started /\ q.expires = r.expires
NoWindow(q) == q.needs = FALSE /\ q.state = "NONE" /\ q.started = -1 /\ q.expires = -1
NewWindow(q, state) ==
    q.needs = TRUE /\ q.state = state /\ q.started = 0 /\ q.expires = RecheckWindow
SameFreeze(q, r) == q.freeze = r.freeze /\ q.until = r.until
SamePrice(q, r) == q.price = r.price

(* Columns of their types make a row.                                        *)
LEMMA WindowSet ==
    ASSUME NEW r \in BrickRows, NEW needs \in BOOLEAN, NEW s \in {"NONE", "WATCH", "ACTIVE"},
           NEW a \in -1 .. Cooldown, NEW e \in -1 .. RecheckWindow
    PROVE  [r EXCEPT !.needs = needs, !.state = s, !.started = a, !.expires = e] \in BrickRows
  BY DEF BrickRows

(* The same of a freeze.                                                     *)
LEMMA FreezeSet ==
    ASSUME NEW r \in BrickRows, NEW f \in BOOLEAN, NEW u \in -1 .. FreezeMax
    PROVE  [r EXCEPT !.freeze = f, !.until = u] \in BrickRows
  BY DEF BrickRows

(* What the operators on rows do, column by column: a window that ends.      *)
LEMMA ResolvedIs ==
    ASSUME NEW r \in BrickRows
    PROVE  /\ Recheck!Resolved(r) \in BrickRows /\ NoWindow(Recheck!Resolved(r))
           /\ SameFreeze(Recheck!Resolved(r), r) /\ SamePrice(Recheck!Resolved(r), r)
           /\ Recheck!Resolved(r).updated = r.updated
<1>1. -1 \in -1 .. Cooldown /\ -1 \in -1 .. RecheckWindow
  BY RecheckAssumption
<1>2. Recheck!Resolved(r) \in BrickRows
  BY <1>1, WindowSet DEF Recheck!Resolved, Recheck!Null
<1>3. NoWindow(Recheck!Resolved(r))
  BY DEF BrickRows, Recheck!Resolved, Recheck!Null, NoWindow
<1>4. /\ SameFreeze(Recheck!Resolved(r), r) /\ SamePrice(Recheck!Resolved(r), r)
      /\ Recheck!Resolved(r).updated = r.updated
  BY DEF BrickRows, Recheck!Resolved, SameFreeze, SamePrice
<1> QED
  BY <1>2, <1>3, <1>4

(* A window that begins.                                                     *)
LEMMA InRecheckIs ==
    ASSUME NEW r \in BrickRows, NEW state \in {"WATCH", "ACTIVE"}
    PROVE  /\ Recheck!InRecheck(r, state) \in BrickRows
           /\ NewWindow(Recheck!InRecheck(r, state), state)
           /\ SameFreeze(Recheck!InRecheck(r, state), r)
           /\ SamePrice(Recheck!InRecheck(r, state), r)
           /\ Recheck!InRecheck(r, state).updated = r.updated
<1>1. 0 \in -1 .. Cooldown /\ RecheckWindow \in -1 .. RecheckWindow
  BY RecheckAssumption
<1>2. Recheck!InRecheck(r, state) \in BrickRows
  BY <1>1, WindowSet DEF Recheck!InRecheck
<1>3. NewWindow(Recheck!InRecheck(r, state), state)
  BY DEF BrickRows, Recheck!InRecheck, NewWindow
<1>4. /\ SameFreeze(Recheck!InRecheck(r, state), r) /\ SamePrice(Recheck!InRecheck(r, state), r)
      /\ Recheck!InRecheck(r, state).updated = r.updated
  BY DEF BrickRows, Recheck!InRecheck, SameFreeze, SamePrice
<1> QED
  BY <1>2, <1>3, <1>4

(* A freeze that begins.                                                     *)
LEMMA FrozenIs ==
    ASSUME NEW r \in BrickRows, NEW d \in Freezes
    PROVE  /\ Recheck!Frozen(r, d) \in BrickRows
           /\ Recheck!Frozen(r, d).freeze = TRUE /\ Recheck!Frozen(r, d).until = d
           /\ SameWindow(Recheck!Frozen(r, d), r) /\ SamePrice(Recheck!Frozen(r, d), r)
           /\ Recheck!Frozen(r, d).updated = r.updated
<1>1. d \in -1 .. FreezeMax
  BY RecheckAssumption
<1>2. Recheck!Frozen(r, d) \in BrickRows
  BY <1>1, FreezeSet DEF Recheck!Frozen
<1>3. /\ Recheck!Frozen(r, d).freeze = TRUE /\ Recheck!Frozen(r, d).until = d
      /\ SameWindow(Recheck!Frozen(r, d), r) /\ SamePrice(Recheck!Frozen(r, d), r)
      /\ Recheck!Frozen(r, d).updated = r.updated
  BY DEF BrickRows, Recheck!Frozen, SameWindow, SamePrice
<1> QED
  BY <1>2, <1>3

(* A freeze that ends.                                                       *)
LEMMA UnfrozenIs ==
    ASSUME NEW r \in BrickRows
    PROVE  /\ Recheck!Unfrozen(r) \in BrickRows
           /\ Recheck!Unfrozen(r).freeze = FALSE /\ Recheck!Unfrozen(r).until = -1
           /\ SamePrice(Recheck!Unfrozen(r), r)
           /\ Recheck!Unfrozen(r).updated = r.updated
<1>1. -1 \in -1 .. FreezeMax
  BY RecheckAssumption
<1>2. Recheck!Unfrozen(r) \in BrickRows
  BY <1>1, FreezeSet DEF Recheck!Unfrozen, Recheck!Null
<1>3. /\ Recheck!Unfrozen(r).freeze = FALSE /\ Recheck!Unfrozen(r).until = -1
      /\ SamePrice(Recheck!Unfrozen(r), r)
      /\ Recheck!Unfrozen(r).updated = r.updated
  BY DEF BrickRows, Recheck!Unfrozen, Recheck!Null, SamePrice
<1> QED
  BY <1>2, <1>3

(* A cycle that begins.                                                      *)
LEMMA NewCycleIs ==
    ASSUME NEW r \in BrickRows
    PROVE  /\ Recheck!NewCycle(r) \in BrickRows
           /\ SameWindow(Recheck!NewCycle(r), r) /\ SameFreeze(Recheck!NewCycle(r), r)
           /\ SamePrice(Recheck!NewCycle(r), r)
           /\ Recheck!NewCycle(r).updated = r.updated
<1> DEFINE c == IF r.weight >= 50 THEN 0 ELSE r.confidence
           p == r.price
           q == [r EXCEPT !.cycleAge = 0, !.startPrice = p]
<1>1. c \in Int /\ p \in {1, 2}
  BY DEF BrickRows
<1>2. Recheck!NewCycle(r) = [q EXCEPT !.weight = 0, !.opposing = FALSE, !.confidence = c]
  BY DEF Recheck!NewCycle
<1> HIDE DEF c, p
<1>3. /\ q \in BrickRows /\ SameWindow(q, r) /\ SameFreeze(q, r) /\ SamePrice(q, r)
      /\ q.updated = r.updated
  <2>1. q \in BrickRows
    <3> DEFINE a == [r EXCEPT !.cycleAge = 0]
    <3>1. a \in BrickRows
      BY DEF BrickRows
    <3>2. q = [a EXCEPT !.startPrice = p]
      OBVIOUS
    <3> HIDE DEF a, q
    <3> QED
      BY <1>1, <3>1, <3>2 DEF BrickRows
  <2>2. /\ SameWindow(q, r) /\ SameFreeze(q, r) /\ SamePrice(q, r)
        /\ q.updated = r.updated
    BY DEF BrickRows, SameWindow, SameFreeze, SamePrice
  <2> QED
    BY <2>1, <2>2
<1> HIDE DEF q
<1>4. Recheck!NewCycle(r) \in BrickRows
  BY <1>1, <1>2, <1>3 DEF BrickRows
<1> QED
  BY <1>2, <1>3, <1>4 DEF BrickRows, SameWindow, SameFreeze, SamePrice

(* A window that loses its end.                                              *)
LEMMA DowngradedIs ==
    ASSUME NEW r \in BrickRows
    PROVE  LET q == Recheck!Downgraded(r)
           IN  /\ q \in BrickRows /\ SameFreeze(q, r) /\ SamePrice(q, r)
               /\ q.updated = r.updated /\ q.needs = r.needs /\ q.started = r.started
               /\ q.state = "WATCH" /\ q.expires = -1
<1> DEFINE q == Recheck!Downgraded(r)
<1>1. -1 \in -1 .. RecheckWindow
  BY RecheckAssumption
<1>2. q \in BrickRows
  BY <1>1 DEF BrickRows, Recheck!Downgraded, Recheck!Null
<1>3. /\ SameFreeze(q, r) /\ SamePrice(q, r)
      /\ q.updated = r.updated /\ q.needs = r.needs /\ q.started = r.started
      /\ q.state = "WATCH" /\ q.expires = -1
  BY DEF BrickRows, Recheck!Downgraded, Recheck!Null, SameFreeze, SamePrice
<1> QED
  BY <1>2, <1>3

(* What the passing of time does.                                            *)
LEMMA TimePassesIs ==
    ASSUME rRow \in BrickRows, Recheck!TimePasses
    PROVE  /\ rRow' \in BrickRows /\ SamePrice(rRow', rRow)
           /\ rRow'.needs = rRow.needs /\ rRow'.state = rRow.state /\ rRow'.freeze = rRow.freeze
           /\ rRow'.until = IF rRow.until \in {-1, 0} THEN rRow.until ELSE rRow.until - 1
           /\ rRow'.expires = IF rRow.expires \in {-1, 0} THEN rRow.expires ELSE rRow.expires - 1
           /\ rRow'.started = IF rRow.started \in {-1, Cooldown} THEN rRow.started
                              ELSE rRow.started + 1
           /\ rRow.freeze => rRow'.updated <= rRow.updated + 1
<1> USE RecheckAssumption DEF BrickRows, Recheck!Null
<1>1. PICK u \in Nat, c \in Int, a \in Int :
         /\ rRow' = [rRow EXCEPT !.until = Recheck!Sooner(@), !.expires = Recheck!Sooner(@),
                       !.updated = u, !.started = Recheck!Older(@, Cooldown),
                       !.confidence = c, !.cycleAge = a]
         /\ rRow.freeze => u <= rRow.updated + 1
  <2> DEFINE u == IF rRow.freeze
                  THEN Recheck!Older(rRow.updated, FreezeMax + Recheck!HoldOff + 1) ELSE 0
             c == Recheck!Older(rRow.confidence, StaleAge)
             a == Recheck!Older(rRow.cycleAge, LowSampleAge + 1)
  <2>1. u \in Nat /\ (rRow.freeze => u <= rRow.updated + 1)
    BY DEF Recheck!Older, Recheck!HoldOff
  <2>2. c \in Int /\ a \in Int
    BY DEF Recheck!Older
  <2>3. rRow' = [rRow EXCEPT !.until = Recheck!Sooner(@), !.expires = Recheck!Sooner(@),
                       !.updated = u, !.started = Recheck!Older(@, Cooldown),
                       !.confidence = c, !.cycleAge = a]
    BY DEF Recheck!TimePasses
  <2> HIDE DEF u, c, a
  <2> QED
    BY <2>1, <2>2, <2>3
<1>2. /\ Recheck!Sooner(rRow.until) = IF rRow.until \in {-1, 0} THEN rRow.until ELSE rRow.until - 1
      /\ Recheck!Sooner(rRow.expires)
            = IF rRow.expires \in {-1, 0} THEN rRow.expires ELSE rRow.expires - 1
      /\ Recheck!Older(rRow.started, Cooldown)
            = IF rRow.started \in {-1, Cooldown} THEN rRow.started ELSE rRow.started + 1
  BY DEF Recheck!Sooner, Recheck!Older
<1>3. /\ Recheck!Sooner(rRow.until) \in -1 .. FreezeMax
      /\ Recheck!Sooner(rRow.expires) \in -1 .. RecheckWindow
      /\ Recheck!Older(rRow.started, Cooldown) \in -1 .. Cooldown
  BY <1>2
<1> QED
  BY <1>1, <1>2, <1>3 DEF SamePrice

(* A counted vote moves neither the window nor the price.                    *)
LEMMA CountVoteIs ==
    ASSUME rRow \in BrickRows, NEW w \in Recheck!Weights, NEW opposing \in BOOLEAN,
           Recheck!CountVote(w, opposing)
    PROVE  /\ rRow' \in BrickRows /\ SameWindow(rRow', rRow) /\ SamePrice(rRow', rRow)
           /\ SameFreeze(rRow', rRow) /\ rRow.freeze = FALSE /\ rRow'.updated = 0
  BY DEF Recheck!CountVote, Recheck!Weights, BrickRows, SameWindow, SamePrice, SameFreeze

(* An event that moves the price begins a window, if none is running, or ends *)
(* an ACTIVE one; a freeze that begins has a fresh update.                    *)
LEMMA MovePriceIs ==
    ASSUME rRow \in BrickRows, NEW w \in Recheck!Weights, NEW opposing \in BOOLEAN,
           NEW fair \in BOOLEAN, NEW crowd \in BOOLEAN, NEW price \in Recheck!Prices,
           Recheck!MovePrice(w, opposing, fair, crowd, price)
    PROVE  /\ rRow' \in BrickRows /\ rRow.freeze = FALSE /\ rRow'.updated = 0
           /\ rRow.until = -1 => (rRow'.freeze <=> rRow'.until # -1)
           /\ \/ NewWindow(rRow', "WATCH") /\ (~rRow.needs \/ rRow.expires = 0) /\ rSpent' = 0
              \/ NoWindow(rRow')
              \/ SameWindow(rRow', rRow)
           /\ \/ /\ rSpent' = 0
                 /\ rCredit' \in {rCredit, [rCredit EXCEPT !.thisCycle = FALSE],
                       [rCredit EXCEPT !.beforeDeadline = TRUE],
                       [[rCredit EXCEPT !.beforeDeadline = TRUE] EXCEPT !.thisCycle = FALSE]}
              \/ SamePrice(rRow', rRow) /\ rCredit' = rCredit /\ rSpent' = rSpent
<1> DEFINE moved == [rRow EXCEPT !.weight = w, !.opposing = opposing, !.updated = 0,
                                 !.price = price]
           enters == Recheck!Enters(moved)
           checked == Recheck!Rechecked(moved, crowd)
           freezes == ~enters /\ fair
           resets == ~freezes /\ price # rRow.startPrice /\ (w >= 20 \/ crowd)
<1>1. /\ moved \in BrickRows /\ moved.updated = 0 /\ moved.price = price
      /\ SameWindow(moved, rRow) /\ SameFreeze(moved, rRow)
  BY DEF BrickRows, Recheck!Weights, Recheck!Prices, SameWindow, SameFreeze
<1>2. rRow.freeze = FALSE
  BY DEF Recheck!MovePrice, BrickRows
<1>3. /\ IF freezes THEN \E d \in Freezes : rRow' = Recheck!Frozen(checked, d)
         ELSE rRow' = IF resets THEN Recheck!NewCycle(checked) ELSE checked
      /\ rCredit' = LET c == IF enters THEN Recheck!NewDeadline ELSE rCredit
                    IN  IF resets THEN [c EXCEPT !.thisCycle = FALSE] ELSE c
      /\ rSpent' = IF enters \/ resets \/ price # rRow.price THEN 0 ELSE rSpent
  BY Zenon DEF Recheck!MovePrice
<1>4. enters => ~rRow.needs \/ rRow.expires = 0
  BY <1>1 DEF Recheck!Enters, Recheck!Expired, SameWindow
<1> HIDE DEF moved, enters
<1>5. \/ enters /\ checked = Recheck!InRecheck(moved, "WATCH")
      \/ ~enters /\ checked = Recheck!Resolved(moved)
      \/ ~enters /\ checked = moved
  BY Zenon DEF Recheck!Rechecked, enters
<1> HIDE DEF checked
<1>6. /\ checked \in BrickRows /\ checked.updated = 0 /\ checked.price = price
      /\ SameFreeze(checked, rRow)
      /\ \/ enters /\ NewWindow(checked, "WATCH")
         \/ ~enters /\ NoWindow(checked)
         \/ ~enters /\ SameWindow(checked, rRow)
  BY <1>1, <1>5, ResolvedIs, InRecheckIs DEF SameFreeze, SamePrice
<1> HIDE DEF freezes, resets
<1>7. /\ rRow' \in BrickRows /\ rRow'.updated = 0 /\ rRow'.price = price
      /\ SameWindow(rRow', checked)
      /\ \/ SameFreeze(rRow', checked)
         \/ rRow'.freeze = TRUE /\ rRow'.until \in Freezes
  <2>1. CASE freezes
    <3>1. PICK d \in Freezes : rRow' = Recheck!Frozen(checked, d)
      BY <1>3, <2>1
    <3> QED
      BY <1>6, <3>1, FrozenIs DEF SamePrice
  <2>2. CASE ~freezes
    <3>1. rRow' = checked \/ rRow' = Recheck!NewCycle(checked)
      BY <1>3, <2>2
    <3>2. CASE rRow' = checked
      BY <1>6, <3>2 DEF SameWindow, SameFreeze
    <3>3. CASE rRow' = Recheck!NewCycle(checked)
      BY <1>6, <3>3, NewCycleIs DEF SamePrice
    <3> QED
      BY <3>1, <3>2, <3>3
  <2> QED
    BY <2>1, <2>2
<1>8. rRow.until = -1 => (rRow'.freeze <=> rRow'.until # -1)
  BY <1>2, <1>6, <1>7, RecheckAssumption DEF SameFreeze
<1>9. \/ enters /\ NewWindow(rRow', "WATCH")
      \/ ~enters /\ NoWindow(rRow')
      \/ ~enters /\ SameWindow(rRow', rRow)
  BY <1>6, <1>7 DEF SameWindow, NewWindow, NoWindow
<1>10. \/ /\ rSpent' = 0
          /\ rCredit' \in {rCredit, [rCredit EXCEPT !.thisCycle = FALSE],
                       [rCredit EXCEPT !.beforeDeadline = TRUE],
                       [[rCredit EXCEPT !.beforeDeadline = TRUE] EXCEPT !.thisCycle = FALSE]}
       \/ SamePrice(rRow', rRow) /\ rCredit' = rCredit /\ rSpent' = rSpent
  BY <1>3, <1>7 DEF Recheck!NewDeadline, SamePrice
<1>11. enters => rSpent' = 0
  BY <1>3
<1> QED
  BY <1>2, <1>4, <1>7, <1>8, <1>9, <1>10, <1>11

(* How long a recheck keeps the worker off the brick.                        *)
Hold(r) ==
    LET cooling == IF r.started # -1 /\ r.started < Cooldown THEN Cooldown - r.started ELSE 0
        running == IF r.needs /\ r.expires > 0 THEN r.expires ELSE 0
    IN  IF cooling > running THEN cooling ELSE running

Bound == FreezeMax + Recheck!HoldOff

PageHolds == [pc : {"clear", "write"}, write : {"none", "WATCH", "ACTIVE", "downgrade"},
              thaw : BOOLEAN]

RecheckTypes ==
    /\ rRow \in BrickRows /\ (rRow.freeze <=> rRow.until # -1)
    /\ rPage = [pc |-> "idle"] \/ rPage \in PageHolds
    /\ rPassed \in BOOLEAN /\ rOverlap \in BOOLEAN
    /\ rRow.state = "ACTIVE" => rRow.needs /\ rRow.started # -1 /\ rRow.expires # -1

(* A frozen row thaws in time: what holds the worker off ends before the     *)
(* bound, and one more pass takes an ACTIVE window that is over.             *)
FreezeFits ==
    rRow.freeze =>
        /\ Hold(rRow) > 0 => rRow.updated + Hold(rRow) <= Bound - 1
        /\ Hold(rRow) = 0 => /\ rRow.updated <= Bound
                             /\ rRow.state = "ACTIVE" => rRow.updated <= Bound - 1

(* A page was read of a row that nothing held off, and is of the same age.   *)
PageFits ==
    rPage.pc # "idle" =>
        /\ rPage.pc = "write" => rRow.state # "ACTIVE"
        /\ rPage.write = "ACTIVE" => rPage.thaw = TRUE
        /\ rRow.freeze => /\ rPage.write \in {"none", "WATCH"} => rRow.updated <= FreezeMax - 1
                          /\ rPage.write = "downgrade" => rRow.updated <= Bound - 1

(* The worker leaves a row of which more time may pass.                      *)
PassFits ==
    rPassed /\ rPage.pc = "idle" /\ Hold(rRow) = 0 =>
        /\ rRow.state # "ACTIVE"
        /\ rRow.freeze => rRow.updated <= Bound - 1

(* Unless events overtook it, a page is of a row without a running window,   *)
(* and what it downgrades is cleared.                                        *)
PageIsFresh ==
    rPage.pc # "idle" /\ ~rOverlap =>
        /\ ~(rRow.needs /\ rRow.expires > 0)
        /\ rPage.pc = "write" /\ rPage.write = "downgrade" => ~rRow.needs

RecheckInv ==
    RecheckTypes /\ FreezeFits /\ PageFits /\ PassFits /\ PageIsFresh /\ Recheck!WindowIsComplete

(* The steps of the worker, column by column.                                *)
LEMMA TriggerIs ==
    ASSUME rRow \in BrickRows
    PROVE  /\ Recheck!Trigger(rRow) \in {"none", "WATCH", "ACTIVE"}
           /\ Recheck!Trigger(rRow) = "ACTIVE" => rRow.freeze = TRUE
           /\ Recheck!Trigger(rRow) # "ACTIVE" /\ rRow.freeze => rRow.updated <= FreezeMax - 1
<1> DEFINE over == Recheck!FreezeIsOver(rRow)
           other == Recheck!StaleConfidence(rRow) \/ Recheck!LowSample(rRow) \/ rRow.opposing
<1>1. /\ over => Recheck!Trigger(rRow) = "ACTIVE"
      /\ ~over /\ other => Recheck!Trigger(rRow) = "WATCH"
      /\ ~over /\ ~other => Recheck!Trigger(rRow) = "none"
  BY Zenon DEF Recheck!Trigger
<1>2. /\ over => rRow.freeze = TRUE
      /\ ~over /\ rRow.freeze => rRow.updated <= FreezeMax - 1
  BY RecheckAssumption DEF Recheck!FreezeIsOver, BrickRows
<1> HIDE DEF over, other
<1> QED
  BY <1>1, <1>2

(* The worker reads the row: something holds it off, or it decides.          *)
LEMMA ReadPageIs ==
    ASSUME RecheckTypes, Recheck!ReadPage
    PROVE  /\ rPage.pc = "idle" /\ UNCHANGED <<rRow, rCredit, rSpent, rOverlap>>
           /\ \/ Hold(rRow) > 0 /\ rPassed' = TRUE /\ UNCHANGED rPage
              \/ /\ Hold(rRow) = 0 /\ UNCHANGED rPassed /\ rPage' \in PageHolds
                 /\ rPage'.pc = "write" <=> ~(rRow.needs /\ rRow.expires = 0)
                 /\ rPage'.thaw = rRow.freeze
                 /\ rPage'.write = IF rRow.state = "ACTIVE" /\ rRow.expires = 0
                                   THEN "downgrade" ELSE Recheck!Trigger(rRow)
<1>1. /\ rPage.pc = "idle" /\ UNCHANGED <<rRow, rCredit, rSpent, rOverlap>>
      /\ IF Recheck!InCooldown(rRow) \/ Recheck!Running(rRow)
         THEN rPassed' = TRUE /\ UNCHANGED rPage
         ELSE /\ rPage' = [pc |-> IF rRow.needs /\ Recheck!Expired(rRow) THEN "clear" ELSE "write",
                           write |-> IF rRow.state = "ACTIVE" /\ Recheck!Expired(rRow)
                                     THEN "downgrade" ELSE Recheck!Trigger(rRow),
                           thaw |-> rRow.freeze]
              /\ UNCHANGED rPassed
  BY Zenon DEF Recheck!ReadPage
<1>2. Hold(rRow) > 0 <=> Recheck!InCooldown(rRow) \/ Recheck!Running(rRow)
  BY RecheckAssumption
  DEF RecheckTypes, BrickRows, Hold, Recheck!InCooldown, Recheck!Running, Recheck!Expired,
      Recheck!Null
<1>3. Hold(rRow) > 0 \/ Hold(rRow) = 0
  BY RecheckAssumption DEF RecheckTypes, BrickRows, Hold
<1>4. Recheck!Trigger(rRow) \in {"none", "WATCH", "ACTIVE"} /\ rRow.freeze \in BOOLEAN
  BY TriggerIs DEF RecheckTypes, BrickRows
<1>5. CASE Hold(rRow) > 0
  BY <1>1, <1>2, <1>5
<1>6. CASE Hold(rRow) = 0
  <2>1. /\ rPage' = [pc |-> IF rRow.needs /\ rRow.expires = 0 THEN "clear" ELSE "write",
                     write |-> IF rRow.state = "ACTIVE" /\ rRow.expires = 0
                               THEN "downgrade" ELSE Recheck!Trigger(rRow),
                     thaw |-> rRow.freeze]
        /\ UNCHANGED rPassed
    BY <1>1, <1>2, <1>6 DEF Recheck!Expired
  <2> QED
    BY <1>1, <1>4, <1>6, <2>1 DEF PageHolds
<1> QED
  BY <1>3, <1>5, <1>6

(* The worker writes what it has decided.                                    *)
LEMMA WriteBrickIs ==
    ASSUME RecheckTypes, Recheck!WriteBrick, PageFits
    PROVE  /\ rPage.pc = "write" /\ rPage' = [pc |-> "idle"] /\ rPassed' = TRUE
           /\ rOverlap' = rOverlap /\ rRow' \in BrickRows /\ SamePrice(rRow', rRow)
           /\ rPage.write \in {"none", "WATCH", "ACTIVE", "downgrade"}
           /\ rPage.write = "none" => rRow' = rRow
           /\ rPage.write = "downgrade" =>
                 /\ SameFreeze(rRow', rRow) /\ rRow'.updated = rRow.updated
                 /\ rRow'.needs = rRow.needs /\ rRow'.started = rRow.started
                 /\ rRow'.state = "WATCH" /\ rRow'.expires = -1
           /\ rPage.write = "WATCH" =>
                 /\ NewWindow(rRow', "WATCH") /\ SameFreeze(rRow', rRow)
                 /\ rRow'.updated = rRow.updated
           /\ rPage.write = "ACTIVE" =>
                 NewWindow(rRow', "ACTIVE") /\ rRow'.freeze = FALSE /\ rRow'.until = -1
           /\ IF rPage.write \in {"WATCH", "ACTIVE"}
              THEN rCredit' = [rCredit EXCEPT !.beforeDeadline = TRUE] /\ rSpent' = 0
              ELSE rCredit' = rCredit /\ rSpent' = rSpent
<1>1. /\ rPage.pc = "write" /\ rPage' = [pc |-> "idle"] /\ rPassed' = TRUE
      /\ rOverlap' = rOverlap
  BY DEF Recheck!WriteBrick
<1>2. /\ rPage \in PageHolds /\ rRow \in BrickRows
      /\ rPage.write \in {"none", "WATCH", "ACTIVE", "downgrade"}
  BY <1>1 DEF RecheckTypes, PageHolds
<1>3. /\ rPage.write = "downgrade" => rRow' = Recheck!Downgraded(rRow)
      /\ rPage.write = "none" => rRow' = rRow
      /\ rPage.write = "WATCH" => rRow' = Recheck!InRecheck(rRow, "WATCH")
      /\ rPage.write = "ACTIVE" => rRow' = Recheck!InRecheck(Recheck!Unfrozen(rRow), "ACTIVE")
  <2>1. rRow' = CASE rPage.write = "downgrade" -> Recheck!Downgraded(rRow)
                  [] rPage.write = "none" -> rRow
                  [] rPage.write = "WATCH" -> Recheck!InRecheck(rRow, "WATCH")
                  [] rPage.write = "ACTIVE" ->
                       Recheck!InRecheck(
                         IF rPage.thaw THEN Recheck!Unfrozen(rRow) ELSE rRow, "ACTIVE")
    BY Zenon DEF Recheck!WriteBrick
  <2>2. rPage.write = "ACTIVE" => rPage.thaw = TRUE
    BY <1>1 DEF PageFits
  <2> QED
    BY <2>1, <2>2
<1>4. IF rPage.write \in {"WATCH", "ACTIVE"}
      THEN rCredit' = [rCredit EXCEPT !.beforeDeadline = TRUE] /\ rSpent' = 0
      ELSE rCredit' = rCredit /\ rSpent' = rSpent
  BY DEF Recheck!WriteBrick, Recheck!NewDeadline
<1>5. CASE rPage.write = "downgrade"
  BY <1>1, <1>2, <1>3, <1>4, <1>5, DowngradedIs
<1>6. CASE rPage.write = "none"
  BY <1>1, <1>2, <1>3, <1>4, <1>6 DEF SamePrice
<1>7. CASE rPage.write = "WATCH"
  BY <1>1, <1>2, <1>3, <1>4, <1>7, InRecheckIs
<1>8. CASE rPage.write = "ACTIVE"
  <2> DEFINE q == Recheck!Unfrozen(rRow)
  <2>1. q \in BrickRows /\ q.freeze = FALSE /\ q.until = -1 /\ SamePrice(q, rRow)
    BY <1>2, UnfrozenIs
  <2> HIDE DEF q
  <2>2. /\ rRow' \in BrickRows /\ NewWindow(rRow', "ACTIVE")
        /\ SameFreeze(rRow', q) /\ SamePrice(rRow', q)
    BY <1>3, <1>8, <2>1, InRecheckIs DEF q
  <2> QED
    BY <1>1, <1>2, <1>4, <1>8, <2>1, <2>2 DEF SameFreeze, SamePrice
<1> QED
  BY <1>2, <1>5, <1>6, <1>7, <1>8

(* The rows' windows and how long they hold.                                 *)
LEMMA HoldIs ==
    ASSUME NEW r \in BrickRows
    PROVE  /\ Hold(r) \in Nat /\ Hold(r) <= Recheck!HoldOff
           /\ NoWindow(r) => Hold(r) = 0
           /\ \A s : NewWindow(r, s) => Hold(r) > 0
           /\ r.needs /\ r.expires > 0 => Hold(r) > 0
           /\ Bound \in Nat /\ Bound - 1 >= Recheck!HoldOff /\ Recheck!HoldOff \in Nat
           /\ Bound = FreezeMax + Recheck!HoldOff
  BY RecheckAssumption DEF BrickRows, Hold, Recheck!HoldOff, NoWindow, NewWindow, Bound

(* The hold of a row is told from its window.                                *)
LEMMA HoldSame ==
    ASSUME NEW r, NEW q, SameWindow(q, r)
    PROVE  Hold(q) = Hold(r)
  BY DEF Hold, SameWindow

(* Every step keeps the freezes and the windows within their bounds, and a   *)
(* running window runs on.                                                   *)
LEMMA RecheckInvStep ==
    RecheckInv /\ [Recheck!Next]_ofRecheck => RecheckInv' /\ [Recheck!WindowRunsOut]_ofRecheck
<1> SUFFICES ASSUME RecheckInv, [Recheck!Next]_ofRecheck
             PROVE  RecheckInv' /\ [Recheck!WindowRunsOut]_ofRecheck
  OBVIOUS
<1>0. /\ RecheckTypes /\ FreezeFits /\ PageFits /\ PassFits /\ PageIsFresh
      /\ Recheck!WindowIsComplete /\ rRow \in BrickRows
  BY DEF RecheckInv, RecheckTypes
<1>1. CASE UNCHANGED ofRecheck
  <2>1. RecheckInv'
    BY <1>0, <1>1
    DEF ofRecheck, RecheckInv, RecheckTypes, FreezeFits, PageFits, PassFits, PageIsFresh,
        Recheck!WindowIsComplete
  <2> QED
    BY <1>1, <2>1
<1>2. CASE Recheck!TimePasses
  <2>1. /\ rPassed = TRUE /\ rPage.pc = "idle" /\ rPage' = rPage /\ rPassed' = FALSE
        /\ rOverlap' = rOverlap
    BY <1>0, <1>2 DEF Recheck!TimePasses, RecheckTypes
  <2>2. /\ rRow' \in BrickRows
        /\ rRow'.needs = rRow.needs /\ rRow'.state = rRow.state /\ rRow'.freeze = rRow.freeze
        /\ rRow'.until = IF rRow.until \in {-1, 0} THEN rRow.until ELSE rRow.until - 1
        /\ rRow'.expires = IF rRow.expires \in {-1, 0} THEN rRow.expires ELSE rRow.expires - 1
        /\ rRow'.started = IF rRow.started \in {-1, Cooldown} THEN rRow.started
                           ELSE rRow.started + 1
        /\ rRow.freeze => rRow'.updated <= rRow.updated + 1
    BY <1>0, <1>2, TimePassesIs
  <2>3. /\ rRow.started \in -1 .. Cooldown /\ rRow.expires \in -1 .. RecheckWindow
        /\ rRow.until \in -1 .. FreezeMax
        /\ rRow.updated \in Nat /\ rRow'.updated \in Nat
    BY <1>0, <2>2 DEF BrickRows
  <2>4. RecheckTypes'
    <3>1. /\ rRow'.until = -1 <=> rRow.until = -1
          /\ rRow.started # -1 => rRow'.started # -1
          /\ rRow.expires # -1 => rRow'.expires # -1
      BY <2>2, <2>3
    <3> QED
      BY <1>0, <2>1, <2>2, <3>1 DEF RecheckTypes
  <2>5. Hold(rRow') = IF Hold(rRow) > 0 THEN Hold(rRow) - 1 ELSE 0
    BY <2>2, <2>3, RecheckAssumption DEF Hold
  <2>6. Hold(rRow) \in Nat /\ Bound \in Nat
    BY <1>0, HoldIs
  <2>7. FreezeFits'
    BY <1>0, <2>1, <2>2, <2>3, <2>5, <2>6 DEF FreezeFits, PassFits, Bound
  <2>8. PageFits' /\ PassFits' /\ PageIsFresh'
    BY <2>1 DEF PageFits, PassFits, PageIsFresh
  <2>9. Recheck!WindowIsComplete'
    BY <1>0, <2>1, <2>2, <2>3, RecheckAssumption DEF Recheck!WindowIsComplete, Recheck!Null
  <2>10. Recheck!WindowRunsOut
    BY <2>2, <2>3 DEF Recheck!WindowRunsOut
  <2> QED
    BY <2>4, <2>7, <2>8, <2>9, <2>10 DEF RecheckInv
<1>3. ASSUME NEW w \in Recheck!Weights, NEW opposing \in BOOLEAN, Recheck!CountVote(w, opposing)
      PROVE  RecheckInv' /\ Recheck!WindowRunsOut
  <2>1. /\ rRow' \in BrickRows /\ SameWindow(rRow', rRow) /\ SameFreeze(rRow', rRow)
        /\ rRow.freeze = FALSE /\ rRow'.updated = 0
    BY <1>0, <1>3, CountVoteIs
  <2>2. UNCHANGED <<rPage, rPassed, rOverlap>>
    BY <1>3 DEF Recheck!CountVote
  <2>3. Hold(rRow') = Hold(rRow)
    BY <2>1, HoldSame
  <2> QED
    BY <1>0, <2>1, <2>2, <2>3
    DEF RecheckInv, RecheckTypes, FreezeFits, PageFits, PassFits, PageIsFresh, SameWindow,
        SameFreeze, Recheck!WindowIsComplete, Recheck!WindowRunsOut
<1>4. ASSUME NEW w \in Recheck!Weights, NEW opposing \in BOOLEAN, NEW fair \in BOOLEAN,
             NEW crowd \in BOOLEAN, NEW price \in Recheck!Prices,
             Recheck!MovePrice(w, opposing, fair, crowd, price)
      PROVE  RecheckInv' /\ Recheck!WindowRunsOut
  <2>1. /\ rRow' \in BrickRows /\ rRow.freeze = FALSE /\ rRow'.updated = 0
        /\ rRow.until = -1 => (rRow'.freeze <=> rRow'.until # -1)
        /\ \/ NewWindow(rRow', "WATCH") /\ (~rRow.needs \/ rRow.expires = 0)
           \/ NoWindow(rRow')
           \/ SameWindow(rRow', rRow)
    BY <1>0, <1>4, MovePriceIs
  <2>2. UNCHANGED <<rPage, rPassed>> /\ rOverlap' = (rOverlap \/ rPage.pc # "idle")
    BY <1>4 DEF Recheck!MovePrice
  <2>3. RecheckTypes'
    BY <1>0, <2>1, <2>2, RecheckAssumption
    DEF RecheckTypes, SameWindow, NewWindow, NoWindow
  <2>4. /\ Hold(rRow') \in Nat /\ Hold(rRow') <= Recheck!HoldOff /\ Bound \in Nat
        /\ Bound - 1 >= Recheck!HoldOff /\ Recheck!HoldOff \in Nat
        /\ NewWindow(rRow', "WATCH") => Hold(rRow') > 0
    BY <2>1, HoldIs
  <2>5. FreezeFits'
    BY <2>1, <2>4 DEF FreezeFits, Bound
  <2>6. PageFits'
    BY <1>0, <2>1, <2>2, <2>4, RecheckAssumption
    DEF PageFits, SameWindow, NewWindow, NoWindow, Bound
  <2>7. PassFits'
    <3>1. CASE SameWindow(rRow', rRow)
      BY <1>0, <2>1, <2>2, <2>4, <3>1, HoldSame DEF PassFits, SameWindow, Bound
    <3>2. CASE NewWindow(rRow', "WATCH") \/ NoWindow(rRow')
      BY <2>1, <2>4, <3>2 DEF PassFits, NewWindow, NoWindow, Bound
    <3> QED
      BY <2>1, <3>1, <3>2
  <2>8. PageIsFresh'
    BY <2>2 DEF PageIsFresh
  <2>9. Recheck!WindowIsComplete'
    <3>1. RecheckWindow # -1
      BY RecheckAssumption
    <3>2. ASSUME ~rOverlap' PROVE ~rOverlap
      BY <2>2, <3>2
    <3>3. CASE SameWindow(rRow', rRow)
      BY <1>0, <3>2, <3>3 DEF Recheck!WindowIsComplete, SameWindow
    <3>4. CASE NewWindow(rRow', "WATCH") \/ NoWindow(rRow')
      BY <3>1, <3>4 DEF Recheck!WindowIsComplete, Recheck!Null, NewWindow, NoWindow
    <3> QED
      BY <2>1, <3>3, <3>4
  <2>10. Recheck!WindowRunsOut
    BY <1>0, <2>1 DEF Recheck!WindowRunsOut, SameWindow, NewWindow, NoWindow, BrickRows
  <2> QED
    BY <2>3, <2>5, <2>6, <2>7, <2>8, <2>9, <2>10 DEF RecheckInv
<1>5. CASE Recheck!ReadPage
  <2>1. /\ rPage.pc = "idle" /\ UNCHANGED <<rRow, rCredit, rSpent, rOverlap>>
        /\ \/ Hold(rRow) > 0 /\ rPassed' = TRUE /\ UNCHANGED rPage
           \/ /\ Hold(rRow) = 0 /\ UNCHANGED rPassed /\ rPage' \in PageHolds
              /\ rPage'.pc = "write" <=> ~(rRow.needs /\ rRow.expires = 0)
              /\ rPage'.thaw = rRow.freeze
              /\ rPage'.write = IF rRow.state = "ACTIVE" /\ rRow.expires = 0
                                THEN "downgrade" ELSE Recheck!Trigger(rRow)
    BY <1>0, <1>5, ReadPageIs
  <2>2. FreezeFits' /\ Recheck!WindowIsComplete' /\ Recheck!WindowRunsOut
    BY <1>0, <2>1 DEF FreezeFits, Recheck!WindowIsComplete, Recheck!WindowRunsOut
  <2>3. CASE Hold(rRow) > 0
    <3>1. rPassed' = TRUE /\ UNCHANGED rPage
      BY <2>1, <2>3
    <3> QED
      BY <1>0, <2>1, <2>2, <2>3, <3>1
      DEF RecheckInv, RecheckTypes, PageFits, PassFits, PageIsFresh
  <2>4. CASE ~(Hold(rRow) > 0)
    <3>1. /\ Hold(rRow) = 0 /\ UNCHANGED rPassed /\ rPage' \in PageHolds
          /\ rPage'.pc = "write" <=> ~(rRow.needs /\ rRow.expires = 0)
          /\ rPage'.thaw = rRow.freeze
          /\ rPage'.write = IF rRow.state = "ACTIVE" /\ rRow.expires = 0
                            THEN "downgrade" ELSE Recheck!Trigger(rRow)
      BY <2>1, <2>4
    <3>2. RecheckTypes'
      BY <1>0, <2>1, <3>1 DEF RecheckTypes
    <3>3. /\ rPage'.pc \in {"clear", "write"}
          /\ rRow.expires \in -1 .. RecheckWindow /\ rRow.updated \in Nat
          /\ rRow.needs \in BOOLEAN
      BY <1>0, <3>1 DEF PageHolds, BrickRows
    <3>4. ~(rRow.needs /\ rRow.expires > 0)
      BY <1>0, <3>1, HoldIs
    <3>5. /\ Recheck!Trigger(rRow) \in {"none", "WATCH", "ACTIVE"}
          /\ Recheck!Trigger(rRow) = "ACTIVE" => rRow.freeze = TRUE
          /\ Recheck!Trigger(rRow) # "ACTIVE" /\ rRow.freeze => rRow.updated <= FreezeMax - 1
      BY <1>0, TriggerIs
    <3>6. rRow.state = "ACTIVE" => rRow.needs /\ rRow.expires = 0
      BY <1>0, <3>3, <3>4, RecheckAssumption DEF RecheckTypes
    <3>7. PageFits'
      BY <1>0, <2>1, <3>1, <3>3, <3>5, <3>6 DEF PageFits, FreezeFits
    <3>8. PassFits'
      BY <3>3 DEF PassFits
    <3>9. PageIsFresh'
      BY <2>1, <3>1, <3>3, <3>4, <3>5, <3>6 DEF PageIsFresh
    <3> QED
      BY <2>2, <3>2, <3>7, <3>8, <3>9 DEF RecheckInv
  <2> QED
    BY <2>3, <2>4
<1>6. CASE Recheck!ClearWindow
  <2>1. /\ rPage.pc = "clear" /\ rRow' = Recheck!Resolved(rRow)
        /\ rPage' = [rPage EXCEPT !.pc = "write"] /\ UNCHANGED <<rPassed, rOverlap>>
    BY <1>6 DEF Recheck!ClearWindow
  <2>2. rPage \in PageHolds
    BY <1>0, <2>1 DEF RecheckTypes
  <2>3. rPage' \in PageHolds /\ rPage'.pc = "write" /\ rPage'.write = rPage.write
        /\ rPage'.thaw = rPage.thaw
    BY <2>1, <2>2 DEF PageHolds
  <2>4. /\ rRow' \in BrickRows /\ NoWindow(rRow') /\ SameFreeze(rRow', rRow)
        /\ rRow'.updated = rRow.updated
    BY <1>0, <2>1, ResolvedIs
  <2>5. /\ Hold(rRow') = 0 /\ Hold(rRow) \in Nat /\ Bound \in Nat /\ rRow.updated \in Nat
    BY <1>0, <2>4, HoldIs DEF BrickRows
  <2>6. RecheckTypes'
    BY <1>0, <2>1, <2>3, <2>4 DEF RecheckTypes, NoWindow, SameFreeze
  <2>7. FreezeFits'
    BY <1>0, <2>4, <2>5 DEF FreezeFits, NoWindow, SameFreeze, Bound
  <2>8. PageFits'
    BY <1>0, <2>1, <2>3, <2>4 DEF PageFits, NoWindow, SameFreeze, Bound
  <2>9. PassFits' /\ PageIsFresh' /\ Recheck!WindowIsComplete' /\ Recheck!WindowRunsOut
    BY <2>3, <2>4 DEF PassFits, PageIsFresh, NoWindow, Recheck!WindowIsComplete,
                      Recheck!WindowRunsOut
  <2> QED
    BY <2>6, <2>7, <2>8, <2>9 DEF RecheckInv
<1>7. CASE Recheck!WriteBrick
  <2>1. /\ rPage.pc = "write" /\ rPage' = [pc |-> "idle"] /\ rPassed' = TRUE
        /\ rOverlap' = rOverlap /\ rRow' \in BrickRows
        /\ rPage.write \in {"none", "WATCH", "ACTIVE", "downgrade"}
    BY <1>0, <1>7, WriteBrickIs
  <2>2. /\ rPage.write = "none" => rRow' = rRow
        /\ rPage.write = "downgrade" =>
                 /\ SameFreeze(rRow', rRow) /\ rRow'.updated = rRow.updated
                 /\ rRow'.needs = rRow.needs /\ rRow'.started = rRow.started
                 /\ rRow'.state = "WATCH" /\ rRow'.expires = -1
        /\ rPage.write = "WATCH" =>
                 /\ NewWindow(rRow', "WATCH") /\ SameFreeze(rRow', rRow)
                 /\ rRow'.updated = rRow.updated
        /\ rPage.write = "ACTIVE" =>
                 NewWindow(rRow', "ACTIVE") /\ rRow'.freeze = FALSE /\ rRow'.until = -1
    BY <1>0, <1>7, WriteBrickIs
  <2>3. PageFits' /\ PageIsFresh'
    BY <2>1 DEF PageFits, PageIsFresh
  <2>4. /\ Hold(rRow') \in Nat /\ Hold(rRow') <= Recheck!HoldOff /\ Bound \in Nat
        /\ Bound - 1 >= Recheck!HoldOff /\ Recheck!HoldOff \in Nat
        /\ \A s : NewWindow(rRow', s) => Hold(rRow') > 0
        /\ Bound = FreezeMax + Recheck!HoldOff /\ rRow.updated \in Nat /\ FreezeMax \in Nat
    BY <1>0, <2>1, HoldIs, RecheckAssumption DEF BrickRows
  <2>5. rRow.state # "ACTIVE"
    BY <1>0, <2>1 DEF PageFits
  <2>6. CASE rPage.write = "none"
    <3>1. rRow' = rRow /\ (rRow.freeze => rRow.updated <= FreezeMax - 1)
      BY <1>0, <2>1, <2>2, <2>6 DEF PageFits
    <3>2. RecheckTypes' /\ Recheck!WindowIsComplete' /\ Recheck!WindowRunsOut
      BY <1>0, <2>1, <3>1 DEF RecheckTypes, Recheck!WindowIsComplete, Recheck!WindowRunsOut
    <3>3. FreezeFits'
      BY <1>0, <3>1 DEF FreezeFits
    <3>4. PassFits'
      BY <2>4, <2>5, <3>1 DEF PassFits
    <3> QED
      BY <2>3, <3>2, <3>3, <3>4 DEF RecheckInv
  <2>7. CASE rPage.write = "downgrade"
    <3>1. /\ SameFreeze(rRow', rRow) /\ rRow'.updated = rRow.updated
          /\ rRow'.needs = rRow.needs /\ rRow'.started = rRow.started
          /\ rRow'.state = "WATCH" /\ rRow'.expires = -1
      BY <2>2, <2>7
    <3>2. RecheckTypes'
      BY <1>0, <2>1, <3>1 DEF RecheckTypes, SameFreeze
    <3>3. rRow.freeze => rRow.updated <= Bound - 1
      BY <1>0, <2>1, <2>7 DEF PageFits
    <3>4. Hold(rRow') > 0 => Hold(rRow') <= Hold(rRow) /\ Hold(rRow) \in Nat
      BY <1>0, <3>1, RecheckAssumption DEF Hold, BrickRows
    <3>5. FreezeFits'
      BY <1>0, <2>4, <3>1, <3>3, <3>4 DEF FreezeFits, SameFreeze
    <3>6. PassFits'
      BY <3>1, <3>3 DEF PassFits, SameFreeze, Bound
    <3>7. rOverlap \/ ~rRow.needs
      BY <1>0, <2>1, <2>7 DEF PageIsFresh
    <3>8. Recheck!WindowIsComplete' /\ Recheck!WindowRunsOut
      BY <2>1, <3>1, <3>7 DEF Recheck!WindowIsComplete, Recheck!WindowRunsOut
    <3> QED
      BY <2>3, <3>2, <3>5, <3>6, <3>8 DEF RecheckInv
  <2>8. CASE rPage.write \in {"WATCH", "ACTIVE"}
    <3>1. /\ \E s \in {"WATCH", "ACTIVE"} : NewWindow(rRow', s)
          /\ rRow'.freeze <=> rRow'.until # -1
          /\ rRow'.freeze => rRow'.updated <= FreezeMax - 1
      BY <1>0, <2>1, <2>2, <2>8 DEF PageFits, RecheckTypes, SameFreeze
    <3>2. Hold(rRow') > 0
      BY <2>4, <3>1
    <3>3. RecheckTypes'
      BY <1>0, <2>1, <3>1, RecheckAssumption DEF RecheckTypes, NewWindow
    <3>4. FreezeFits'
      <4>1. rRow'.updated \in Nat
        BY <2>1 DEF BrickRows
      <4> QED
        BY <2>4, <3>1, <3>2, <4>1 DEF FreezeFits, Bound
    <3>5. PassFits'
      BY <3>2 DEF PassFits
    <3>6. rOverlap \/ ~(rRow.needs /\ rRow.expires > 0)
      BY <1>0, <2>1 DEF PageIsFresh
    <3>7. Recheck!WindowIsComplete' /\ Recheck!WindowRunsOut
      BY <2>1, <3>1, <3>6, RecheckAssumption
      DEF Recheck!WindowIsComplete, Recheck!WindowRunsOut, NewWindow, Recheck!Null
    <3> QED
      BY <2>3, <3>3, <3>4, <3>5, <3>7 DEF RecheckInv
  <2> QED
    BY <2>1, <2>6, <2>7, <2>8
<1>8. CASE Recheck!Vote
  <2>1. UNCHANGED <<rRow, rPage, rPassed, rOverlap>>
    BY <1>8 DEF Recheck!Vote
  <2>2. RecheckInv'
    BY <1>0, <2>1
    DEF RecheckInv, RecheckTypes, FreezeFits, PageFits, PassFits, PageIsFresh,
        Recheck!WindowIsComplete
  <2>3. Recheck!WindowRunsOut
    BY <2>1 DEF Recheck!WindowRunsOut
  <2> QED
    BY <2>2, <2>3
<1> QED
  BY <1>1, <1>2, <1>3, <1>4, <1>5, <1>6, <1>7, <1>8 DEF Recheck!Next

(* The votes a user still has in the same window, cycle and price: those of  *)
(* the credits that are left, one if the price has moved and one if the      *)
(* window has not granted yet.                                               *)
Credits == [left : 0 .. MaxCredits, votePrice : 0 .. 2, regainPrice : 0 .. 2,
            thisCycle : BOOLEAN, beforeDeadline : BOOLEAN]
ByPrice(c, price) ==
    IF c.left = 0 /\ c.votePrice \notin {0, price} /\ c.regainPrice # price THEN 1 ELSE 0
ByWindow(c, expires) ==
    IF ~c.thisCycle \/ (expires = 0 /\ c.beforeDeadline) THEN 1 ELSE 0
VotesLeft == rCredit.left + ByPrice(rCredit, rRow.price) + ByWindow(rCredit, rRow.expires)

CreditInv ==
    rCredit \in Credits /\ rSpent \in Nat /\ rSpent + VotesLeft <= MaxCredits + 1

(* A credit that is granted or spent at a price.                             *)
LEMMA CreditSet ==
    ASSUME NEW c \in Credits, NEW n \in 0 .. MaxCredits, NEW p \in 0 .. 2
    PROVE  /\ [c EXCEPT !.left = n, !.regainPrice = p] \in Credits
           /\ [c EXCEPT !.left = n, !.votePrice = p] \in Credits
<1>1. [c EXCEPT !.left = n, !.regainPrice = p] \in Credits
  BY DEF Credits
<1>2. [c EXCEPT !.left = n, !.votePrice = p] \in Credits
  BY DEF Credits
<1> QED
  BY <1>1, <1>2

(* A count that starts anew fits.                                            *)
LEMMA FreshCountFits == rCredit' \in Credits /\ rSpent' = 0 => CreditInv'
<1> SUFFICES ASSUME rCredit' \in Credits, rSpent' = 0 PROVE CreditInv'
  OBVIOUS
<1>1. rCredit'.left \in 0 .. MaxCredits /\ MaxCredits \in Nat \ {0}
  BY RecheckAssumption DEF Credits
<1>2. /\ ByPrice(rCredit', rRow'.price) \in {0, 1} /\ ByWindow(rCredit', rRow'.expires) \in {0, 1}
      /\ rCredit'.left > 0 => ByPrice(rCredit', rRow'.price) = 0
  BY DEF ByPrice, ByWindow
<1>3. VotesLeft' =
        rCredit'.left + ByPrice(rCredit', rRow'.price) + ByWindow(rCredit', rRow'.expires)
  BY DEF VotesLeft
<1>4. VotesLeft' <= MaxCredits + 1 /\ VotesLeft' \in Nat
  BY <1>1, <1>2, <1>3
<1> QED
  BY <1>4 DEF CreditInv

(* At the same price, unless a deadline passes, there is nothing more to get. *)
LEMMA SameCountFits ==
    CreditInv /\ rCredit' = rCredit /\ rSpent' = rSpent /\ SamePrice(rRow', rRow)
    /\ (rRow'.expires = 0 => rRow.expires = 0) => CreditInv'
<1> SUFFICES ASSUME CreditInv, rCredit' = rCredit, rSpent' = rSpent, SamePrice(rRow', rRow),
                    rRow'.expires = 0 => rRow.expires = 0
             PROVE  CreditInv'
  OBVIOUS
<1>1. ByPrice(rCredit', rRow'.price) = ByPrice(rCredit, rRow.price)
  BY DEF SamePrice, ByPrice
<1>2. /\ ByWindow(rCredit', rRow'.expires) <= ByWindow(rCredit, rRow.expires)
      /\ ByWindow(rCredit', rRow'.expires) \in Nat /\ ByWindow(rCredit, rRow.expires) \in Nat
      /\ ByPrice(rCredit, rRow.price) \in Nat /\ rCredit.left \in Nat /\ rSpent \in Nat
  BY DEF ByWindow, ByPrice, CreditInv, Credits
<1>3. rSpent + (rCredit.left + ByPrice(rCredit, rRow.price) + ByWindow(rCredit, rRow.expires))
         <= MaxCredits + 1
  BY DEF CreditInv, VotesLeft
<1>4. rSpent + (rCredit.left + ByPrice(rCredit, rRow.price) + ByWindow(rCredit, rRow'.expires))
         <= MaxCredits + 1
  BY <1>2, <1>3, RecheckAssumption
<1> QED
  BY <1>1, <1>4 DEF CreditInv, VotesLeft

(* A vote takes one of them.                                                 *)
LEMMA VoteFits == RecheckTypes /\ CreditInv /\ Recheck!Vote => CreditInv'
<1> SUFFICES ASSUME RecheckTypes, CreditInv, Recheck!Vote PROVE CreditInv'
  OBVIOUS
<1> DEFINE c == Recheck!Regain(rCredit)
           p == rRow.price
           e == rRow.expires
<1>1. /\ c.left > 0 /\ rCredit' = [c EXCEPT !.left = @ - 1, !.votePrice = p]
      /\ rSpent' = IF rSpent > MaxCredits + 1 THEN rSpent ELSE rSpent + 1
      /\ rRow' = rRow
  BY DEF Recheck!Vote
<1>2. rCredit \in Credits /\ p \in {1, 2} /\ rSpent \in Nat /\ MaxCredits \in Nat \ {0}
      /\ rSpent + (rCredit.left + ByPrice(rCredit, p) + ByWindow(rCredit, e)) <= MaxCredits + 1
  BY RecheckAssumption DEF CreditInv, VotesLeft, RecheckTypes, BrickRows
<1>3. ByPrice(rCredit, p) \in {0, 1} /\ ByWindow(rCredit, e) \in {0, 1}
  BY DEF ByPrice, ByWindow
<1>4. /\ c \in Credits
      /\ c.left + ByWindow(c, e) <= rCredit.left + ByPrice(rCredit, p) + ByWindow(rCredit, e)
  <2>1. \/ /\ rCredit.left = 0 /\ Recheck!PriceMoved(rCredit) /\ c = Recheck!Regained(rCredit)
        \/ /\ rCredit.left = 0 /\ Recheck!MayGrant(rCredit)
           /\ c = [Recheck!Regained(rCredit) EXCEPT !.thisCycle = TRUE,
                                                    !.beforeDeadline = ~Recheck!Expired(rRow)]
        \/ c = rCredit
    BY Zenon DEF Recheck!Regain
  <2> HIDE DEF c
  <2>2. CASE rCredit.left = 0 /\ Recheck!PriceMoved(rCredit) /\ c = Recheck!Regained(rCredit)
    <3>1. ByPrice(rCredit, p) = 1
      BY <2>2 DEF ByPrice, Recheck!PriceMoved
    <3>2. /\ c.left = 1 /\ c.thisCycle = rCredit.thisCycle
          /\ c.beforeDeadline = rCredit.beforeDeadline
          /\ c \in Credits
      <4>1. 1 \in 0 .. MaxCredits /\ p \in 0 .. 2
        BY <1>2
      <4>2. c \in Credits
        BY <1>2, <2>2, <4>1, CreditSet DEF Recheck!Regained
      <4> QED
        BY <1>2, <2>2, <4>2 DEF Recheck!Regained, Credits
    <3>3. ByWindow(c, e) = ByWindow(rCredit, e)
      BY <3>2 DEF ByWindow
    <3> QED
      BY <1>3, <2>2, <3>1, <3>2, <3>3
  <2>3. CASE /\ rCredit.left = 0 /\ Recheck!MayGrant(rCredit)
             /\ c = [Recheck!Regained(rCredit) EXCEPT !.thisCycle = TRUE,
                                                      !.beforeDeadline = ~Recheck!Expired(rRow)]
    <3>1. ByWindow(rCredit, e) = 1
      BY <2>3 DEF ByWindow, Recheck!MayGrant, Recheck!Expired
    <3>2. c.left = 1 /\ c.thisCycle = TRUE /\ c.beforeDeadline = (e # 0) /\ c \in Credits
      <4>1. Recheck!Regained(rCredit) \in Credits /\ Recheck!Regained(rCredit).left = 1
        <5>1. 1 \in 0 .. MaxCredits /\ p \in 0 .. 2
          BY <1>2
        <5>2. Recheck!Regained(rCredit) \in Credits
          BY <1>2, <5>1, CreditSet DEF Recheck!Regained
        <5> QED
          BY <1>2, <5>2 DEF Recheck!Regained, Credits
      <4> QED
        BY <2>3, <4>1 DEF Credits, Recheck!Expired
    <3>3. ByWindow(c, e) = 0
      BY <3>2 DEF ByWindow
    <3> QED
      BY <1>3, <2>3, <3>1, <3>2, <3>3
  <2>4. CASE c = rCredit
    <3>1. ByWindow(c, e) = ByWindow(rCredit, e) /\ rCredit.left \in Nat
      BY <1>2, <2>4 DEF Credits
    <3> QED
      BY <1>2, <1>3, <2>4, <3>1
  <2> QED
    BY <2>1, <2>2, <2>3, <2>4
<1> HIDE DEF c
<1>5. /\ rCredit' \in Credits /\ rCredit'.left = c.left - 1 /\ rCredit'.votePrice = p
      /\ rCredit'.thisCycle = c.thisCycle /\ rCredit'.beforeDeadline = c.beforeDeadline
  <2>1. c.left - 1 \in 0 .. MaxCredits /\ p \in 0 .. 2
    BY <1>1, <1>2, <1>4 DEF Credits
  <2>2. rCredit' = [c EXCEPT !.left = c.left - 1, !.votePrice = p]
    BY <1>1
  <2>3. rCredit' \in Credits
    BY <1>4, <2>1, <2>2, CreditSet
  <2> QED
    BY <1>4, <2>2, <2>3 DEF Credits
<1>6. /\ ByPrice(rCredit', p) = 0 /\ ByWindow(rCredit', e) = ByWindow(c, e)
      /\ ByWindow(c, e) \in {0, 1}
  BY <1>5 DEF ByPrice, ByWindow
<1>7. VotesLeft' = c.left - 1 + ByWindow(c, e)
  <2>1. VotesLeft' = rCredit'.left + ByPrice(rCredit', p) + ByWindow(rCredit', e)
    BY <1>1 DEF VotesLeft
  <2>2. c.left \in Nat
    BY <1>4 DEF Credits
  <2> QED
    BY <1>5, <1>6, <2>1, <2>2
<1>8. c.left \in Nat /\ rCredit.left \in Nat
  BY <1>2, <1>4 DEF Credits
<1> HIDE DEF p, e
<1>9. rSpent' = rSpent + 1 /\ rSpent' \in Nat
  BY <1>1, <1>2, <1>3, <1>8
<1>10. rSpent' + VotesLeft' <= MaxCredits + 1
  BY <1>2, <1>3, <1>4, <1>6, <1>7, <1>8, <1>9
<1> QED
  BY <1>5, <1>9, <1>10 DEF CreditInv

(* Every step keeps the credits scarce.                                      *)
LEMMA CreditInvStep == RecheckInv /\ CreditInv /\ [Recheck!Next]_ofRecheck => CreditInv'
<1> SUFFICES ASSUME RecheckInv, CreditInv, [Recheck!Next]_ofRecheck PROVE CreditInv'
  OBVIOUS
<1>0. RecheckTypes /\ PageFits /\ rRow \in BrickRows /\ rCredit \in Credits
  BY DEF RecheckInv, RecheckTypes, CreditInv
<1>1. CASE UNCHANGED ofRecheck
  BY <1>1 DEF ofRecheck, CreditInv, VotesLeft
<1>2. CASE Recheck!TimePasses
  <2>1. /\ rCredit' = rCredit /\ rSpent' = IF rRow.expires = 1 THEN 0 ELSE rSpent
    BY <1>2 DEF Recheck!TimePasses
  <2>2. /\ SamePrice(rRow', rRow)
        /\ rRow'.expires = IF rRow.expires \in {-1, 0} THEN rRow.expires ELSE rRow.expires - 1
    BY <1>0, <1>2, TimePassesIs
  <2>3. rRow.expires \in -1 .. RecheckWindow
    BY <1>0 DEF BrickRows
  <2>4. CASE rRow.expires = 1
    BY <1>0, <2>1, <2>4, FreshCountFits
  <2>5. CASE rRow.expires # 1
    <3>1. rRow'.expires = 0 => rRow.expires = 0
      BY <2>2, <2>3, <2>5
    <3> QED
      BY <2>1, <2>2, <2>5, <3>1, SameCountFits
  <2> QED
    BY <2>4, <2>5
<1>3. ASSUME NEW w \in Recheck!Weights, NEW opposing \in BOOLEAN, Recheck!CountVote(w, opposing)
      PROVE  CreditInv'
  <2>1. SameWindow(rRow', rRow) /\ SamePrice(rRow', rRow)
    BY <1>0, <1>3, CountVoteIs
  <2>2. rCredit' = rCredit /\ rSpent' = rSpent
    BY <1>3 DEF Recheck!CountVote
  <2> QED
    BY <2>1, <2>2, SameCountFits DEF SameWindow
<1>4. ASSUME NEW w \in Recheck!Weights, NEW opposing \in BOOLEAN, NEW fair \in BOOLEAN,
             NEW crowd \in BOOLEAN, NEW price \in Recheck!Prices,
             Recheck!MovePrice(w, opposing, fair, crowd, price)
      PROVE  CreditInv'
  <2>1. /\ \/ NewWindow(rRow', "WATCH") /\ rSpent' = 0
           \/ NoWindow(rRow')
           \/ SameWindow(rRow', rRow)
        /\ \/ /\ rSpent' = 0
              /\ rCredit' \in {rCredit, [rCredit EXCEPT !.thisCycle = FALSE],
                       [rCredit EXCEPT !.beforeDeadline = TRUE],
                       [[rCredit EXCEPT !.beforeDeadline = TRUE] EXCEPT !.thisCycle = FALSE]}
           \/ SamePrice(rRow', rRow) /\ rCredit' = rCredit /\ rSpent' = rSpent
    BY <1>0, <1>4, MovePriceIs
  <2>2. rCredit' \in Credits
    BY <1>0, <2>1 DEF Credits
  <2>3. CASE rSpent' = 0
    BY <2>2, <2>3, FreshCountFits
  <2>4. CASE rSpent' # 0
    <3>1. SamePrice(rRow', rRow) /\ rCredit' = rCredit /\ rSpent' = rSpent
      BY <2>1, <2>4
    <3>2. rRow'.expires = 0 => rRow.expires = 0
      BY <2>1, <2>4 DEF NoWindow, SameWindow
    <3> QED
      BY <3>1, <3>2, SameCountFits
  <2> QED
    BY <2>3, <2>4
<1>5. CASE Recheck!ReadPage
  <2>1. UNCHANGED <<rRow, rCredit, rSpent>>
    BY <1>5 DEF Recheck!ReadPage
  <2> QED
    BY <2>1 DEF CreditInv, VotesLeft
<1>6. CASE Recheck!ClearWindow
  <2>1. rRow' = Recheck!Resolved(rRow) /\ rCredit' = rCredit /\ rSpent' = rSpent
    BY <1>6 DEF Recheck!ClearWindow
  <2>2. NoWindow(rRow') /\ SamePrice(rRow', rRow)
    BY <1>0, <2>1, ResolvedIs
  <2> QED
    BY <2>1, <2>2, SameCountFits DEF NoWindow
<1>7. CASE Recheck!WriteBrick
  <2>1. /\ SamePrice(rRow', rRow)
        /\ rPage.write \in {"none", "WATCH", "ACTIVE", "downgrade"}
        /\ rPage.write = "none" => rRow' = rRow
        /\ rPage.write = "downgrade" => rRow'.expires = -1
        /\ IF rPage.write \in {"WATCH", "ACTIVE"}
           THEN rCredit' = [rCredit EXCEPT !.beforeDeadline = TRUE] /\ rSpent' = 0
           ELSE rCredit' = rCredit /\ rSpent' = rSpent
    BY <1>0, <1>7, WriteBrickIs
  <2>2. CASE rPage.write \in {"WATCH", "ACTIVE"}
    <3>1. rCredit' \in Credits /\ rSpent' = 0
      BY <1>0, <2>1, <2>2 DEF Credits
    <3> QED
      BY <3>1, FreshCountFits
  <2>3. CASE rPage.write \in {"none", "downgrade"}
    <3>1. rRow'.expires = 0 => rRow.expires = 0
      BY <2>1, <2>3
    <3> QED
      BY <2>1, <2>3, <3>1, SameCountFits
  <2> QED
    BY <2>1, <2>2, <2>3
<1>8. CASE Recheck!Vote
  BY <1>0, <1>8, VoteFits
<1> QED
  BY <1>1, <1>2, <1>3, <1>4, <1>5, <1>6, <1>7, <1>8 DEF Recheck!Next

(* Both invariants hold at the start.                                        *)
LEMMA RecheckInvInit == Recheck!Init => RecheckInv /\ CreditInv
<1> SUFFICES ASSUME Recheck!Init PROVE RecheckInv /\ CreditInv
  OBVIOUS
<1>1. /\ rRow = [freeze |-> FALSE, until |-> -1, updated |-> 0,
                 needs |-> FALSE, state |-> "NONE", started |-> -1, expires |-> -1,
                 confidence |-> -1, cycleAge |-> 0, weight |-> 0, opposing |-> FALSE,
                 price |-> 1, startPrice |-> 1]
      /\ rPage = [pc |-> "idle"] /\ rPassed = FALSE /\ rOverlap = FALSE
  BY DEF Recheck!Init, Recheck!Null
<1>2. rRow \in BrickRows
  <2>1. -1 \in -1 .. FreezeMax /\ -1 \in -1 .. Cooldown /\ -1 \in -1 .. RecheckWindow
    BY RecheckAssumption
  <2> QED
    BY <1>1, <2>1 DEF BrickRows
<1>3. RecheckInv
  BY <1>1, <1>2
  DEF RecheckInv, RecheckTypes, FreezeFits, PageFits, PassFits, PageIsFresh,
      Recheck!WindowIsComplete
<1>4. /\ rCredit = [left |-> MaxCredits, votePrice |-> 0, regainPrice |-> 0,
                    thisCycle |-> FALSE, beforeDeadline |-> FALSE]
      /\ rSpent = 0
  BY DEF Recheck!Init
<1>5. rCredit \in Credits
  BY <1>4, RecheckAssumption DEF Credits
<1>6. rCredit.left = MaxCredits /\ ByPrice(rCredit, rRow.price) = 0
      /\ ByWindow(rCredit, rRow.expires) = 1
  BY <1>4 DEF ByPrice, ByWindow
<1>7. CreditInv
  BY <1>4, <1>5, <1>6, RecheckAssumption DEF CreditInv, VotesLeft
<1> QED
  BY <1>3, <1>7

(* What the invariants say of the properties.                                *)
LEMMA RecheckInvMeans ==
    /\ RecheckInv => Recheck!FreezesEnd /\ Recheck!WindowIsComplete
    /\ CreditInv => Recheck!CreditsAreScarce
    /\ RecheckInv /\ CreditInv => Recheck!TypeOK
<1>1. ASSUME RecheckInv PROVE Recheck!FreezesEnd /\ Recheck!WindowIsComplete
  <2>1. rRow \in BrickRows /\ rRow.updated \in Nat
    BY <1>1 DEF RecheckInv, RecheckTypes, BrickRows
  <2>2. Hold(rRow) \in Nat /\ Bound \in Nat /\ Bound = FreezeMax + Recheck!HoldOff
    BY <2>1, HoldIs
  <2>3. rRow.freeze => rRow.updated <= Bound
    BY <1>1, <2>1, <2>2 DEF RecheckInv, FreezeFits, Bound
  <2> QED
    BY <1>1, <2>2, <2>3 DEF RecheckInv, Recheck!FreezesEnd
<1>2. ASSUME CreditInv PROVE Recheck!CreditsAreScarce
  <2>1. VotesLeft \in Nat /\ rSpent \in Nat /\ rSpent + VotesLeft <= MaxCredits + 1
    BY <1>2 DEF CreditInv, Credits, VotesLeft, ByPrice, ByWindow
  <2> QED
    BY <2>1, RecheckAssumption DEF Recheck!CreditsAreScarce
<1>3. ASSUME RecheckInv, CreditInv PROVE Recheck!TypeOK
  <2>1. /\ rRow \in BrickRows /\ (rRow.freeze <=> rRow.until # -1)
        /\ rPage.pc \in {"idle", "clear", "write"} /\ rCredit.left \in 0 .. MaxCredits
    BY <1>3 DEF RecheckInv, RecheckTypes, CreditInv, PageHolds, Credits
  <2> QED
    BY <2>1 DEF Recheck!TypeOK, BrickRows, Recheck!Weights, Recheck!Prices, Recheck!Null
<1> QED
  BY <1>1, <1>2, <1>3

-----------------------------------------------------------------------------
(* The Dex vote linker.                                                     *)

(* The rows whose intent is processed, and the first batch of the unlinked.  *)
LinkSettled == {r \in LinkerRows : lIntent[r] = "processed"}
FirstBatch == {r \in Linker!Unlinked : Cardinality({s \in Linker!Unlinked : s <= r}) <= Batch}

(* As long as a run has linked nothing it is in its first batch, every row it *)
(* has taken from the batch was skipped, and none of them was processed when  *)
(* the run began.                                                             *)
FirstBatchFits ==
    /\ lRun.pc = "fetch" => lRun.skipped = 0
    /\ lRun.pc = "link" => /\ lRun.size = Cardinality(FirstBatch)
                           /\ lRun.size = lRun.skipped + Cardinality(lRun.todo)
                           /\ lRun.start \cap FirstBatch \subseteq lRun.todo

RunFits ==
    /\ lRun = [pc |-> lRun.pc, start |-> lRun.start, linkedOne |-> lRun.linkedOne,
               skipped |-> lRun.skipped, size |-> lRun.size, todo |-> lRun.todo]
    /\ lRun.pc \in {"fetch", "link", "ended"} /\ lRun.linkedOne \in BOOLEAN
    /\ lRun.skipped \in Nat
    /\ lRun.start \subseteq LinkSettled /\ lRun.todo \subseteq Linker!Unlinked
    /\ ~lRun.linkedOne => FirstBatchFits

LinkerInv ==
    /\ lIntent \in [LinkerRows -> {"waiting", "processed", "rejected"}]
    /\ lLinked \subseteq LinkSettled
    /\ lRun = Linker!Stopped \/ RunFits
    /\ Linker!OnlyFullBatchesHide

(* The first batch, with the cardinality of the library's theorems.          *)
LEMMA FirstRowsAre == Linker!FirstRows = FirstBatch
  BY Zenon DEF Linker!FirstRows, FirstBatch, Linker!Cardinality, Cardinality

(* A row outside the first batch has a whole batch of rows before it.        *)
LEMMA BatchBefore ==
    ASSUME NEW r \in Linker!Unlinked, r \notin FirstBatch
    PROVE  Linker!Cardinality({s \in Linker!Unlinked : s < r}) >= Batch
<1> DEFINE Upto == {s \in Linker!Unlinked : s <= r}
           Before == {s \in Linker!Unlinked : s < r}
<1>1. IsFiniteSet(Upto) /\ Cardinality(Upto) \in Nat
  <2>1. Upto \in SUBSET LinkerRows
    BY DEF Linker!Unlinked
  <2> QED
    BY <2>1, LinkerAssumption, FS_Subset, FS_CardinalityType
<1>2. r \in Upto /\ Before = Upto \ {r}
  <2>1. r \in Nat /\ \A s \in Linker!Unlinked : s \in Nat /\ (s < r <=> s <= r /\ s # r)
    BY LinkerAssumption DEF Linker!Unlinked
  <2>2. r \in Upto
    BY <2>1
  <2>3. \A s : s \in Before <=> s \in Upto \ {r}
    BY <2>1
  <2> HIDE DEF Upto, Before
  <2> QED
    BY <2>2, <2>3
<1>3. Cardinality(Before) = Cardinality(Upto) - 1
  <2> HIDE DEF Upto, Before
  <2> QED
    BY <1>1, <1>2, FS_RemoveElement, Zenon
<1>4. ~(Cardinality(Upto) <= Batch)
  BY DEF FirstBatch
<1>5. Linker!Cardinality(Before) = Cardinality(Before)
  BY Zenon DEF Linker!Cardinality, Cardinality
<1> HIDE DEF Upto, Before
<1>6. Cardinality(Before) >= Batch
  BY <1>1, <1>3, <1>4, BatchAssumption
<1> QED
  BY <1>5, <1>6 DEF Before

(* Every step of the linker keeps its invariant.                             *)
LEMMA LinkerInvStep == LinkerInv /\ [Linker!Next]_ofLinker => LinkerInv'
<1> SUFFICES ASSUME LinkerInv, [Linker!Next]_ofLinker PROVE LinkerInv'
  OBVIOUS
<1> USE DEF LinkerInv
<1>0. \A S \in SUBSET LinkerRows : IsFiniteSet(S) /\ Cardinality(S) \in Nat
  BY LinkerAssumption, FS_Subset, FS_CardinalityType
<1>1. CASE UNCHANGED ofLinker
  BY <1>1 DEF ofLinker, LinkSettled, RunFits, FirstBatchFits, FirstBatch, Linker!Unlinked,
              Linker!OnlyFullBatchesHide
<1>2. ASSUME NEW r \in LinkerRows, Linker!Enrich(r) PROVE LinkerInv'
  <2>1. /\ lIntent' \in [LinkerRows -> {"waiting", "processed", "rejected"}]
        /\ LinkSettled \subseteq LinkSettled'
    BY <1>2 DEF Linker!Enrich, LinkSettled
  <2> QED
    BY <1>2, <2>1 DEF Linker!Enrich, RunFits, FirstBatchFits, FirstBatch, Linker!Unlinked,
                      Linker!OnlyFullBatchesHide
<1>3. CASE Linker!StartRun
  <2>1. LinkSettled' = LinkSettled
    BY <1>3 DEF Linker!StartRun, LinkSettled
  <2>2. /\ lRun' = [pc |-> "fetch", start |-> {r \in Linker!Unlinked : lIntent[r] = "processed"},
                    linkedOne |-> FALSE, skipped |-> 0, size |-> 0, todo |-> {}]
        /\ lLinked' = lLinked /\ lIntent' = lIntent
    BY <1>3 DEF Linker!StartRun
  <2> QED
    BY <2>1, <2>2
    DEF RunFits, FirstBatchFits, LinkSettled, Linker!Unlinked, Linker!OnlyFullBatchesHide
<1>4. CASE Linker!FetchBatch
  <2>1. /\ LinkSettled' = LinkSettled /\ UNCHANGED <<lIntent, lLinked>>
        /\ Linker!Unlinked' = Linker!Unlinked
    BY <1>4 DEF Linker!FetchBatch, LinkSettled, Linker!Unlinked
  <2>2. RunFits /\ lRun.pc = "fetch"
    BY <1>4 DEF Linker!FetchBatch, Linker!Stopped
  <2>3. CASE Linker!Unlinked = {}
    <3>1. lRun' = [lRun EXCEPT !.pc = "ended"]
      BY <1>4, <2>3 DEF Linker!FetchBatch
    <3>2. RunFits'
      BY <2>1, <2>2, <3>1 DEF RunFits, FirstBatchFits
    <3>3. lRun'.start \ lLinked' = {}
      BY <2>1, <2>2, <2>3, <3>1 DEF RunFits, LinkSettled, Linker!Unlinked
    <3> QED
      BY <2>1, <3>2, <3>3 DEF Linker!OnlyFullBatchesHide
  <2>4. CASE Linker!Unlinked # {}
    <3>1. lRun' = [lRun EXCEPT !.pc = "link", !.todo = FirstBatch, !.size = Cardinality(FirstBatch)]
      <4>1. Linker!Cardinality(Linker!FirstRows) = Cardinality(FirstBatch)
        BY FirstRowsAre, Zenon DEF Linker!Cardinality, Cardinality
      <4>2. lRun' = [lRun EXCEPT !.pc = "link", !.todo = Linker!FirstRows,
                                 !.size = Linker!Cardinality(Linker!FirstRows)]
        BY <1>4, <2>4, Zenon DEF Linker!FetchBatch
      <4> HIDE DEF Linker!FirstRows
      <4> QED
        BY <4>1, <4>2, FirstRowsAre, Zenon
    <3>2. FirstBatch' = FirstBatch /\ FirstBatch \subseteq Linker!Unlinked
      BY <2>1 DEF FirstBatch
    <3>3. Cardinality(FirstBatch) \in Nat
      BY <1>0, <3>2 DEF Linker!Unlinked
    <3>4. RunFits'
      <4>1. /\ lRun'.pc = "link" /\ lRun'.start = lRun.start /\ lRun'.skipped = lRun.skipped
            /\ lRun'.linkedOne = lRun.linkedOne
            /\ lRun'.todo = FirstBatch /\ lRun'.size = Cardinality(FirstBatch)
            /\ lRun' = [pc |-> lRun'.pc, start |-> lRun'.start, linkedOne |-> lRun'.linkedOne,
                        skipped |-> lRun'.skipped, size |-> lRun'.size, todo |-> lRun'.todo]
        BY <2>2, <3>1 DEF RunFits
      <4>2. ~lRun.linkedOne => FirstBatchFits'
        BY <2>2, <3>2, <3>3, <4>1 DEF RunFits, FirstBatchFits
      <4> QED
        BY <2>1, <2>2, <3>2, <4>1, <4>2 DEF RunFits
    <3> QED
      BY <2>1, <3>1, <3>4, <2>2 DEF Linker!OnlyFullBatchesHide, RunFits
  <2> QED
    BY <2>3, <2>4
<1>5. CASE Linker!LinkOne
  <2> DEFINE first == Linker!Min(lRun.todo)
             found == lIntent[first] = "processed"
  <2>1. RunFits /\ lRun.pc = "link" /\ lRun.todo # {} /\ lIntent' = lIntent
    BY <1>5 DEF Linker!LinkOne, Linker!Stopped
  <2>2. PICK r \in lRun.todo : r = first
    <3>1. lRun.todo \subseteq Nat /\ lRun.todo # {}
      BY <2>1, LinkerAssumption DEF RunFits, Linker!Unlinked
    <3>2. \E n \in lRun.todo : \A m \in lRun.todo : n <= m
      BY <3>1, LeastNatural
    <3> QED
      BY <3>2, Zenon DEF Linker!Min
  <2>3. LinkSettled' = LinkSettled /\ r \in LinkerRows /\ r \in Linker!Unlinked
    BY <2>1, <2>2 DEF LinkSettled, RunFits, Linker!Unlinked
  <2>4. PICK skip \in Nat :
           /\ lRun' = [lRun EXCEPT !.todo = @ \ {r}, !.linkedOne = @ \/ lIntent[r] = "processed",
                                   !.skipped = skip]
           /\ lIntent[r] # "processed" /\ ~lRun.linkedOne => skip = lRun.skipped + 1
           /\ lLinked' = IF lIntent[r] = "processed" THEN lLinked \cup {r} ELSE lLinked
    <3> DEFINE skips == IF found \/ lRun.linkedOne THEN lRun.skipped ELSE lRun.skipped + 1
    <3>1. skips \in Nat
      BY <2>1 DEF RunFits
    <3>2. /\ lLinked' = IF found THEN lLinked \cup {first} ELSE lLinked
          /\ lRun' = [lRun EXCEPT !.todo = @ \ {first}, !.linkedOne = @ \/ found,
                                  !.skipped = IF found \/ lRun.linkedOne THEN @ ELSE @ + 1]
      BY <1>5, Zenon DEF Linker!LinkOne
    <3>3. lRun' = [lRun EXCEPT !.todo = @ \ {first}, !.linkedOne = @ \/ found, !.skipped = skips]
      BY <3>2
    <3> WITNESS skips \in Nat
    <3> QED
      BY <2>2, <3>2, <3>3
  <2>5. /\ lRun'.pc = "link" /\ lRun'.start = lRun.start /\ lRun'.size = lRun.size
        /\ lRun'.linkedOne = (lRun.linkedOne \/ lIntent[r] = "processed")
        /\ lRun'.skipped = skip /\ lRun'.todo = lRun.todo \ {r}
        /\ lRun' = [pc |-> lRun'.pc, start |-> lRun'.start, linkedOne |-> lRun'.linkedOne,
                    skipped |-> lRun'.skipped, size |-> lRun'.size, todo |-> lRun'.todo]
    BY <2>1, <2>4 DEF RunFits
  <2>6. lLinked' \subseteq LinkSettled'
    BY <2>3, <2>4 DEF LinkSettled
  <2>7. lRun'.todo \subseteq Linker!Unlinked'
    BY <2>1, <2>4, <2>5 DEF RunFits, Linker!Unlinked
  <2>8. ASSUME ~lRun'.linkedOne PROVE FirstBatchFits'
    <3>1. ~lRun.linkedOne /\ lIntent[r] # "processed"
      BY <2>5, <2>8
    <3>2. lLinked' = lLinked /\ skip = lRun.skipped + 1
      BY <2>4, <3>1
    <3>3. FirstBatch' = FirstBatch
      BY <3>2 DEF FirstBatch, Linker!Unlinked
    <3>4. FirstBatchFits
      BY <2>1, <3>1 DEF RunFits
    <3>5. IsFiniteSet(lRun.todo) /\ Cardinality(lRun.todo) \in Nat
      BY <1>0, <2>1 DEF RunFits, Linker!Unlinked
    <3>6. Cardinality(lRun.todo \ {r}) = Cardinality(lRun.todo) - 1
      BY <2>2, <3>5, FS_RemoveElement
    <3>7. r \notin lRun.start
      BY <2>1, <3>1 DEF RunFits, LinkSettled
    <3>8. lRun.skipped \in Nat
      BY <2>1 DEF RunFits
    <3> QED
      BY <2>1, <2>5, <3>2, <3>3, <3>4, <3>5, <3>6, <3>7, <3>8 DEF FirstBatchFits
  <2>9. RunFits'
    BY <2>1, <2>3, <2>5, <2>7, <2>8 DEF RunFits
  <2> QED
    BY <2>1, <2>5, <2>6, <2>9 DEF Linker!OnlyFullBatchesHide
<1>6. CASE Linker!EndOfBatch
  <2>1. /\ LinkSettled' = LinkSettled /\ UNCHANGED <<lIntent, lLinked>>
        /\ Linker!Unlinked' = Linker!Unlinked
    BY <1>6 DEF Linker!EndOfBatch, LinkSettled, Linker!Unlinked
  <2>2. /\ RunFits /\ lRun.pc = "link" /\ lRun.todo = {} /\ FirstBatch' = FirstBatch
        /\ lRun' = [lRun EXCEPT !.pc = IF Linker!NoProgress THEN "ended" ELSE "fetch"]
    BY <1>6, <2>1 DEF Linker!EndOfBatch, Linker!Stopped, FirstBatch
  <2>3. CASE lRun.linkedOne
    <3>1. lRun' = [lRun EXCEPT !.pc = "fetch"]
      BY <2>2, <2>3 DEF Linker!NoProgress
    <3> QED
      BY <2>1, <2>2, <2>3, <3>1 DEF RunFits, Linker!OnlyFullBatchesHide
  <2>4. CASE ~lRun.linkedOne
    <3>1. lRun.skipped = lRun.size /\ lRun.start \cap FirstBatch = {}
      BY <2>2, <2>4, FS_EmptySet DEF RunFits, FirstBatchFits
    <3>2. lRun' = [lRun EXCEPT !.pc = "ended"]
      BY <2>2, <2>4, <3>1 DEF Linker!NoProgress
    <3>3. RunFits'
      BY <2>1, <2>2, <3>2 DEF RunFits, FirstBatchFits
    <3>4. \A r \in lRun.start \ lLinked :
             Linker!Cardinality({s \in Linker!Unlinked : s < r}) >= Batch
      BY <2>2, <3>1, BatchBefore DEF RunFits, LinkSettled, Linker!Unlinked
    <3>5. lRun'.start = lRun.start
      BY <2>2, <3>2 DEF RunFits
    <3> QED
      BY <2>1, <3>3, <3>4, <3>5 DEF Linker!OnlyFullBatchesHide
  <2> QED
    BY <2>3, <2>4
<1>7. CASE Linker!StopRun
  BY <1>7 DEF Linker!StopRun, Linker!Stopped, LinkSettled, Linker!OnlyFullBatchesHide
<1> QED
  BY <1>1, <1>2, <1>3, <1>4, <1>5, <1>6, <1>7 DEF Linker!Next

(* It holds at the start.                                                    *)
LEMMA LinkerInvInit == Linker!Init => LinkerInv
  BY DEF Linker!Init, LinkerInv, Linker!Stopped, LinkSettled, Linker!OnlyFullBatchesHide

(* The linker's variables keep their types.                                  *)
LEMMA LinkerTyped == LinkerInv => Linker!TypeOK
  BY DEF LinkerInv, RunFits, Linker!TypeOK, Linker!Stopped, LinkSettled

-----------------------------------------------------------------------------
(* The calendar.                                                             *)

(* An instant after the first week of 1970, in a zone of the table.          *)
ClockInv == calZone \in Zones /\ calNow \in Int /\ calNow >= 7 * 48

(* How far summer time advances the clocks, and the wall clock at 5 AM of    *)
(* the day after D.                                                          *)
Advance == calZone.summer - calZone.offset
FiveOfNext(D) == (D + 1) * 48 + 10

(* What the assumption about zones says of the one that is looked at.        *)
LEMMA ZoneFacts ==
    ASSUME ClockInv
    PROVE  /\ calZone.offset \in Int /\ calZone.summer \in Int /\ Advance \in 0 .. 10
           /\ calZone.from \in Int /\ calZone.to \in Int /\ calZone.step \in Nat
           /\ calZone.start \in Int /\ calZone.start >= 7 * 48
  BY ZonesAssumption DEF ClockInv, Advance

(* The clocks are not advanced to 5 AM or over it.                           *)
LEMMA ChangeIsNotAtFive ==
    ASSUME ClockInv, Advance # 0, NEW c \in {calZone.from, calZone.to}
    PROVE  LET hour == (c + calZone.offset) % 48 IN hour > 10 \/ hour + Advance < 10
<1>1. calZone.summer # calZone.offset
  BY ZoneFacts DEF Advance
<1> QED
  BY <1>1, ZonesAssumption DEF ClockInv, Advance

(* The wall clock shows an integer, the offset or the summer's off.          *)
LEMMA WallFacts ==
    ASSUME ClockInv, NEW t \in Int
    PROVE  /\ Clock!Wall(t) \in Int
           /\ calZone.from <= t /\ t < calZone.to => Clock!Wall(t) = t + calZone.summer
           /\ ~(calZone.from <= t /\ t < calZone.to) => Clock!Wall(t) = t + calZone.offset
           /\ t + calZone.offset <= Clock!Wall(t) /\ Clock!Wall(t) <= t + calZone.summer
  BY ZoneFacts DEF Advance, Clock!Wall

(* A day begins with the 5 AM of its wall clock.                             *)
LEMMA KeyFacts ==
    ASSUME ClockInv, NEW t \in Int
    PROVE  LET D == Clock!ComputeLocalDayKey(t)
           IN  D \in Int /\ D * 48 + 10 <= Clock!Wall(t) /\ Clock!Wall(t) < FiveOfNext(D)
<1> DEFINE w == Clock!Wall(t)
<1>1. w \in Int
  BY WallFacts
<1> HIDE DEF w
<1>2. LET D == IF (w % 48) \div 2 < 5 THEN w \div 48 - 1 ELSE w \div 48
      IN  D \in Int /\ D * 48 + 10 <= w /\ w < (D + 1) * 48 + 10
  BY <1>1
<1> USE DEF w
<1> QED
  BY <1>2 DEF Clock!ComputeLocalDayKey, Clock!HourOf, Clock!DayOf, FiveOfNext

(* And it is the only day for which this holds.                              *)
LEMMA KeyIs ==
    ASSUME ClockInv, NEW t \in Int, NEW D \in Int,
           D * 48 + 10 <= Clock!Wall(t), Clock!Wall(t) < FiveOfNext(D)
    PROVE  Clock!ComputeLocalDayKey(t) = D
<1>1. Clock!Wall(t) \in Int
  BY WallFacts
<1> QED
  BY <1>1, KeyFacts DEF FiveOfNext

(* The four corrections of the guess reach the one instant whose wall clock  *)
(* shows 5 AM; it is after every instant of the days before.                 *)
LEMMA ResetIs ==
    ASSUME ClockInv, NEW D \in Int
    PROVE  LET reset == Clock!NextLocalResetUtc(D)
           IN  /\ reset \in Int
               /\ Clock!Wall(reset) = FiveOfNext(D)
               /\ Clock!Wall(reset - 1) < FiveOfNext(D)
               /\ FiveOfNext(D) - 11 <= Clock!Wall(reset - 1)
               /\ \A t \in Int : Clock!Wall(t) < FiveOfNext(D) => t < reset
<1> DEFINE T == FiveOfNext(D)
           o == calZone.offset
           s == calZone.summer
           A == T - s
           B == T - o
           Summer(t) == calZone.from <= t /\ t < calZone.to
           corrected(c) == c + (T - Clock!Wall(c))
           r == corrected(corrected(corrected(corrected(T))))
<1>1. /\ o \in Int /\ s \in Int /\ s - o = Advance /\ Advance \in 0 .. 10
      /\ calZone.from \in Int /\ calZone.to \in Int
  BY ZoneFacts DEF Advance
<1>2. T \in Int /\ T % 48 = 10
  BY DEF FiveOfNext
<1>3. Clock!NextLocalResetUtc(D) = r
  BY DEF Clock!NextLocalResetUtc, FiveOfNext
<1>4. ASSUME NEW t \in Int
      PROVE  /\ Clock!Wall(t) \in Int
             /\ Summer(t) => Clock!Wall(t) = t + s
             /\ ~Summer(t) => Clock!Wall(t) = t + o
  BY WallFacts
<1> HIDE DEF T, o, s
<1>5. A \in Int /\ B \in Int /\ B = A + Advance /\ A = T - s /\ B = T - o
  BY <1>1, <1>2
<1> HIDE DEF A, B
<1>6. ASSUME NEW c \in Int PROVE corrected(c) \in {A, B}
  <2>1. Clock!Wall(c) \in Int /\ (Clock!Wall(c) = c + s \/ Clock!Wall(c) = c + o)
    BY <1>4
  <2> QED
    BY <1>1, <1>2, <1>5, <2>1
<1>7. ASSUME Advance # 0, NEW c \in {calZone.from, calZone.to}, A < c, c <= B
      PROVE  FALSE
  <2>1. LET hour == (c + o) % 48 IN hour > 10 \/ hour + Advance < 10
    BY <1>7, ChangeIsNotAtFive DEF o
  <2>2. c + o \in Int /\ c + o <= T /\ T - Advance < c + o
    BY <1>1, <1>2, <1>5, <1>7
  <2>3. ASSUME NEW x \in Int, x <= T, T - Advance < x, x % 48 > 10 \/ (x % 48) + Advance < 10
        PROVE  FALSE
    BY <1>1, <1>2, <2>3
  <2> QED
    BY <2>1, <2>2, <2>3
<1>8. /\ Clock!Wall(A) \in Int /\ Clock!Wall(A - 1) \in Int
      /\ Summer(A) => Clock!Wall(A) = A + s
      /\ ~Summer(A) => Clock!Wall(A) = A + o
      /\ Clock!Wall(A - 1) = A - 1 + s \/ Clock!Wall(A - 1) = A - 1 + o
  BY <1>4, <1>5
<1>9. /\ Clock!Wall(B) \in Int /\ Clock!Wall(B - 1) \in Int
      /\ Summer(B) => Clock!Wall(B) = B + s
      /\ ~Summer(B) => Clock!Wall(B) = B + o
      /\ Clock!Wall(B - 1) = B - 1 + s \/ Clock!Wall(B - 1) = B - 1 + o
      /\ ~Summer(B - 1) => Clock!Wall(B - 1) = B - 1 + o
  BY <1>4, <1>5
<1>10. CASE Summer(A) /\ Clock!Wall(B) = B + s
  <2>1. corrected(A) = A /\ corrected(B) = A
    BY <1>1, <1>2, <1>5, <1>8, <1>10
  <2>2. r = A
    <3> HIDE DEF corrected
    <3> QED
      BY <1>2, <1>5, <1>6, <2>1
  <2>3. Clock!Wall(A) = T /\ Clock!Wall(A - 1) < T /\ T - 11 <= Clock!Wall(A - 1)
    BY <1>1, <1>2, <1>5, <1>8, <1>10
  <2>4. ASSUME NEW t \in Int, Clock!Wall(t) < T PROVE t < A
    <3>1. CASE Summer(t)
      BY <1>1, <1>2, <1>4, <1>5, <2>4, <3>1
    <3>2. CASE ~Summer(t) /\ A <= t
      <4>1. Clock!Wall(t) = t + o /\ t < B
        BY <1>1, <1>2, <1>4, <1>5, <2>4, <3>2
      <4>2. ~Summer(B) /\ Clock!Wall(B) = B + o
        BY <1>1, <1>5, <1>9, <1>10, <3>2, <4>1
      <4> QED
        BY <1>1, <1>5, <1>10, <3>2, <4>1, <4>2
    <3> QED
      BY <1>5, <3>1, <3>2
  <2> QED
    BY <1>3, <1>5, <2>2, <2>3, <2>4 DEF T
<1>11. CASE Clock!Wall(B) = T /\ Clock!Wall(A) = A + o
  <2>1. corrected(B) = B /\ corrected(A) = B
    BY <1>1, <1>2, <1>5, <1>8, <1>9, <1>11
  <2>2. r = B
    <3> HIDE DEF corrected
    <3> QED
      BY <1>2, <1>5, <1>6, <2>1
  <2>3. Clock!Wall(B - 1) = B - 1 + o
    <3>1. CASE Advance # 0 /\ Summer(B - 1)
      <4>1. ~Summer(B)
        BY <1>1, <1>2, <1>5, <1>9, <1>11, <3>1
      <4>2. calZone.to = B
        BY <1>1, <1>5, <3>1, <4>1
      <4> QED
        BY <1>1, <1>5, <1>7, <3>1, <4>2
    <3> QED
      BY <1>1, <1>5, <1>9, <3>1
  <2>4. ASSUME NEW t \in Int, Clock!Wall(t) < T PROVE t < B
    BY <1>1, <1>2, <1>4, <1>5, <2>4
  <2> QED
    BY <1>1, <1>2, <1>3, <1>5, <1>11, <2>2, <2>3, <2>4 DEF T
<1>12. \/ Summer(A) /\ Clock!Wall(B) = B + s
       \/ Clock!Wall(B) = T /\ Clock!Wall(A) = A + o
  <2>1. CASE Advance = 0
    BY <1>1, <1>2, <1>5, <1>8, <1>9, <2>1
  <2>2. CASE Advance # 0
    <3>1. Summer(A) <=> Summer(B)
      BY <1>1, <1>5, <1>7, <2>2
    <3> QED
      BY <1>1, <1>2, <1>5, <1>8, <1>9, <3>1
  <2> QED
    BY <1>1, <2>1, <2>2
<1> QED
  BY <1>10, <1>11, <1>12

(* So the next day's key begins at the reset.                                *)
LEMMA ResetChangesTheKey ==
    ASSUME ClockInv, NEW D \in Int
    PROVE  LET reset == Clock!NextLocalResetUtc(D)
           IN  /\ reset \in Int
               /\ Clock!ComputeLocalDayKey(reset) = D + 1
               /\ Clock!ComputeLocalDayKey(reset - 1) = D
               /\ \A t \in Int : Clock!ComputeLocalDayKey(t) <= D => t < reset
<1> DEFINE reset == Clock!NextLocalResetUtc(D)
<1>1. /\ reset \in Int /\ Clock!Wall(reset) = FiveOfNext(D)
      /\ Clock!Wall(reset - 1) < FiveOfNext(D) /\ FiveOfNext(D) - 11 <= Clock!Wall(reset - 1)
      /\ \A t \in Int : Clock!Wall(t) < FiveOfNext(D) => t < reset
  BY ResetIs
<1> HIDE DEF reset
<1>2. Clock!ComputeLocalDayKey(reset) = D + 1
  BY <1>1, KeyIs DEF FiveOfNext
<1>3. Clock!ComputeLocalDayKey(reset - 1) = D
  BY <1>1, KeyIs, WallFacts DEF FiveOfNext
<1>4. ASSUME NEW t \in Int, Clock!ComputeLocalDayKey(t) <= D PROVE t < reset
  <2>1. Clock!Wall(t) \in Int
    BY WallFacts
  <2>2. Clock!Wall(t) < FiveOfNext(D)
    BY <1>4, <2>1, KeyFacts DEF FiveOfNext
  <2> QED
    BY <1>1, <2>2
<1> USE DEF reset
<1> QED
  BY <1>1, <1>2, <1>3, <1>4

(* Mondays: seven days apart, and the one before a day is at most six back.  *)
LEMMA MondayFacts ==
    ASSUME NEW d \in Int
    PROVE  LET M == Clock!MondayOf(d)
           IN  /\ M \in Int /\ (M + 3) % 7 = 0 /\ M <= d /\ d < M + 7
               /\ Clock!IsoDow(M) = 1
               /\ d + 4 - Clock!IsoDow(d) = M + 3
  BY DEF Clock!MondayOf, Clock!IsoDow

(* The Monday of a day is the only one at most six days back.                *)
LEMMA MondayIs ==
    ASSUME NEW d \in Int, NEW M \in Int, (M + 3) % 7 = 0, M <= d, d < M + 7
    PROVE  Clock!MondayOf(d) = M
  BY DEF Clock!MondayOf, Clock!IsoDow

(* A day's votes and a day's assignments end at one instant.                 *)
LEMMA DaysAreSeamless == ClockInv => Clock!DaysEndAtTheirReset
<1> SUFFICES ASSUME ClockInv PROVE Clock!DaysEndAtTheirReset
  OBVIOUS
<1> DEFINE day == Clock!ComputeLocalDayKey(calNow)
<1>1. day \in Int /\ calNow \in Int
  BY KeyFacts DEF ClockInv
<1> HIDE DEF day
<1>2. LET reset == Clock!NextLocalResetUtc(day)
      IN  /\ Clock!ComputeLocalDayKey(reset) = day + 1
          /\ Clock!ComputeLocalDayKey(reset - 1) = day
          /\ \A t \in Int : Clock!ComputeLocalDayKey(t) <= day => t < reset
  BY <1>1, ResetChangesTheKey
<1>3. calNow < Clock!NextLocalResetUtc(day)
  BY <1>1, <1>2 DEF day
<1> QED
  BY <1>2, <1>3 DEF Clock!DaysEndAtTheirReset, day

(* And so do a week's.                                                       *)
LEMMA WeeksAreSeamless == ClockInv => Clock!WeeksEndAtTheirReset
<1> SUFFICES ASSUME ClockInv PROVE Clock!WeeksEndAtTheirReset
  OBVIOUS
<1> DEFINE day == Clock!ComputeLocalDayKey(calNow)
           M == Clock!MondayOf(day)
           reset == Clock!NextLocalResetUtc(M + 7 - 1)
<1>1. day \in Int /\ calNow \in Int
  BY KeyFacts DEF ClockInv
<1>2. M \in Int /\ (M + 3) % 7 = 0 /\ M <= day /\ day < M + 7 /\ Clock!IsoDow(M) = 1
  BY <1>1, MondayFacts
<1>3. /\ Clock!ComputeLocalDayKey(reset) = M + 7
      /\ Clock!ComputeLocalDayKey(reset - 1) = M + 6
      /\ \A t \in Int : Clock!ComputeLocalDayKey(t) <= M + 6 => t < reset
  <2> HIDE DEF M
  <2>1. M + 7 - 1 \in Int /\ M + 7 - 1 = M + 6 /\ (M + 7 - 1) + 1 = M + 7
    BY <1>2
  <2> QED
    BY <2>1, ResetChangesTheKey
<1>4. calNow < reset
  <2>1. Clock!ComputeLocalDayKey(calNow) <= M + 6
    <3> HIDE DEF M
    <3> QED
      BY <1>1, <1>2
  <2> QED
    BY <1>1, <1>3, <2>1
<1>5. Clock!MondayOf(M + 7) = M + 7 /\ Clock!MondayOf(M + 6) = M
  <2> HIDE DEF M
  <2> QED
    BY <1>2, MondayIs
<1>6. reset = Clock!NextLocalMondayResetUtc(day)
  BY DEF Clock!NextLocalMondayResetUtc
<1>7. /\ Clock!MondayOf(Clock!ComputeLocalDayKey(reset)) = M + 7
      /\ Clock!MondayOf(Clock!ComputeLocalDayKey(reset - 1)) = M
  BY <1>3, <1>5
<1> HIDE DEF M, reset
<1> QED
  BY <1>2, <1>4, <1>6, <1>7 DEF Clock!WeeksEndAtTheirReset, M

(* The local day changes at 5 AM, from a time with no window to a morning.   *)
LEMMA WindowsAreSeamless ==
    ASSUME ClockInv, ClockInv', [Clock!Next]_ofCalendar
    PROVE  Clock!DayChangesBetweenWindows
<1> SUFFICES ASSUME calZone.step = 1,
                    Clock!ComputeLocalDayKey(calNow) # Clock!ComputeLocalDayKey(calNow')
             PROVE  /\ Clock!ResolveSessionWindow(calNow) = "none"
                    /\ Clock!ResolveSessionWindow(calNow') = "MORNING"
  BY DEF Clock!DayChangesBetweenWindows
<1>1. calNow \in Int /\ calNow' = calNow + 1 /\ calZone' = calZone
  <2>1. calNow' # calNow
    OBVIOUS
  <2> QED
    BY <2>1 DEF Clock!Next, ofCalendar, ClockInv
<1> DEFINE n == calNow + 1
           w == Clock!Wall(calNow)
           v == Clock!Wall(n)
           D == Clock!ComputeLocalDayKey(calNow)
           E == Clock!ComputeLocalDayKey(n)
<1>2. /\ n \in Int /\ w \in Int /\ v \in Int /\ D \in Int /\ E \in Int
      /\ D * 48 + 10 <= w /\ w < (D + 1) * 48 + 10
      /\ E * 48 + 10 <= v /\ v < (E + 1) * 48 + 10
      /\ D # E
  BY <1>1, WallFacts, KeyFacts DEF FiveOfNext
<1>3. w + 1 = v
  <2>0. /\ (calZone.from <= calNow /\ calNow < calZone.to) => w = calNow + calZone.summer
        /\ ~(calZone.from <= calNow /\ calNow < calZone.to) => w = calNow + calZone.offset
        /\ (calZone.from <= n /\ n < calZone.to) => v = n + calZone.summer
        /\ ~(calZone.from <= n /\ n < calZone.to) => v = n + calZone.offset
        /\ calZone.offset \in Int /\ calZone.summer \in Int
        /\ calZone.summer = calZone.offset + Advance /\ Advance \in 0 .. 10
        /\ calZone.from \in Int /\ calZone.to \in Int
    <3>1. /\ (calZone.from <= calNow /\ calNow < calZone.to) => w = calNow + calZone.summer
          /\ ~(calZone.from <= calNow /\ calNow < calZone.to) => w = calNow + calZone.offset
      BY <1>1, WallFacts
    <3>2. /\ (calZone.from <= n /\ n < calZone.to) => v = n + calZone.summer
          /\ ~(calZone.from <= n /\ n < calZone.to) => v = n + calZone.offset
      BY <1>2, WallFacts
    <3>3. /\ calZone.offset \in Int /\ calZone.summer \in Int
          /\ calZone.summer = calZone.offset + Advance /\ Advance \in 0 .. 10
          /\ calZone.from \in Int /\ calZone.to \in Int
      BY ZoneFacts DEF Advance
    <3> QED
      BY <3>1, <3>2, <3>3
  <2> HIDE DEF w, v
  <2>1. CASE Advance = 0 \/ ((calZone.from <= calNow /\ calNow < calZone.to)
                               <=> (calZone.from <= n /\ n < calZone.to))
    BY <1>1, <1>2, <2>0, <2>1
  <2>2. CASE /\ Advance # 0
             /\ ~(calZone.from <= calNow /\ calNow < calZone.to)
             /\ calZone.from <= n /\ n < calZone.to
    <3>1. n = calZone.from /\ w = n - 1 + calZone.offset /\ v = n + calZone.offset + Advance
      BY <1>1, <1>2, <2>0, <2>2
    <3>2. LET hour == (n + calZone.offset) % 48 IN hour > 10 \/ hour + Advance < 10
      BY <2>2, <3>1, ChangeIsNotAtFive
    <3> HIDE DEF n, w, v, D, E
    <3>3. ASSUME NEW x \in Int, NEW a \in 0 .. 10, w = x - 1, v = x + a,
                 x % 48 > 10 \/ (x % 48) + a < 10
          PROVE  FALSE
      BY <1>2, <3>3
    <3>4. n + calZone.offset \in Int /\ w = (n + calZone.offset) - 1
      BY <1>2, <3>1, ZoneFacts
    <3> QED
      BY <3>1, <3>2, <3>3, <3>4, ZoneFacts
  <2>3. CASE /\ Advance # 0
             /\ calZone.from <= calNow /\ calNow < calZone.to
             /\ ~(calZone.from <= n /\ n < calZone.to)
    <3>1. n = calZone.to /\ w = n - 1 + calZone.offset + Advance /\ v = n + calZone.offset
      BY <1>1, <1>2, <2>0, <2>3
    <3>2. LET hour == (n + calZone.offset) % 48 IN hour > 10 \/ hour + Advance < 10
      BY <2>3, <3>1, ChangeIsNotAtFive
    <3> HIDE DEF n, w, v, D, E
    <3>3. ASSUME NEW x \in Int, NEW a \in 1 .. 10, w = (x - 1) + a, v = x,
                 x % 48 > 10 \/ (x % 48) + a < 10
          PROVE  FALSE
      BY <1>2, <3>3
    <3>4. n + calZone.offset \in Int /\ w = ((n + calZone.offset) - 1) + Advance
      BY <1>2, <3>1, ZoneFacts
    <3> QED
      BY <2>3, <3>1, <3>2, <3>3, <3>4, ZoneFacts
  <2> HIDE DEF n
  <2> QED
    BY <2>1, <2>2, <2>3
<1>4. (w % 48) \div 2 = 4 /\ (v % 48) \div 2 = 5
  <2> HIDE DEF n, w, v, D, E
  <2> QED
    BY <1>2, <1>3
<1>5. Clock!ResolveSessionWindow(calNow) = "none"
  BY <1>4 DEF Clock!ResolveSessionWindow, Clock!HourOf
<1>6. Clock!ResolveSessionWindow(n) = "MORNING"
  BY <1>4 DEF Clock!ResolveSessionWindow, Clock!HourOf
<1>7. Clock!ResolveSessionWindow(calNow') = "MORNING"
  BY <1>1, <1>6
<1> QED
  BY <1>5, <1>7

(* A day after 1970 lies in one of the years between its bounds.             *)
LEMMA YearFacts ==
    ASSUME NEW d \in Nat
    PROVE  LET y == Clock!YearOf(d)
           IN  y \in Int /\ Clock!YearStart(y) <= d /\ d < Clock!YearStart(y + 1)
<1> DEFINE S == {k \in Nat : d < Clock!YearStart(1971 + k)}
<1>1. ASSUME NEW k \in Nat
      PROVE  /\ Clock!YearStart(1970 + k) \in Int
             /\ 365 * k <= Clock!YearStart(1970 + k) /\ Clock!YearStart(1970 + k) <= 366 * k
  BY DEF Clock!YearStart, Clock!Leaps
<1>2. ASSUME NEW k \in Nat
      PROVE  /\ Clock!YearStart(1971 + k) \in Int
             /\ 365 * (k + 1) <= Clock!YearStart(1971 + k)
             /\ Clock!YearStart(1971 + k) <= 366 * (k + 1)
  BY DEF Clock!YearStart, Clock!Leaps
<1>3. d \in S
  BY <1>2
<1>4. PICK k \in S : \A m \in S : k <= m
  <2>1. S \subseteq Nat /\ S # {}
    BY <1>3
  <2> HIDE DEF S
  <2> QED
    BY <2>1, LeastNatural
<1>5. k \in Nat /\ d < Clock!YearStart(1971 + k)
  BY <1>4
<1>6. Clock!YearStart(1970 + k) <= d
  <2>1. CASE k = 0
    BY <1>1, <2>1
  <2>2. CASE k # 0
    <3>1. k - 1 \in Nat /\ k - 1 \notin S /\ 1971 + (k - 1) = 1970 + k
      BY <1>4, <1>5, <2>2
    <3>2. ~(d < Clock!YearStart(1970 + k))
      BY <3>1
    <3> QED
      BY <1>1, <1>5, <3>2
  <2> QED
    BY <2>1, <2>2
<1> DEFINE y == 1970 + k
<1>7. y \in 1970 + d \div 366 .. 1970 + d \div 365
  BY <1>1, <1>2, <1>5, <1>6
<1>8. Clock!YearStart(y) <= d /\ d < Clock!YearStart(y + 1)
  <2>1. y + 1 = 1971 + k
    BY <1>5
  <2> QED
    BY <1>5, <1>6, <2>1
<1> HIDE DEF y
<1>9. \E x \in 1970 + d \div 366 .. 1970 + d \div 365 :
          Clock!YearStart(x) <= d /\ d < Clock!YearStart(x + 1)
  BY <1>7, <1>8
<1>10. /\ Clock!YearOf(d) \in 1970 + d \div 366 .. 1970 + d \div 365
       /\ Clock!YearStart(Clock!YearOf(d)) <= d /\ d < Clock!YearStart(Clock!YearOf(d) + 1)
  BY <1>9 DEF Clock!YearOf
<1> QED
  BY <1>10

(* The year's first Thursday is in the week of January 4th.                  *)
LEMMA Week1Facts ==
    ASSUME NEW y \in Int
    PROVE  LET W == Clock!Week1Monday(y)
           IN  /\ W \in Int /\ (W + 3) % 7 = 0
               /\ Clock!YearStart(y) \in Int
               /\ Clock!YearStart(y) - 3 <= W /\ W <= Clock!YearStart(y) + 3
               /\ Clock!YearStart(y + 1) - Clock!YearStart(y) \in 365 .. 366
<1> DEFINE j == Clock!YearStart(y) + 3
<1>1. Clock!YearStart(y) \in Int /\ Clock!YearStart(y + 1) - Clock!YearStart(y) \in 365 .. 366
  BY DEF Clock!YearStart, Clock!Leaps
<1>2. Clock!Week1Monday(y) = Clock!MondayOf(j)
  BY DEF Clock!Week1Monday, Clock!MondayOf
<1>3. j \in Int
  BY <1>1
<1>4. /\ Clock!MondayOf(j) \in Int /\ (Clock!MondayOf(j) + 3) % 7 = 0
      /\ Clock!MondayOf(j) <= j /\ j < Clock!MondayOf(j) + 7
  BY <1>3, MondayFacts
<1> QED
  BY <1>1, <1>2, <1>4

(* The key of a day names the week that begins on the day's Monday; its      *)
(* number counts the Thursdays of the Thursday's year.                       *)
LEMMA WeekKeyFacts ==
    ASSUME NEW d \in Int, d >= -3
    PROVE  LET M == Clock!MondayOf(d)
               key == Clock!IsoWeekParts(d)
           IN  /\ key.year = Clock!YearOf(M + 3) /\ key.week \in 1 .. 53
               /\ key.week = ((M + 3) - Clock!YearStart(key.year)) \div 7 + 1
               /\ Clock!UtcWeekStartFromKey(key) = M * 48
<1> DEFINE M == Clock!MondayOf(d)
           y == Clock!YearOf(M + 3)
           W == Clock!Week1Monday(y)
           Y == Clock!YearStart(y)
           key == Clock!IsoWeekParts(d)
<1>1. /\ M \in Int /\ (M + 3) % 7 = 0 /\ M <= d /\ d < M + 7
      /\ d + 4 - Clock!IsoDow(d) = M + 3
  BY MondayFacts
<1>2. M + 3 \in Nat
  BY <1>1
<1>3. y \in Int /\ Y <= M + 3 /\ M + 3 < Clock!YearStart(y + 1)
  <2> HIDE DEF M
  <2> QED
    BY <1>2, YearFacts
<1>4. /\ W \in Int /\ (W + 3) % 7 = 0 /\ Y \in Int /\ Y - 3 <= W /\ W <= Y + 3
      /\ Clock!YearStart(y + 1) - Y \in 365 .. 366 /\ Clock!YearStart(y + 1) \in Int
  <2>1. Clock!YearStart(y + 1) \in Int
    <3> HIDE DEF y
    <3> QED
      BY <1>3 DEF Clock!YearStart, Clock!Leaps
  <2> HIDE DEF y
  <2> QED
    BY <1>3, <2>1, Week1Facts
<1>5. key.year = y /\ key.week = ((M + 3) - W) \div 7 + 1
  <2> DEFINE thursday == d + 4 - Clock!IsoDow(d)
             keyOf(th) == [year |-> Clock!YearOf(th),
                           week |-> (th - Clock!Week1Monday(Clock!YearOf(th))) \div 7 + 1]
  <2>1. key = keyOf(thursday)
    BY DEF Clock!IsoWeekParts
  <2>2. thursday = M + 3
    BY <1>1
  <2>3. key = keyOf(M + 3)
    <3> HIDE DEF thursday, M, key, keyOf
    <3> QED
      BY <2>1, <2>2
  <2> HIDE DEF M, key
  <2> QED
    BY <2>3
<1>6. Clock!UtcWeekStartFromKey(key) = (W + (key.week - 1) * 7) * 48
  BY <1>5 DEF Clock!UtcWeekStartFromKey
<1> HIDE DEF M, y, W, Y, key
<1>7. ((M + 3) - W) \div 7 = ((M + 3) - Y) \div 7 /\ ((M + 3) - Y) \div 7 \in 0 .. 52
  BY <1>1, <1>3, <1>4
<1>8. W + (((M + 3) - W) \div 7) * 7 = M
  BY <1>1, <1>4
<1>9. key.week = ((M + 3) - Y) \div 7 + 1 /\ key.week \in 1 .. 53
  BY <1>5, <1>7
<1>10. W + (key.week - 1) * 7 = M
  BY <1>1, <1>4, <1>5, <1>8
<1>11. Clock!UtcWeekStartFromKey(key) = M * 48
  BY <1>6, <1>10
<1> QED
  BY <1>5, <1>9, <1>11 DEF M, y, Y, key

(* The keys are those of ISO 8601, and follow one another.                   *)
LEMMA WeekKeysAreSeamless == ClockInv => Clock!WeekKeysAreIso
<1> SUFFICES ASSUME ClockInv PROVE Clock!WeekKeysAreIso
  OBVIOUS
<1> DEFINE d == calNow \div 48
           M == Clock!MondayOf(d)
           key == Clock!UtcWeekKey(calNow)
           before == Clock!IsoWeekParts(M - 7)
<1>1. calNow \in Int /\ d \in Int /\ d >= 7 /\ d * 48 <= calNow /\ calNow < (d + 1) * 48
  BY DEF ClockInv
<1>2. key = Clock!IsoWeekParts(d)
  BY DEF Clock!UtcWeekKey
<1> HIDE DEF d, key
<1>3. M \in Int /\ (M + 3) % 7 = 0 /\ M <= d /\ d < M + 7 /\ M >= 4
  BY <1>1, MondayFacts
<1>4. /\ key.year = Clock!YearOf(M + 3) /\ key.week \in 1 .. 53
      /\ key.week = ((M + 3) - Clock!YearStart(key.year)) \div 7 + 1
      /\ Clock!UtcWeekStartFromKey(key) = M * 48
  BY <1>1, <1>2, WeekKeyFacts
<1> HIDE DEF M
<1>5. Clock!MondayOf(M) = M /\ Clock!MondayOf(M - 7) = M - 7 /\ Clock!IsoDow(M) = 1
  BY <1>3, MondayIs, MondayFacts
<1>6. Clock!IsoWeekParts(M) = key
  <2>1. M + 4 - Clock!IsoDow(M) = d + 4 - Clock!IsoDow(d)
    BY <1>1, <1>3, <1>5, MondayFacts DEF M
  <2> QED
    BY <1>2, <2>1 DEF Clock!IsoWeekParts
<1>7. Clock!UtcWeekStartFromKey(before) = (M - 7) * 48
  <2>1. M - 7 \in Int /\ M - 7 >= -3
    BY <1>1, <1>3
  <2>2. Clock!UtcWeekStartFromKey(before) = Clock!MondayOf(M - 7) * 48
    BY <2>1, WeekKeyFacts
  <2> QED
    BY <1>5, <2>2
<1> HIDE DEF before
<1>8. /\ Clock!UtcWeekBounds(calNow).start = M * 48
      /\ Clock!UtcWeekBounds(calNow).end = M * 48 + 7 * 48
  BY <1>4 DEF Clock!UtcWeekBounds, key
<1>9. (M * 48) \div 48 = M /\ M * 48 <= calNow /\ calNow < M * 48 + 7 * 48
  BY <1>1, <1>3
<1>10. Clock!PreviousUtcWeekKey(key) = before
  <2>1. (M * 48 - 7 * 48) \div 48 = M - 7
    BY <1>3
  <2> QED
    BY <1>4, <2>1 DEF Clock!PreviousUtcWeekKey, Clock!UtcWeekKey, before
<1>11. Clock!NextUtcWeekKey(before) = key
  <2>1. ((M - 7) * 48 + 7 * 48) \div 48 = M
    BY <1>3
  <2> QED
    BY <1>6, <1>7, <2>1 DEF Clock!NextUtcWeekKey, Clock!UtcWeekKey
<1>12. before # key
  BY <1>3, <1>4, <1>7
<1> DEFINE start == Clock!UtcWeekBounds(calNow).start
<1>13. /\ start \div 48 = M /\ start <= calNow
       /\ calNow < Clock!UtcWeekBounds(calNow).end
  BY <1>8, <1>9
<1> HIDE DEF start
<1>14. /\ key.year = Clock!YearOf(start \div 48 + 3)
       /\ key.week = ((start \div 48 + 3) - Clock!YearStart(key.year)) \div 7 + 1
  BY <1>4, <1>13, Zenon
<1>15. Clock!IsoDow(start \div 48) = 1
  BY <1>5, <1>13, Zenon
<1>16. /\ Clock!NextUtcWeekKey(Clock!PreviousUtcWeekKey(key)) = key
       /\ Clock!PreviousUtcWeekKey(key) # key
  BY <1>10, <1>11, <1>12, Zenon
<1> QED
  BY <1>4, <1>13, <1>14, <1>15, <1>16 DEF Clock!WeekKeysAreIso, start, key

(* The instants of the run stay after the first week.                        *)
LEMMA ClockInvInit == Clock!Init => ClockInv
  BY ZonesAssumption DEF Clock!Init, ClockInv

(* No step takes them back.                                                  *)
LEMMA ClockInvStep == ClockInv /\ [Clock!Next]_ofCalendar => ClockInv'
<1> SUFFICES ASSUME ClockInv, [Clock!Next]_ofCalendar PROVE ClockInv'
  OBVIOUS
<1>1. CASE Clock!Next
  <2>1. calZone.step \in Nat
    BY ZoneFacts
  <2> QED
    BY <1>1, <2>1 DEF Clock!Next, ClockInv
<1>2. CASE UNCHANGED ofCalendar
  BY <1>2 DEF ofCalendar, ClockInv
<1> QED
  BY <1>1, <1>2

-----------------------------------------------------------------------------
(* A behaviour starts with one part.                                         *)
LEMMA PartsStart ==
    Init => /\ part = "sessions" => Session!Init
            /\ part = "challenges" => Assigned!Init
            /\ part = "calendar" => Clock!Init
            /\ part = "recheck" => Recheck!Init
            /\ part = "linker" => Linker!Init
<1>1. Init => (part = "sessions" => Session!Init) /\ (part = "challenges" => Assigned!Init)
  BY Zenon DEF Init
<1>2. Init => (part = "calendar" => Clock!Init) /\ (part = "recheck" => Recheck!Init)
  BY Zenon DEF Init
<1>3. Init => (part = "linker" => Linker!Init)
  BY Zenon DEF Init
<1> QED
  BY <1>1, <1>2, <1>3

(* A step is one of that part, or leaves its variables alone.                *)
LEMMA PartsStep ==
    [Next]_vars => /\ part' = part
                   /\ part = "sessions" => [Session!Next]_ofSessions
                   /\ part = "challenges" => [Assigned!Next]_ofChallenges
                   /\ part = "calendar" => [Clock!Next]_ofCalendar
                   /\ part = "recheck" => [Recheck!Next]_ofRecheck
                   /\ part = "linker" => [Linker!Next]_ofLinker
<1> SUFFICES ASSUME [Next]_vars
             PROVE  /\ part' = part
                    /\ part = "sessions" => [Session!Next]_ofSessions
                    /\ part = "challenges" => [Assigned!Next]_ofChallenges
                    /\ part = "calendar" => [Clock!Next]_ofCalendar
                    /\ part = "recheck" => [Recheck!Next]_ofRecheck
                    /\ part = "linker" => [Linker!Next]_ofLinker
  OBVIOUS
<1>1. CASE SessionStep
  BY <1>1 DEF SessionStep
<1>2. CASE ChallengeStep
  BY <1>2 DEF ChallengeStep
<1>3. CASE CalendarStep
  BY <1>3 DEF CalendarStep
<1>4. CASE RecheckStep
  BY <1>4 DEF RecheckStep
<1>5. CASE LinkerStep
  BY <1>5 DEF LinkerStep
<1>6. CASE TimeIsUp \/ UNCHANGED vars
  BY <1>6 DEF TimeIsUp, vars
<1> QED
  BY <1>1, <1>2, <1>3, <1>4, <1>5, <1>6, Zenon DEF Next

(* The sessions keep their invariant.                                        *)
LEMMA SessionInvariance == Spec => [](part = "sessions" => SessionInv)
<1> DEFINE I == part = "sessions" => SessionInv
<1>1. Init => I
  BY PartsStart, SessionInvInit
<1>2. I /\ [Next]_vars => I'
  BY PartsStep, SessionInvStep
<1> QED
  BY <1>1, <1>2, PTL DEF Spec

(* A session is complete when and only when its whole target was voted, each *)
(* brick once, however often a worker that died processes a vote again (the  *)
(* window a guest conversion wrote into excepted from "when"); and when the  *)
(* worker has caught up, a user's stance on a brick is the last vote's.      *)
THEOREM SessionsSound == Spec => []SessionsFollowVotes
<1>1. (part = "sessions" => SessionInv) => SessionsFollowVotes
  BY SessionsMean DEF SessionsFollowVotes
<1> QED
  BY <1>1, SessionInvariance, PTL

(* A completion records the length of the run of days it extends, and the    *)
(* streak row is that of the last one and of the longest run.                *)
THEOREM StreaksSound == Spec => []StreaksAreRuns
<1>1. (part = "sessions" => SessionInv) => StreaksAreRuns
  BY StreaksMean DEF StreaksAreRuns
<1> QED
  BY <1>1, SessionInvariance, PTL

(* A challenge is completed when and only when the votes cast between its    *)
(* assignment and its expiry complete it, the bonus is there exactly when    *)
(* enough dailies are, and the slate has five rows unless assigners          *)
(* overlapped or one died: of any requests, at any moment of the day.        *)
THEOREM ChallengesSound == Spec => []ChallengesFollowVotes
<1> DEFINE I == part = "challenges" => ChallengeInv
<1>1. Init => I
  BY PartsStart, ChallengeInvInit
<1>2. I /\ [Next]_vars => I'
  BY PartsStep, ChallengeInvStep
<1>3. I => ChallengesFollowVotes
  BY ChallengesMean DEF ChallengesFollowVotes
<1> QED
  BY <1>1, <1>2, <1>3, PTL DEF Spec

(* The rechecks keep their invariant.                                        *)
LEMMA RecheckInvariance == Spec => [](part = "recheck" => RecheckInv /\ CreditInv)
<1> DEFINE I == part = "recheck" => RecheckInv /\ CreditInv
<1>1. Init => I
  BY PartsStart, RecheckInvInit
<1>2. I /\ [Next]_vars => I'
  BY PartsStep, RecheckInvStep, CreditInvStep
<1> QED
  BY <1>1, <1>2, PTL DEF Spec

(* A freeze ends within its longest duration and one recheck; and unless an  *)
(* event overtook the worker's page, a brick that needs a recheck has a      *)
(* whole window, which runs out and is not started over.                     *)
THEOREM RechecksSound == Spec => RechecksRunOut
<1> DEFINE I == part = "recheck" => RecheckInv /\ CreditInv
           C == part = "recheck" => Recheck!FreezesEnd /\ Recheck!WindowIsComplete
           A == part = "recheck" => Recheck!WindowRunsOut
<1>1. I => C
  BY RecheckInvMeans
<1>2. I /\ [Next]_vars => [A]_ofRecheck
  BY PartsStep, RecheckInvStep
<1>3. Spec => []I
  BY RecheckInvariance
<1>4. Spec => [][Next]_vars
  BY PTL DEF Spec
<1>5. []I /\ [][Next]_vars => []C /\ [][A]_ofRecheck
  <2> HIDE DEF I, C, A
  <2> QED
    BY <1>1, <1>2, PTL
<1> QED
  BY <1>3, <1>4, <1>5, PTL DEF RechecksRunOut

(* At one price, in one cycle and window, a user gets at most one vote       *)
(* beyond the credits of a newcomer, for any number of these.                *)
THEOREM CreditsSound == Spec => []CreditsAreScarce
<1>1. (part = "recheck" => RecheckInv /\ CreditInv) => CreditsAreScarce
  BY RecheckInvMeans DEF CreditsAreScarce
<1> QED
  BY <1>1, RecheckInvariance, PTL

(* A run of the linker leaves a row it could link only behind a full batch   *)
(* of rows it could not, whatever the batch and whichever rows arrive.       *)
THEOREM LinkerSound == Spec => []OnlyFullBatchesHide
<1> DEFINE I == part = "linker" => LinkerInv
<1>1. Init => I
  BY PartsStart, LinkerInvInit
<1>2. I /\ [Next]_vars => I'
  BY PartsStep, LinkerInvStep
<1>3. I => OnlyFullBatchesHide
  BY DEF OnlyFullBatchesHide, LinkerInv
<1> QED
  BY <1>1, <1>2, <1>3, PTL DEF Spec

(* A day's and a week's reset instants are where the next key begins, in     *)
(* every zone whose clocks are not advanced over 5 AM; ISO week keys name    *)
(* the week of their Thursday, in every year; and the local day changes only *)
(* between two session windows.                                              *)
THEOREM CalendarSound == Spec => CalendarIsSeamless
<1> DEFINE I == part = "calendar" => ClockInv
           C == part = "calendar" => Clock!ResetsAndKeysAgree
           A == part = "calendar" => Clock!DayChangesBetweenWindows
<1>1. Init => I
  BY PartsStart, ClockInvInit
<1>2. I /\ [Next]_vars => I'
  BY PartsStep, ClockInvStep
<1>3. I => C
  BY DaysAreSeamless, WeeksAreSeamless, WeekKeysAreSeamless DEF Clock!ResetsAndKeysAgree
<1>4. I /\ [Next]_vars => [A]_ofCalendar
  BY PartsStep, ClockInvStep, WindowsAreSeamless
<1>5. Init /\ [][Next]_vars => []C /\ [][A]_ofCalendar
  <2> HIDE DEF I, C, A
  <2> QED
    BY <1>1, <1>2, <1>3, <1>4, PTL
<1> QED
  BY <1>5, PTL DEF Spec, CalendarIsSeamless

(* Every part keeps the types of its variables.                              *)
THEOREM TypeCorrect == Spec => []TypeOK
<1> DEFINE I == /\ part \in Parts
                /\ part = "sessions" => SessionInv
                /\ part = "challenges" => ChallengeInv
                /\ part = "calendar" => Clock!TypeOK
                /\ part = "recheck" => RecheckInv /\ CreditInv
                /\ part = "linker" => LinkerInv
<1>1. Init => I
  <2> SUFFICES ASSUME Init PROVE I
    OBVIOUS
  <2>1. part \in Parts
    BY DEF Init
  <2>2. part = "sessions" => SessionInv
    BY PartsStart, SessionInvInit
  <2>3. part = "challenges" => ChallengeInv
    BY PartsStart, ChallengeInvInit
  <2>4. part = "calendar" => Clock!TypeOK
    BY PartsStart, ZonesAssumption DEF Clock!Init, Clock!TypeOK
  <2>5. part = "recheck" => RecheckInv /\ CreditInv
    BY PartsStart, RecheckInvInit
  <2>6. part = "linker" => LinkerInv
    BY PartsStart, LinkerInvInit
  <2> QED
    BY <2>1, <2>2, <2>3, <2>4, <2>5, <2>6
<1>2. I /\ [Next]_vars => I'
  <2> SUFFICES ASSUME I, [Next]_vars PROVE I'
    OBVIOUS
  <2>1. part' = part
    BY PartsStep
  <2>2. part = "sessions" => SessionInv'
    BY PartsStep, SessionInvStep
  <2>3. part = "challenges" => ChallengeInv'
    BY PartsStep, ChallengeInvStep
  <2>4. part = "calendar" => Clock!TypeOK'
    BY PartsStep, ZonesAssumption DEF ofCalendar, Clock!Next, Clock!TypeOK
  <2>5. part = "recheck" => (RecheckInv /\ CreditInv)'
    BY PartsStep, RecheckInvStep, CreditInvStep
  <2>6. part = "linker" => LinkerInv'
    BY PartsStep, LinkerInvStep
  <2> QED
    BY <2>1, <2>2, <2>3, <2>4, <2>5, <2>6
<1>3. I => TypeOK
  <2> SUFFICES ASSUME I PROVE TypeOK
    OBVIOUS
  <2>1. part \in {"sessions", "challenges", "calendar", "recheck", "linker"}
    BY PartsAssumption
  <2>2. /\ part = "sessions" => Session!TypeOK
        /\ part = "challenges" => Assigned!TypeOK
        /\ part = "calendar" => Clock!TypeOK
        /\ part = "recheck" => Recheck!TypeOK
        /\ part = "linker" => Linker!TypeOK
    BY ChallengesHaveType, RecheckInvMeans, LinkerTyped, Zenon DEF SessionInv
  <2> QED
    BY <2>1, <2>2 DEF TypeOK
<1> HIDE DEF I
<1> QED
  BY <1>1, <1>2, <1>3, PTL DEF Spec
=============================================================================
