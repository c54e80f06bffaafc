------------------------ MODULE BountyReview_proofs ------------------------
(***************************************************************************)
(* Proofs about BountyReview for every set of users, submissions, bounties *)
(* and sessions.                                                           *)
(*                                                                         *)
(* The invariants that are checked are not inductive.  What makes them so  *)
(* is, for each of them, what a transaction has read and why it still      *)
(* holds when it writes: the user's advisory lock (Unclaimed), the brick's *)
(* row (CountIsFresh), the order of the checks (BudgetSeen), or that       *)
(* nobody else reviews the submission (LoadedIsFresh).                     *)
(***************************************************************************)
EXTENDS BountyReview, SharedLemmas, SequenceTheorems

MyLock(s) == UserLock(tx[s].kind, author[tx[s].sub])
Writing(s) == tx[s].step \in {"writing", "counted"}
Rewards(s) == Writing(s) /\ tx[s].kind \in Rewarding /\ tx[s].seen = "PENDING"

(* What a transaction's local variables hold at each step, and that it holds *)
(* its user's lock once it decides.                                          *)
TxShape ==
    \A s \in Sessions :
        /\ tx[s].step = "idle" => tx[s] = IdleTx
        /\ tx[s].step # "idle" => tx[s].sub \in Subs /\ tx[s].kind \in Kinds
        /\ tx[s].step = "opened" =>
               \/ tx[s].held = {} /\ tx[s].todo = <<MyLock(s)>>
               \/ tx[s].held = {MyLock(s)} /\ tx[s].todo = <<>>
        /\ tx[s].step = "opened" /\ tx[s].kind \in Reviews => tx[s].seen \in SubStatus
        /\ Writing(s) => MyLock(s) \in tx[s].held
        /\ Writing(s) /\ tx[s].kind \in Rewarding =>
               tx[s].seen = "PENDING" \/ (tx[s].kind = "apply" /\ tx[s].seen = "APPROVED")
        /\ Writing(s) /\ tx[s].kind = "submit" => tx[s].seen \in {"PENDING", "REJECTED"}
        /\ Writing(s) /\ tx[s].kind = "reject" => tx[s].seen = "PENDING"
        /\ Rewards(s) => tx[s].cash \in {0, Reward[tx[s].sub]}
        /\ tx[s].step = "counted" => tx[s].kind = "apply" /\ tx[s].todo = <<>>

(* No lock is held twice.                                                    *)
Exclusive == \A s, t \in Sessions : s # t => tx[s].held \cap tx[t].held = {}

(* A transaction about to pay has not been overtaken by another claim of its *)
(* key: its user's lock is held.                                             *)
Unclaimed == \A s \in Sessions : Rewards(s) => ~Claimed(s)

(* An apply has the brick's row, or has still to wait for it.                *)
BrickRowAsked ==
    \A s \in Sessions : Writing(s) /\ tx[s].kind = "apply" =>
        \/ BrickRow(tx[s].sub) \in tx[s].held
        \/ \E n \in 1 .. Len(tx[s].todo) : tx[s].todo[n] = BrickRow(tx[s].sub)

(* What an apply counted under the brick's row is still so when it closes    *)
(* its bounty, unless somebody wrote a bounty of the brick without that row. *)
CountIsFresh ==
    \A s \in Sessions : tx[s].step = "counted" /\ ~tx[s].overtaken =>
        LET i == InstOf[tx[s].sub]
        IN  /\ tx[s].closes = (inst[i] = "OPEN")
            /\ tx[s].last = (OpenOn(BrickOf[i]) = {i})

(* What was loaded as approved was rewarded, and stays so.                   *)
LoadedIsRewarded ==
    \A s \in Sessions : tx[s].seen = "APPROVED" =>
        /\ \E k \in Rewarding : <<tx[s].sub, k>> \in ledger
        /\ <<"bounty_approved", tx[s].sub>> \in xp

(* As long as the month's rewards are all of one user, a further reward of   *)
(* that user was checked against what was spent.                             *)
BudgetSeen ==
    /\ (\A a, b \in month : author[a[1]] = author[b[1]]) => spent <= Budget
    /\ \A s \in Sessions : Rewards(s) /\ tx[s].cash # 0 =>
        /\ tx[s].cash <= Budget
        /\ (\A a \in month : author[a[1]] = author[tx[s].sub]) => spent + tx[s].cash <= Budget

(* A submission is under one review at a time unless it is contested, and    *)
(* nobody reviews it before it is there.                                     *)
OneReview ==
    /\ \A s, t \in Sessions :
           s # t /\ tx[s].sub = tx[t].sub /\ tx[s].sub \in Subs => tx[s].sub \in contested
    /\ \A s \in Sessions :
           /\ tx[s].kind \in Reviews => sub[tx[s].sub] # "NONE"
           /\ tx[s].kind = "submit" => sub[tx[s].sub] = "NONE"
    /\ \A x \in contested : sub[x] # "NONE"

(* The only review of a submission goes by the status the submission has.    *)
LoadedIsFresh ==
    \A s \in Sessions :
        tx[s].kind \in Reviews /\ tx[s].sub \notin contested => tx[s].seen = sub[tx[s].sub]

(* An uncontested submission has no claim before it is approved, and only    *)
(* one then.                                                                 *)
ClaimsSettled ==
    \A x \in Subs \ contested :
        /\ sub[x] \in {"NONE", "PENDING", "REJECTED"} => \A k \in Rewarding : <<x, k>> \notin ledger
        /\ \A k, l \in Rewarding : <<x, k>> \in ledger /\ <<x, l>> \in ledger => k = l

TxTypes == tx \in [Sessions -> Tx]
Shape == TypeOK /\ TxShape /\ Exclusive

-----------------------------------------------------------------------------
(* Locks.                                                                    *)

(* The locks of a review are locks.                                          *)
LEMMA LockTypes ==
    ASSUME NEW u \in Users, NEW x \in Subs, NEW k \in Kinds
    PROVE  /\ UserLock(k, u) \in Locks
           /\ <<"user_balances", u>> \in Locks /\ <<"user_bounty_stats", u>> \in Locks
           /\ SubmissionRow(x) \in Locks /\ BrickRow(x) \in Locks /\ BudgetRow \in Locks
  BY ForeignKeys DEF Locks, UserLock, SubmissionRow, BrickRow, BudgetRow, Kinds, Reviews, Rewarding

(* A sequence of two rows.                                                   *)
LEMMA TwoRows ==
    ASSUME NEW a \in Locks, NEW b \in Locks
    PROVE  /\ <<a>> \in Seq(Locks) /\ <<a, b>> \in Seq(Locks)
           /\ Len(<<a, b>>) = 2 /\ <<a, b>>[1] = a /\ <<a, b>>[2] = b
  OBVIOUS

(* The rows the approval core locks, and the brick's row among those of an   *)
(* apply.                                                                    *)
LEMMA RewardRowsTypes ==
    ASSUME NEW u \in Users, NEW x \in Subs, NEW c
    PROVE  /\ RewardRows(u, c) \in Seq(Locks)
           /\ Append(RewardRows(u, c), SubmissionRow(x)) \in Seq(Locks)
           /\ RewardRows(u, c) \o <<BrickRow(x), SubmissionRow(x)>> \in Seq(Locks)
           /\ \E n \in 1 .. Len(RewardRows(u, c) \o <<BrickRow(x), SubmissionRow(x)>>) :
                  (RewardRows(u, c) \o <<BrickRow(x), SubmissionRow(x)>>)[n] = BrickRow(x)
<1> DEFINE first == <<<<"user_balances", u>>>>
           budget == IF c # 0 THEN <<BudgetRow>> ELSE <<>>
           stat == <<<<"user_bounty_stats", u>>>>
           rest == <<BrickRow(x), SubmissionRow(x)>>
<1>1. "submit" \in Kinds
  BY DEF Kinds
<1>2. /\ first \in Seq(Locks) /\ budget \in Seq(Locks) /\ stat \in Seq(Locks)
      /\ rest \in Seq(Locks) /\ Len(rest) = 2 /\ rest[1] = BrickRow(x)
  BY <1>1, LockTypes, TwoRows
<1>3. RewardRows(u, c) = first \o budget \o stat
  BY DEF RewardRows
<1> HIDE DEF first, budget, stat, rest
<1>4. first \o budget \in Seq(Locks)
  BY <1>2, ConcatProperties
<1>5. RewardRows(u, c) \in Seq(Locks)
  BY <1>2, <1>3, <1>4, ConcatProperties
<1>6. SubmissionRow(x) \in Locks
  BY <1>1, LockTypes
<1>7. Append(RewardRows(u, c), SubmissionRow(x)) \in Seq(Locks)
  BY <1>5, <1>6, AppendProperties
<1> DEFINE rows == RewardRows(u, c)
<1> HIDE DEF rows
<1>8. rows \in Seq(Locks) /\ Len(rows) \in Nat
  BY <1>5, LenProperties DEF rows
<1>9. /\ rows \o rest \in Seq(Locks)
      /\ Len(rows \o rest) = Len(rows) + Len(rest)
      /\ \A n \in 1 .. Len(rows) + Len(rest) :
            (rows \o rest)[n] = IF n <= Len(rows) THEN rows[n] ELSE rest[n - Len(rows)]
  <2>1. rows \in Seq(Locks) /\ rest \in Seq(Locks)
    BY <1>2, <1>8
  <2> QED
    BY ONLY <2>1, ConcatProperties
<1>10. /\ Len(rows) + 1 \in 1 .. Len(rows \o rest)
       /\ (rows \o rest)[Len(rows) + 1] = rest[1]
  <2>1. Len(rows) + 1 \in 1 .. Len(rows) + Len(rest) /\ ~(Len(rows) + 1 <= Len(rows))
        /\ Len(rows) + 1 - Len(rows) = 1
    BY <1>2, <1>8
  <2> QED
    BY <1>9, <2>1
<1> QED
  BY <1>2, <1>5, <1>7, <1>9, <1>10 DEF rows, rest

-----------------------------------------------------------------------------
(* Types, the shape of a transaction and mutual exclusion.                   *)

(* The shape holds at first.                                                 *)
LEMMA ShapeInit == Init => Shape
<1> SUFFICES ASSUME Init PROVE Shape
  OBVIOUS
<1>1. <<>> \in Seq(Locks)
  OBVIOUS
<1>2. IdleTx \in Tx
  BY <1>1 DEF IdleTx, Tx
<1>3. TypeOK
  BY <1>2 DEF Init, TypeOK, InstStatus
<1>4. TxShape
  BY NoSubAssumption DEF Init, TxShape, IdleTx, Writing, Rewards
<1>5. Exclusive
  BY DEF Init, Exclusive, IdleTx
<1> QED
  BY <1>3, <1>4, <1>5 DEF Shape

(* The end of a transaction.                                                 *)
LEMMA ShapeEnd ==
    ASSUME Shape, NEW s \in Sessions, EndTx(s), author' = author
    PROVE  TxTypes' /\ TxShape' /\ Exclusive'
<1>1. tx \in [Sessions -> Tx] /\ tx' = [tx EXCEPT ![s] = IdleTx]
  BY DEF Shape, TypeOK, EndTx
<1>2. IdleTx \in Tx
  BY DEF IdleTx, Tx
<1>3. TxTypes'
  BY <1>1, <1>2 DEF TxTypes
<1>4. TxShape'
  BY <1>1 DEF Shape, TxShape, IdleTx, MyLock, Writing, Rewards
<1>5. Exclusive'
  BY <1>1 DEF Shape, Exclusive, IdleTx
<1> QED
  BY <1>3, <1>4, <1>5

(* A transaction has its user's lock from when it decides.                   *)
LEMMA DecidingHolds ==
    ASSUME Shape, NEW s \in Sessions, Deciding(s)
    PROVE  /\ MyLock(s) \in tx[s].held
           /\ tx[s].sub \in Subs /\ tx[s].kind \in Kinds /\ author[tx[s].sub] \in Users
<1>1. /\ tx[s].held = {MyLock(s)} \/ tx[s].todo = <<MyLock(s)>>
      /\ tx[s].sub \in Subs /\ tx[s].kind \in Kinds
  BY DEF Shape, TxShape, Deciding
<1>2. tx[s].todo = <<>> /\ author \in [Subs -> Users]
  BY DEF Shape, TypeOK, Deciding
<1>3. <<MyLock(s)>> # <<>>
  OBVIOUS
<1> QED
  BY <1>1, <1>2, <1>3

(* The beginning of a transaction.                                           *)
LEMMA ShapeBegin ==
    ASSUME Shape, NEW s \in Sessions, NEW k \in Kinds, NEW x \in Subs,
           NEW st \in SubStatus \cup {"NONE"}, k \in Reviews => st \in SubStatus,
           Begin(s, k, x, st), author' = author
    PROVE  TxTypes' /\ TxShape' /\ Exclusive'
<1> DEFINE new == [IdleTx EXCEPT !.kind = k, !.step = "opened", !.sub = x, !.seen = st,
                                 !.todo = <<UserLock(k, author[x])>>]
<1>1. tx \in [Sessions -> Tx] /\ tx' = [tx EXCEPT ![s] = new]
  BY DEF Shape, TypeOK, Begin
<1>2. author[x] \in Users
  BY DEF Shape, TypeOK
<1>3. <<UserLock(k, author[x])>> \in Seq(Locks)
  BY <1>2, LockTypes, TwoRows
<1>4. /\ new.kind = k /\ new.step = "opened" /\ new.sub = x /\ new.seen = st
      /\ new.todo = <<UserLock(k, author[x])>> /\ new.held = {} /\ new.cash = 0
      /\ new.last = FALSE
  BY DEF IdleTx
<1>5. new \in Tx
  BY <1>3 DEF IdleTx, Tx
<1> HIDE DEF new
<1>6. TxTypes'
  BY <1>1, <1>5 DEF TxTypes
<1>7. TxShape'
  BY <1>1, <1>4 DEF Shape, TxShape, MyLock, Writing, Rewards
<1>8. Exclusive'
  BY <1>1, <1>4 DEF Shape, Exclusive
<1> QED
  BY <1>6, <1>7, <1>8

(* The step from the decision to the writes.                                 *)
LEMMA ShapeProceed ==
    ASSUME Shape, NEW s \in Sessions, Deciding(s), author' = author,
           NEW st \in SubStatus, NEW c \in Nat, NEW locks \in Seq(Locks),
           Proceed(s, st, c, locks),
           tx[s].kind \in Rewarding =>
               \/ st = "PENDING" /\ c \in {0, Reward[tx[s].sub]}
               \/ st = "APPROVED" /\ tx[s].kind = "apply",
           tx[s].kind = "submit" => st \in {"PENDING", "REJECTED"},
           tx[s].kind = "reject" => st = "PENDING"
    PROVE  TxTypes' /\ TxShape' /\ Exclusive'
<1> DEFINE old == tx[s]
           new == [old EXCEPT !.step = "writing", !.seen = st, !.cash = c, !.todo = locks]
<1>1. tx \in [Sessions -> Tx] /\ tx' = [tx EXCEPT ![s] = new]
  BY DEF Shape, TypeOK, Proceed, Tx
<1>2. /\ old \in Tx /\ MyLock(s) \in old.held /\ old.sub \in Subs /\ old.kind \in Kinds
  BY DecidingHolds, <1>1
<1>3. /\ new.kind = old.kind /\ new.step = "writing" /\ new.sub = old.sub /\ new.seen = st
      /\ new.todo = locks /\ new.held = old.held /\ new.cash = c
  BY <1>2 DEF Tx
<1>4. new \in Tx
  BY <1>2 DEF Tx
<1>5. MyLock(s) = UserLock(old.kind, author[old.sub])
  BY DEF MyLock
<1>6. /\ old.kind \in Rewarding => \/ st = "PENDING" /\ c \in {0, Reward[old.sub]}
                                   \/ st = "APPROVED" /\ old.kind = "apply"
      /\ old.kind = "submit" => st \in {"PENDING", "REJECTED"}
      /\ old.kind = "reject" => st = "PENDING"
  OBVIOUS
<1>7. \A t \in Sessions \ {s} : old.held \cap tx[t].held = {}
  BY DEF Shape, Exclusive
<1> HIDE DEF new, old
<1>8. TxTypes'
  BY <1>1, <1>4 DEF TxTypes
<1>9. TxShape'
  BY <1>1, <1>2, <1>3, <1>5, <1>6 DEF Shape, TxShape, MyLock, Writing, Rewards
<1>10. Exclusive'
  BY <1>1, <1>3, <1>7 DEF Shape, Exclusive
<1> QED
  BY <1>8, <1>9, <1>10

(* A lock that is granted.                                                   *)
LEMMA ShapeTakeLock ==
    ASSUME Shape, NEW s \in Sessions, TakeLock(s), author' = author
    PROVE  TxTypes' /\ TxShape' /\ Exclusive'
<1>a. author' = author
  OBVIOUS
<1> DEFINE old == tx[s]
           l == Head(old.todo)
           new == [old EXCEPT !.todo = Tail(@), !.held = @ \cup {l}]
<1>1. tx \in [Sessions -> Tx] /\ tx' = [tx EXCEPT ![s] = new]
  BY DEF Shape, TypeOK, TakeLock, Tx
<1>2. old \in Tx /\ old.todo # <<>> /\ \A t \in Sessions : l \notin tx[t].held
  BY <1>1 DEF TakeLock, LockFree
<1>3. old.todo \in Seq(Locks) /\ old.held \in SUBSET Locks
  BY <1>2 DEF Tx
<1>4. l \in Locks /\ Tail(old.todo) \in Seq(Locks)
  BY <1>2, <1>3, HeadTailProperties
<1>5. /\ new.kind = old.kind /\ new.step = old.step /\ new.sub = old.sub /\ new.seen = old.seen
      /\ new.todo = Tail(old.todo) /\ new.held = old.held \cup {l} /\ new.cash = old.cash
      /\ new.last = old.last
  BY <1>2 DEF Tx
<1>6. new \in Tx
  BY <1>2, <1>3, <1>4 DEF Tx
<1>7. old.todo = <<MyLock(s)>> => l = MyLock(s) /\ Tail(old.todo) = <<>>
  OBVIOUS
<1>8. \A t \in Sessions \ {s} : old.held \cap tx[t].held = {}
  BY DEF Shape, Exclusive
<1> HIDE DEF new, l
<1>9. TxTypes'
  BY <1>1, <1>6 DEF TxTypes
<1>10. TxShape'
  <2>1. tx'[s] = new /\ \A t \in Sessions \ {s} : tx'[t] = tx[t]
    BY <1>1
  <2>2. new.step = "opened" => new.held = {MyLock(s)} /\ new.todo = <<>>
    BY <1>2, <1>5, <1>7 DEF Shape, TxShape
  <2>3. MyLock(s) = UserLock(new.kind, author[new.sub])
    BY <1>5 DEF MyLock
  <2>4. /\ new.step # "idle" /\ new.step # "counted"
        /\ new.sub \in Subs /\ new.kind \in Kinds
        /\ new.step = "opened" /\ new.kind \in Reviews => new.seen \in SubStatus
        /\ new.step = "writing" => MyLock(s) \in new.held
        /\ new.step = "writing" /\ new.kind \in Rewarding =>
               new.seen = "PENDING" \/ (new.kind = "apply" /\ new.seen = "APPROVED")
        /\ new.step = "writing" /\ new.kind = "submit" => new.seen \in {"PENDING", "REJECTED"}
        /\ new.step = "writing" /\ new.kind = "reject" => new.seen = "PENDING"
        /\ new.step = "writing" /\ new.kind \in Rewarding /\ new.seen = "PENDING"
               => new.cash \in {0, Reward[new.sub]}
    BY <1>2, <1>5 DEF Shape, TxShape, Writing, Rewards, IdleTx
  <2> HIDE DEF old
  <2> QED
    BY <1>a, <2>1, <2>2, <2>3, <2>4 DEF Shape, TxShape, MyLock, Writing, Rewards
<1>11. Exclusive'
  BY <1>1, <1>2, <1>5, <1>8 DEF Shape, Exclusive
<1> QED
  BY <1>9, <1>10, <1>11

(* Counting open bounties keeps the shape of transactions.                   *)
LEMMA ShapeCountOpen ==
    ASSUME Shape, NEW s \in Sessions, CountOpen(s), author' = author
    PROVE  TxTypes' /\ TxShape' /\ Exclusive'
<1> DEFINE old == tx[s]
           i == InstOf[old.sub]
           new == [old EXCEPT !.step = "counted", !.closes = inst[i] = "OPEN",
                              !.last = OpenOn(BrickOf[i]) = {i}]
<1>1. tx \in [Sessions -> Tx] /\ tx' = [tx EXCEPT ![s] = new]
  BY DEF Shape, TypeOK, CountOpen, Tx
<1>2. old \in Tx /\ old.kind = "apply" /\ old.todo = <<>> /\ old.step = "writing"
  BY <1>1 DEF CountOpen, Ready
<1>3. /\ new.kind = old.kind /\ new.step = "counted" /\ new.sub = old.sub
      /\ new.seen = old.seen /\ new.todo = old.todo /\ new.held = old.held
      /\ new.cash = old.cash
  BY <1>2 DEF Tx
<1>4. new \in Tx
  BY <1>2 DEF Tx
<1> HIDE DEF new, i
<1>5. TxTypes'
  BY <1>1, <1>4 DEF TxTypes
<1>6. TxShape'
  BY <1>1, <1>2, <1>3 DEF Shape, TxShape, MyLock, Writing, Rewards
<1>7. Exclusive'
  BY <1>1, <1>3 DEF Shape, Exclusive
<1> QED
  BY <1>5, <1>6, <1>7

(* The types of what runApprovalCore writes.                                 *)
LEMMA WriteRewardTypes ==
    ASSUME Shape, NEW s \in Sessions, tx[s].step # "idle", tx[s].kind \in Rewarding,
           WriteReward(s)
    PROVE  /\ ledger' \subseteq Subs \X Rewarding
           /\ funded' \subseteq ledger' /\ month' \subseteq funded'
           /\ cash' \in [Users -> Nat] /\ spent' \in Nat
           /\ accepted' \in [Users -> Nat] /\ pending' \in [Users -> Nat]
           /\ rejected' \in [Users -> Nat]
<1>1. tx[s].sub \in Subs /\ tx[s].cash \in Nat /\ author[tx[s].sub] \in Users
  BY DEF Shape, TypeOK, TxShape, Tx
<1> QED
  BY <1>1 DEF WriteReward, Shape, TypeOK, OneLess

(* The keys of the XP a review awards are keys.                              *)
LEMMA XpTypes ==
    ASSUME Shape, NEW s \in Sessions, tx[s].step # "idle"
    PROVE  RewardXp(tx[s].sub) \subseteq XpKeys /\ CompletedXp(s) \subseteq XpKeys
<1>1. tx[s].sub \in Subs /\ author[tx[s].sub] \in Users
  BY DEF Shape, TypeOK, TxShape
<1>2. BrickOf[InstOf[tx[s].sub]] \in Bricks
  BY <1>1, ForeignKeys
<1> QED
  BY <1>1, <1>2 DEF RewardXp, CompletedXp, XpKeys

(* A bounty written beside the reviews; a step that leaves everything alone  *)
(* but the bounties and who was overtaken.                                   *)
Edit == \E i \in Edited, st \in InstStatus : WriteInstance(i, st)
SameTx(t) ==
    /\ tx'[t].kind = tx[t].kind /\ tx'[t].step = tx[t].step /\ tx'[t].sub = tx[t].sub
    /\ tx'[t].seen = tx[t].seen /\ tx'[t].cash = tx[t].cash /\ tx'[t].closes = tx[t].closes
    /\ tx'[t].last = tx[t].last /\ tx'[t].todo = tx[t].todo /\ tx'[t].held = tx[t].held
Still ==
    /\ UNCHANGED <<author, sub, money, stats, xp, contested>>
    /\ \A t \in Sessions : SameTx(t)

(* What a bounty written beside the reviews does to the sessions.            *)
LEMMA EditForm ==
    ASSUME TypeOK, author' = author, NEW i \in Edited, NEW st \in InstStatus, WriteInstance(i, st)
    PROVE  /\ Still /\ TxTypes'
           /\ i \in Instances /\ inst' = [inst EXCEPT ![i] = st]
           /\ \A s \in Sessions :
                  \/ tx'[s] = tx[s] /\ (tx[s].step = "counted" =>
                                           BrickOf[InstOf[tx[s].sub]] # BrickOf[i])
                  \/ tx'[s].overtaken /\ tx[s].step = "counted" /\ tx'[s].step = "counted"
<1>1. tx \in [Sessions -> Tx] /\ i \in Instances
  BY EditedAssumption DEF TypeOK
<1>2. /\ inst' = [inst EXCEPT ![i] = st] /\ UNCHANGED <<sub, money, stats, xp, contested>>
      /\ tx' = [s \in Sessions |->
                   IF tx[s].step = "counted" /\ BrickOf[InstOf[tx[s].sub]] = BrickOf[i]
                   THEN [tx[s] EXCEPT !.overtaken = TRUE] ELSE tx[s]]
  BY DEF WriteInstance
<1>3. ASSUME NEW s \in Sessions
      PROVE  /\ SameTx(s) /\ tx'[s] \in Tx
             /\ \/ tx'[s] = tx[s] /\ (tx[s].step = "counted" =>
                                          BrickOf[InstOf[tx[s].sub]] # BrickOf[i])
                \/ tx'[s].overtaken /\ tx[s].step = "counted" /\ tx'[s].step = "counted"
  <2>1. tx[s] \in Tx
    BY <1>1
  <2>2. CASE tx[s].step = "counted" /\ BrickOf[InstOf[tx[s].sub]] = BrickOf[i]
    <3>1. tx'[s] = [tx[s] EXCEPT !.overtaken = TRUE]
      BY <1>2, <2>2
    <3> QED
      BY <2>1, <2>2, <3>1 DEF Tx, SameTx
  <2>3. CASE ~(tx[s].step = "counted" /\ BrickOf[InstOf[tx[s].sub]] = BrickOf[i])
    <3>1. tx'[s] = tx[s]
      BY <1>2, <2>3
    <3> QED
      BY <2>1, <2>3, <3>1 DEF SameTx
  <2> QED
    BY <2>2, <2>3
<1>4. TxTypes'
  BY <1>2, <1>3 DEF TxTypes
<1> QED
  BY <1>1, <1>2, <1>3, <1>4 DEF Still

(* It keeps the shape of transactions.                                       *)
LEMMA EditShape == ASSUME Shape, author' = author, Edit PROVE Shape'
<1>1. PICK i \in Edited, st \in InstStatus : WriteInstance(i, st)
  BY DEF Edit
<1>2. /\ Still /\ TxTypes' /\ inst' = [inst EXCEPT ![i] = st]
      /\ \A s \in Sessions : tx'[s] = tx[s] \/ (tx[s].step = "counted" /\ tx'[s].step = "counted")
  BY <1>1, EditForm DEF Shape
<1>3. TypeOK'
  BY <1>2 DEF Shape, TypeOK, TxTypes, Still, money, stats
<1>4. TxShape'
  <2>1. ASSUME NEW t \in Sessions, tx'[t] = tx[t] PROVE MyLock(t)' = MyLock(t)
    BY <2>1 DEF MyLock, Still
  <2> QED
    BY <1>2 DEF Shape, TxShape, Still, SameTx, MyLock, Writing, Rewards
<1>5. Exclusive'
  BY <1>2 DEF Shape, Exclusive, Still, SameTx
<1> QED
  BY <1>3, <1>4, <1>5 DEF Shape

(* Every step that leaves the data alone.                                    *)
LEMMA SameData ==
    ASSUME TypeOK, UNCHANGED <<author, data>>, TxTypes', contested' \subseteq Subs
    PROVE  TypeOK'
  BY DEF TypeOK, data, TxTypes

(* Every step keeps the shape.                                               *)
LEMMA ShapeStep == Shape /\ [Next]_vars => Shape'
<1> SUFFICES ASSUME Shape, [Next]_vars PROVE Shape'
  OBVIOUS
<1>t. TypeOK
  BY DEF Shape
<1>1. CASE UNCHANGED vars
  <2>1. TypeOK'
    BY <1>1, <1>t DEF TypeOK, vars, data
  <2>2. TxShape'
    BY <1>1 DEF Shape, TxShape, vars, MyLock, Writing, Rewards
  <2>3. Exclusive'
    BY <1>1 DEF Shape, Exclusive, vars
  <2> QED
    BY <2>1, <2>2, <2>3 DEF Shape
<1> SUFFICES ASSUME Next PROVE Shape'
  BY <1>1
<1>a. author' = author
  BY DEF Next
<1>2. ASSUME NEW s \in Sessions, NEW k \in Reviews, NEW x \in Subs, OpenReview(s, k, x)
      PROVE  Shape'
  <2>1. sub[x] \in SubStatus /\ k \in Kinds
    BY <1>2, <1>t DEF OpenReview, TypeOK, Kinds
  <2>2. TxTypes' /\ TxShape' /\ Exclusive'
    BY <1>2, <1>a, <2>1, ShapeBegin DEF OpenReview
  <2>3. UNCHANGED data /\ contested' \subseteq Subs
    BY <1>2, <1>t DEF OpenReview, TypeOK
  <2> QED
    BY <1>a, <1>t, <2>2, <2>3, SameData DEF Shape
<1>3. ASSUME NEW s \in Sessions, NEW x \in Subs, OpenSubmit(s, x) PROVE Shape'
  <2>1. "submit" \in Kinds /\ "submit" \notin Reviews
    BY DEF Kinds, Reviews, Rewarding
  <2>2. TxTypes' /\ TxShape' /\ Exclusive'
    BY <1>3, <1>a, <2>1, ShapeBegin DEF OpenSubmit
  <2>3. UNCHANGED data /\ contested' \subseteq Subs
    BY <1>3, <1>t DEF OpenSubmit, TypeOK
  <2> QED
    BY <1>a, <1>t, <2>2, <2>3, SameData DEF Shape
<1>4. ASSUME NEW s \in Sessions, TakeLock(s) PROVE Shape'
  <2>1. TxTypes' /\ TxShape' /\ Exclusive'
    BY <1>4, <1>a, ShapeTakeLock
  <2>2. UNCHANGED data /\ contested' \subseteq Subs
    BY <1>4, <1>t DEF TakeLock, TypeOK
  <2> QED
    BY <1>a, <1>t, <2>1, <2>2, SameData DEF Shape
<1>5. ASSUME NEW s \in Sessions, Refuse(s) \/ DeadlockAbort(s) \/ Crash(s) PROVE Shape'
  <2>1. EndTx(s) /\ UNCHANGED data /\ contested' \subseteq Subs
    BY <1>5, <1>t DEF Refuse, DeadlockAbort, Crash, TypeOK
  <2>2. TxTypes' /\ TxShape' /\ Exclusive'
    BY <1>a, <2>1, ShapeEnd
  <2> QED
    BY <1>a, <1>t, <2>1, <2>2, SameData DEF Shape
<1>6. ASSUME NEW s \in Sessions,
             \/ BeginApprove(s) \/ BeginApply(s) \/ BeginApplyOnly(s)
             \/ BeginReject(s) \/ BeginSubmit(s)
      PROVE  Shape'
  <2> DEFINE x == tx[s].sub
             c == ActualCash(x)
  <2>1. Deciding(s)
    BY <1>6 DEF BeginApprove, BeginApply, BeginApplyOnly, BeginReject, BeginSubmit
  <2>2. x \in Subs /\ author[x] \in Users
    BY <2>1, DecidingHolds
  <2>3. c \in Nat /\ c \in {0, Reward[x]}
    BY <2>2, RewardsAssumption DEF ActualCash
  <2>4. /\ <<"user_bounty_stats", author[x]>> \in Locks
        /\ SubmissionRow(x) \in Locks /\ BrickRow(x) \in Locks
    BY <2>2, LockTypes DEF Kinds
  <2>5. TxTypes' /\ TxShape' /\ Exclusive'
    <3>1. CASE BeginApprove(s)
      <4>1. Append(RewardRows(author[x], c), SubmissionRow(x)) \in Seq(Locks)
        BY <2>2, RewardRowsTypes
      <4>2. /\ tx[s].kind = "approve"
            /\ Proceed(s, "PENDING", c, Append(RewardRows(author[x], c), SubmissionRow(x)))
        BY <3>1 DEF BeginApprove
      <4> QED
        BY <1>a, <2>1, <2>3, <4>1, <4>2, ShapeProceed DEF SubStatus
    <3>2. CASE BeginApply(s)
      <4>1. RewardRows(author[x], c) \o <<BrickRow(x), SubmissionRow(x)>> \in Seq(Locks)
        BY <2>2, RewardRowsTypes
      <4>2. /\ tx[s].kind = "apply"
            /\ Proceed(s, "PENDING", c,
                       RewardRows(author[x], c) \o <<BrickRow(x), SubmissionRow(x)>>)
        BY <3>2 DEF BeginApply
      <4> QED
        BY <1>a, <2>1, <2>3, <4>1, <4>2, ShapeProceed DEF SubStatus
    <3>3. CASE BeginApplyOnly(s)
      <4>1. <<BrickRow(x), SubmissionRow(x)>> \in Seq(Locks)
        BY <2>4, TwoRows
      <4>2. /\ tx[s].kind = "apply"
            /\ Proceed(s, "APPROVED", 0, <<BrickRow(x), SubmissionRow(x)>>)
        BY <3>3 DEF BeginApplyOnly
      <4> QED
        BY <1>a, <2>1, <4>1, <4>2, ShapeProceed DEF SubStatus
    <3>4. CASE BeginReject(s)
      <4>1. <<SubmissionRow(x), <<"user_bounty_stats", author[x]>>>> \in Seq(Locks)
        BY <2>4, TwoRows
      <4>2. /\ tx[s].kind = "reject"
            /\ Proceed(s, "PENDING", 0,
                       <<SubmissionRow(x), <<"user_bounty_stats", author[x]>>>>)
        BY <3>4 DEF BeginReject
      <4> QED
        BY <1>a, <2>1, <4>1, <4>2, ShapeProceed DEF SubStatus, Rewarding
    <3>5. CASE BeginSubmit(s)
      <4> DEFINE st == IF inst[InstOf[x]] = "OPEN" THEN "PENDING" ELSE "REJECTED"
      <4>1. <<<<"user_bounty_stats", author[x]>>>> \in Seq(Locks)
        BY <2>4, TwoRows
      <4>2. /\ tx[s].kind = "submit" /\ st \in {"PENDING", "REJECTED"}
            /\ Proceed(s, st, 0, <<<<"user_bounty_stats", author[x]>>>>)
        BY <3>5 DEF BeginSubmit
      <4> HIDE DEF st
      <4> QED
        BY <1>a, <2>1, <4>1, <4>2, ShapeProceed DEF SubStatus, Rewarding
    <3> QED
      BY <1>6, <3>1, <3>2, <3>3, <3>4, <3>5
  <2>6. UNCHANGED data /\ contested' \subseteq Subs
    BY <1>6, <1>t
    DEF BeginApprove, BeginApply, BeginApplyOnly, BeginReject, BeginSubmit, Proceed, TypeOK
  <2> QED
    BY <1>a, <1>t, <2>5, <2>6, SameData DEF Shape
<1>7. ASSUME NEW s \in Sessions, CountOpen(s) PROVE Shape'
  <2>1. TxTypes' /\ TxShape' /\ Exclusive'
    BY <1>7, <1>a, ShapeCountOpen
  <2>2. UNCHANGED data /\ contested' \subseteq Subs
    BY <1>7, <1>t DEF CountOpen, TypeOK
  <2> QED
    BY <1>a, <1>t, <2>1, <2>2, SameData DEF Shape
<1>8. ASSUME NEW s \in Sessions, CommitApprove(s) PROVE Shape'
  <2>1. /\ tx[s].step # "idle" /\ tx[s].kind \in Rewarding /\ EndTx(s) /\ WriteReward(s)
        /\ xp' = xp \cup RewardXp(tx[s].sub) /\ sub' = [sub EXCEPT ![tx[s].sub] = "APPROVED"]
        /\ UNCHANGED <<inst, contested>>
    BY <1>8 DEF CommitApprove, Ready, Rewarding
  <2>2. TxTypes' /\ TxShape' /\ Exclusive'
    BY <1>a, <2>1, ShapeEnd
  <2>3. TypeOK'
    BY <1>a, <1>t, <2>1, <2>2, WriteRewardTypes, XpTypes DEF TypeOK, TxTypes, SubStatus
  <2> QED
    BY <2>2, <2>3 DEF Shape
<1>9. ASSUME NEW s \in Sessions, CommitApply(s) PROVE Shape'
  <2>1. /\ tx[s].step # "idle" /\ tx[s].kind \in Rewarding /\ EndTx(s) /\ WriteReward(s)
        /\ xp' = xp \cup RewardXp(tx[s].sub) \cup CompletedXp(s) /\ WriteApplied(s)
        /\ UNCHANGED contested
    BY <1>9 DEF CommitApply, Ready, Rewarding
  <2>2. TxTypes' /\ TxShape' /\ Exclusive'
    BY <1>a, <2>1, ShapeEnd
  <2>3. TypeOK'
    BY <1>a, <1>t, <2>1, <2>2, WriteRewardTypes, XpTypes
    DEF TypeOK, TxTypes, SubStatus, InstStatus, WriteApplied
  <2> QED
    BY <2>2, <2>3 DEF Shape
<1>10. ASSUME NEW s \in Sessions, CommitApplyOnly(s) PROVE Shape'
  <2>1. /\ tx[s].step # "idle" /\ EndTx(s) /\ xp' = xp \cup CompletedXp(s)
        /\ WriteApplied(s) /\ UNCHANGED <<money, stats, contested>>
    BY <1>10 DEF CommitApplyOnly, Ready
  <2>2. TxTypes' /\ TxShape' /\ Exclusive'
    BY <1>a, <2>1, ShapeEnd
  <2>3. TypeOK'
    BY <1>a, <1>t, <2>1, <2>2, XpTypes
    DEF TypeOK, TxTypes, SubStatus, InstStatus, WriteApplied, money, stats
  <2> QED
    BY <2>2, <2>3 DEF Shape
<1>11. ASSUME NEW s \in Sessions, CommitReject(s) PROVE Shape'
  <2>1. /\ EndTx(s) /\ tx[s].sub \in Subs /\ author[tx[s].sub] \in Users
    BY <1>11 DEF CommitReject, Ready, Shape, TypeOK, TxShape
  <2>2. TxTypes' /\ TxShape' /\ Exclusive'
    BY <1>a, <2>1, ShapeEnd
  <2>3. TypeOK'
    BY <1>a, <1>t, <1>11, <2>1, <2>2 DEF CommitReject, TypeOK, TxTypes, SubStatus, OneLess, money
  <2> QED
    BY <2>2, <2>3 DEF Shape
<1>12. ASSUME NEW s \in Sessions, CommitSubmit(s) PROVE Shape'
  <2>1. /\ EndTx(s) /\ tx[s].sub \in Subs /\ author[tx[s].sub] \in Users
        /\ tx[s].seen \in SubStatus
    BY <1>12 DEF CommitSubmit, Ready, Shape, TypeOK, TxShape, Writing, SubStatus
  <2>2. TxTypes' /\ TxShape' /\ Exclusive'
    BY <1>a, <2>1, ShapeEnd
  <2>3. TypeOK'
    BY <1>a, <1>t, <1>12, <2>1, <2>2 DEF CommitSubmit, TypeOK, TxTypes, money
  <2> QED
    BY <2>2, <2>3 DEF Shape
<1>13. ASSUME ResetMonth PROVE Shape'
  <2>1. TypeOK'
    BY <1>13, <1>a, <1>t DEF ResetMonth, TypeOK, stats
  <2>2. TxShape' /\ Exclusive'
    BY <1>13, <1>a DEF ResetMonth, Shape, TxShape, Exclusive, MyLock, Writing, Rewards
  <2> QED
    BY <2>1, <2>2 DEF Shape
<1>14. CASE Edit
  BY <1>a, <1>14, EditShape
<1> QED
  BY <1>2, <1>3, <1>4, <1>5, <1>6, <1>7, <1>8, <1>9, <1>10, <1>11, <1>12, <1>13, <1>14
  DEF Next, Step, Edit

(* Every variable keeps its type, a transaction decides only under its       *)
(* user's lock, and no lock is held twice.                                   *)
THEOREM TypeCorrect == Spec => []TypeOK
<1>1. Spec => []Shape
  BY ShapeInit, ShapeStep, PTL DEF Spec
<1>2. Shape => TypeOK
  BY DEF Shape
<1> QED
  BY <1>1, <1>2, PTL

-----------------------------------------------------------------------------
(* What a step does to the transactions, without their locks.                *)

Others(s) == \A t \in Sessions \ {s} : tx'[t] = tx[t]
Ended(s) == Others(s) /\ tx'[s] = IdleTx
Opened(s, k, x, st) ==
    /\ Others(s)
    /\ tx'[s].kind = k /\ tx'[s].step = "opened" /\ tx'[s].sub = x /\ tx'[s].seen = st
    /\ tx'[s].cash = 0
Decided(s, st, c) ==
    /\ Others(s)
    /\ tx'[s].kind = tx[s].kind /\ tx'[s].step = "writing" /\ tx'[s].sub = tx[s].sub
    /\ tx'[s].seen = st /\ tx'[s].cash = c
Counted(s) ==
    LET i == InstOf[tx[s].sub]
    IN  /\ Others(s)
        /\ tx'[s].kind = tx[s].kind /\ tx'[s].step = "counted" /\ tx'[s].sub = tx[s].sub
        /\ tx'[s].seen = tx[s].seen /\ tx'[s].cash = tx[s].cash
        /\ tx'[s].held = tx[s].held /\ tx'[s].todo = tx[s].todo
        /\ tx'[s].closes = (inst[i] = "OPEN")
        /\ tx'[s].last = (OpenOn(BrickOf[i]) = {i})
Kept(s) ==
    /\ Others(s)
    /\ tx'[s].kind = tx[s].kind /\ tx'[s].step = tx[s].step /\ tx'[s].sub = tx[s].sub
    /\ tx'[s].seen = tx[s].seen /\ tx'[s].cash = tx[s].cash /\ tx'[s].last = tx[s].last
    /\ tx'[s].closes = tx[s].closes /\ tx'[s].overtaken = tx[s].overtaken

(* What the end of a transaction does to the sessions.                       *)
LEMMA EndForm == ASSUME Shape, NEW s \in Sessions, EndTx(s) PROVE Ended(s)
  BY DEF Shape, TypeOK, EndTx, Ended, Others

(* What the begin of a transaction does to the sessions.                     *)
LEMMA BeginForm ==
    ASSUME Shape, NEW s \in Sessions, NEW k, NEW x, NEW st, Begin(s, k, x, st)
    PROVE  Opened(s, k, x, st)
  BY DEF Shape, TypeOK, Begin, Opened, Others, IdleTx

(* What a decision does to the sessions.                                     *)
LEMMA ProceedForm ==
    ASSUME Shape, NEW s \in Sessions, NEW st, NEW c, NEW locks, Proceed(s, st, c, locks)
    PROVE  /\ Decided(s, st, c) /\ UNCHANGED <<data, contested>>
           /\ tx'[s].todo = locks
  BY DEF Shape, TypeOK, Proceed, Decided, Others, Tx

(* What the count of open bounties does to the sessions.                     *)
LEMMA CountForm ==
    ASSUME Shape, NEW s \in Sessions, CountOpen(s)
    PROVE  Counted(s)
<1>1. tx \in [Sessions -> Tx]
  BY DEF Shape, TypeOK
<1> QED
  BY <1>1 DEF CountOpen, Counted, Others, Tx

(* What taking a lock does to the sessions.                                  *)
LEMMA TakeForm ==
    ASSUME Shape, NEW s \in Sessions, TakeLock(s)
    PROVE  /\ Kept(s)
           /\ tx'[s].held = tx[s].held \cup {Head(tx[s].todo)}
           /\ tx'[s].todo = Tail(tx[s].todo)
<1>1. tx \in [Sessions -> Tx]
  BY DEF Shape, TypeOK
<1> QED
  BY <1>1 DEF TakeLock, Kept, Others, Tx

(* A step that touches no table: a lock granted, an end without a write.     *)
Quiet(s) == UNCHANGED <<author, data, contested>> /\ (Ended(s) \/ Kept(s))

(* Every step is one of these.                                               *)
LEMMA Steps ==
    ASSUME Shape, [Next]_vars
    PROVE  /\ author' = author
           /\ \/ \E s \in Sessions : Quiet(s)
              \/ Still /\ (UNCHANGED vars \/ Edit)
              \/ \E s \in Sessions, k \in Reviews, x \in Subs : OpenReview(s, k, x)
              \/ \E s \in Sessions, x \in Subs : OpenSubmit(s, x)
              \/ \E s \in Sessions : BeginApprove(s) \/ BeginApply(s)
              \/ \E s \in Sessions : BeginApplyOnly(s)
              \/ \E s \in Sessions : BeginReject(s) \/ BeginSubmit(s)
              \/ \E s \in Sessions : CountOpen(s)
              \/ \E s \in Sessions : CommitApprove(s) \/ CommitApply(s)
              \/ \E s \in Sessions : CommitApplyOnly(s)
              \/ \E s \in Sessions : CommitReject(s)
              \/ \E s \in Sessions : CommitSubmit(s)
              \/ ResetMonth
<1>1. author' = author
  BY DEF Next, vars
<1>2. ASSUME NEW s \in Sessions, TakeLock(s) PROVE Quiet(s)
  BY <1>1, <1>2, TakeForm DEF Quiet, TakeLock
<1>3. ASSUME NEW s \in Sessions, Refuse(s) \/ DeadlockAbort(s) \/ Crash(s) PROVE Quiet(s)
  <2>1. EndTx(s) /\ UNCHANGED <<data, contested>>
    BY <1>3 DEF Refuse, DeadlockAbort, Crash
  <2> QED
    BY <1>1, <2>1, EndForm DEF Quiet
<1>4. CASE UNCHANGED vars
  BY <1>4 DEF Still, SameTx, vars, data, money, stats
<1>5. CASE Edit
  BY <1>1, <1>5, EditForm DEF Edit, Shape
<1> QED
  BY <1>1, <1>2, <1>3, <1>4, <1>5 DEF Next, Step, Edit

(* Two transactions that are about to pay one user are one transaction.      *)
LEMMA OneRewarder ==
    ASSUME Shape, NEW s \in Sessions, NEW t \in Sessions, Rewards(s), Rewards(t),
           author[tx[s].sub] = author[tx[t].sub]
    PROVE  s = t
<1>1. MyLock(s) \in tx[s].held /\ MyLock(t) \in tx[t].held
  BY DEF Shape, TxShape, Rewards
<1>2. MyLock(s) = MyLock(t)
  BY DEF MyLock, UserLock, Rewards
<1> QED
  BY <1>1, <1>2 DEF Shape, Exclusive

(* What the two paying commits have in common.                               *)
LEMMA PayForm ==
    ASSUME Shape, NEW s \in Sessions, CommitApprove(s) \/ CommitApply(s)
    PROVE  /\ Rewards(s) /\ WriteReward(s) /\ Ended(s)
           /\ tx[s].sub \in Subs /\ author[tx[s].sub] \in Users
           /\ tx[s].cash \in {0, Reward[tx[s].sub]}
           /\ RewardXp(tx[s].sub) \subseteq xp'
           /\ xp' \subseteq xp \cup RewardXp(tx[s].sub) \cup CompletedXp(s)
           /\ xp \subseteq xp' /\ UNCHANGED contested
           /\ \E st \in {"APPROVED", "APPLIED_TO_BRICK"} : sub' = [sub EXCEPT ![tx[s].sub] = st]
<1>1. EndTx(s)
  BY DEF CommitApprove, CommitApply
<1>2. Ended(s)
  BY <1>1, EndForm
<1>3. /\ tx[s].step \in {"writing", "counted"} /\ tx[s].kind \in {"approve", "apply"}
      /\ tx[s].kind = "apply" => tx[s].seen = "PENDING"
  BY DEF CommitApprove, CommitApply, Ready
<1>4. /\ tx[s].sub \in Subs /\ tx[s].seen = "PENDING"
  BY <1>3 DEF Shape, TxShape, Writing, Rewarding
<1>5. Rewards(s)
  BY <1>3, <1>4 DEF Rewards, Writing, Rewarding
<1>6. tx[s].cash \in {0, Reward[tx[s].sub]}
  BY <1>5 DEF Shape, TxShape
<1>7. author[tx[s].sub] \in Users
  BY <1>4 DEF Shape, TypeOK
<1> QED
  BY <1>2, <1>4, <1>5, <1>6, <1>7 DEF CommitApprove, CommitApply, WriteApplied

-----------------------------------------------------------------------------
(* The key of a reward is claimed once.                                      *)

(* Every step keeps the ledger free of the keys about to be written.         *)
LEMMA UnclaimedStep == Shape /\ Unclaimed /\ [Next]_vars => Unclaimed'
<1> SUFFICES ASSUME Shape, Unclaimed, [Next]_vars, NEW t \in Sessions, Rewards(t)'
             PROVE  <<tx'[t].sub, tx'[t].kind>> \notin ledger'
  BY DEF Unclaimed, Claimed
<1> USE DEF Unclaimed, Claimed, Rewards, Writing
<1>1. ASSUME NEW s \in Sessions, Quiet(s) PROVE <<tx'[t].sub, tx'[t].kind>> \notin ledger'
  BY <1>1 DEF Quiet, Ended, Kept, Others, IdleTx, data
<1>2. CASE Still
  BY <1>2 DEF Still, SameTx, money
<1>3. ASSUME NEW s \in Sessions, NEW k, NEW x, NEW st, Opened(s, k, x, st), UNCHANGED data
      PROVE  <<tx'[t].sub, tx'[t].kind>> \notin ledger'
  BY <1>3 DEF Opened, Others, data
<1>4. ASSUME NEW s \in Sessions, BeginApprove(s) \/ BeginApply(s)
      PROVE  <<tx'[t].sub, tx'[t].kind>> \notin ledger'
  <2>1. ~Claimed(s) /\ \E c : Decided(s, "PENDING", c) /\ UNCHANGED <<data, contested>>
    BY <1>4, ProceedForm DEF BeginApprove, BeginApply
  <2> QED
    BY <2>1 DEF Decided, Others, data
<1>5. ASSUME NEW s \in Sessions, BeginApplyOnly(s)
      PROVE  <<tx'[t].sub, tx'[t].kind>> \notin ledger'
  <2>1. Decided(s, "APPROVED", 0) /\ UNCHANGED <<data, contested>>
    BY <1>5, ProceedForm DEF BeginApplyOnly
  <2> QED
    BY <2>1 DEF Decided, Others, data
<1>6. ASSUME NEW s \in Sessions, BeginReject(s) \/ BeginSubmit(s)
      PROVE  <<tx'[t].sub, tx'[t].kind>> \notin ledger'
  <2>1. /\ tx[s].kind \notin Rewarding
        /\ \E st : Decided(s, st, 0) /\ UNCHANGED <<data, contested>>
    BY <1>6, ProceedForm DEF BeginReject, BeginSubmit, Rewarding
  <2> QED
    BY <2>1 DEF Decided, Others, data
<1>7. ASSUME NEW s \in Sessions, CountOpen(s)
      PROVE  <<tx'[t].sub, tx'[t].kind>> \notin ledger'
  <2>1. Counted(s) /\ tx[s].step = "writing" /\ UNCHANGED data
    BY <1>7, CountForm DEF CountOpen
  <2> QED
    BY <2>1 DEF Counted, Others, data
<1>8. ASSUME NEW s \in Sessions, CommitApprove(s) \/ CommitApply(s)
      PROVE  <<tx'[t].sub, tx'[t].kind>> \notin ledger'
  <2>1. Rewards(s) /\ Ended(s) /\ ledger' = ledger \cup {<<tx[s].sub, tx[s].kind>>}
    BY <1>8, PayForm DEF WriteReward
  <2>2. t # s /\ tx'[t] = tx[t]
    BY <2>1 DEF Ended, Others, IdleTx
  <2>3. Rewards(t) /\ tx[t].sub # tx[s].sub
    BY <2>1, <2>2, OneRewarder
  <2> QED
    BY <2>1, <2>2, <2>3
<1>9. ASSUME NEW s \in Sessions, CommitApplyOnly(s) \/ CommitReject(s) \/ CommitSubmit(s)
      PROVE  <<tx'[t].sub, tx'[t].kind>> \notin ledger'
  <2>1. Ended(s) /\ ledger' = ledger
    BY <1>9, EndForm DEF CommitApplyOnly, CommitReject, CommitSubmit, money
  <2> QED
    BY <2>1 DEF Ended, Others, IdleTx
<1>10. ASSUME ResetMonth PROVE <<tx'[t].sub, tx'[t].kind>> \notin ledger'
  BY <1>10 DEF ResetMonth
<1>11. ASSUME NEW s \in Sessions, NEW k \in Reviews, NEW x \in Subs, OpenReview(s, k, x)
       PROVE  Opened(s, k, x, sub[x]) /\ UNCHANGED data
  BY <1>11, BeginForm DEF OpenReview
<1>12. ASSUME NEW s \in Sessions, NEW x \in Subs, OpenSubmit(s, x)
       PROVE  Opened(s, "submit", x, "NONE") /\ UNCHANGED data
  BY <1>12, BeginForm DEF OpenSubmit
<1> HIDE DEF Unclaimed, Claimed, Rewards, Writing
<1> QED
  BY <1>1, <1>2, <1>3, <1>4, <1>5, <1>6, <1>7, <1>8, <1>9, <1>10, <1>11, <1>12, Steps

-----------------------------------------------------------------------------
(* Rewards stand behind approvals.                                           *)

Rewarded(x, L, X) ==
    /\ \E k \in Rewarding : <<x, k>> \in L
    /\ <<"bounty_approved", x>> \in X

(* Every step keeps every reward backed, and what was loaded as rewarded, rewarded. *)
LEMMA BackedStep ==
    Shape /\ RewardBacksApproval /\ LoadedIsRewarded /\ [Next]_vars
        => RewardBacksApproval' /\ LoadedIsRewarded'
<1> SUFFICES ASSUME Shape, RewardBacksApproval, LoadedIsRewarded, [Next]_vars
             PROVE  RewardBacksApproval' /\ LoadedIsRewarded'
  OBVIOUS
<1>1. RewardBacksApproval <=>
          \A x \in Subs : sub[x] \in {"APPROVED", "APPLIED_TO_BRICK"} => Rewarded(x, ledger, xp)
  BY DEF RewardBacksApproval, Rewarded
<1>2. LoadedIsRewarded <=>
          \A s \in Sessions : tx[s].seen = "APPROVED" => Rewarded(tx[s].sub, ledger, xp)
  BY DEF LoadedIsRewarded, Rewarded
<1>3. ASSUME ledger \subseteq ledger', xp \subseteq xp', NEW x, Rewarded(x, ledger, xp)
      PROVE  Rewarded(x, ledger', xp')
  BY <1>3 DEF Rewarded
<1>4. ASSUME ledger \subseteq ledger', xp \subseteq xp',
             \A x \in Subs : sub'[x] \in {"APPROVED", "APPLIED_TO_BRICK"} =>
                 sub[x] \in {"APPROVED", "APPLIED_TO_BRICK"} \/ Rewarded(x, ledger', xp'),
             \A s \in Sessions : tx'[s].seen = "APPROVED" =>
                 \/ tx[s].seen = "APPROVED" /\ tx'[s].sub = tx[s].sub
                 \/ Rewarded(tx'[s].sub, ledger, xp)
      PROVE  RewardBacksApproval' /\ LoadedIsRewarded'
  <2>1. \A x \in Subs : sub'[x] \in {"APPROVED", "APPLIED_TO_BRICK"} => Rewarded(x, ledger', xp')
    BY <1>1, <1>3, <1>4
  <2>2. \A s \in Sessions : tx'[s].seen = "APPROVED" => Rewarded(tx'[s].sub, ledger', xp')
    BY <1>2, <1>3, <1>4
  <2>3. RewardBacksApproval'
    BY <2>1 DEF RewardBacksApproval, Rewarded
  <2>4. LoadedIsRewarded'
    BY <2>2 DEF LoadedIsRewarded, Rewarded
  <2> QED
    BY <2>3, <2>4
<1>5. ASSUME NEW s \in Sessions, Quiet(s) PROVE RewardBacksApproval' /\ LoadedIsRewarded'
  BY <1>4, <1>5 DEF Quiet, Ended, Kept, Others, IdleTx, data
<1>6. CASE Still
  BY <1>4, <1>6 DEF Still, SameTx, money
<1>7. ASSUME NEW s \in Sessions, NEW k \in Reviews, NEW x \in Subs, OpenReview(s, k, x)
      PROVE  RewardBacksApproval' /\ LoadedIsRewarded'
  <2>1. Opened(s, k, x, sub[x]) /\ UNCHANGED data
    BY <1>7, BeginForm DEF OpenReview
  <2> QED
    BY <1>1, <1>4, <2>1 DEF Opened, Others, data
<1>8. ASSUME NEW s \in Sessions, NEW x \in Subs, OpenSubmit(s, x)
      PROVE  RewardBacksApproval' /\ LoadedIsRewarded'
  <2>1. Opened(s, "submit", x, "NONE") /\ UNCHANGED data
    BY <1>8, BeginForm DEF OpenSubmit
  <2> QED
    BY <1>4, <2>1 DEF Opened, Others, data
<1>9. ASSUME NEW s \in Sessions,
             BeginApprove(s) \/ BeginApply(s) \/ BeginReject(s) \/ BeginSubmit(s)
      PROVE  RewardBacksApproval' /\ LoadedIsRewarded'
  <2>1. UNCHANGED data /\ \E st \in {"PENDING", "REJECTED"} : \E c : Decided(s, st, c)
    BY <1>9, ProceedForm DEF BeginApprove, BeginApply, BeginReject, BeginSubmit
  <2> QED
    BY <1>4, <2>1 DEF Decided, Others, data
<1>10. ASSUME NEW s \in Sessions, BeginApplyOnly(s)
       PROVE  RewardBacksApproval' /\ LoadedIsRewarded'
  <2>1. UNCHANGED data /\ tx[s].seen = "APPROVED" /\ Decided(s, "APPROVED", 0)
    BY <1>10, ProceedForm DEF BeginApplyOnly
  <2> QED
    BY <1>4, <2>1 DEF Decided, Others, data
<1>11. ASSUME NEW s \in Sessions, CountOpen(s)
       PROVE  RewardBacksApproval' /\ LoadedIsRewarded'
  <2>1. UNCHANGED data /\ Counted(s)
    BY <1>11, CountForm DEF CountOpen
  <2> QED
    BY <1>4, <2>1 DEF Counted, Others, data
<1>12. ASSUME NEW s \in Sessions, CommitApprove(s) \/ CommitApply(s)
       PROVE  RewardBacksApproval' /\ LoadedIsRewarded'
  <2> DEFINE x == tx[s].sub
  <2>1. /\ Ended(s) /\ ledger' = ledger \cup {<<x, tx[s].kind>>} /\ tx[s].kind \in Rewarding
        /\ xp \subseteq xp' /\ <<"bounty_approved", x>> \in xp' /\ x \in Subs
        /\ \E st : sub' = [sub EXCEPT ![x] = st]
    BY <1>12, PayForm DEF WriteReward, Rewards, RewardXp
  <2>2. Rewarded(x, ledger', xp')
    BY <2>1 DEF Rewarded
  <2>3. sub \in [Subs -> SubStatus \cup {"NONE"}]
    BY DEF Shape, TypeOK
  <2>4. \A y \in Subs : y # x => sub'[y] = sub[y]
    BY <2>1, <2>3
  <2>5. \A t \in Sessions : tx'[t].seen = "APPROVED" => tx'[t] = tx[t]
    BY <2>1 DEF Ended, Others, IdleTx
  <2> HIDE DEF x
  <2> QED
    BY <1>4, <2>1, <2>2, <2>4, <2>5
<1>13. ASSUME NEW s \in Sessions, CommitApplyOnly(s)
       PROVE  RewardBacksApproval' /\ LoadedIsRewarded'
  <2> DEFINE x == tx[s].sub
  <2>1. /\ Ended(s) /\ ledger' = ledger /\ xp \subseteq xp' /\ tx[s].seen = "APPROVED"
        /\ sub' = [sub EXCEPT ![x] = "APPLIED_TO_BRICK"]
    BY <1>13, EndForm DEF CommitApplyOnly, WriteApplied, money
  <2>2. Rewarded(x, ledger', xp')
    BY <1>2, <1>3, <2>1
  <2>3. sub \in [Subs -> SubStatus \cup {"NONE"}]
    BY DEF Shape, TypeOK
  <2>4. \A y \in Subs : y # x => sub'[y] = sub[y]
    BY <2>1, <2>3
  <2>5. \A t \in Sessions : tx'[t].seen = "APPROVED" => tx'[t] = tx[t]
    BY <2>1 DEF Ended, Others, IdleTx
  <2> HIDE DEF x
  <2> QED
    BY <1>4, <2>1, <2>2, <2>4, <2>5
<1>14. ASSUME NEW s \in Sessions, CommitReject(s) \/ CommitSubmit(s)
       PROVE  RewardBacksApproval' /\ LoadedIsRewarded'
  <2>1. /\ Ended(s) /\ UNCHANGED <<ledger, xp>>
        /\ \E st \in {"PENDING", "REJECTED"} : sub' = [sub EXCEPT ![tx[s].sub] = st]
    BY <1>14, EndForm
    DEF CommitReject, CommitSubmit, money, Ready, Shape, TxShape, Writing
  <2>2. sub \in [Subs -> SubStatus \cup {"NONE"}]
    BY DEF Shape, TypeOK
  <2>3. \A x \in Subs : sub'[x] \in {"APPROVED", "APPLIED_TO_BRICK"} => sub'[x] = sub[x]
    BY <2>1, <2>2
  <2>4. \A t \in Sessions : tx'[t].seen = "APPROVED" => tx'[t] = tx[t]
    BY <2>1 DEF Ended, Others, IdleTx
  <2> QED
    BY <1>4, <2>1, <2>3, <2>4
<1>15. ASSUME ResetMonth PROVE RewardBacksApproval' /\ LoadedIsRewarded'
  BY <1>4, <1>15 DEF ResetMonth
<1> QED
  BY <1>5, <1>6, <1>7, <1>8, <1>9, <1>10, <1>11, <1>12, <1>13, <1>14, <1>15, Steps

-----------------------------------------------------------------------------
(* The money.                                                                *)

CentsOfKey == [key \in Subs \X Rewarding |-> Reward[key[1]]]

(* CashOf is a sum in the sense of SharedLemmas.                          *)
LEMMA CashIsSum ==
    ASSUME NEW K, K \subseteq Subs \X Rewarding
    PROVE  CashOf(K) = SumOver(K, CentsOfKey)
<1>1. \A key \in K : {key} \X (1 .. Reward[key[1]]) = {key} \X (1 .. CentsOfKey[key])
  BY DEF CentsOfKey
<1>2. UNION {{key} \X (1 .. Reward[key[1]]) : key \in K} = Units(K, CentsOfKey)
  BY <1>1 DEF Units
<1> QED
  BY <1>2 DEF CashOf, SumOver

(* A new ledger row that is funded adds its reward, and no other row adds    *)
(* anything.                                                                 *)
LEMMA CashAdd ==
    ASSUME NEW K, K \subseteq Subs \X Rewarding, IsFiniteSet(K),
           NEW key \in Subs \X Rewarding, key \notin K
    PROVE  /\ CashOf(K \cup {key}) = CashOf(K) + Reward[key[1]]
           /\ CashOf(K) \in Nat
<1>1. \A k \in K \cup {key} : CentsOfKey[k] \in Nat
  BY RewardsAssumption DEF CentsOfKey
<1>2. CentsOfKey[key] = Reward[key[1]]
  BY DEF CentsOfKey
<1>3. SumOver(K \cup {key}, CentsOfKey) = SumOver(K, CentsOfKey) + CentsOfKey[key]
  BY <1>1, SumAdd
<1>4. SumOver(K, CentsOfKey) \in Nat
  BY <1>1, SumFinite
<1>5. K \cup {key} \subseteq Subs \X Rewarding
  OBVIOUS
<1> QED
  BY <1>2, <1>3, <1>4, <1>5, CashIsSum

(* An empty ledger pays nothing.                                             *)
LEMMA CashEmpty == CashOf({}) = 0
  BY CashIsSum, SumEmpty

(* The ledger is finite.                                                     *)
LEMMA LedgerFinite ==
    ASSUME TypeOK
    PROVE  IsFiniteSet(ledger) /\ IsFiniteSet(month) /\ month \subseteq Subs \X Rewarding
<1>1. IsFiniteSet(Rewarding)
  <2>1. IsFiniteSet({"approve"} \cup {"apply"})
    BY FS_Singleton, FS_Union
  <2>2. {"approve"} \cup {"apply"} = Rewarding
    BY DEF Rewarding
  <2> QED
    BY <2>1, <2>2
<1>2. IsFiniteSet(Subs \X Rewarding)
  BY <1>1, FiniteSubs, FS_Product
<1> QED
  BY <1>2, FS_Subset DEF TypeOK

(* Balances and the month's spending stay the sums of the ledger.            *)
LEMMA MoneyStep ==
    Shape /\ Unclaimed /\ MoneyFollowsLedger /\ [Next]_vars => MoneyFollowsLedger'
<1> SUFFICES ASSUME Shape, Unclaimed, MoneyFollowsLedger, [Next]_vars
             PROVE  MoneyFollowsLedger'
  OBVIOUS
<1>1. ASSUME UNCHANGED <<author, money>> PROVE MoneyFollowsLedger'
  BY <1>1 DEF money, MoneyFollowsLedger, RowsOf, CashOf
<1>2. ASSUME NEW s \in Sessions, CommitApprove(s) \/ CommitApply(s) PROVE MoneyFollowsLedger'
  <2> DEFINE x == tx[s].sub
             w == author[x]
             c == tx[s].cash
             key == <<x, tx[s].kind>>
             paid == IF c # 0 THEN {key} ELSE {}
  <2>1. /\ x \in Subs /\ w \in Users /\ key \in Subs \X Rewarding /\ key \notin ledger
        /\ c \in {0, Reward[x]} /\ Reward[x] \in Nat
    BY <1>2, PayForm, RewardsAssumption DEF Rewards, Unclaimed, Claimed
  <2>2. /\ ledger' = ledger \cup {key} /\ funded' = funded \cup paid /\ month' = month \cup paid
        /\ cash' = [cash EXCEPT ![w] = @ + c] /\ spent' = spent + c /\ author' = author
    BY <1>2, PayForm, Steps DEF WriteReward
  <2>3. /\ IsFiniteSet(ledger) /\ ledger \subseteq Subs \X Rewarding
        /\ funded \subseteq ledger /\ month \subseteq funded /\ IsFiniteSet(month)
        /\ cash \in [Users -> Nat] /\ spent \in Nat
    BY LedgerFinite DEF Shape, TypeOK
  <2>4. ASSUME NEW u \in Users PROVE cash'[u] = CashOf(RowsOf(u)' \cap funded')
    <3> DEFINE K == RowsOf(u) \cap funded
    <3>1. K \subseteq Subs \X Rewarding /\ IsFiniteSet(K) /\ key \notin K
      BY <2>1, <2>3, FS_Subset DEF RowsOf
    <3>2. cash[u] = CashOf(K)
      BY DEF MoneyFollowsLedger
    <3>3. RowsOf(u)' = IF u = w THEN RowsOf(u) \cup {key} ELSE RowsOf(u)
      BY <2>2 DEF RowsOf
    <3>4. RowsOf(u)' \cap funded' = IF u = w /\ c # 0 THEN K \cup {key} ELSE K
      BY <2>1, <2>2, <2>3, <3>3 DEF RowsOf
    <3>5. cash'[u] = IF u = w THEN cash[u] + c ELSE cash[u]
      BY <2>1, <2>2, <2>3
    <3>6. CashOf(K \cup {key}) = CashOf(K) + Reward[x]
      BY <2>1, <3>1, CashAdd
    <3> HIDE DEF K, key, w, c, x
    <3>7. CASE u = w /\ c # 0
      BY <2>1, <3>2, <3>4, <3>5, <3>6, <3>7
    <3>8. CASE ~(u = w /\ c # 0)
      <4>1. cash[u] \in Nat
        BY <2>3
      <4> QED
        BY <3>2, <3>4, <3>5, <3>8, <4>1
    <3> QED
      BY <3>7, <3>8
  <2>5. spent' = CashOf(month')
    <3>1. spent = CashOf(month) /\ key \notin month /\ month \subseteq Subs \X Rewarding
      BY <2>1, <2>3 DEF MoneyFollowsLedger
    <3>2. CashOf(month \cup {key}) = CashOf(month) + Reward[x]
      BY <2>1, <2>3, <3>1, CashAdd
    <3>3. month' = month \/ (c # 0 /\ month' = month \cup {key})
      BY <2>2
    <3>4. month' = month <=> c = 0
      BY <2>2, <3>1
    <3> HIDE DEF key, c, x
    <3>5. CASE c = 0
      BY <2>2, <2>3, <3>1, <3>4, <3>5
    <3>6. CASE c # 0
      <4>1. month' = month \cup {key} /\ c = Reward[x]
        BY <2>1, <3>3, <3>4, <3>6
      <4> QED
        BY <2>2, <3>1, <3>2, <4>1
    <3> QED
      BY <3>5, <3>6
  <2> QED
    BY <2>4, <2>5 DEF MoneyFollowsLedger, RowsOf
<1>3. ASSUME ResetMonth PROVE MoneyFollowsLedger'
  BY <1>3, CashEmpty, Steps DEF ResetMonth, MoneyFollowsLedger, RowsOf
<1>4. ASSUME NEW s \in Sessions,
             Quiet(s) \/ CommitApplyOnly(s) \/ CommitReject(s) \/ CommitSubmit(s)
      PROVE  UNCHANGED money
  BY <1>4 DEF Quiet, data, CommitApplyOnly, CommitReject, CommitSubmit, money
<1>5. ASSUME NEW s \in Sessions,
             \/ BeginApprove(s) \/ BeginApply(s) \/ BeginApplyOnly(s)
             \/ BeginReject(s) \/ BeginSubmit(s) \/ CountOpen(s)
      PROVE  UNCHANGED money
  BY <1>5 DEF BeginApprove, BeginApply, BeginApplyOnly, BeginReject, BeginSubmit, CountOpen,
              Proceed, data, money
<1>6. ASSUME NEW s \in Sessions, NEW x \in Subs,
             OpenSubmit(s, x) \/ \E k \in Reviews : OpenReview(s, k, x)
      PROVE  UNCHANGED money
  BY <1>6 DEF OpenSubmit, OpenReview, data, money
<1>7. Still => UNCHANGED money
  BY DEF Still
<1> QED
  BY <1>1, <1>2, <1>3, <1>4, <1>5, <1>6, <1>7, Steps

-----------------------------------------------------------------------------
(* The budget.                                                               *)

(* Every step keeps the budget: what a reward may still add was there when it was read. *)
LEMMA BudgetStep ==
    Shape /\ BudgetSeen /\ [Next]_vars => BudgetSeen'
<1> SUFFICES ASSUME Shape, BudgetSeen, [Next]_vars PROVE BudgetSeen'
  OBVIOUS
<1> DEFINE OneUser == \A a, b \in month : author[a[1]] = author[b[1]]
           AllOf(u) == \A a \in month : author[a[1]] = u
<1>a. author' = author /\ spent \in Nat /\ tx \in [Sessions -> Tx]
  BY Steps DEF Shape, TypeOK
<1>s. /\ OneUser => spent <= Budget
      /\ \A t \in Sessions : Rewards(t) /\ tx[t].cash # 0 =>
             tx[t].cash <= Budget /\ (AllOf(author[tx[t].sub]) => spent + tx[t].cash <= Budget)
  BY DEF BudgetSeen
(* Steps that pay nothing: who is about to pay either was so or is not bad.  *)
<1>1. ASSUME UNCHANGED <<month, spent>>,
             \A t \in Sessions : Rewards(t)' /\ tx'[t].cash # 0 =>
                 \/ Rewards(t) /\ tx'[t].sub = tx[t].sub /\ tx'[t].cash = tx[t].cash
                 \/ tx'[t].cash <= Budget /\ spent + tx'[t].cash <= Budget
      PROVE  BudgetSeen'
  <2> SUFFICES ASSUME NEW t \in Sessions, Rewards(t)', tx'[t].cash # 0
               PROVE  /\ tx'[t].cash <= Budget
                      /\ AllOf(author[tx'[t].sub]) => spent + tx'[t].cash <= Budget
    BY <1>1, <1>a, <1>s DEF BudgetSeen
  <2> QED
    BY <1>1, <1>s
<1>2. ASSUME NEW s \in Sessions, Quiet(s) PROVE BudgetSeen'
  BY <1>1, <1>2 DEF Quiet, Ended, Kept, Others, IdleTx, data, Rewards, Writing
<1>3. CASE Still
  BY <1>1, <1>3 DEF Still, SameTx, money, Rewards, Writing
<1>4. ASSUME NEW s \in Sessions, NEW x \in Subs,
             OpenSubmit(s, x) \/ \E k \in Reviews : OpenReview(s, k, x)
      PROVE  BudgetSeen'
  <2>1. UNCHANGED data /\ \E k, st : Opened(s, k, x, st)
    BY <1>4, BeginForm DEF OpenSubmit, OpenReview
  <2> QED
    BY <1>1, <2>1 DEF Opened, Others, data, Rewards, Writing
<1>5. ASSUME NEW s \in Sessions, BeginApprove(s) \/ BeginApply(s) PROVE BudgetSeen'
  <2> DEFINE x == tx[s].sub
  <2>1. /\ Deciding(s) /\ UNCHANGED <<data, contested>>
        /\ Decided(s, "PENDING", ActualCash(x))
    BY <1>5, ProceedForm DEF BeginApprove, BeginApply
  <2>2. x \in Subs /\ Reward[x] \in Nat /\ Budget \in Nat
    BY <2>1, DecidingHolds, RewardsAssumption
  <2>3. ActualCash(x) # 0 => ActualCash(x) <= Budget /\ spent + ActualCash(x) <= Budget
    BY <1>a, <2>2 DEF ActualCash
  <2> HIDE DEF x
  <2> QED
    BY <1>1, <2>1, <2>3 DEF Decided, Others, data, Rewards, Writing
<1>6. ASSUME NEW s \in Sessions, BeginApplyOnly(s) \/ BeginReject(s) \/ BeginSubmit(s)
      PROVE  BudgetSeen'
  <2>1. UNCHANGED data /\ \E st : Decided(s, st, 0)
    BY <1>6, ProceedForm DEF BeginApplyOnly, BeginReject, BeginSubmit
  <2> QED
    BY <1>1, <2>1 DEF Decided, Others, data, Rewards, Writing
<1>7. ASSUME NEW s \in Sessions, CountOpen(s) PROVE BudgetSeen'
  <2>1. UNCHANGED data /\ Counted(s) /\ tx[s].step = "writing"
    BY <1>7, CountForm DEF CountOpen
  <2> QED
    BY <1>1, <2>1 DEF Counted, Others, data, Rewards, Writing
<1>8. ASSUME NEW s \in Sessions, CommitApprove(s) \/ CommitApply(s) PROVE BudgetSeen'
  <2> DEFINE x == tx[s].sub
             c == tx[s].cash
             key == <<x, tx[s].kind>>
  <2>1. /\ Rewards(s) /\ Ended(s) /\ spent' = spent + c
        /\ month' = month \cup (IF c # 0 THEN {key} ELSE {})
    BY <1>8, PayForm DEF WriteReward
  <2>2. \A t \in Sessions : Rewards(t)' => t # s /\ tx'[t] = tx[t] /\ Rewards(t)
    BY <2>1 DEF Ended, Others, IdleTx, Rewards, Writing
  <2>3. CASE c = 0
    BY <1>1, <1>a, <2>1, <2>2, <2>3
  <2>4. CASE c # 0
    <3>1. key \in month' /\ month \subseteq month' /\ key[1] = x
      BY <2>1, <2>4
    <3>2. (\A a, b \in month' : author[a[1]] = author[b[1]]) => spent' <= Budget
      <4>1. SUFFICES ASSUME \A a, b \in month' : author[a[1]] = author[b[1]]
                     PROVE  AllOf(author[x])
        BY <1>s, <2>1, <2>4
      <4> QED
        BY <3>1, <4>1
    <3>3. ASSUME NEW t \in Sessions, Rewards(t)', tx'[t].cash # 0
          PROVE  /\ tx'[t].cash <= Budget
                 /\ ~ \A a \in month' : author[a[1]] = author[tx'[t].sub]
      <4>1. t # s /\ tx'[t] = tx[t] /\ Rewards(t)
        BY <2>2, <3>3
      <4>2. author[tx[t].sub] # author[x]
        BY <2>1, <4>1, OneRewarder
      <4> QED
        BY <1>s, <3>1, <3>3, <4>1, <4>2
    <3> QED
      BY <1>a, <3>2, <3>3 DEF BudgetSeen
  <2> QED
    BY <2>3, <2>4
<1>9. ASSUME NEW s \in Sessions, CommitApplyOnly(s) \/ CommitReject(s) \/ CommitSubmit(s)
      PROVE  BudgetSeen'
  <2>1. Ended(s) /\ UNCHANGED <<month, spent>>
    BY <1>9, EndForm DEF CommitApplyOnly, CommitReject, CommitSubmit, money
  <2> QED
    BY <1>1, <2>1 DEF Ended, Others, IdleTx, Rewards, Writing
<1>10. ASSUME ResetMonth PROVE BudgetSeen'
  <2>1. spent' = 0 /\ month' = {} /\ tx' = tx /\ Budget \in Nat
    BY <1>10, RewardsAssumption DEF ResetMonth
  <2>2. ASSUME NEW t \in Sessions, Rewards(t)', tx'[t].cash # 0
        PROVE  tx'[t].cash <= Budget /\ spent' + tx'[t].cash <= Budget
    <3>1. Rewards(t) /\ tx[t].cash # 0 /\ tx[t].cash \in Nat
      BY <1>a, <2>1, <2>2 DEF Rewards, Writing, Tx
    <3> QED
      BY <1>s, <2>1, <3>1
  <2> QED
    BY <2>1, <2>2 DEF BudgetSeen
<1> QED
  BY <1>2, <1>3, <1>4, <1>5, <1>6, <1>7, <1>8, <1>9, <1>10, Steps

-----------------------------------------------------------------------------
(* The last bounty of a brick.                                               *)

(* Every step keeps the brick's row held or asked for by an apply that decided. *)
LEMMA BrickRowStep == Shape /\ BrickRowAsked /\ [Next]_vars => BrickRowAsked'
<1> SUFFICES ASSUME Shape, BrickRowAsked, [Next]_vars PROVE BrickRowAsked'
  OBVIOUS
<1> DEFINE Asked(l, held, todo) == l \in held \/ \E n \in 1 .. Len(todo) : todo[n] = l
           Applying(t) == Writing(t) /\ tx[t].kind = "apply"
<1>a. \A t \in Sessions : Applying(t) => Asked(BrickRow(tx[t].sub), tx[t].held, tx[t].todo)
  BY DEF BrickRowAsked
<1>1. ASSUME NEW s \in Sessions, Others(s),
             Applying(s)' => Asked(BrickRow(tx'[s].sub), tx'[s].held, tx'[s].todo)
      PROVE  BrickRowAsked'
  <2> SUFFICES ASSUME NEW t \in Sessions, Applying(t)'
               PROVE  Asked(BrickRow(tx'[t].sub), tx'[t].held, tx'[t].todo)
    BY DEF BrickRowAsked, BrickRow
  <2>1. CASE t = s
    BY <1>1, <2>1
  <2>2. CASE t # s
    BY <1>1, <1>a, <2>2 DEF Others, Writing
  <2> QED
    BY <2>1, <2>2
<1>2. ASSUME NEW s \in Sessions, TakeLock(s) PROVE BrickRowAsked'
  <2> DEFINE l == BrickRow(tx[s].sub)
             todo == tx[s].todo
  <2>1. /\ Others(s) /\ tx'[s].kind = tx[s].kind /\ tx'[s].step = tx[s].step
        /\ tx'[s].sub = tx[s].sub
        /\ tx'[s].held = tx[s].held \cup {Head(todo)} /\ tx'[s].todo = Tail(todo)
        /\ todo # <<>>
    BY <1>2, TakeForm DEF Kept, TakeLock
  <2>2. todo \in Seq(Locks)
    BY DEF Shape, TypeOK, Tx
  <2>3. /\ Len(Tail(todo)) = Len(todo) - 1
        /\ \A n \in 1 .. Len(Tail(todo)) : Tail(todo)[n] = todo[n + 1]
    BY <2>1, <2>2, HeadTailProperties
  <2>4. Head(todo) = todo[1] /\ Len(todo) \in Nat
    BY <2>1, <2>2
  <2>5. ASSUME NEW n \in 1 .. Len(todo), todo[n] = l
        PROVE  l = Head(todo) \/ \E m \in 1 .. Len(Tail(todo)) : Tail(todo)[m] = l
    <3>1. CASE n = 1
      BY <2>4, <2>5, <3>1
    <3>2. CASE n # 1
      <4>1. n - 1 \in 1 .. Len(Tail(todo)) /\ n - 1 + 1 = n
        BY <2>3, <2>4, <3>2
      <4> QED
        BY <2>3, <2>5, <4>1
    <3> QED
      BY <3>1, <3>2
  <2>6. Applying(s)' => Asked(l, tx[s].held, todo)
    BY <1>a, <2>1 DEF Writing
  <2>7. Applying(s)' => Asked(l, tx'[s].held, tx'[s].todo)
    BY <2>1, <2>5, <2>6
  <2> QED
    BY <1>1, <2>1, <2>7
<1>3. ASSUME NEW s \in Sessions,
             \/ EndTx(s) \/ BeginApprove(s) \/ BeginReject(s) \/ BeginSubmit(s)
             \/ \E x \in Subs : OpenSubmit(s, x) \/ \E k \in Reviews : OpenReview(s, k, x)
      PROVE  BrickRowAsked'
  <2>1. Others(s) /\ ~Applying(s)'
    <3>1. CASE EndTx(s)
      BY <3>1, EndForm DEF Ended, IdleTx, Writing
    <3>2. CASE BeginApprove(s) \/ BeginReject(s) \/ BeginSubmit(s)
      <4>1. tx[s].kind # "apply" /\ \E st, c : Decided(s, st, c)
        BY <3>2, ProceedForm DEF BeginApprove, BeginReject, BeginSubmit
      <4> QED
        BY <4>1 DEF Decided
    <3>3. CASE \E x \in Subs : OpenSubmit(s, x) \/ \E k \in Reviews : OpenReview(s, k, x)
      <4>1. \E k, x, st : Opened(s, k, x, st)
        BY <3>3, BeginForm DEF OpenSubmit, OpenReview
      <4> QED
        BY <4>1 DEF Opened, Writing
    <3> QED
      BY <1>3, <3>1, <3>2, <3>3
  <2> QED
    BY <1>1, <2>1
<1>4. ASSUME NEW s \in Sessions, BeginApply(s) \/ BeginApplyOnly(s) PROVE BrickRowAsked'
  <2> DEFINE x == tx[s].sub
             full == RewardRows(author[x], ActualCash(x)) \o <<BrickRow(x), SubmissionRow(x)>>
             short == <<BrickRow(x), SubmissionRow(x)>>
  <2>1. Deciding(s)
    BY <1>4 DEF BeginApply, BeginApplyOnly
  <2>2. x \in Subs /\ author[x] \in Users
    BY <2>1, DecidingHolds
  <2>3. \E n \in 1 .. Len(full) : full[n] = BrickRow(x)
    BY <2>2, RewardRowsTypes
  <2>4. \E n \in 1 .. Len(short) : short[n] = BrickRow(x)
    OBVIOUS
  <2>5. /\ Others(s) /\ tx'[s].sub = x
        /\ tx'[s].todo = full \/ tx'[s].todo = short
    <3>1. Proceed(s, "PENDING", ActualCash(x), full) \/ Proceed(s, "APPROVED", 0, short)
      BY <1>4 DEF BeginApply, BeginApplyOnly
    <3> HIDE DEF full, short
    <3> QED
      BY <3>1, ProceedForm DEF Decided
  <2> HIDE DEF x, full, short
  <2> QED
    BY <1>1, <2>3, <2>4, <2>5
<1>5. ASSUME NEW s \in Sessions, CountOpen(s) PROVE BrickRowAsked'
  <2>1. Counted(s) /\ Applying(s)
    BY <1>5, CountForm DEF CountOpen, Ready, Writing
  <2> QED
    BY <1>1, <1>a, <2>1 DEF Counted
<1>6. ASSUME NEW s \in Sessions,
             \/ Refuse(s) \/ DeadlockAbort(s) \/ Crash(s)
             \/ CommitApprove(s) \/ CommitApply(s) \/ CommitApplyOnly(s)
             \/ CommitReject(s) \/ CommitSubmit(s)
      PROVE  EndTx(s)
  BY <1>6 DEF Refuse, DeadlockAbort, Crash, CommitApprove, CommitApply, CommitApplyOnly,
              CommitReject, CommitSubmit
<1>7. CASE ResetMonth \/ UNCHANGED vars
  BY <1>7 DEF ResetMonth, vars, BrickRowAsked, Writing
<1>8. CASE Edit
  <2>1. Still
    BY <1>8, Steps, EditForm DEF Edit, Shape
  <2> QED
    BY <2>1 DEF Still, SameTx, BrickRowAsked, Writing
<1> QED
  BY <1>2, <1>3, <1>4, <1>5, <1>6, <1>7, <1>8 DEF Next, Step, Edit

(* An apply that has counted has the brick's row.                            *)
LEMMA CountedHolds ==
    ASSUME Shape, BrickRowAsked, NEW s \in Sessions, tx[s].step = "counted"
    PROVE  BrickRow(tx[s].sub) \in tx[s].held /\ tx[s].sub \in Subs
<1>1. tx[s].todo = <<>> /\ tx[s].kind = "apply" /\ tx[s].sub \in Subs
  BY DEF Shape, TxShape
<1>2. 1 .. Len(tx[s].todo) = {}
  BY <1>1
<1> QED
  BY <1>1, <1>2 DEF BrickRowAsked, Writing

(* What the two closing commits have in common.                              *)
LEMMA CloseForm ==
    ASSUME Shape, NEW s \in Sessions, CommitApply(s) \/ CommitApplyOnly(s)
    PROVE  /\ Ended(s) /\ tx[s].step = "counted" /\ tx[s].sub \in Subs
           /\ author[tx[s].sub] \in Users
           /\ inst' = IF tx[s].closes THEN [inst EXCEPT ![InstOf[tx[s].sub]] = "CLOSED"]
                      ELSE inst
           /\ CompletedXp(s) \subseteq xp'
           /\ xp' \subseteq xp \cup RewardXp(tx[s].sub) \cup CompletedXp(s)
<1>1. EndTx(s) /\ tx[s].step = "counted"
  BY DEF CommitApply, CommitApplyOnly
<1>2. tx[s].sub \in Subs /\ author[tx[s].sub] \in Users
  BY <1>1 DEF Shape, TypeOK, TxShape
<1> QED
  BY <1>1, <1>2, EndForm DEF CommitApply, CommitApplyOnly, WriteApplied

(* The bounties of a brick that are open, as a function of their states.     *)
OpenIn(I, b) == {i \in Instances : BrickOf[i] = b /\ I[i] = "OPEN"}

(* The closing commit finds what the transaction counted.                    *)
LEMMA FreshStep == Shape /\ BrickRowAsked /\ CountIsFresh /\ [Next]_vars => CountIsFresh'
<1> SUFFICES ASSUME Shape, BrickRowAsked, CountIsFresh, [Next]_vars PROVE CountIsFresh'
  OBVIOUS
<1> DEFINE Fresh(x, c, last, I) ==
               /\ c = (I[InstOf[x]] = "OPEN")
               /\ last = (OpenIn(I, BrickOf[InstOf[x]]) = {InstOf[x]})
           Bound(t) == tx[t].step = "counted" /\ ~tx[t].overtaken
           Unmoved(t) == /\ Bound(t) /\ tx'[t].sub = tx[t].sub
                         /\ tx'[t].closes = tx[t].closes /\ tx'[t].last = tx[t].last
<1>a. \A t \in Sessions : Bound(t) => Fresh(tx[t].sub, tx[t].closes, tx[t].last, inst)
  BY DEF CountIsFresh, OpenOn, OpenIn
<1>b. (\A t \in Sessions : tx'[t].step = "counted" /\ ~tx'[t].overtaken =>
                               Fresh(tx'[t].sub, tx'[t].closes, tx'[t].last, inst'))
        => CountIsFresh'
  BY DEF CountIsFresh, OpenOn, OpenIn
(* Steps that change no bounty.                                              *)
<1>1. ASSUME inst' = inst,
             \A t \in Sessions : tx'[t].step = "counted" /\ ~tx'[t].overtaken =>
                 Unmoved(t) \/ Fresh(tx'[t].sub, tx'[t].closes, tx'[t].last, inst)
      PROVE  CountIsFresh'
  BY <1>1, <1>a, <1>b
<1>2. ASSUME NEW s \in Sessions, Quiet(s) PROVE CountIsFresh'
  BY <1>1, <1>2 DEF Quiet, Ended, Kept, Others, IdleTx, data
<1>3. CASE UNCHANGED vars
  BY <1>1, <1>3 DEF vars, data
<1>4. ASSUME NEW s \in Sessions, NEW x \in Subs,
             OpenSubmit(s, x) \/ \E k \in Reviews : OpenReview(s, k, x)
      PROVE  CountIsFresh'
  <2>1. UNCHANGED data /\ \E k, st : Opened(s, k, x, st)
    BY <1>4, BeginForm DEF OpenSubmit, OpenReview
  <2> QED
    BY <1>1, <2>1 DEF Opened, Others, data
<1>5. ASSUME NEW s \in Sessions,
             \/ BeginApprove(s) \/ BeginApply(s) \/ BeginApplyOnly(s)
             \/ BeginReject(s) \/ BeginSubmit(s)
      PROVE  CountIsFresh'
  <2>1. UNCHANGED data /\ \E st, c : Decided(s, st, c)
    BY <1>5, ProceedForm DEF BeginApprove, BeginApply, BeginApplyOnly, BeginReject, BeginSubmit
  <2> QED
    BY <1>1, <2>1 DEF Decided, Others, data
<1>6. ASSUME NEW s \in Sessions, CountOpen(s) PROVE CountIsFresh'
  <2>1. UNCHANGED data /\ Others(s) /\ Fresh(tx'[s].sub, tx'[s].closes, tx'[s].last, inst)
    <3>1. Counted(s) /\ UNCHANGED data
      BY <1>6, CountForm DEF CountOpen
    <3>2. \A b : OpenOn(b) = OpenIn(inst, b)
      BY DEF OpenOn, OpenIn
    <3> QED
      BY <3>1, <3>2 DEF Counted
  <2> HIDE DEF Fresh
  <2> QED
    BY <1>1, <2>1 DEF Others, data
<1>7. ASSUME NEW s \in Sessions, CommitApply(s) \/ CommitApplyOnly(s) PROVE CountIsFresh'
  <2> DEFINE x == tx[s].sub
             i == InstOf[x]
             b == BrickOf[i]
  <2>1. /\ Ended(s) /\ tx[s].step = "counted" /\ x \in Subs /\ i \in Instances
        /\ inst' = inst \/ inst' = [inst EXCEPT ![i] = "CLOSED"]
    BY <1>7, CloseForm, ForeignKeys
  <2>2. \A j \in Instances : BrickOf[j] # b => inst'[j] = inst[j]
    BY <2>1 DEF Shape, TypeOK
  <2>3. \A c : c # b => OpenIn(inst', c) = OpenIn(inst, c)
    BY <2>2 DEF OpenIn
  <2>4. SUFFICES ASSUME NEW t \in Sessions, tx'[t].step = "counted", ~tx'[t].overtaken
                 PROVE  Fresh(tx'[t].sub, tx'[t].closes, tx'[t].last, inst')
    BY <1>b
  <2>5. t # s /\ tx'[t] = tx[t]
    BY <2>1, <2>4 DEF Ended, Others, IdleTx
  <2>6. tx[s].held \cap tx[t].held = {}
    BY <2>5 DEF Shape, Exclusive
  <2>7. /\ BrickRow(x) \in tx[s].held /\ BrickRow(tx[t].sub) \in tx[t].held
        /\ tx[t].sub \in Subs
    BY <2>1, <2>4, <2>5, CountedHolds
  <2>8. BrickOf[InstOf[tx[t].sub]] # b /\ InstOf[tx[t].sub] \in Instances
    BY <2>6, <2>7, ForeignKeys DEF BrickRow
  <2> QED
    BY <1>a, <2>2, <2>3, <2>4, <2>5, <2>8
<1>8. ASSUME NEW s \in Sessions, CommitApprove(s) \/ CommitReject(s) \/ CommitSubmit(s)
      PROVE  CountIsFresh'
  <2>1. Ended(s) /\ inst' = inst
    BY <1>8, EndForm DEF CommitApprove, CommitReject, CommitSubmit
  <2> QED
    BY <1>1, <2>1 DEF Ended, Others, IdleTx
<1>9. ASSUME ResetMonth PROVE CountIsFresh'
  BY <1>1, <1>9 DEF ResetMonth
(* A bounty written from outside: the applies on its brick are overtaken.    *)
<1>10. CASE Edit
  <2>1. PICK i \in Edited, st \in InstStatus : WriteInstance(i, st)
    BY <1>10 DEF Edit
  <2>2. /\ i \in Instances /\ inst' = [inst EXCEPT ![i] = st]
        /\ \A s \in Sessions :
               \/ tx'[s] = tx[s] /\ (tx[s].step = "counted" =>
                                        BrickOf[InstOf[tx[s].sub]] # BrickOf[i])
               \/ tx'[s].overtaken
    BY <2>1, Steps, EditForm DEF Shape
  <2>3. \A j \in Instances : BrickOf[j] # BrickOf[i] => inst'[j] = inst[j]
    BY <2>2 DEF Shape, TypeOK
  <2>4. \A c : c # BrickOf[i] => OpenIn(inst', c) = OpenIn(inst, c)
    BY <2>3 DEF OpenIn
  <2>5. SUFFICES ASSUME NEW t \in Sessions, tx'[t].step = "counted", ~tx'[t].overtaken
                 PROVE  Fresh(tx'[t].sub, tx'[t].closes, tx'[t].last, inst')
    BY <1>b
  <2>6. tx'[t] = tx[t] /\ BrickOf[InstOf[tx[t].sub]] # BrickOf[i] /\ Bound(t)
    BY <2>2, <2>5
  <2>7. InstOf[tx[t].sub] \in Instances
    BY <2>6, CountedHolds, ForeignKeys
  <2> QED
    BY <1>a, <2>3, <2>4, <2>6, <2>7
<1> QED
  BY <1>2, <1>3, <1>4, <1>5, <1>6, <1>7, <1>8, <1>9, <1>10, Steps

(* What the end of an apply awards, if nobody overtook its count.            *)
LEMMA AwardStep ==
    ASSUME Shape, CountIsFresh, [Next]_vars, NEW s \in Sessions, NEW x \in Subs,
           EndsApply(s, x), ~tx[s].overtaken
    PROVE  LET b == BrickOf[InstOf[x]]
           IN  /\ ClosesLast(b) => <<"brick_completed", b, author[x]>> \in xp'
               /\ NewlyCompleted(b) # {} => ClosesLast(b)
<1> DEFINE i == InstOf[x]
           b == BrickOf[i]
           Goal == /\ ClosesLast(b) => <<"brick_completed", b, author[x]>> \in xp'
                   /\ NewlyCompleted(b) # {} => ClosesLast(b)
<1>1. /\ tx[s].step = "counted" /\ tx[s].sub = x /\ tx'[s].step = "idle"
      /\ i \in Instances
  BY ForeignKeys DEF EndsApply, IdleTx
<1>a. \A y \in Subs : \A u, c : <<"brick_completed", c, u>> \notin RewardXp(y)
  BY DEF RewardXp
(* Steps that close no bounty and complete no brick.                         *)
<1>2. ASSUME inst' = inst, \A u \in Users : <<"brick_completed", b, u>> \notin xp' \ xp
      PROVE  Goal
  BY <1>2 DEF ClosesLast, NewlyCompleted
<1>3. ASSUME NEW t \in Sessions, Quiet(t) PROVE Goal
  BY <1>2, <1>3 DEF Quiet, data
<1>4. Still => FALSE
  BY <1>1 DEF Still, SameTx
<1>5. ASSUME NEW t \in Sessions,
             \/ BeginApprove(t) \/ BeginApply(t) \/ BeginApplyOnly(t)
             \/ BeginReject(t) \/ BeginSubmit(t) \/ CountOpen(t)
             \/ \E y \in Subs : OpenSubmit(t, y) \/ \E k \in Reviews : OpenReview(t, k, y)
      PROVE  Goal
  <2>1. UNCHANGED data
    BY <1>5 DEF BeginApprove, BeginApply, BeginApplyOnly, BeginReject, BeginSubmit, CountOpen,
                OpenSubmit, OpenReview, Proceed
  <2> QED
    BY <1>2, <2>1 DEF data
<1>6. ASSUME NEW t \in Sessions, CommitApprove(t) PROVE Goal
  <2>1. inst' = inst /\ xp' = xp \cup RewardXp(tx[t].sub) /\ tx[t].sub \in Subs
    BY <1>6 DEF CommitApprove, Ready, Shape, TxShape
  <2> QED
    BY <1>2, <1>a, <2>1
<1>7. ASSUME NEW t \in Sessions, CommitReject(t) \/ CommitSubmit(t) PROVE Goal
  BY <1>2, <1>7 DEF CommitReject, CommitSubmit
<1>8. ASSUME ResetMonth PROVE Goal
  BY <1>2, <1>8 DEF ResetMonth
<1>9. ASSUME NEW t \in Sessions, CommitApply(t) \/ CommitApplyOnly(t) PROVE Goal
  <2>1. /\ Ended(t) /\ tx[t].sub \in Subs
        /\ inst' = IF tx[t].closes THEN [inst EXCEPT ![InstOf[tx[t].sub]] = "CLOSED"] ELSE inst
        /\ CompletedXp(t) \subseteq xp'
        /\ xp' \subseteq xp \cup RewardXp(tx[t].sub) \cup CompletedXp(t)
    BY <1>9, CloseForm
  <2>2. t = s
    BY <1>1, <2>1 DEF Ended, Others
  <2>3. /\ tx[s].closes = (inst[i] = "OPEN")
        /\ tx[s].last = (OpenIn(inst, b) = {i})
    BY <1>1 DEF CountIsFresh, OpenOn, OpenIn
  <2>4. OpenOn(b)' = OpenIn(inst', b)
    BY DEF OpenOn, OpenIn
  <2>5. inst \in [Instances -> InstStatus \cup {"NONE"}]
    BY DEF Shape, TypeOK
  <2>6. CASE inst[i] = "OPEN"
    <3>1. inst' = [inst EXCEPT ![i] = "CLOSED"] /\ inst'[i] = "CLOSED" /\ inst' # inst
      BY <1>1, <2>1, <2>2, <2>3, <2>5, <2>6
    <3>2. OpenIn(inst', b) = OpenIn(inst, b) \ {i} /\ i \in OpenIn(inst, b)
      BY <1>1, <2>5, <2>6, <3>1 DEF OpenIn
    <3>3. ClosesLast(b) <=> OpenIn(inst, b) = {i}
      BY <2>4, <3>1, <3>2 DEF ClosesLast
    <3>4. CompletedXp(s) = IF tx[s].last THEN {<<"brick_completed", b, author[x]>>} ELSE {}
      BY <1>1 DEF CompletedXp
    <3>5. ClosesLast(b) => <<"brick_completed", b, author[x]>> \in xp'
      BY <2>1, <2>2, <2>3, <3>3, <3>4
    <3>6. ASSUME NewlyCompleted(b) # {} PROVE ClosesLast(b)
      <4>1. PICK u \in Users : <<"brick_completed", b, u>> \in xp' \ xp
        BY <3>6 DEF NewlyCompleted
      <4>2. <<"brick_completed", b, u>> \in CompletedXp(s)
        BY <1>a, <2>1, <2>2, <4>1
      <4> QED
        BY <2>3, <3>3, <3>4, <4>2
    <3> QED
      BY <3>5, <3>6
  <2>7. CASE inst[i] # "OPEN"
    <3>1. inst' = inst /\ i \notin OpenIn(inst, b)
      BY <2>1, <2>2, <2>3, <2>7 DEF OpenIn
    <3>2. CompletedXp(s) = {}
      BY <2>3, <3>1 DEF CompletedXp
    <3> QED
      BY <1>2, <1>a, <2>1, <2>2, <3>1, <3>2
  <2> QED
    BY <2>6, <2>7
<1> HIDE DEF Goal
<1>10. Goal
  BY <1>3, <1>4, <1>5, <1>6, <1>7, <1>8, <1>9, Steps
<1> QED
  BY <1>10 DEF Goal

-----------------------------------------------------------------------------
(* A submission that two reviews never overlapped on.                        *)

(* Every step keeps an uncontested submission under one review, read fresh.  *)
LEMMA ReviewStep ==
    Shape /\ OneReview /\ LoadedIsFresh /\ ClaimsSettled /\ [Next]_vars
        => OneReview' /\ LoadedIsFresh' /\ ClaimsSettled'
<1> SUFFICES ASSUME Shape, OneReview, LoadedIsFresh, ClaimsSettled, [Next]_vars
             PROVE  OneReview' /\ LoadedIsFresh' /\ ClaimsSettled'
  OBVIOUS
<1>a. \A t \in Sessions : tx[t].sub \in Subs \/ tx[t].kind \in Reviews \/ tx[t].kind = "submit"
          => tx[t].sub \in Subs /\ tx[t].kind \in Reviews \cup {"submit"}
  BY NoSubAssumption DEF Shape, TxShape, IdleTx, Kinds, TypeOK, Tx, Reviews, Rewarding
<1>b. sub \in [Subs -> SubStatus \cup {"NONE"}]
  BY DEF Shape, TypeOK
<1>c. "submit" \notin Reviews /\ Rewarding \subseteq Reviews /\ "none" \notin Reviews
      /\ "none" # "submit"
  BY DEF Reviews, Rewarding
(* Steps that write no submission and begin nothing.                         *)
<1>1. ASSUME UNCHANGED <<sub, ledger, contested>>, NEW s \in Sessions, Others(s),
             \/ tx'[s] = IdleTx
             \/ /\ tx'[s].sub = tx[s].sub /\ tx'[s].kind = tx[s].kind
                /\ tx[s].kind \in Reviews => tx'[s].seen = tx[s].seen
      PROVE  OneReview' /\ LoadedIsFresh' /\ ClaimsSettled'
  <2>1. OneReview'
    BY <1>1, <1>c, NoSubAssumption DEF OneReview, Others, IdleTx
  <2>2. LoadedIsFresh'
    BY <1>1, <1>c DEF LoadedIsFresh, Others, IdleTx
  <2>3. ClaimsSettled'
    BY <1>1 DEF ClaimsSettled
  <2> QED
    BY <2>1, <2>2, <2>3
(* Commits.                                                                  *)
<1>2. ASSUME NEW s \in Sessions, Ended(s), tx[s].sub \in Subs, NEW st, st # "NONE",
             contested' = contested, sub' = [sub EXCEPT ![tx[s].sub] = st]
      PROVE  OneReview' /\ LoadedIsFresh'
  <2> DEFINE x == tx[s].sub
  <2>1. \A y \in Subs : sub'[y] = IF y = x THEN st ELSE sub[y]
    BY <1>2, <1>b
  <2>2. tx'[s] = IdleTx /\ \A t \in Sessions : t # s => tx'[t] = tx[t]
    BY <1>2 DEF Ended, Others
  <2>3. \A t \in Sessions : t # s /\ tx[t].sub = x => x \in contested /\ tx[t].kind # "submit"
    BY <1>2 DEF OneReview
  <2>4. x \in Subs
    BY <1>2
  <2> HIDE DEF x
  <2>5. OneReview'
    <3>1. ASSUME NEW t \in Sessions, NEW r \in Sessions, t # r, tx'[t].sub = tx'[r].sub,
                 tx'[t].sub \in Subs
          PROVE  tx'[t].sub \in contested'
      BY <1>2, <2>2, <3>1, NoSubAssumption DEF OneReview, IdleTx
    <3>2. ASSUME NEW t \in Sessions
          PROVE  /\ tx'[t].kind \in Reviews => sub'[tx'[t].sub] # "NONE"
                 /\ tx'[t].kind = "submit" => sub'[tx'[t].sub] = "NONE"
      BY <1>2, <1>a, <1>c, <2>1, <2>2, <2>3 DEF OneReview, IdleTx
    <3>3. contested \subseteq Subs
      BY DEF Shape, TypeOK
    <3>4. \A y \in contested' : sub'[y] # "NONE"
      BY <1>2, <2>1, <3>3 DEF OneReview
    <3> QED
      BY <3>1, <3>2, <3>4 DEF OneReview
  <2>6. LoadedIsFresh'
    BY <1>2, <1>a, <1>c, <2>1, <2>2, <2>3 DEF LoadedIsFresh, IdleTx
  <2> QED
    BY <2>5, <2>6
<1>3. ASSUME NEW s \in Sessions, Quiet(s) PROVE OneReview' /\ LoadedIsFresh' /\ ClaimsSettled'
  BY <1>1, <1>3 DEF Quiet, Ended, Kept, data
<1>4. CASE Still
  BY <1>4 DEF Still, SameTx, money, OneReview, LoadedIsFresh, ClaimsSettled
<1>5. ASSUME NEW s \in Sessions, NEW k \in Reviews, NEW x \in Subs, OpenReview(s, k, x)
      PROVE  OneReview' /\ LoadedIsFresh' /\ ClaimsSettled'
  <2>1. /\ Opened(s, k, x, sub[x]) /\ sub[x] # "NONE" /\ UNCHANGED <<sub, ledger>>
        /\ contested \subseteq contested' /\ contested' \subseteq contested \cup {x}
        /\ \A t \in Sessions : tx[t].sub = x => x \in contested'
    BY <1>5, BeginForm DEF OpenReview, data
  <2>2. OneReview'
    BY <1>c, <2>1 DEF OneReview, Opened, Others
  <2>3. LoadedIsFresh'
    BY <2>1 DEF LoadedIsFresh, Opened, Others
  <2>4. ClaimsSettled'
    BY <2>1 DEF ClaimsSettled
  <2> QED
    BY <2>2, <2>3, <2>4
<1>6. ASSUME NEW s \in Sessions, NEW x \in Subs, OpenSubmit(s, x)
      PROVE  OneReview' /\ LoadedIsFresh' /\ ClaimsSettled'
  <2>1. /\ Opened(s, "submit", x, "NONE") /\ sub[x] = "NONE"
        /\ UNCHANGED <<sub, ledger, contested>>
        /\ \A t \in Sessions : ~(tx[t].kind = "submit" /\ tx[t].sub = x)
    BY <1>6, BeginForm DEF OpenSubmit, data
  <2>2. \A t \in Sessions : tx[t].sub # x
    BY <1>a, <2>1 DEF OneReview
  <2>3. OneReview'
    BY <1>c, <2>1, <2>2 DEF OneReview, Opened, Others
  <2>4. LoadedIsFresh'
    BY <1>c, <2>1 DEF LoadedIsFresh, Opened, Others
  <2>5. ClaimsSettled'
    BY <2>1 DEF ClaimsSettled
  <2> QED
    BY <2>3, <2>4, <2>5
<1>7. ASSUME NEW s \in Sessions,
             \/ BeginApprove(s) \/ BeginApply(s) \/ BeginApplyOnly(s)
             \/ BeginReject(s) \/ BeginSubmit(s)
      PROVE  OneReview' /\ LoadedIsFresh' /\ ClaimsSettled'
  <2>1. /\ UNCHANGED <<data, contested>>
        /\ \E st, c : Decided(s, st, c) /\ (tx[s].kind \in Reviews => st = tx[s].seen)
    BY <1>7, <1>c, ProceedForm
    DEF BeginApprove, BeginApply, BeginApplyOnly, BeginReject, BeginSubmit
  <2> QED
    BY <1>1, <2>1 DEF Decided, data
<1>8. ASSUME NEW s \in Sessions, CountOpen(s)
      PROVE  OneReview' /\ LoadedIsFresh' /\ ClaimsSettled'
  <2>1. UNCHANGED <<data, contested>> /\ Counted(s)
    BY <1>8, CountForm DEF CountOpen
  <2> QED
    BY <1>1, <2>1 DEF Counted, data
<1>9. ASSUME NEW s \in Sessions, CommitApprove(s) \/ CommitApply(s)
      PROVE  OneReview' /\ LoadedIsFresh' /\ ClaimsSettled'
  <2> DEFINE x == tx[s].sub
             k == tx[s].kind
  <2>1. /\ Rewards(s) /\ Ended(s) /\ x \in Subs /\ contested' = contested
        /\ ledger' = ledger \cup {<<x, k>>}
    BY <1>9, PayForm DEF WriteReward
  <2>2. PICK st \in {"APPROVED", "APPLIED_TO_BRICK"} : sub' = [sub EXCEPT ![x] = st]
    BY <1>9, PayForm
  <2>3. OneReview' /\ LoadedIsFresh'
    BY <1>2, <2>1, <2>2
  <2>4. x \notin contested => sub[x] = "PENDING"
    BY <1>c, <2>1 DEF LoadedIsFresh, Rewards
  <2>5. \A y \in Subs : sub'[y] = IF y = x THEN st ELSE sub[y]
    BY <1>b, <2>2
  <2> HIDE DEF x, k
  <2>6. ClaimsSettled'
    BY <2>1, <2>4, <2>5 DEF ClaimsSettled
  <2> QED
    BY <2>3, <2>6
<1>10. ASSUME NEW s \in Sessions, CommitApplyOnly(s)
       PROVE  OneReview' /\ LoadedIsFresh' /\ ClaimsSettled'
  <2>1. /\ Ended(s) /\ tx[s].sub \in Subs /\ UNCHANGED <<ledger, contested>>
        /\ sub' = [sub EXCEPT ![tx[s].sub] = "APPLIED_TO_BRICK"]
    BY <1>10, CloseForm DEF CommitApplyOnly, WriteApplied, money
  <2>2. OneReview' /\ LoadedIsFresh'
    BY <1>2, <2>1
  <2>3. \A y \in Subs : sub'[y] = sub[y] \/ sub'[y] = "APPLIED_TO_BRICK"
    BY <1>b, <2>1
  <2>4. ClaimsSettled'
    BY <2>1, <2>3 DEF ClaimsSettled
  <2> QED
    BY <2>2, <2>4
<1>11. ASSUME NEW s \in Sessions, CommitReject(s) \/ CommitSubmit(s)
       PROVE  OneReview' /\ LoadedIsFresh' /\ ClaimsSettled'
  <2> DEFINE x == tx[s].sub
  <2>1. /\ Ended(s) /\ Writing(s) /\ UNCHANGED <<ledger, contested>>
        /\ tx[s].kind \in {"reject", "submit"}
    BY <1>11, EndForm DEF CommitReject, CommitSubmit, Ready, money, Writing
  <2>2. x \in Subs
    BY <2>1 DEF Shape, TxShape, Writing
  <2>3. PICK st \in {"PENDING", "REJECTED"} : sub' = [sub EXCEPT ![x] = st]
    BY <1>11, <2>1 DEF CommitReject, CommitSubmit, Ready, Shape, TxShape
  <2>4. OneReview' /\ LoadedIsFresh'
    BY <1>2, <2>1, <2>2, <2>3
  <2>5. x \notin contested => sub[x] \in {"NONE", "PENDING"}
    BY <2>1 DEF Shape, TxShape, LoadedIsFresh, OneReview, Reviews
  <2>6. \A y \in Subs : y # x => sub'[y] = sub[y]
    BY <1>b, <2>3
  <2> HIDE DEF x
  <2>7. ClaimsSettled'
    BY <2>1, <2>5, <2>6 DEF ClaimsSettled
  <2> QED
    BY <2>4, <2>7
<1>12. ASSUME ResetMonth PROVE OneReview' /\ LoadedIsFresh' /\ ClaimsSettled'
  BY <1>12 DEF ResetMonth, OneReview, LoadedIsFresh, ClaimsSettled
<1> QED
  BY <1>3, <1>4, <1>5, <1>6, <1>7, <1>8, <1>9, <1>10, <1>11, <1>12, Steps

-----------------------------------------------------------------------------
(* The statistics row.                                                       *)

CountIn(u, f, S) == Cardinality({x \in Subs : author[x] = u /\ f[x] \in S})

Exact(u, f, p, a, r) ==
    /\ p = CountIn(u, f, {"PENDING"})
    /\ a = CountIn(u, f, {"APPROVED", "APPLIED_TO_BRICK"})
    /\ r = CountIn(u, f, {"REJECTED"})

Uncontested(u) == \A x \in Subs : author[x] = u => x \notin contested

(* What a change of x's status from f to g does to that number.              *)
Moves(u, x, f, g, S) ==
    LET n == CountIn(u, f, S)
        m == CountIn(u, g, S)
    IN  /\ n \in Nat
        /\ author[x] # u \/ (g[x] \in S <=> f[x] \in S) => m = n
        /\ author[x] = u /\ g[x] \in S /\ f[x] \notin S => m = n + 1
        /\ author[x] = u /\ g[x] \notin S /\ f[x] \in S => n >= 1 /\ m = n - 1

(* How one changed status moves the number of a user's submissions in a class. *)
LEMMA CountMove ==
    ASSUME NEW f, NEW g, NEW x \in Subs, \A y \in Subs : y # x => g[y] = f[y], NEW u, NEW S
    PROVE  Moves(u, x, f, g, S)
<1> DEFINE F == {y \in Subs : author[y] = u /\ f[y] \in S}
           G == {y \in Subs : author[y] = u /\ g[y] \in S}
<1>2. IsFiniteSet(F)
  BY FiniteSubs, FS_Subset
<1>3. Cardinality(F) \in Nat
  BY <1>2, FS_CardinalityType
<1>4. CountIn(u, f, S) = Cardinality(F) /\ CountIn(u, g, S) = Cardinality(G)
  BY DEF CountIn
<1>5. author[x] # u \/ (g[x] \in S <=> f[x] \in S) => G = F
  OBVIOUS
<1>6. ASSUME author[x] = u, g[x] \in S, f[x] \notin S
      PROVE  Cardinality(G) = Cardinality(F) + 1
  <2>1. G = F \cup {x} /\ x \notin F
    BY <1>6
  <2> HIDE DEF F, G
  <2> QED
    BY <1>2, <2>1, FS_AddElement
<1>7. ASSUME author[x] = u, g[x] \notin S, f[x] \in S
      PROVE  Cardinality(F) >= 1 /\ Cardinality(G) = Cardinality(F) - 1
  <2>1. G = F \ {x} /\ x \in F
    BY <1>7
  <2> HIDE DEF F, G
  <2>2. Cardinality(G) = Cardinality(F) - 1 /\ IsFiniteSet(G)
    BY <1>2, <2>1, FS_RemoveElement
  <2>3. Cardinality(G) \in Nat
    BY <2>2, FS_CardinalityType
  <2> QED
    BY <1>3, <2>2, <2>3
<1> HIDE DEF F, G
<1> QED
  BY <1>3, <1>4, <1>5, <1>6, <1>7 DEF Moves

(* The statistics of one user at a time.                                     *)
LEMMA CountersForm ==
    ASSUME TypeOK
    PROVE  CountersAreExact <=>
               \A u \in Users : Uncontested(u) =>
                   Exact(u, sub, pending[u], accepted[u], rejected[u])
<1>1. ASSUME NEW u \in Users
      PROVE  /\ {x \in Subs : author[x] = u} \cap contested = {} <=> Uncontested(u)
             /\ \A S : {x \in {y \in Subs : author[y] = u} : sub[x] \in S}
                        = {x \in Subs : author[x] = u /\ sub[x] \in S}
  BY DEF Uncontested
<1> QED
  BY <1>1 DEF CountersAreExact, Exact, CountIn

(* Every step keeps the statistics exact.                                    *)
LEMMA CountersStep ==
    Shape /\ OneReview /\ LoadedIsFresh /\ CountersAreExact /\ [Next]_vars
        => CountersAreExact'
<1> SUFFICES ASSUME Shape, OneReview, LoadedIsFresh, CountersAreExact, [Next]_vars
             PROVE  CountersAreExact'
  OBVIOUS
<1>a. TypeOK /\ TypeOK' /\ author' = author
  BY ShapeStep, Steps DEF Shape
<1>b. \A u \in Users : Uncontested(u) => Exact(u, sub, pending[u], accepted[u], rejected[u])
  BY <1>a, CountersForm
<1>c. (\A u \in Users : (\A x \in Subs : author[x] = u => x \notin contested') =>
           Exact(u, sub', pending'[u], accepted'[u], rejected'[u])) => CountersAreExact'
  <2>1. ASSUME NEW u \in Users
        PROVE  /\ ({x \in Subs : author[x] = u} \cap contested' = {}
                     <=> \A x \in Subs : author[x] = u => x \notin contested')
               /\ \A S : {x \in {y \in Subs : author[y] = u} : sub'[x] \in S}
                          = {x \in Subs : author[x] = u /\ sub'[x] \in S}
    OBVIOUS
  <2> QED
    BY <1>a, <2>1 DEF CountersAreExact, Exact, CountIn
(* Steps that write no submission.                                           *)
<1>1. ASSUME UNCHANGED <<sub, stats>>, contested \subseteq contested'
      PROVE  CountersAreExact'
  BY <1>1, <1>b, <1>c DEF stats, Uncontested
(* Commits: one submission moves from one status to another.                 *)
<1>m. ASSUME NEW x \in Subs, NEW st, sub' = [sub EXCEPT ![x] = st]
      PROVE  sub'[x] = st /\ \A u, S : Moves(u, x, sub, sub', S)
  <2>1. sub'[x] = st /\ \A y \in Subs : y # x => sub'[y] = sub[y]
    BY <1>a, <1>m DEF TypeOK
  <2> QED
    BY <2>1, CountMove
<1>2. ASSUME NEW x \in Subs, NEW st, sub' = [sub EXCEPT ![x] = st], contested' = contested,
             \A u \in Users : author[x] # u =>
                 /\ pending'[u] = pending[u] /\ accepted'[u] = accepted[u]
                 /\ rejected'[u] = rejected[u],
             Uncontested(author[x]) =>
                 Exact(author[x], sub', pending'[author[x]], accepted'[author[x]],
                       rejected'[author[x]])
      PROVE  CountersAreExact'
  <2>2. ASSUME NEW u \in Users, author[x] # u, Uncontested(u)
        PROVE  Exact(u, sub', pending'[u], accepted'[u], rejected'[u])
    <3>1. \A S : CountIn(u, sub', S) = CountIn(u, sub, S)
      <4>1. \A S : Moves(u, x, sub, sub', S)
        BY <1>2, <1>m
      <4> QED
        BY <2>2, <4>1 DEF Moves
    <3> QED
      BY <1>2, <1>b, <2>2, <3>1 DEF Exact
  <2> QED
    BY <1>2, <1>c, <2>2 DEF Uncontested
<1>3. ASSUME NEW s \in Sessions, Quiet(s) PROVE CountersAreExact'
  BY <1>1, <1>3 DEF Quiet, data, stats
<1>4. CASE Still
  BY <1>1, <1>4 DEF Still, stats
<1>5. ASSUME NEW s \in Sessions, NEW x \in Subs,
             OpenSubmit(s, x) \/ \E k \in Reviews : OpenReview(s, k, x)
      PROVE  CountersAreExact'
  BY <1>1, <1>5 DEF OpenSubmit, OpenReview, data, stats
<1>6. ASSUME NEW s \in Sessions,
             \/ BeginApprove(s) \/ BeginApply(s) \/ BeginApplyOnly(s)
             \/ BeginReject(s) \/ BeginSubmit(s) \/ CountOpen(s)
      PROVE  CountersAreExact'
  <2>1. UNCHANGED <<data, contested>>
    BY <1>6 DEF BeginApprove, BeginApply, BeginApplyOnly, BeginReject, BeginSubmit, CountOpen,
                Proceed
  <2> QED
    BY <1>1, <2>1 DEF data, stats
<1>7. ASSUME NEW s \in Sessions, CommitApprove(s) \/ CommitApply(s) PROVE CountersAreExact'
  <2> DEFINE x == tx[s].sub
             w == author[x]
  <2>1. /\ Rewards(s) /\ x \in Subs /\ w \in Users /\ contested' = contested
        /\ accepted' = [accepted EXCEPT ![w] = @ + 1]
        /\ pending' = [pending EXCEPT ![w] = OneLess(@)] /\ rejected' = rejected
    BY <1>7, PayForm DEF WriteReward
  <2>2. PICK st \in {"APPROVED", "APPLIED_TO_BRICK"} : sub' = [sub EXCEPT ![x] = st]
    BY <1>7, PayForm
  <2>3. x \notin contested => sub[x] = "PENDING"
    BY <2>1 DEF LoadedIsFresh, Rewards, Reviews
  <2>4. /\ sub \in [Subs -> SubStatus \cup {"NONE"}] /\ accepted \in [Users -> Nat]
        /\ pending \in [Users -> Nat] /\ rejected \in [Users -> Nat]
    BY <1>a DEF TypeOK
  <2> HIDE DEF x, w
  <2>5. ASSUME x \notin contested
        PROVE  LET n(S) == CountIn(w, sub, S)
                   m(S) == CountIn(w, sub', S)
               IN  /\ n({"PENDING"}) \in Nat /\ n({"PENDING"}) >= 1
                   /\ m({"PENDING"}) = n({"PENDING"}) - 1
                   /\ m({"APPROVED", "APPLIED_TO_BRICK"})
                        = n({"APPROVED", "APPLIED_TO_BRICK"}) + 1
                   /\ m({"REJECTED"}) = n({"REJECTED"})
    <3>1. sub'[x] = st /\ \A S : Moves(w, x, sub, sub', S)
      BY <1>m, <2>1, <2>2
    <3>2. /\ Moves(w, x, sub, sub', {"PENDING"}) /\ Moves(w, x, sub, sub', {"REJECTED"})
          /\ Moves(w, x, sub, sub', {"APPROVED", "APPLIED_TO_BRICK"})
      BY <3>1
    <3> QED
      BY <2>3, <2>5, <3>1, <3>2 DEF w, Moves
  <2>6. ASSUME Uncontested(w) PROVE Exact(w, sub', pending'[w], accepted'[w], rejected'[w])
    <3>1. x \notin contested
      BY <2>1, <2>6 DEF w, Uncontested
    <3>2. Exact(w, sub, pending[w], accepted[w], rejected[w])
      BY <1>b, <2>1, <2>6
    <3>3. pending[w] >= 1 /\ pending[w] \in Nat
      BY <2>5, <3>1, <3>2 DEF Exact
    <3>4. pending'[w] = pending[w] - 1 /\ accepted'[w] = accepted[w] + 1
      BY <2>1, <2>4, <3>3 DEF OneLess
    <3> QED
      BY <2>1, <2>5, <3>1, <3>2, <3>4 DEF Exact
  <2> QED
    BY <1>2, <2>1, <2>2, <2>4, <2>6 DEF w
<1>8. ASSUME NEW s \in Sessions, CommitApplyOnly(s) PROVE CountersAreExact'
  <2> DEFINE x == tx[s].sub
             w == author[x]
  <2>1. /\ x \in Subs /\ w \in Users /\ UNCHANGED <<stats, contested>>
        /\ sub' = [sub EXCEPT ![x] = "APPLIED_TO_BRICK"]
        /\ tx[s].kind = "apply" /\ tx[s].seen = "APPROVED"
    BY <1>8, CloseForm DEF CommitApplyOnly, WriteApplied, Ready
  <2>2. x \notin contested => sub[x] = "APPROVED"
    BY <2>1 DEF LoadedIsFresh, Reviews, Rewarding
  <2>3. sub \in [Subs -> SubStatus \cup {"NONE"}]
    BY <1>a DEF TypeOK
  <2> HIDE DEF x, w
  <2>4. ASSUME Uncontested(w) PROVE Exact(w, sub', pending[w], accepted[w], rejected[w])
    <3>1. sub[x] = "APPROVED"
      BY <2>1, <2>2, <2>4 DEF w, Uncontested
    <3>2. \A S : S \in {{"PENDING"}, {"APPROVED", "APPLIED_TO_BRICK"}, {"REJECTED"}}
                 => CountIn(w, sub', S) = CountIn(w, sub, S)
      <4>1. ASSUME NEW S, S \in {{"PENDING"}, {"APPROVED", "APPLIED_TO_BRICK"}, {"REJECTED"}}
            PROVE  "APPLIED_TO_BRICK" \in S <=> sub[x] \in S
        BY <3>1, <4>1
      <4>2. sub'[x] = "APPLIED_TO_BRICK" /\ \A S : Moves(w, x, sub, sub', S)
        BY <1>m, <2>1
      <4> QED
        BY <4>1, <4>2 DEF Moves
    <3>3. Exact(w, sub, pending[w], accepted[w], rejected[w])
      BY <1>b, <2>1, <2>4
    <3> QED
      BY <3>2, <3>3 DEF Exact
  <2> QED
    BY <1>2, <2>1, <2>4 DEF w, stats
<1>9. ASSUME NEW s \in Sessions, CommitReject(s) PROVE CountersAreExact'
  <2> DEFINE x == tx[s].sub
             w == author[x]
  <2>1. /\ x \in Subs /\ w \in Users /\ accepted' = accepted /\ contested' = contested
        /\ sub' = [sub EXCEPT ![x] = "REJECTED"]
        /\ pending' = [pending EXCEPT ![w] = OneLess(@)]
        /\ rejected' = [rejected EXCEPT ![w] = @ + 1]
        /\ tx[s].kind = "reject" /\ tx[s].seen = "PENDING"
    BY <1>9, <1>a DEF CommitReject, Ready, Shape, TxShape, Writing, TypeOK
  <2>2. x \notin contested => sub[x] = "PENDING"
    BY <2>1 DEF LoadedIsFresh, Reviews
  <2>3. /\ sub \in [Subs -> SubStatus \cup {"NONE"}] /\ accepted \in [Users -> Nat]
        /\ pending \in [Users -> Nat] /\ rejected \in [Users -> Nat]
    BY <1>a DEF TypeOK
  <2> HIDE DEF x, w
  <2>4. ASSUME x \notin contested
        PROVE  LET n(S) == CountIn(w, sub, S)
                   m(S) == CountIn(w, sub', S)
               IN  /\ n({"PENDING"}) \in Nat /\ n({"PENDING"}) >= 1
                   /\ m({"PENDING"}) = n({"PENDING"}) - 1
                   /\ m({"APPROVED", "APPLIED_TO_BRICK"}) = n({"APPROVED", "APPLIED_TO_BRICK"})
                   /\ m({"REJECTED"}) = n({"REJECTED"}) + 1
    <3>1. sub'[x] = "REJECTED" /\ \A S : Moves(w, x, sub, sub', S)
      BY <1>m, <2>1
    <3>2. /\ Moves(w, x, sub, sub', {"PENDING"}) /\ Moves(w, x, sub, sub', {"REJECTED"})
          /\ Moves(w, x, sub, sub', {"APPROVED", "APPLIED_TO_BRICK"})
      BY <3>1
    <3> QED
      BY <2>2, <2>4, <3>1, <3>2 DEF w, Moves
  <2>5. ASSUME Uncontested(w) PROVE Exact(w, sub', pending'[w], accepted'[w], rejected'[w])
    <3>1. x \notin contested
      BY <2>1, <2>5 DEF w, Uncontested
    <3>2. Exact(w, sub, pending[w], accepted[w], rejected[w])
      BY <1>b, <2>1, <2>5
    <3>3. pending[w] >= 1 /\ pending[w] \in Nat
      BY <2>4, <3>1, <3>2 DEF Exact
    <3>4. pending'[w] = pending[w] - 1 /\ rejected'[w] = rejected[w] + 1
      BY <2>1, <2>3, <3>3 DEF OneLess
    <3> QED
      BY <2>1, <2>4, <3>1, <3>2, <3>4 DEF Exact
  <2> QED
    BY <1>2, <2>1, <2>3, <2>5 DEF w
<1>10. ASSUME NEW s \in Sessions, CommitSubmit(s) PROVE CountersAreExact'
  <2> DEFINE x == tx[s].sub
             w == author[x]
             st == tx[s].seen
  <2>1. /\ x \in Subs /\ w \in Users /\ accepted' = accepted /\ contested' = contested
        /\ sub' = [sub EXCEPT ![x] = st] /\ st \in {"PENDING", "REJECTED"}
        /\ tx[s].kind = "submit"
        /\ st = "PENDING" =>
               pending' = [pending EXCEPT ![w] = @ + 1] /\ rejected' = rejected
        /\ st = "REJECTED" =>
               rejected' = [rejected EXCEPT ![w] = @ + 1] /\ pending' = pending
    BY <1>10, <1>a DEF CommitSubmit, Ready, Shape, TxShape, Writing, TypeOK
  <2>2. sub[x] = "NONE"
    BY <2>1 DEF OneReview
  <2>3. /\ sub \in [Subs -> SubStatus \cup {"NONE"}] /\ accepted \in [Users -> Nat]
        /\ pending \in [Users -> Nat] /\ rejected \in [Users -> Nat]
    BY <1>a DEF TypeOK
  <2> HIDE DEF x, w, st
  <2>4. LET n(S) == CountIn(w, sub, S)
            m(S) == CountIn(w, sub', S)
        IN  /\ m({"PENDING"}) = IF st = "PENDING" THEN n({"PENDING"}) + 1 ELSE n({"PENDING"})
            /\ m({"APPROVED", "APPLIED_TO_BRICK"}) = n({"APPROVED", "APPLIED_TO_BRICK"})
            /\ m({"REJECTED"}) = IF st = "REJECTED" THEN n({"REJECTED"}) + 1
                                 ELSE n({"REJECTED"})
    <3>1. sub'[x] = st /\ \A S : Moves(w, x, sub, sub', S)
      BY <1>m, <2>1
    <3>2. /\ Moves(w, x, sub, sub', {"PENDING"}) /\ Moves(w, x, sub, sub', {"REJECTED"})
          /\ Moves(w, x, sub, sub', {"APPROVED", "APPLIED_TO_BRICK"})
      BY <3>1
    <3>3. CASE st = "PENDING"
      BY <2>2, <3>1, <3>2, <3>3 DEF w, Moves
    <3>4. CASE st = "REJECTED"
      BY <2>2, <3>1, <3>2, <3>4 DEF w, Moves
    <3> QED
      BY <2>1, <3>3, <3>4
  <2>5. ASSUME Uncontested(w) PROVE Exact(w, sub', pending'[w], accepted'[w], rejected'[w])
    <3>1. Exact(w, sub, pending[w], accepted[w], rejected[w])
      BY <1>b, <2>1, <2>5
    <3> QED
      BY <2>1, <2>3, <2>4, <3>1 DEF Exact
  <2> QED
    BY <1>2, <2>1, <2>3, <2>5 DEF w
<1>11. ASSUME ResetMonth PROVE CountersAreExact'
  BY <1>1, <1>11 DEF ResetMonth
<1> QED
  BY <1>3, <1>4, <1>5, <1>6, <1>7, <1>8, <1>9, <1>10, <1>11, Steps

(* The milestones.  A key is new to the ledger when it is claimed, so the    *)
(* accepted count goes up with the user's rows.                              *)
LEMMA MilestonesStep ==
    Shape /\ Unclaimed /\ MilestonesFollowRewards /\ [Next]_vars => MilestonesFollowRewards'
<1> SUFFICES ASSUME Shape, Unclaimed, MilestonesFollowRewards, [Next]_vars
             PROVE  MilestonesFollowRewards'
  OBVIOUS
<1> DEFINE First(u) == <<"bounty_first", u>>
           Ten(u) == <<"bounty_ten", u>>
<1>a. author' = author
  BY Steps
<1>b. accepted \in [Users -> Nat] /\ TenApprovals \in Nat \ {0, 1}
  BY MilestoneAssumption DEF Shape, TypeOK
(* Steps that pay nothing.                                                   *)
<1>1. ASSUME UNCHANGED <<ledger, accepted>>,
             \A u \in Users : /\ First(u) \in xp' <=> First(u) \in xp
                              /\ Ten(u) \in xp' <=> Ten(u) \in xp
      PROVE  MilestonesFollowRewards'
  BY <1>1, <1>a DEF MilestonesFollowRewards, RowsOf
<1>2. ASSUME NEW s \in Sessions
      PROVE  \A u \in Users : First(u) \notin CompletedXp(s) /\ Ten(u) \notin CompletedXp(s)
  BY DEF CompletedXp
<1>3. ASSUME NEW s \in Sessions, CommitApprove(s) \/ CommitApply(s)
      PROVE  MilestonesFollowRewards'
  <2> DEFINE x == tx[s].sub
             w == author[x]
             key == <<x, tx[s].kind>>
  <2>1. /\ w \in Users /\ key \notin ledger /\ ledger' = ledger \cup {key}
        /\ accepted' = [accepted EXCEPT ![w] = @ + 1]
        /\ RewardXp(x) \subseteq xp' /\ xp \subseteq xp'
        /\ xp' \subseteq xp \cup RewardXp(x) \cup CompletedXp(s)
    BY <1>3, PayForm DEF WriteReward, Unclaimed, Claimed
  <2>2. /\ First(w) \in RewardXp(x) <=> accepted[w] + 1 = 1
        /\ Ten(w) \in RewardXp(x) <=> accepted[w] + 1 = TenApprovals
        /\ \A u \in Users : u # w => First(u) \notin RewardXp(x) /\ Ten(u) \notin RewardXp(x)
    <3> HIDE DEF x
    <3>1. \A p : p \in RewardXp(x) <=>
              \/ p = <<"bounty_approved", x>>
              \/ accepted[w] + 1 = 1 /\ p = <<"bounty_first", w>>
              \/ accepted[w] + 1 = TenApprovals /\ p = <<"bounty_ten", w>>
      BY DEF RewardXp
    <3> HIDE DEF w
    <3> QED
      BY <3>1
  <2>3. \A u \in Users :
            /\ First(u) \in xp' <=> First(u) \in xp \/ First(u) \in RewardXp(x)
            /\ Ten(u) \in xp' <=> Ten(u) \in xp \/ Ten(u) \in RewardXp(x)
    BY <1>2, <2>1
  <2>4. ASSUME NEW u \in Users, u # w
        PROVE  /\ accepted'[u] = Cardinality(RowsOf(u)')
               /\ First(u) \in xp' <=> accepted'[u] >= 1
               /\ Ten(u) \in xp' <=> accepted'[u] >= TenApprovals
    <3>1. accepted'[u] = accepted[u]
      BY <1>b, <2>1, <2>4
    <3>2. RowsOf(u)' = RowsOf(u)
      BY <1>a, <2>1, <2>4 DEF RowsOf
    <3> QED
      BY <2>2, <2>3, <2>4, <3>1, <3>2 DEF MilestonesFollowRewards
  <2>5. ASSUME NEW u \in Users, u = w
        PROVE  /\ accepted'[u] = Cardinality(RowsOf(u)')
               /\ First(u) \in xp' <=> accepted'[u] >= 1
               /\ Ten(u) \in xp' <=> accepted'[u] >= TenApprovals
    <3>1. accepted'[u] = accepted[u] + 1 /\ accepted[u] \in Nat
      BY <1>b, <2>1, <2>5
    <3>2. RowsOf(u)' = RowsOf(u) \cup {key} /\ key \notin RowsOf(u)
      BY <1>a, <2>1, <2>5 DEF RowsOf
    <3>3. IsFiniteSet(RowsOf(u))
      BY LedgerFinite, FS_Subset DEF RowsOf, Shape
    <3>4. /\ accepted[u] = Cardinality(RowsOf(u))
          /\ First(u) \in xp <=> accepted[u] >= 1
          /\ Ten(u) \in xp <=> accepted[u] >= TenApprovals
      BY DEF MilestonesFollowRewards
    <3>5. /\ First(u) \in RewardXp(x) <=> accepted[u] + 1 = 1
          /\ Ten(u) \in RewardXp(x) <=> accepted[u] + 1 = TenApprovals
      BY <2>2, <2>5
    <3> HIDE DEF x, w, key, First, Ten
    <3>6. Cardinality(RowsOf(u)') = Cardinality(RowsOf(u)) + 1
      BY <3>2, <3>3, FS_AddElement
    <3>7. First(u) \in xp' <=> accepted'[u] >= 1
      BY <2>3, <3>1, <3>4, <3>5
    <3>8. Ten(u) \in xp' <=> accepted'[u] >= TenApprovals
      BY <1>b, <2>3, <3>1, <3>4, <3>5
    <3> QED
      BY <3>1, <3>4, <3>6, <3>7, <3>8
  <2>6. ASSUME NEW u \in Users
        PROVE  /\ accepted'[u] = Cardinality(RowsOf(u)')
               /\ First(u) \in xp' <=> accepted'[u] >= 1
               /\ Ten(u) \in xp' <=> accepted'[u] >= TenApprovals
    BY <2>4, <2>5
  <2> QED
    BY <2>6 DEF MilestonesFollowRewards
<1>4. ASSUME NEW s \in Sessions, CommitApplyOnly(s) PROVE MilestonesFollowRewards'
  <2>1. UNCHANGED <<ledger, accepted>> /\ xp' = xp \cup CompletedXp(s)
    BY <1>4 DEF CommitApplyOnly, money, stats
  <2> QED
    BY <1>1, <1>2, <2>1
<1>5. ASSUME NEW s \in Sessions, Quiet(s) \/ CommitReject(s) \/ CommitSubmit(s)
      PROVE  UNCHANGED <<ledger, accepted, xp>>
  BY <1>5 DEF Quiet, CommitReject, CommitSubmit, money, data
<1>6. ASSUME NEW s \in Sessions,
             \/ BeginApprove(s) \/ BeginApply(s) \/ BeginApplyOnly(s)
             \/ BeginReject(s) \/ BeginSubmit(s) \/ CountOpen(s)
      PROVE  UNCHANGED <<ledger, accepted, xp>>
  BY <1>6 DEF BeginApprove, BeginApply, BeginApplyOnly, BeginReject, BeginSubmit, CountOpen,
              Proceed, data
<1>7. ASSUME NEW s \in Sessions, NEW x \in Subs,
             OpenSubmit(s, x) \/ \E k \in Reviews : OpenReview(s, k, x)
      PROVE  UNCHANGED <<ledger, accepted, xp>>
  BY <1>7 DEF OpenSubmit, OpenReview, data
<1>8. Still \/ ResetMonth => UNCHANGED <<ledger, accepted, xp>>
  BY DEF Still, money, ResetMonth, stats
<1>9. UNCHANGED <<ledger, accepted, xp>> => MilestonesFollowRewards'
  BY <1>1
<1> QED
  BY <1>3, <1>4, <1>5, <1>6, <1>7, <1>8, <1>9, Steps

-----------------------------------------------------------------------------
(* The inductive invariant and what follows from it.                         *)

Inv ==
    /\ Shape
    /\ Unclaimed /\ MoneyFollowsLedger
    /\ RewardBacksApproval /\ LoadedIsRewarded
    /\ BudgetSeen
    /\ BrickRowAsked /\ CountIsFresh
    /\ OneReview /\ LoadedIsFresh /\ ClaimsSettled
    /\ CountersAreExact /\ MilestonesFollowRewards

(* The inductive invariant holds at first.                                   *)
LEMMA InvInit == Init => Inv
<1> SUFFICES ASSUME Init PROVE Inv
  OBVIOUS
<1>1. Shape
  BY ShapeInit
<1>2. \A s \in Sessions :
          /\ tx[s].step = "idle" /\ tx[s].kind = "none" /\ tx[s].sub = NoSub
          /\ tx[s].seen = "NONE"
  BY DEF Init, IdleTx
<1>3. Unclaimed /\ BrickRowAsked /\ CountIsFresh
  BY <1>2 DEF Unclaimed, Rewards, Writing, BrickRowAsked, CountIsFresh
<1>4. MoneyFollowsLedger
  <2>1. ASSUME NEW u \in Users PROVE RowsOf(u) \cap funded = {} /\ cash[u] = 0
    BY DEF Init, RowsOf
  <2>2. month = {} /\ spent = 0
    BY DEF Init
  <2> QED
    BY <2>1, <2>2, CashEmpty DEF MoneyFollowsLedger
<1>5. RewardBacksApproval /\ LoadedIsRewarded
  BY <1>2 DEF Init, RewardBacksApproval, LoadedIsRewarded
<1>6. BudgetSeen
  <2>1. spent = 0 /\ Budget \in Nat /\ \A s \in Sessions : ~Rewards(s)
    BY <1>2, RewardsAssumption DEF Init, Rewards, Writing
  <2> QED
    BY <2>1 DEF BudgetSeen
<1>8. OneReview /\ LoadedIsFresh /\ ClaimsSettled
  BY <1>2, NoSubAssumption
  DEF Init, OneReview, LoadedIsFresh, ClaimsSettled, Reviews, Rewarding
<1>9. CountersAreExact
  <2>1. TypeOK
    BY <1>1 DEF Shape
  <2>2. \A u, S : "NONE" \notin S => CountIn(u, sub, S) = 0
    <3>1. ASSUME NEW u, NEW S, "NONE" \notin S PROVE CountIn(u, sub, S) = 0
      <4>1. {x \in Subs : author[x] = u /\ sub[x] \in S} = {}
        BY <3>1 DEF Init
      <4> QED
        BY <4>1, FS_EmptySet DEF CountIn
    <3> QED
      BY <3>1
  <2>3. \A u \in Users : Exact(u, sub, pending[u], accepted[u], rejected[u])
    BY <2>2 DEF Init, Exact
  <2> QED
    BY <2>1, <2>3, CountersForm
<1>10. MilestonesFollowRewards
  <2>1. ASSUME NEW u \in Users PROVE RowsOf(u) = {} /\ accepted[u] = 0
    BY DEF Init, RowsOf
  <2>2. xp = {} /\ ~(0 >= 1) /\ ~(0 >= TenApprovals)
    BY MilestoneAssumption DEF Init
  <2> QED
    BY <2>1, <2>2, FS_EmptySet DEF MilestonesFollowRewards
<1> QED
  BY <1>1, <1>3, <1>4, <1>5, <1>6, <1>8, <1>9, <1>10 DEF Inv

(* Every step keeps the inductive invariant.                                 *)
LEMMA InvStep == Inv /\ [Next]_vars => Inv'
<1> SUFFICES ASSUME Inv, [Next]_vars PROVE Inv'
  OBVIOUS
<1>1. Shape' /\ Unclaimed' /\ MoneyFollowsLedger' /\ BudgetSeen' /\ BrickRowAsked'
  BY ShapeStep, UnclaimedStep, MoneyStep, BudgetStep, BrickRowStep DEF Inv
<1>2. RewardBacksApproval' /\ LoadedIsRewarded'
  BY BackedStep DEF Inv
<1>3. CountIsFresh'
  BY FreshStep DEF Inv
<1>4. OneReview' /\ LoadedIsFresh' /\ ClaimsSettled'
  BY ReviewStep DEF Inv
<1>5. CountersAreExact' /\ MilestonesFollowRewards'
  BY CountersStep, MilestonesStep DEF Inv
<1> QED
  BY <1>1, <1>2, <1>3, <1>4, <1>5 DEF Inv

(* What every transaction has read still holds when it writes it.            *)
THEOREM Invariance == Spec => []Inv
  BY InvInit, InvStep, PTL DEF Spec

(* Balances and the month's spending are the sums of the reward ledger, and  *)
(* an approved or applied submission has its reward and XP, whichever        *)
(* reviews overlap and wherever one of them dies.                            *)
THEOREM RewardsBacked == Spec => []RewardsAreBacked
<1>1. Inv => RewardsAreBacked
  BY DEF Inv, RewardsAreBacked
<1> QED
  BY <1>1, Invariance, PTL

(* The apply that closes the last open bounty of a brick awards its user the *)
(* completion, and no other apply awards it: applies of the last bounties do *)
(* not miss each other, whatever is closed, paused, reopened or inserted     *)
(* beside them before they count or after they commit.                       *)
THEOREM CompletionAwarded == Spec => CompletionFollowsCount
<1> DEFINE Award ==
        \A s \in Sessions, x \in Subs :
            LET b == BrickOf[InstOf[x]]
            IN  EndsApply(s, x) /\ ~tx[s].overtaken =>
                   /\ ClosesLast(b) => <<"brick_completed", b, author[x]>> \in xp'
                   /\ NewlyCompleted(b) # {} => ClosesLast(b)
<1>1. Inv /\ [Next]_vars => Award
  BY AwardStep DEF Inv
<1>2. CompletionFollowsCount <=> [][Award]_vars
  BY DEF CompletionFollowsCount
<1> HIDE DEF Award
<1>3. Spec => [][Next]_vars
  BY PTL DEF Spec
<1> QED
  BY <1>1, <1>2, <1>3, Invariance, PTL

(* The month's budget is exceeded only by rewards of two users: approvals of *)
(* one user's submissions see each other's spending.                         *)
THEOREM OverspendTakesTwo == Spec => []OverspendNeedsTwoUsers
<1>1. Inv => OverspendNeedsTwoUsers
  <2>1. SUFFICES ASSUME Inv, spent > Budget PROVE \E a, b \in month : author[a[1]] # author[b[1]]
    BY DEF OverspendNeedsTwoUsers
  <2>2. spent \in Nat /\ Budget \in Nat
    BY <2>1, RewardsAssumption DEF Inv, Shape, TypeOK
  <2>3. ~(spent <= Budget)
    BY <2>1, <2>2
  <2> QED
    BY <2>1, <2>3 DEF Inv, BudgetSeen
<1> QED
  BY <1>1, Invariance, PTL

(* A submission no two reviews of which overlapped is rewarded at most once, *)
(* and never if it ends rejected.                                            *)
THEOREM OnceSettled == Spec => []SettledOnce
<1>1. Inv => SettledOnce
  <2>1. SUFFICES ASSUME Inv, NEW x \in Subs \ contested
                 PROVE  LET claims == {k \in Rewarding : <<x, k>> \in ledger}
                        IN  /\ Cardinality(claims) <= 1
                            /\ sub[x] = "REJECTED" => claims = {}
    BY DEF SettledOnce
  <2> DEFINE claims == {k \in Rewarding : <<x, k>> \in ledger}
  <2>2. /\ \A k, l \in claims : k = l
        /\ sub[x] = "REJECTED" => claims = {}
    BY <2>1 DEF Inv, ClaimsSettled
  <2>3. claims = {} \/ \E k : claims = {k}
    BY <2>2
  <2> HIDE DEF claims
  <2>4. CASE claims = {}
    <3>1. Cardinality(claims) = 0
      BY <2>4, FS_EmptySet
    <3> QED
      BY <2>2, <3>1 DEF claims
  <2>5. CASE \E k : claims = {k}
    <3>1. Cardinality(claims) = 1
      BY <2>5, FS_Singleton
    <3> QED
      BY <2>2, <3>1 DEF claims
  <2> QED
    BY <2>3, <2>4, <2>5
<1> QED
  BY <1>1, Invariance, PTL

(* The statistics row agrees with the submissions, the rewards paid and the  *)
(* milestones given, however reviews and submissions interleave.             *)
THEOREM StatisticsExact == Spec => []StatisticsAreExact
<1>1. Inv => StatisticsAreExact
  BY DEF Inv, StatisticsAreExact
<1> QED
  BY <1>1, Invariance, PTL
=============================================================================
