------------------------ MODULE PayoutLedger_proofs ------------------------
(***************************************************************************)
(* Proofs about PayoutLedger for every set of users, payouts, sessions and *)
(* amounts.                                                                *)
(*                                                                         *)
(* The inductive invariant Inv adds to the invariants that are checked:    *)
(*   TxShape     what a transaction's local variables hold at each step;   *)
(*   RowShape    a payout row that exists has a user;                      *)
(*   OneHolder   no two sessions hold the same advisory lock;              *)
(*   StillFresh  what a transaction decided on is still so when it writes: *)
(*               for admin operations because of the payout lock, for a    *)
(*               request because everybody else can only make more cash    *)
(*               available.                                                *)
(***************************************************************************)
EXTENDS PayoutRefinement, SharedLemmas

TxShape ==
    \A s \in Sessions :
        /\ tx[s].step = "idle" => tx[s] = IdleTx
        /\ tx[s].step # "idle" => tx[s].kind # "none"
        /\ tx[s].step = "opened" => tx[s].kind \in AdminKinds
        /\ tx[s].kind = "request" => tx[s].user \in Users /\ tx[s].payout = NoPayout
        /\ tx[s].kind \in AdminKinds =>
               /\ tx[s].user = NoUser
               /\ tx[s].payout \in Payouts
               /\ status[tx[s].payout] # "NONE"

RowShape == \A p \in Payouts : status[p] # "NONE" => owner[p] \in Users

OneHolder ==
    \A s, t \in Sessions :
        Holding(s) /\ Holding(t) /\ s # t =>
            /\ tx[s].user = tx[t].user => tx[s].user = NoUser
            /\ tx[s].payout = tx[t].payout => tx[s].payout = NoPayout

StillFresh ==
    \A s \in Sessions : tx[s].step = "ready" =>
        /\ tx[s].kind \in AdminKinds =>
               MayProceed(tx[s].kind, status[tx[s].payout])
        /\ tx[s].kind = "request" =>
               tx[s].amount <= cash[tx[s].user] - reserved[tx[s].user]

Shape == TypeOK /\ TxShape /\ RowShape /\ OneHolder

-----------------------------------------------------------------------------
(* Sums.                                                                     *)

(* Cents and Total are sums in the sense of SharedLemmas.                 *)
LEMMA TotalIsSum ==
    ASSUME NEW P, NEW amt
    PROVE  Total(P, amt) = SumOver(P, amt)
  BY DEF Total, Cents, SumOver, Units

(* A finite set of payouts has a natural number of cents.                    *)
LEMMA TotalFinite ==
    ASSUME NEW P, IsFiniteSet(P), NEW amt, \A p \in P : amt[p] \in Nat
    PROVE  Total(P, amt) \in Nat
  BY SumFinite, TotalIsSum

(* One more payout adds its amount.                                          *)
LEMMA TotalAdd ==
    ASSUME NEW P, IsFiniteSet(P), NEW p, p \notin P, NEW amt,
           \A q \in P \cup {p} : amt[q] \in Nat
    PROVE  Total(P \cup {p}, amt) = Total(P, amt) + amt[p]
  BY SumAdd, TotalIsSum

(* Only the amounts of the payouts summed count.                             *)
LEMMA TotalSame ==
    ASSUME NEW P, NEW amt, NEW amt2, \A p \in P : amt[p] = amt2[p]
    PROVE  Total(P, amt) = Total(P, amt2)
  BY SumSame, TotalIsSum

(* No payouts, no money.                                                     *)
LEMMA TotalEmpty == ASSUME NEW amt PROVE Total({}, amt) = 0
  BY SumEmpty, TotalIsSum

-----------------------------------------------------------------------------
(* Types, the shape of a transaction and mutual exclusion.                   *)

(* The shape holds at first.                                                 *)
LEMMA ShapeInit == Init => Shape
  BY NoValueAssumption, BoundsAssumption
  DEF Init, Shape, TypeOK, TxShape, RowShape, OneHolder, Holding, IdleTx, Tx,
      Kinds, AdminKinds, Steps, Statuses

(* Every step keeps the shape.                                               *)
LEMMA ShapeStep == Shape /\ [Next]_vars => Shape'
<1> SUFFICES ASSUME Shape, [Next]_vars PROVE Shape'
  OBVIOUS
<1> USE AmountsAssumption, NoValueAssumption, BoundsAssumption
    DEF Shape, TypeOK, TxShape, RowShape, OneHolder, Holding, IdleTx, Tx,
        Kinds, AdminKinds, Steps, Statuses
<1>1. ASSUME NEW u \in Users, NEW c \in Amounts, Credit(u, c) PROVE Shape'
  BY <1>1 DEF Credit
<1>2. ASSUME NEW s \in Sessions, NEW u \in Users, NEW a \in Amounts, LockUser(s, u, a)
      PROVE  Shape'
  <2>1. TypeOK'
    BY <1>2 DEF LockUser, UserLockFree
  <2>2. TxShape'
    BY <1>2 DEF LockUser, UserLockFree
  <2>3. RowShape'
    BY <1>2 DEF LockUser, UserLockFree
  <2>4. OneHolder'
    BY <1>2 DEF LockUser, UserLockFree
  <2> QED
    BY <2>1, <2>2, <2>3, <2>4
<1>3. ASSUME NEW s \in Sessions, ReadBalance(s) PROVE Shape'
  <2>1. TypeOK'
    BY <1>3 DEF ReadBalance, EndTx
  <2>2. TxShape'
    BY <1>3 DEF ReadBalance, EndTx
  <2>3. RowShape'
    BY <1>3 DEF ReadBalance, EndTx
  <2>4. OneHolder'
    BY <1>3 DEF ReadBalance, EndTx
  <2> QED
    BY <2>1, <2>2, <2>3, <2>4
<1>4. ASSUME NEW s \in Sessions, NEW p \in Payouts, CommitRequest(s, p) PROVE Shape'
  BY <1>4 DEF CommitRequest, EndTx
<1>5. ASSUME NEW s \in Sessions, NEW k \in AdminKinds, NEW p \in Payouts, Open(s, k, p)
      PROVE  Shape'
  <2>1. TypeOK'
    BY <1>5 DEF Open
  <2>2. TxShape'
    BY <1>5 DEF Open
  <2>3. RowShape'
    BY <1>5 DEF Open
  <2>4. OneHolder'
    BY <1>5 DEF Open
  <2> QED
    BY <2>1, <2>2, <2>3, <2>4
<1>6. ASSUME NEW s \in Sessions, LockPayout(s) PROVE Shape'
  BY <1>6 DEF LockPayout, PayoutLockFree
<1>7. ASSUME NEW s \in Sessions, Reload(s) PROVE Shape'
  BY <1>7 DEF Reload, EndTx
<1>8. ASSUME NEW s \in Sessions, CommitApprove(s) PROVE Shape'
  BY <1>8 DEF CommitApprove, EndTx
<1>9. ASSUME NEW s \in Sessions, CommitMarkPaid(s) PROVE Shape'
  BY <1>9 DEF CommitMarkPaid, EndTx
<1>10. ASSUME NEW s \in Sessions, CommitReject(s) PROVE Shape'
  BY <1>10 DEF CommitReject, EndTx
<1>11. ASSUME NEW s \in Sessions, Crash(s) PROVE Shape'
  BY <1>11 DEF Crash, EndTx
<1>12. CASE UNCHANGED vars
  <2>1. TypeOK' /\ RowShape'
    BY <1>12 DEF vars
  <2>2. TxShape'
    BY <1>12 DEF vars
  <2>3. OneHolder'
    BY <1>12 DEF vars
  <2> QED
    BY <2>1, <2>2, <2>3
<1> HIDE DEF Shape, TypeOK, TxShape, RowShape, OneHolder, Holding, IdleTx, Tx,
             Kinds, AdminKinds, Steps, Statuses
<1> QED
  BY <1>1, <1>2, <1>3, <1>4, <1>5, <1>6, <1>7, <1>8, <1>9, <1>10, <1>11, <1>12 DEF Next

(* Every variable keeps its type, and no two sessions hold one lock.         *)
THEOREM TypeCorrect == Spec => []TypeOK
<1>1. Spec => []Shape
  BY ShapeInit, ShapeStep, PTL DEF Spec
<1>2. Shape => TypeOK
  BY DEF Shape
<1> QED
  BY <1>1, <1>2, PTL

-----------------------------------------------------------------------------
(* A decision is still right when it is acted on.                            *)

(* Nobody but the holder of its lock changes a payout, and nobody but the    *)
(* holder of the user's lock makes less cash available: a payment takes the  *)
(* same amount from both columns.                                            *)
LEMMA FreshStep == Shape /\ StillFresh /\ [Next]_vars => StillFresh'
<1> SUFFICES ASSUME Shape, StillFresh, [Next]_vars PROVE StillFresh'
  OBVIOUS
<1> USE AmountsAssumption, NoValueAssumption, BoundsAssumption
    DEF Shape, TypeOK, TxShape, RowShape, OneHolder, Holding, IdleTx, Tx,
        Kinds, AdminKinds, Steps, Statuses, StillFresh, MayProceed
<1>1. ASSUME NEW u \in Users, NEW c \in Amounts, Credit(u, c) PROVE StillFresh'
  BY <1>1 DEF Credit
<1>2. ASSUME NEW s \in Sessions, NEW u \in Users, NEW a \in Amounts, LockUser(s, u, a)
      PROVE  StillFresh'
  BY <1>2 DEF LockUser
<1>3. ASSUME NEW s \in Sessions, ReadBalance(s) PROVE StillFresh'
  BY <1>3 DEF ReadBalance, EndTx
<1>4. ASSUME NEW s \in Sessions, NEW p \in Payouts, CommitRequest(s, p) PROVE StillFresh'
  BY <1>4 DEF CommitRequest, EndTx
<1>5. ASSUME NEW s \in Sessions, NEW k \in AdminKinds, NEW p \in Payouts, Open(s, k, p)
      PROVE  StillFresh'
  BY <1>5 DEF Open
<1>6. ASSUME NEW s \in Sessions, LockPayout(s) PROVE StillFresh'
  BY <1>6 DEF LockPayout
<1>7. ASSUME NEW s \in Sessions, Reload(s) PROVE StillFresh'
  BY <1>7 DEF Reload, EndTx
<1>8. ASSUME NEW s \in Sessions, CommitApprove(s) PROVE StillFresh'
  BY <1>8 DEF CommitApprove, EndTx
<1>9. ASSUME NEW s \in Sessions, CommitMarkPaid(s) PROVE StillFresh'
  BY <1>9 DEF CommitMarkPaid, EndTx
<1>10. ASSUME NEW s \in Sessions, CommitReject(s) PROVE StillFresh'
  BY <1>10 DEF CommitReject, EndTx
<1>11. ASSUME NEW s \in Sessions, Crash(s) PROVE StillFresh'
  BY <1>11 DEF Crash, EndTx
<1>12. CASE UNCHANGED vars
  BY <1>12 DEF vars
<1> HIDE DEF Shape, TypeOK, TxShape, RowShape, OneHolder, Holding, IdleTx, Tx,
             Kinds, AdminKinds, Steps, Statuses, StillFresh, MayProceed
<1> QED
  BY <1>1, <1>2, <1>3, <1>4, <1>5, <1>6, <1>7, <1>8, <1>9, <1>10, <1>11, <1>12 DEF Next

-----------------------------------------------------------------------------
(* The money.                                                                *)

Books == ReservedBacksOpen /\ AvailableNonNegative /\ CashConserved

(* The payouts of one user are finitely many, with natural amounts.          *)
LEMMA Finite ==
    ASSUME TypeOK, NEW u \in Users
    PROVE  /\ IsFiniteSet(OpenOf(u)) /\ IsFiniteSet(PaidTo(u))
           /\ \A p \in Payouts : amount[p] \in Nat
           /\ Total(OpenOf(u), amount) \in Nat
<1>1. OpenOf(u) \subseteq Payouts /\ PaidTo(u) \subseteq Payouts
  BY DEF OpenOf, PaidTo
<1>2. IsFiniteSet(OpenOf(u)) /\ IsFiniteSet(PaidTo(u))
  BY <1>1, PayoutsAssumption, FS_Subset
<1>3. \A p \in Payouts : amount[p] \in Nat
  BY DEF TypeOK
<1> QED
  BY <1>1, <1>2, <1>3, TotalFinite

(* An open payout is covered by its user's reserve.                          *)
LEMMA OpenIsCovered ==
    ASSUME TypeOK, ReservedBacksOpen, NEW u \in Users, NEW p \in OpenOf(u)
    PROVE  amount[p] <= reserved[u]
<1> DEFINE Rest == OpenOf(u) \ {p}
<1>1. IsFiniteSet(Rest) /\ p \notin Rest /\ OpenOf(u) = Rest \cup {p}
  BY Finite, FS_Subset
<1>2. \A q \in Rest \cup {p} : amount[q] \in Nat
  BY <1>1, Finite DEF OpenOf
<1>3. Total(OpenOf(u), amount) = Total(Rest, amount) + amount[p]
  BY <1>1, <1>2, TotalAdd
<1>4. Total(Rest, amount) \in Nat /\ amount[p] \in Nat
  BY <1>1, <1>2, TotalFinite
<1> QED
  BY <1>3, <1>4 DEF ReservedBacksOpen

(* Steps that touch no payout row leave every sum as it is.                  *)
LEMMA SameRows ==
    ASSUME UNCHANGED requests, NEW u \in Users
    PROVE  /\ Total(OpenOf(u), amount)' = Total(OpenOf(u), amount)
           /\ Total(PaidTo(u), amount)' = Total(PaidTo(u), amount)
  BY DEF requests, OpenOf, PaidTo, Total, Cents

(* A request that commits keeps the books.                                   *)
LEMMA BooksRequest ==
    ASSUME Shape, StillFresh, Books,
           NEW s \in Sessions, NEW p \in Payouts, CommitRequest(s, p)
    PROVE  Books'
<1> DEFINE w == tx[s].user
<1>1. w \in Users /\ tx[s].amount \in Nat /\ tx[s].amount <= cash[w] - reserved[w]
  BY DEF CommitRequest, Shape, TypeOK, TxShape, StillFresh, Tx
<1>2. ASSUME NEW u \in Users
      PROVE  /\ Total(OpenOf(u), amount)' =
                   Total(OpenOf(u), amount) + (IF u = w THEN tx[s].amount ELSE 0)
             /\ Total(PaidTo(u), amount)' = Total(PaidTo(u), amount)
  <2>1. PaidTo(u)' = PaidTo(u) /\ p \notin OpenOf(u) /\ p \notin PaidTo(u)
    BY DEF CommitRequest, Shape, TypeOK, PaidTo, OpenOf
  <2>2. OpenOf(u)' = IF u = w THEN OpenOf(u) \cup {p} ELSE OpenOf(u)
    BY DEF CommitRequest, Shape, TypeOK, OpenOf
  <2>3. amount'[p] = tx[s].amount /\ \A q \in Payouts \ {p} : amount'[q] = amount[q]
    BY DEF CommitRequest, Shape, TypeOK
  <2>4. Total(OpenOf(u), amount') = Total(OpenOf(u), amount)
    BY <2>1, <2>3, TotalSame DEF OpenOf
  <2>5. Total(PaidTo(u), amount') = Total(PaidTo(u), amount)
    BY <2>1, <2>3, TotalSame DEF PaidTo
  <2>6. Total(OpenOf(u) \cup {p}, amount') = Total(OpenOf(u), amount') + amount'[p]
    <3>1. IsFiniteSet(OpenOf(u)) /\ \A q \in Payouts : amount[q] \in Nat
      BY Finite DEF Shape
    <3>2. \A q \in OpenOf(u) \cup {p} : amount'[q] \in Nat
      BY <3>1, <2>3, <1>1 DEF OpenOf
    <3> QED
      BY <3>1, <3>2, <2>1, TotalAdd
  <2>7. Total(OpenOf(u), amount) \in Nat
    BY Finite DEF Shape
  <2> QED
    BY <2>1, <2>2, <2>3, <2>4, <2>5, <2>6, <2>7
<1>3. /\ cash' = cash /\ earned' = earned
      /\ reserved' = [reserved EXCEPT ![w] = @ + tx[s].amount]
  BY DEF CommitRequest
<1>4. /\ cash \in [Users -> Int] /\ reserved \in [Users -> Int]
      /\ \A u \in Users : Total(OpenOf(u), amount) \in Nat
  BY Finite DEF Shape, TypeOK
<1> HIDE DEF w
<1>5. ReservedBacksOpen'
  BY <1>1, <1>2, <1>3, <1>4 DEF Books, ReservedBacksOpen
<1>6. AvailableNonNegative'
  BY <1>1, <1>3, <1>4 DEF Books, AvailableNonNegative
<1>7. CashConserved'
  BY <1>2, <1>3 DEF Books, CashConserved
<1> QED
  BY <1>5, <1>6, <1>7 DEF Books

(* A payment that commits keeps the books.                                   *)
LEMMA BooksMarkPaid ==
    ASSUME Shape, StillFresh, Books, NEW s \in Sessions, CommitMarkPaid(s)
    PROVE  Books'
<1> DEFINE p == tx[s].payout
           w == owner[p]
<1>1. p \in Payouts /\ w \in Users /\ status[p] = "APPROVED" /\ amount[p] \in Nat
  BY DEF CommitMarkPaid, Shape, TypeOK, TxShape, RowShape, StillFresh, MayProceed, AdminKinds
<1>2. /\ status' = [status EXCEPT ![p] = "PAID"]
      /\ cash' = [cash EXCEPT ![w] = @ - amount[p]]
      /\ reserved' = [reserved EXCEPT ![w] = @ - amount[p]]
      /\ owner' = owner /\ amount' = amount /\ earned' = earned
  BY <1>1 DEF CommitMarkPaid
<1>3. ASSUME NEW u \in Users
      PROVE  /\ Total(OpenOf(u), amount) =
                   Total(OpenOf(u), amount)' + (IF u = w THEN amount[p] ELSE 0)
             /\ Total(PaidTo(u), amount)' =
                   Total(PaidTo(u), amount) + (IF u = w THEN amount[p] ELSE 0)
             /\ Total(OpenOf(u), amount)' \in Nat
             /\ Total(PaidTo(u), amount) \in Nat
  <2>1. /\ IsFiniteSet(OpenOf(u)) /\ IsFiniteSet(PaidTo(u))
        /\ \A q \in Payouts : amount[q] \in Nat
    BY Finite DEF Shape
  <2>2. OpenOf(u)' = OpenOf(u) \ {p} /\ PaidTo(u)' = PaidTo(u) \cup (IF u = w THEN {p} ELSE {})
    BY <1>1, <1>2 DEF Shape, TypeOK, OpenOf, PaidTo
  <2>3. p \notin PaidTo(u) /\ (p \in OpenOf(u) <=> u = w)
    BY <1>1 DEF OpenOf, PaidTo
  <2>4. OpenOf(u) \subseteq Payouts /\ PaidTo(u) \subseteq Payouts
    BY DEF OpenOf, PaidTo
  <2>5. IsFiniteSet(OpenOf(u)')
    BY <2>1, <2>2, FS_RemoveElement
  <2>6. Total(OpenOf(u)', amount) \in Nat /\ Total(PaidTo(u), amount) \in Nat
    BY <2>1, <2>2, <2>4, <2>5, TotalFinite
  <2>7. CASE u = w
    <3>1. OpenOf(u) = OpenOf(u)' \cup {p} /\ p \notin OpenOf(u)'
      BY <2>2, <2>3, <2>7
    <3>2. Total(OpenOf(u)' \cup {p}, amount) = Total(OpenOf(u)', amount) + amount[p]
      BY <2>1, <2>2, <2>4, <2>5, <3>1, <1>1, TotalAdd
    <3>3. Total(PaidTo(u) \cup {p}, amount) = Total(PaidTo(u), amount) + amount[p]
      BY <2>1, <2>3, <2>4, <1>1, TotalAdd
    <3> QED
      BY <1>2, <2>2, <2>6, <2>7, <3>1, <3>2, <3>3
  <2>8. CASE u # w
    <3>1. OpenOf(u)' = OpenOf(u) /\ PaidTo(u)' = PaidTo(u)
      BY <2>2, <2>3, <2>8
    <3> QED
      BY <1>2, <2>6, <2>8, <3>1
  <2> QED
    BY <2>7, <2>8
<1>4. cash \in [Users -> Int] /\ reserved \in [Users -> Int] /\ earned \in [Users -> Nat]
  BY DEF Shape, TypeOK
<1> HIDE DEF w, p
<1>5. ReservedBacksOpen'
  BY <1>1, <1>2, <1>3, <1>4 DEF Books, ReservedBacksOpen
<1>6. AvailableNonNegative'
  BY <1>1, <1>2, <1>4 DEF Books, AvailableNonNegative
<1>7. CashConserved'
  BY <1>1, <1>2, <1>3, <1>4 DEF Books, CashConserved
<1> QED
  BY <1>5, <1>6, <1>7 DEF Books

(* A rejection that commits keeps the books.                                 *)
LEMMA BooksReject ==
    ASSUME Shape, StillFresh, Books, NEW s \in Sessions, CommitReject(s)
    PROVE  Books'
<1> DEFINE p == tx[s].payout
           w == owner[p]
<1>1. /\ p \in Payouts /\ w \in Users /\ amount[p] \in Nat
      /\ status[p] \in {"REQUESTED", "APPROVED"}
  BY DEF CommitReject, Shape, TypeOK, TxShape, RowShape, StillFresh, MayProceed, AdminKinds
<1>2. /\ status' = [status EXCEPT ![p] = "REJECTED"]
      /\ reserved' = [reserved EXCEPT ![w] = @ - amount[p]]
      /\ owner' = owner /\ amount' = amount /\ cash' = cash /\ earned' = earned
  BY <1>1 DEF CommitReject
<1>3. ASSUME NEW u \in Users
      PROVE  /\ Total(OpenOf(u), amount) =
                   Total(OpenOf(u), amount)' + (IF u = w THEN amount[p] ELSE 0)
             /\ Total(PaidTo(u), amount)' = Total(PaidTo(u), amount)
             /\ Total(OpenOf(u), amount)' \in Nat
  <2>1. IsFiniteSet(OpenOf(u)) /\ \A q \in Payouts : amount[q] \in Nat
    BY Finite DEF Shape
  <2>2. OpenOf(u)' = OpenOf(u) \ {p} /\ PaidTo(u)' = PaidTo(u)
    BY <1>1, <1>2 DEF Shape, TypeOK, OpenOf, PaidTo
  <2>3. p \in OpenOf(u) <=> u = w
    BY <1>1 DEF OpenOf
  <2>4. OpenOf(u) \subseteq Payouts
    BY DEF OpenOf
  <2>5. IsFiniteSet(OpenOf(u)')
    BY <2>1, <2>2, FS_RemoveElement
  <2>6. Total(OpenOf(u)', amount) \in Nat
    BY <2>1, <2>2, <2>4, <2>5, TotalFinite
  <2>7. CASE u = w
    <3>1. OpenOf(u) = OpenOf(u)' \cup {p} /\ p \notin OpenOf(u)'
      BY <2>2, <2>3, <2>7
    <3>2. Total(OpenOf(u)' \cup {p}, amount) = Total(OpenOf(u)', amount) + amount[p]
      BY <2>1, <2>2, <2>4, <2>5, <3>1, <1>1, TotalAdd
    <3> QED
      BY <1>2, <2>2, <2>6, <2>7, <3>1, <3>2
  <2>8. CASE u # w
    <3>1. OpenOf(u)' = OpenOf(u)
      BY <2>2, <2>3, <2>8
    <3>2. Total(OpenOf(u), amount) = Total(OpenOf(u), amount)'
      BY <1>2, <3>1
    <3>3. Total(PaidTo(u), amount)' = Total(PaidTo(u), amount)
      BY <1>2, <2>2
    <3> QED
      BY <1>2, <2>6, <2>8, <3>2, <3>3
  <2> QED
    BY <2>7, <2>8
<1>4. cash \in [Users -> Int] /\ reserved \in [Users -> Int]
  BY DEF Shape, TypeOK
<1> HIDE DEF w, p
<1>5. ReservedBacksOpen'
  BY <1>1, <1>2, <1>3, <1>4 DEF Books, ReservedBacksOpen
<1>6. AvailableNonNegative'
  BY <1>1, <1>2, <1>4 DEF Books, AvailableNonNegative
<1>7. CashConserved'
  BY <1>2, <1>3 DEF Books, CashConserved
<1> QED
  BY <1>5, <1>6, <1>7 DEF Books

(* Every step keeps the books.                                               *)
LEMMA BooksStep == Shape /\ StillFresh /\ Books /\ [Next]_vars => Books'
<1> SUFFICES ASSUME Shape, StillFresh, Books, [Next]_vars PROVE Books'
  OBVIOUS
<1>1. ASSUME UNCHANGED <<balances, requests>> PROVE Books'
  BY <1>1, SameRows
  DEF balances, requests, Books, ReservedBacksOpen, AvailableNonNegative, CashConserved
<1>2. ASSUME NEW u \in Users, NEW c \in Amounts, Credit(u, c) PROVE Books'
  <2>1. /\ cash' = [cash EXCEPT ![u] = @ + c] /\ earned' = [earned EXCEPT ![u] = @ + c]
        /\ UNCHANGED reserved /\ UNCHANGED requests
    BY <1>2 DEF Credit, requests
  <2>2. /\ cash \in [Users -> Int] /\ reserved \in [Users -> Int]
        /\ earned \in [Users -> Nat] /\ c \in Nat
    BY AmountsAssumption DEF Shape, TypeOK
  <2>3. ReservedBacksOpen'
    BY <2>1, SameRows DEF Books, ReservedBacksOpen
  <2>4. AvailableNonNegative'
    BY <2>1, <2>2 DEF Books, AvailableNonNegative
  <2>5. ASSUME NEW v \in Users
        PROVE  cash'[v] + Total(PaidTo(v), amount)' = earned'[v]
    <3>1. Total(PaidTo(v), amount)' = Total(PaidTo(v), amount)
      BY <2>1, SameRows
    <3>2. Total(PaidTo(v), amount) = earned[v] - cash[v]
      <4>1. IsFiniteSet(PaidTo(v)) /\ \A q \in PaidTo(v) : amount[q] \in Nat
        BY Finite DEF Shape, PaidTo
      <4>2. Total(PaidTo(v), amount) \in Nat
        BY <4>1, TotalFinite
      <4> QED
        BY <4>2, <2>2 DEF Books, CashConserved
    <3> QED
      BY <2>1, <2>2, <3>1, <3>2
  <2> QED
    BY <2>3, <2>4, <2>5 DEF Books, CashConserved
<1>3. ASSUME NEW s \in Sessions, CommitApprove(s) PROVE Books'
  <2>1. UNCHANGED <<balances, owner, amount>>
    BY <1>3 DEF CommitApprove, balances
  <2>2. ASSUME NEW u \in Users PROVE OpenOf(u)' = OpenOf(u) /\ PaidTo(u)' = PaidTo(u)
    BY <1>3 DEF CommitApprove, OpenOf, PaidTo, Shape, TypeOK
  <2> QED
    BY <2>1, <2>2
    DEF balances, Books, ReservedBacksOpen, AvailableNonNegative, CashConserved
<1>4. CASE \E s \in Sessions : \E p \in Payouts : CommitRequest(s, p)
  BY <1>4, BooksRequest
<1>5. CASE \E s \in Sessions : CommitMarkPaid(s)
  BY <1>5, BooksMarkPaid
<1>6. CASE \E s \in Sessions : CommitReject(s)
  BY <1>6, BooksReject
<1>7. CASE \/ \E s \in Sessions, u \in Users, a \in Amounts : LockUser(s, u, a)
           \/ \E s \in Sessions : ReadBalance(s)
           \/ \E s \in Sessions, k \in AdminKinds, p \in Payouts : Open(s, k, p)
           \/ \E s \in Sessions : LockPayout(s)
           \/ \E s \in Sessions : Reload(s)
           \/ \E s \in Sessions : Crash(s)
           \/ UNCHANGED vars
  <2>1. UNCHANGED <<balances, requests>>
    BY <1>7 DEF LockUser, ReadBalance, Open, LockPayout, Reload, Crash, vars, balances, requests
  <2> QED
    BY <2>1, <1>1
<1> QED
  BY <1>2, <1>3, <1>4, <1>5, <1>6, <1>7 DEF Next

-----------------------------------------------------------------------------
(* The theorems.                                                             *)

Inv == Shape /\ StillFresh /\ Books

(* The inductive invariant holds at first.                                   *)
LEMMA InvInit == Init => Inv
<1> SUFFICES ASSUME Init PROVE Inv
  OBVIOUS
<1>1. Shape
  BY ShapeInit
<1>2. StillFresh
  BY DEF Init, StillFresh, IdleTx
<1>3. ASSUME NEW u \in Users PROVE OpenOf(u) = {} /\ PaidTo(u) = {}
  BY DEF Init, OpenOf, PaidTo
<1>4. Books
  BY <1>3, TotalEmpty
  DEF Init, Books, ReservedBacksOpen, AvailableNonNegative, CashConserved
<1> QED
  BY <1>1, <1>2, <1>4 DEF Inv

(* The inductive invariant: every reachable state has the shape of            *)
(* transactions and rows, what a lock holder read is still true, and the     *)
(* books balance.                                                            *)
THEOREM Invariance == Spec => []Inv
<1>1. Inv /\ [Next]_vars => Inv'
  BY ShapeStep, FreshStep, BooksStep DEF Inv
<1> QED
  BY InvInit, <1>1, PTL DEF Spec

(* The reserve of every user is the sum of the user's open requests,         *)
(* available cash is never negative, and cash is conserved.                  *)
THEOREM MoneyCorrect ==
    Spec => [](ReservedBacksOpen /\ AvailableNonNegative /\ CashConserved)
<1>1. Inv => ReservedBacksOpen /\ AvailableNonNegative /\ CashConserved
  BY DEF Inv, Books
<1> QED
  BY Invariance, <1>1, PTL

(* No payment an admin approved fails on a CHECK constraint of               *)
(* user_balances: both columns hold the amount when it is subtracted.        *)
THEOREM PaymentsCovered == Spec => []PaymentIsCovered
<1>1. ASSUME Inv, NEW s \in Sessions, tx[s].kind = "markPaid", tx[s].step = "ready"
      PROVE  LET p == tx[s].payout
             IN  amount[p] <= reserved[owner[p]] /\ amount[p] <= cash[owner[p]]
  <2> DEFINE p == tx[s].payout
             w == owner[p]
  <2>1. p \in Payouts /\ w \in Users /\ status[p] = "APPROVED"
    BY <1>1 DEF Inv, Shape, TypeOK, TxShape, RowShape, StillFresh, MayProceed, AdminKinds
  <2>2. p \in OpenOf(w)
    BY <2>1 DEF OpenOf
  <2>3. amount[p] <= reserved[w]
    BY <1>1, <2>1, <2>2, OpenIsCovered DEF Inv, Shape, Books
  <2>4. /\ reserved[w] <= cash[w] /\ amount[p] \in Int
        /\ reserved[w] \in Int /\ cash[w] \in Int
    BY <1>1, <2>1 DEF Inv, Shape, TypeOK, Books, AvailableNonNegative
  <2> HIDE DEF p, w
  <2>5. amount[p] <= cash[w]
    BY <2>3, <2>4
  <2> QED
    BY <2>3, <2>5 DEF p, w
<1>2. Inv => PaymentIsCovered
  BY <1>1 DEF PaymentIsCovered
<1> QED
  BY Invariance, <1>2, PTL

(* The books of every user balance in every reachable state, and a payment   *)
(* about to be written is covered.                                           *)
THEOREM BooksBalanced == Spec => []BooksBalance
<1>1. /\ ReservedBacksOpen /\ AvailableNonNegative /\ CashConserved
      /\ PaymentIsCovered
      => BooksBalance
  BY DEF BooksBalance
<1> QED
  BY MoneyCorrect, PaymentsCovered, <1>1, PTL

(* The audit log tells every request's history; in particular nothing is     *)
(* paid that was not approved.                                               *)
THEOREM AuditCorrect == Spec => []AuditTellsStatus
<1>1. Init => AuditTellsStatus
  BY DEF Init, AuditTellsStatus
<1>2. ASSUME Inv, AuditTellsStatus, [Next]_vars PROVE AuditTellsStatus'
  <2> USE <1>2 DEF Inv, Shape, TypeOK, TxShape, StillFresh, MayProceed, AdminKinds, Statuses,
                   AuditTellsStatus
  <2>1. ASSUME UNCHANGED <<status, audit>> PROVE AuditTellsStatus'
    BY <2>1
  <2>2. ASSUME NEW s \in Sessions, NEW p \in Payouts, CommitRequest(s, p)
        PROVE  AuditTellsStatus'
    BY <2>2 DEF CommitRequest
  <2>3. ASSUME NEW s \in Sessions, CommitApprove(s) PROVE AuditTellsStatus'
    BY <2>3 DEF CommitApprove
  <2>4. ASSUME NEW s \in Sessions, CommitMarkPaid(s) PROVE AuditTellsStatus'
    <3> DEFINE p == tx[s].payout
    <3>1. p \in Payouts /\ status[p] = "APPROVED"
      BY <2>4 DEF CommitMarkPaid
    <3>2. /\ status' = [status EXCEPT ![p] = "PAID"]
          /\ audit' = audit \cup {<<"PAID", p>>}
      BY <2>4, <3>1 DEF CommitMarkPaid
    <3> HIDE DEF p
    <3> QED
      BY <3>1, <3>2
  <2>5. ASSUME NEW s \in Sessions, CommitReject(s) PROVE AuditTellsStatus'
    <3> DEFINE p == tx[s].payout
    <3>1. p \in Payouts /\ status[p] \in {"REQUESTED", "APPROVED"}
      BY <2>5 DEF CommitReject
    <3>2. /\ status' = [status EXCEPT ![p] = "REJECTED"]
          /\ audit' = audit \cup {<<"REJECTED", p>>}
      BY <2>5, <3>1 DEF CommitReject
    <3> HIDE DEF p
    <3> QED
      BY <3>1, <3>2
  <2>6. CASE \/ \E u \in Users, c \in Amounts : Credit(u, c)
             \/ \E s \in Sessions, u \in Users, a \in Amounts : LockUser(s, u, a)
             \/ \E s \in Sessions : ReadBalance(s)
             \/ \E s \in Sessions, k \in AdminKinds, p \in Payouts : Open(s, k, p)
             \/ \E s \in Sessions : LockPayout(s)
             \/ \E s \in Sessions : Reload(s)
             \/ \E s \in Sessions : Crash(s)
             \/ UNCHANGED vars
    <3>1. UNCHANGED <<status, audit>>
      BY <2>6 DEF Credit, LockUser, ReadBalance, Open, LockPayout, Reload, Crash, vars
    <3> QED
      BY <3>1, <2>1
  <2> HIDE DEF Inv, Shape, TypeOK, TxShape, StillFresh, MayProceed, AdminKinds, Statuses,
               AuditTellsStatus
  <2> QED
    BY <1>2, <2>2, <2>3, <2>4, <2>5, <2>6 DEF Next
<1> QED
  BY Invariance, <1>1, <1>2, PTL DEF Spec

-----------------------------------------------------------------------------
(* The ledger implements the contract.                                       *)

(* Only the amounts clients may ask for move.                                *)
AmountsKnown ==
    /\ \A s \in Sessions : tx[s].kind = "request" => tx[s].amount \in Amounts
    /\ \A p \in Payouts : status[p] # "NONE" => amount[p] \in Amounts

(* At first there is no request, so no amount to know.                       *)
LEMMA AmountsInit == Init => AmountsKnown
  BY DEF Init, AmountsKnown, IdleTx

(* Every step keeps a session's amount that of a request it may make.        *)
LEMMA AmountsStep == Inv /\ AmountsKnown /\ [Next]_vars => AmountsKnown'
<1> SUFFICES ASSUME Inv, AmountsKnown, [Next]_vars PROVE AmountsKnown'
  OBVIOUS
<1> USE DEF Inv, Shape, TypeOK, AmountsKnown, IdleTx, AdminKinds, EndTx
<1>1. ASSUME NEW s \in Sessions, NEW u \in Users, NEW a \in Amounts, LockUser(s, u, a)
      PROVE  AmountsKnown'
  BY <1>1 DEF LockUser
<1>2. ASSUME NEW s \in Sessions, NEW p \in Payouts, CommitRequest(s, p) PROVE AmountsKnown'
  BY <1>2 DEF CommitRequest
<1>3. ASSUME NEW s \in Sessions, NEW k \in AdminKinds, NEW p \in Payouts, Open(s, k, p)
      PROVE  AmountsKnown'
  BY <1>3 DEF Open
<1>4. ASSUME NEW s \in Sessions, ReadBalance(s) \/ LockPayout(s) \/ Reload(s) \/ Crash(s)
      PROVE  AmountsKnown'
  <2>1. UNCHANGED <<status, amount>>
    BY <1>4 DEF ReadBalance, LockPayout, Reload, Crash
  <2>2. \/ tx' = [tx EXCEPT ![s] = IdleTx]
        \/ \E step \in Steps : tx' = [tx EXCEPT ![s].step = step]
        \/ tx' = [tx EXCEPT ![s].step = "ready",
                           ![s].avail = cash[tx[s].user] - reserved[tx[s].user]]
    BY <1>4 DEF ReadBalance, LockPayout, Reload, Crash, Steps
  <2> QED
    BY <2>1, <2>2 DEF Tx
<1>5. ASSUME NEW s \in Sessions, CommitApprove(s) PROVE AmountsKnown'
  BY <1>5 DEF CommitApprove
<1>6. ASSUME NEW s \in Sessions, CommitMarkPaid(s) PROVE AmountsKnown'
  BY <1>6 DEF CommitMarkPaid, TxShape
<1>7. ASSUME NEW s \in Sessions, CommitReject(s) PROVE AmountsKnown'
  BY <1>7 DEF CommitReject, TxShape
<1>8. CASE (\E u \in Users, c \in Amounts : Credit(u, c)) \/ UNCHANGED vars
  BY <1>8 DEF Credit, vars
<1> HIDE DEF Inv, Shape, TypeOK, AmountsKnown, IdleTx, AdminKinds, EndTx
<1> QED
  BY <1>1, <1>2, <1>3, <1>4, <1>5, <1>6, <1>7, <1>8 DEF Next

(* What was paid out to a user is what the user earned and no longer has.    *)
PaidIsSpent == paidOut = [u \in Users |-> earned[u] - cash[u]]

(* What a user was paid is what was earned and is no longer in cash.         *)
LEMMA InvPaidIsSpent == Inv => PaidIsSpent
<1> SUFFICES ASSUME Inv, NEW u \in Users
             PROVE  Total(PaidTo(u), amount) = earned[u] - cash[u]
  BY DEF PaidIsSpent, paidOut
<1>1. IsFiniteSet(PaidTo(u)) /\ \A q \in PaidTo(u) : amount[q] \in Nat
  BY Finite DEF Inv, Shape, PaidTo
<1>2. Total(PaidTo(u), amount) \in Nat
  BY <1>1, TotalFinite
<1>3. cash[u] \in Int /\ earned[u] \in Int
  BY DEF Inv, Shape, TypeOK
<1> QED
  BY <1>2, <1>3 DEF Inv, Books, CashConserved

(* The initial states are initial states of the contract.                    *)
LEMMA ContractInit == Init => Contract!Init
<1> SUFFICES ASSUME Init PROVE Contract!Init
  OBVIOUS
<1>1. PaidIsSpent
  BY InvInit, InvPaidIsSpent
<1> QED
  BY <1>1 DEF Init, Contract!Init, PaidIsSpent, availableCash

(* To change a function at one point is to agree with it at every other.     *)
LEMMA PointUpdate ==
    ASSUME NEW S, NEW F, F \in [S -> Int], NEW G, G \in [S -> Int], NEW k \in S, NEW d \in Int,
           G[k] = F[k] + d, \A v \in S \ {k} : G[v] = F[v]
    PROVE  G = [F EXCEPT ![k] = @ + d]
  OBVIOUS

(* A commit is the contract's step of the same meaning; a step that moves no *)
(* money is a stutter of the contract.                                       *)
LEMMA ContractStep ==
    Inv /\ Inv' /\ PaidIsSpent /\ PaidIsSpent' /\ AmountsKnown /\ [Next]_vars
        => [Contract!Next]_(Contract!money)
<1> SUFFICES ASSUME Inv, Inv', PaidIsSpent, PaidIsSpent', AmountsKnown, [Next]_vars
             PROVE  [Contract!Next]_(Contract!money)
  OBVIOUS
<1>1. /\ cash \in [Users -> Int] /\ reserved \in [Users -> Int]
      /\ cash' \in [Users -> Int] /\ reserved' \in [Users -> Int]
      /\ earned \in [Users -> Nat] /\ Amounts \subseteq Nat
  BY AmountsAssumption DEF Inv, Shape, TypeOK
<1>a. /\ availableCash \in [Users -> Int] /\ availableCash' \in [Users -> Int]
      /\ \A v \in Users : availableCash[v] = cash[v] - reserved[v]
      /\ \A v \in Users : availableCash'[v] = cash'[v] - reserved'[v]
  BY <1>1 DEF availableCash
<1>b. ASSUME \A v \in Users : earned'[v] - cash'[v] = earned[v] - cash[v]
      PROVE  paidOut' = paidOut
  BY <1>b DEF PaidIsSpent
<1>2. ASSUME NEW u \in Users, NEW c \in Amounts, Credit(u, c) PROVE Contract!Earn(u, c)
  <2>1. /\ cash' = [cash EXCEPT ![u] = @ + c] /\ earned' = [earned EXCEPT ![u] = @ + c]
        /\ reserved' = reserved
    BY <1>2 DEF Credit
  <2>2. paidOut' = paidOut
    BY <1>1, <1>b, <2>1
  <2>3. availableCash' = [availableCash EXCEPT ![u] = @ + c]
    BY <1>1, <1>a, <2>1, PointUpdate
  <2> QED
    BY <2>1, <2>2, <2>3 DEF Contract!Earn
<1>3. ASSUME NEW s \in Sessions, NEW p \in Payouts, CommitRequest(s, p) PROVE Contract!Next
  <2> DEFINE w == tx[s].user
             a == tx[s].amount
  <2>1. w \in Users /\ a \in Amounts /\ a <= cash[w] - reserved[w]
    BY <1>3 DEF CommitRequest, Inv, Shape, TxShape, StillFresh, AmountsKnown
  <2>2. cash' = cash /\ earned' = earned /\ reserved' = [reserved EXCEPT ![w] = @ + a]
    BY <1>3 DEF CommitRequest
  <2> HIDE DEF w, a
  <2>3. availableCash' = [availableCash EXCEPT ![w] = @ + (- a)]
    BY <1>1, <1>a, <2>1, <2>2, PointUpdate
  <2>4. availableCash' = [availableCash EXCEPT ![w] = @ - a]
    BY <1>1, <1>a, <2>1, <2>3
  <2>5. paidOut' = paidOut
    BY <1>b, <2>2
  <2>6. Contract!Hold(w, a)
    BY <1>a, <2>1, <2>2, <2>4, <2>5 DEF Contract!Hold
  <2>7. w \in Users /\ a \in Amounts
    BY <2>1
  <2> QED
    BY <2>6, <2>7 DEF Contract!Next
<1>4. ASSUME NEW s \in Sessions, CommitMarkPaid(s) PROVE Contract!Next
  <2> DEFINE p == tx[s].payout
             w == owner[p]
             a == amount[p]
  <2>1. p \in Payouts /\ w \in Users /\ a \in Amounts /\ status[p] = "APPROVED"
    BY <1>4 DEF CommitMarkPaid, Inv, Shape, TxShape, RowShape, StillFresh, MayProceed,
                AdminKinds, AmountsKnown
  <2>2. a <= reserved[w]
    BY <2>1, OpenIsCovered DEF Inv, Shape, Books, OpenOf
  <2>3. /\ cash' = [cash EXCEPT ![w] = @ - a] /\ earned' = earned
        /\ reserved' = [reserved EXCEPT ![w] = @ - a]
    BY <1>4, <2>1 DEF CommitMarkPaid
  <2> HIDE DEF p, w, a
  <2>4. availableCash' = availableCash
    BY <1>1, <1>a, <2>1, <2>3
  <2>5. paidOut' = [paidOut EXCEPT ![w] = @ + a]
    <3>1. /\ paidOut \in [Users -> Int] /\ paidOut' \in [Users -> Int]
          /\ \A v \in Users : paidOut[v] = earned[v] - cash[v]
          /\ \A v \in Users : paidOut'[v] = earned'[v] - cash'[v]
      BY <1>1, <2>3 DEF PaidIsSpent
    <3>2. paidOut'[w] = paidOut[w] + a /\ \A v \in Users \ {w} : paidOut'[v] = paidOut[v]
      BY <1>1, <2>1, <2>3, <3>1
    <3>3. a \in Int
      BY <1>1, <2>1
    <3> QED
      BY <2>1, <3>1, <3>2, <3>3, PointUpdate
  <2>6. Contract!Pay(w, a)
    BY <2>2, <2>3, <2>4, <2>5 DEF Contract!Pay
  <2>7. w \in Users /\ a \in Amounts
    BY <2>1
  <2> QED
    BY <2>6, <2>7 DEF Contract!Next
<1>5. ASSUME NEW s \in Sessions, CommitReject(s) PROVE Contract!Next
  <2> DEFINE p == tx[s].payout
             w == owner[p]
             a == amount[p]
  <2>1. /\ p \in Payouts /\ w \in Users /\ a \in Amounts
        /\ status[p] \in {"REQUESTED", "APPROVED"}
    BY <1>5 DEF CommitReject, Inv, Shape, TxShape, RowShape, StillFresh, MayProceed,
                AdminKinds, AmountsKnown
  <2>2. a <= reserved[w]
    BY <2>1, OpenIsCovered DEF Inv, Shape, Books, OpenOf
  <2>3. cash' = cash /\ earned' = earned /\ reserved' = [reserved EXCEPT ![w] = @ - a]
    BY <1>5, <2>1 DEF CommitReject
  <2> HIDE DEF p, w, a
  <2>4. availableCash' = [availableCash EXCEPT ![w] = @ + a]
    BY <1>1, <1>a, <2>1, <2>3, PointUpdate
  <2>5. paidOut' = paidOut
    BY <1>b, <2>3
  <2>6. Contract!Release(w, a)
    BY <2>2, <2>3, <2>4, <2>5 DEF Contract!Release
  <2>7. w \in Users /\ a \in Amounts
    BY <2>1
  <2> QED
    BY <2>6, <2>7 DEF Contract!Next
<1>6. CASE \/ \E s \in Sessions, u \in Users, a \in Amounts : LockUser(s, u, a)
           \/ \E s \in Sessions : ReadBalance(s)
           \/ \E s \in Sessions, k \in AdminKinds, p \in Payouts : Open(s, k, p)
           \/ \E s \in Sessions : LockPayout(s)
           \/ \E s \in Sessions : Reload(s)
           \/ \E s \in Sessions : CommitApprove(s)
           \/ \E s \in Sessions : Crash(s)
           \/ UNCHANGED vars
  <2>1. UNCHANGED <<cash, reserved, earned>>
    BY <1>6 DEF LockUser, ReadBalance, Open, LockPayout, Reload, CommitApprove, Crash, vars
  <2>2. availableCash' = availableCash /\ paidOut' = paidOut
    BY <1>b, <2>1 DEF availableCash
  <2> QED
    BY <2>1, <2>2 DEF Contract!money
<1> QED
  BY <1>2, <1>3, <1>4, <1>5, <1>6 DEF Next, Contract!Next

(* PayoutLedger implements PayoutContract: seen from a user's money, every    *)
(* commit and every credit is one step of the contract, and no interleaving  *)
(* of locks, reloads and crashes shows.                                      *)
THEOREM ContractImplemented == Spec => ImplementsContract
<1>1. Inv /\ AmountsKnown /\ [Next]_vars => AmountsKnown'
  BY AmountsStep
<1>2. Spec => []AmountsKnown
  BY Invariance, AmountsInit, <1>1, PTL DEF Spec
<1>3. Spec => []PaidIsSpent
  BY Invariance, InvPaidIsSpent, PTL
<1> QED
  BY Invariance, <1>2, <1>3, ContractInit, ContractStep, PTL
  DEF Spec, ImplementsContract, Contract!Spec

=============================================================================
