---------------------------- MODULE PayoutLedger ----------------------------
(***************************************************************************)
(* The payout-request state machine of services/bounties/PayoutService.js  *)
(* together with the one other writer of user_balances, the crediting      *)
(* statement of a bounty approval.                                         *)
(*                                                                         *)
(* Every operation is a PostgreSQL transaction at READ COMMITTED.  A       *)
(* session runs one transaction at a time, one action per step:            *)
(*                                                                         *)
(*   request   LockUser     ReadBalance   CommitRequest                    *)
(*   approve   Open   LockPayout   Reload   CommitApprove                  *)
(*   markPaid  Open   LockPayout   Reload   CommitMarkPaid                 *)
(*   reject    Open   LockPayout   Reload   CommitReject                   *)
(*                                                                         *)
(* The statements that write come last in each of them and touch rows in   *)
(* one order (payout, then balance), so they are one action with COMMIT:   *)
(* nobody sees an uncommitted row, and a balance update is relative to the *)
(* row as it is when its row lock is granted.  Both advisory locks are     *)
(* transaction-scoped: a session holds its lock from the action that takes *)
(* it to the end of the transaction, by COMMIT, throw or connection loss.  *)
(***************************************************************************)
EXTENDS Integers, FiniteSets

CONSTANTS
    Users,      \* rows of "User" (each has a user_balances row)
    Payouts,    \* identifiers payout_requests.id can take: bounds the requests made
    Sessions,   \* database sessions: concurrent HTTP requests of users and admins
    Amounts,    \* amounts a client may ask for or a bounty may pay, in cents
    MinPayout,  \* admin_settings minimum_payout_cents
    MaxEarned,  \* bound on the cash a user earns, so that Credit stops
    NoUser,     \* no value: tx[s].user outside a request
    NoPayout    \* no value: tx[s].payout outside an admin operation

ASSUME AmountsAssumption == Amounts \subseteq Nat \ {0}
ASSUME PayoutsAssumption == IsFiniteSet(Payouts)
ASSUME BoundsAssumption == MinPayout \in Nat /\ MaxEarned \in Nat
ASSUME NoValueAssumption == NoUser \notin Users /\ NoPayout \notin Payouts

VARIABLES
    cash,      \* user_balances.cash_balance_cents
    reserved,  \* user_balances.reserved_cash_cents
    earned,    \* user_balances.lifetime_cash_earned_cents
    status,    \* payout_requests.status; "NONE" is a row not inserted yet
    owner,     \* payout_requests.user_id
    amount,    \* payout_requests.amount_cents
    audit,     \* payout_action_events, by its unique key <<action, payout>>
    tx         \* the transaction each session is in

balances == <<cash, reserved, earned>>
requests == <<status, owner, amount>>
vars == <<cash, reserved, earned, status, owner, amount, audit, tx>>

Statuses == {"NONE", "REQUESTED", "APPROVED", "PAID", "REJECTED"}
AdminKinds == {"approve", "markPaid", "reject"}
Kinds == AdminKinds \cup {"request", "none"}
Steps == {"idle", "opened", "locked", "ready"}

IdleTx == [kind |-> "none", step |-> "idle", user |-> NoUser,
           payout |-> NoPayout, amount |-> 0, avail |-> 0]

Tx == [kind : Kinds, step : Steps, user : Users \cup {NoUser},
       payout : Payouts \cup {NoPayout}, amount : Nat, avail : Int]

TypeOK ==
    /\ cash \in [Users -> Int]
    /\ reserved \in [Users -> Int]
    /\ earned \in [Users -> Nat]
    /\ status \in [Payouts -> Statuses]
    /\ owner \in [Payouts -> Users \cup {NoUser}]
    /\ amount \in [Payouts -> Nat]
    /\ audit \in SUBSET (Statuses \X Payouts)
    /\ tx \in [Sessions -> Tx]

Init ==
    /\ cash = [u \in Users |-> 0]
    /\ reserved = [u \in Users |-> 0]
    /\ earned = [u \in Users |-> 0]
    /\ status = [p \in Payouts |-> "NONE"]
    /\ owner = [p \in Payouts |-> NoUser]
    /\ amount = [p \in Payouts |-> 0]
    /\ audit = {}
    /\ tx = [s \in Sessions |-> IdleTx]

-----------------------------------------------------------------------------
(* Advisory locks: pg_advisory_xact_lock('payout_user:u') for requests,      *)
(* pg_advisory_xact_lock('payout:u:p') for the admin operations.             *)

Holding(s) == tx[s].step \in {"locked", "ready"}
(* Mutant: the user lock is not taken.                                       *)
NoUserLock(u) == TRUE

UserLockFree(u) == \A s \in Sessions : ~(Holding(s) /\ tx[s].user = u)
(* Mutant: the payout lock is not taken.                                     *)
NoPayoutLock(p) == TRUE

PayoutLockFree(p) == \A s \in Sessions : ~(Holding(s) /\ tx[s].payout = p)

(* COMMIT, a throw inside the callback, a lost connection and the timeout of *)
(* Prisma's $transaction all end the transaction and free its lock.          *)
EndTx(s) == tx' = [tx EXCEPT ![s] = IdleTx]

-----------------------------------------------------------------------------
(* A bounty approval credits the user: one relative upsert of the balance    *)
(* row, under the approval's own lock, which no payout operation takes.      *)

Credit(u, c) ==
    /\ earned[u] + c <= MaxEarned
    /\ cash' = [cash EXCEPT ![u] = @ + c]
    /\ earned' = [earned EXCEPT ![u] = @ + c]
    /\ UNCHANGED <<reserved, status, owner, amount, audit, tx>>

-----------------------------------------------------------------------------
(* request: reserve cash for a new payout request.                           *)

LockUser(s, u, a) ==
    /\ tx[s].step = "idle"
    /\ UserLockFree(u)
    /\ tx' = [tx EXCEPT ![s] = [IdleTx EXCEPT !.kind = "request",
                                              !.step = "locked",
                                              !.user = u,
                                              !.amount = a]]
    /\ UNCHANGED <<cash, reserved, earned, status, owner, amount, audit>>

(* below_minimum_payout and insufficient_available_cash throw.               *)
ReadBalance(s) ==
    /\ tx[s].kind = "request" /\ tx[s].step = "locked"
    /\ LET available == cash[tx[s].user] - reserved[tx[s].user]
       IN  IF tx[s].amount >= MinPayout /\ tx[s].amount <= available
           THEN tx' = [tx EXCEPT ![s].step = "ready", ![s].avail = available]
           ELSE EndTx(s)
    /\ UNCHANGED <<cash, reserved, earned, status, owner, amount, audit>>

CommitRequest(s, p) ==
    /\ tx[s].kind = "request" /\ tx[s].step = "ready"
    /\ status[p] = "NONE"
    /\ reserved' = [reserved EXCEPT ![tx[s].user] = @ + tx[s].amount]
    /\ status' = [status EXCEPT ![p] = "REQUESTED"]
    /\ owner' = [owner EXCEPT ![p] = tx[s].user]
    /\ amount' = [amount EXCEPT ![p] = tx[s].amount]
    /\ audit' = audit \cup {<<"REQUESTED", p>>}
    /\ EndTx(s)
    /\ UNCHANGED <<cash, earned>>

-----------------------------------------------------------------------------
(* approve, markPaid and reject share their first three steps.               *)

(* loadPayout before the lock: only the row's existence and user are used.   *)
Open(s, k, p) ==
    /\ tx[s].step = "idle"
    /\ status[p] # "NONE"
    /\ tx' = [tx EXCEPT ![s] = [IdleTx EXCEPT !.kind = k,
                                              !.step = "opened",
                                              !.payout = p]]
    /\ UNCHANGED <<cash, reserved, earned, status, owner, amount, audit>>

LockPayout(s) ==
    /\ tx[s].step = "opened"
    /\ PayoutLockFree(tx[s].payout)
    /\ tx' = [tx EXCEPT ![s].step = "locked"]
    /\ UNCHANGED <<cash, reserved, earned, status, owner, amount, audit>>

(* Mutant: markPaid only checks that the request is not paid yet.            *)
MayPayAnyUnpaid(k, st) ==
    \/ k = "approve"  /\ st = "REQUESTED"
    \/ k = "markPaid" /\ st # "PAID"
    \/ k = "reject"   /\ st \in {"REQUESTED", "APPROVED"}

(* The status from which the reloaded row may move; every other one is the   *)
(* idempotent answer or a throw, and either ends the transaction unwritten.  *)
MayProceed(k, st) ==
    \/ k = "approve"  /\ st = "REQUESTED"
    \/ k = "markPaid" /\ st = "APPROVED"
    \/ k = "reject"   /\ st \in {"REQUESTED", "APPROVED"}

(* Mutant: the idempotent answer is returned without ending the transaction. *)
ReloadKeepsLock(s) ==
    /\ tx[s].kind \in AdminKinds /\ tx[s].step = "locked"
    /\ MayProceed(tx[s].kind, status[tx[s].payout])
    /\ tx' = [tx EXCEPT ![s].step = "ready"]
    /\ UNCHANGED <<cash, reserved, earned, status, owner, amount, audit>>

Reload(s) ==
    /\ tx[s].kind \in AdminKinds /\ tx[s].step = "locked"
    /\ IF MayProceed(tx[s].kind, status[tx[s].payout])
       THEN tx' = [tx EXCEPT ![s].step = "ready"]
       ELSE EndTx(s)
    /\ UNCHANGED <<cash, reserved, earned, status, owner, amount, audit>>

(* UPDATE ... WHERE status = 'REQUESTED'; the audit row is written whatever  *)
(* the number of rows updated.                                               *)
CommitApprove(s) ==
    LET p == tx[s].payout
    IN  /\ tx[s].kind = "approve" /\ tx[s].step = "ready"
        /\ status' = IF status[p] = "REQUESTED"
                     THEN [status EXCEPT ![p] = "APPROVED"] ELSE status
        /\ audit' = audit \cup {<<"APPROVED", p>>}
        /\ EndTx(s)
        /\ UNCHANGED <<cash, reserved, earned, owner, amount>>

(* UPDATE ... WHERE paid_at IS NULL, then both balance columns.              *)
CommitMarkPaid(s) ==
    LET p == tx[s].payout
    IN  /\ tx[s].kind = "markPaid" /\ tx[s].step = "ready"
        /\ IF status[p] # "PAID"
           THEN /\ status' = [status EXCEPT ![p] = "PAID"]
                /\ cash' = [cash EXCEPT ![owner[p]] = @ - amount[p]]
                /\ reserved' = [reserved EXCEPT ![owner[p]] = @ - amount[p]]
                /\ audit' = audit \cup {<<"PAID", p>>}
           ELSE UNCHANGED <<status, cash, reserved, audit>>
        /\ EndTx(s)
        /\ UNCHANGED <<earned, owner, amount>>

(* Mutant: a status the CHECK constraint of payout_requests does not list.   *)
RejectToCancelled(s) ==
    LET p == tx[s].payout
    IN  /\ tx[s].kind = "reject" /\ tx[s].step = "ready"
        /\ status' = [status EXCEPT ![p] = "CANCELLED"]
        /\ reserved' = [reserved EXCEPT ![owner[p]] = @ - amount[p]]
        /\ audit' = audit \cup {<<"REJECTED", p>>}
        /\ EndTx(s)
        /\ UNCHANGED <<cash, earned, owner, amount>>

(* UPDATE ... WHERE status IN ('REQUESTED', 'APPROVED'), then the release.   *)
CommitReject(s) ==
    LET p == tx[s].payout
    IN  /\ tx[s].kind = "reject" /\ tx[s].step = "ready"
        /\ IF status[p] \in {"REQUESTED", "APPROVED"}
           THEN /\ status' = [status EXCEPT ![p] = "REJECTED"]
                /\ reserved' = [reserved EXCEPT ![owner[p]] = @ - amount[p]]
                /\ audit' = audit \cup {<<"REJECTED", p>>}
           ELSE UNCHANGED <<status, reserved, audit>>
        /\ EndTx(s)
        /\ UNCHANGED <<cash, earned, owner, amount>>

(* The server process or its connection dies, or Prisma's transaction        *)
(* timeout fires: PostgreSQL rolls back.                                     *)
Crash(s) ==
    /\ tx[s].step # "idle"
    /\ EndTx(s)
    /\ UNCHANGED <<cash, reserved, earned, status, owner, amount, audit>>

-----------------------------------------------------------------------------
Next ==
    \/ \E u \in Users, c \in Amounts : Credit(u, c)
    \/ \E s \in Sessions, u \in Users, a \in Amounts : LockUser(s, u, a)
    \/ \E s \in Sessions : ReadBalance(s)
    \/ \E s \in Sessions, p \in Payouts : CommitRequest(s, p)
    \/ \E s \in Sessions, k \in AdminKinds, p \in Payouts : Open(s, k, p)
    \/ \E s \in Sessions : LockPayout(s)
    \/ \E s \in Sessions : Reload(s)
    \/ \E s \in Sessions : CommitApprove(s)
    \/ \E s \in Sessions : CommitMarkPaid(s)
    \/ \E s \in Sessions : CommitReject(s)
    \/ \E s \in Sessions : Crash(s)

Spec == Init /\ [][Next]_vars

(* Admins and users call when they like.  A transaction that was opened goes *)
(* on: its statements run (weak fairness), and PostgreSQL hands a lock to    *)
(* its waiters in arrival order, so a waiter is not overtaken for ever       *)
(* (strong fairness).                                                        *)
Fairness ==
    \A s \in Sessions :
        /\ SF_vars(LockPayout(s))
        /\ WF_vars(Reload(s))
        /\ WF_vars(CommitApprove(s) \/ CommitMarkPaid(s) \/ CommitReject(s))

FairSpec == Spec /\ Fairness

-----------------------------------------------------------------------------
(* Properties.  The sum of the amounts of a set of payouts is written as the  *)
(* number of their cents, cent k of payout p being the pair <<p, k>>.         *)

Cents(P, amt) == UNION {{p} \X (1 .. amt[p]) : p \in P}
Total(P, amt) == Cardinality(Cents(P, amt))

OpenOf(u) == {p \in Payouts : owner[p] = u /\ status[p] \in {"REQUESTED", "APPROVED"}}
PaidTo(u) == {p \in Payouts : owner[p] = u /\ status[p] = "PAID"}

(* The reserve of a user is, to the cent, what the user's open requests ask  *)
(* for: no interleaving of double clicks, rejections and crashes leaves a    *)
(* reserve without a request or releases one twice.                          *)
ReservedBacksOpen == \A u \in Users : reserved[u] = Total(OpenOf(u), amount)

(* Available cash (moneyMath.availableCash) never goes below zero, although  *)
(* a request checks it in one statement and reserves it in a later one.      *)
AvailableNonNegative == \A u \in Users : reserved[u] <= cash[u]

(* Cash is neither made nor lost: what the user still has and what was paid  *)
(* out add up to lifetime_cash_earned_cents.                                 *)
CashConserved == \A u \in Users : cash[u] + Total(PaidTo(u), amount) = earned[u]

(* A markPaid about to write finds the whole amount in both columns, so the  *)
(* CHECK constraints of user_balances can never abort a payment that an      *)
(* admin approved.                                                           *)
PaymentIsCovered ==
    \A s \in Sessions :
        tx[s].kind = "markPaid" /\ tx[s].step = "ready" =>
            LET p == tx[s].payout
            IN  /\ amount[p] <= reserved[owner[p]]
                /\ amount[p] <= cash[owner[p]]

(* The books of a user balance after every statement of every session: a     *)
(* double click, a crash, two admins on one request or a bounty approval     *)
(* beside them neither leaves a reserve without its request, nor pays what   *)
(* is not there.                                                             *)
BooksBalance ==
    /\ ReservedBacksOpen
    /\ AvailableNonNegative
    /\ CashConserved
    /\ PaymentIsCovered

(* The immutable audit log tells each request's history: settled requests    *)
(* have exactly their own closing row, and nothing was paid unapproved.      *)
AuditTellsStatus ==
    \A p \in Payouts :
        /\ status[p] # "NONE" <=> <<"REQUESTED", p>> \in audit
        /\ status[p] = "PAID" <=> <<"PAID", p>> \in audit
        /\ status[p] = "REJECTED" <=> <<"REJECTED", p>> \in audit
        /\ status[p] \in {"APPROVED", "PAID"} => <<"APPROVED", p>> \in audit
        /\ status[p] \in {"NONE", "REQUESTED"} => <<"APPROVED", p>> \notin audit

(* An admin operation that has read its payout ends, however many others     *)
(* queue for the same lock.                                                  *)
AdminOperationsEnd ==
    \A s \in Sessions : tx[s].step = "opened" ~> tx[s].step = "idle"

=============================================================================
