--------------------------- MODULE PayoutRefinement ---------------------------
(* PayoutLedger implements PayoutContract.  What is available is never        *)
(* stored: the code computes cash - reserved (moneyMath.availableCash) when   *)
(* it needs it; what was paid is the sum of the user's PAID requests.         *)
EXTENDS PayoutLedger

availableCash == [u \in Users |-> cash[u] - reserved[u]]
paidOut == [u \in Users |-> Total(PaidTo(u), amount)]

Contract == INSTANCE PayoutContract
            WITH available <- availableCash, held <- reserved, paid <- paidOut

(* Every commit of the payout service and every approval's credit is a whole *)
(* step of the contract, and all its other steps are invisible: no request   *)
(* holds cash that was already held, although it was counted earlier.        *)
ImplementsContract == Contract!Spec
=============================================================================
