---------------------------- MODULE PayoutContract ----------------------------
(* What the payout component promises, without transactions, locks or rows:  *)
(* a user's money is available, held for a requested payout, or paid out.    *)
(* Money enters by Earn only, and it moves in whole amounts; an amount is    *)
(* held only out of what is available, and paid or released only out of what *)
(* is held.                                                                  *)
EXTENDS Integers

CONSTANTS
    Users,   \* holders of a balance
    Amounts  \* the amounts that may move, in cents

VARIABLES
    available,  \* what a user may still ask for
    held,       \* what open payout requests of the user hold back
    paid        \* what the user was paid out

money == <<available, held, paid>>

Init ==
    /\ available = [u \in Users |-> 0]
    /\ held = [u \in Users |-> 0]
    /\ paid = [u \in Users |-> 0]

Earn(u, a) ==
    /\ available' = [available EXCEPT ![u] = @ + a]
    /\ UNCHANGED <<held, paid>>

Hold(u, a) ==
    /\ a <= available[u]
    /\ available' = [available EXCEPT ![u] = @ - a]
    /\ held' = [held EXCEPT ![u] = @ + a]
    /\ UNCHANGED paid

Release(u, a) ==
    /\ a <= held[u]
    /\ available' = [available EXCEPT ![u] = @ + a]
    /\ held' = [held EXCEPT ![u] = @ - a]
    /\ UNCHANGED paid

Pay(u, a) ==
    /\ a <= held[u]
    /\ held' = [held EXCEPT ![u] = @ - a]
    /\ paid' = [paid EXCEPT ![u] = @ + a]
    /\ UNCHANGED available

Next == \E u \in Users, a \in Amounts :
            Earn(u, a) \/ Hold(u, a) \/ Release(u, a) \/ Pay(u, a)

Spec == Init /\ [][Next]_money
=============================================================================
