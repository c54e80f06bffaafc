--------------------------- MODULE MCBountyReview ---------------------------
(* Bounded instances of BountyReview: submissions, of one user or of two, to *)
(* the bounties of one brick, a budget that pays for only one of them, and   *)
(* two approvals for the second milestone instead of ten.  For the           *)
(* completion of the brick the two bounties are also written by others, and  *)
(* the submissions are one user's and carry no cash.  The sessions are       *)
(* interchangeable, the users are, and so are the two submissions as long as *)
(* each takes its bounty along.                                              *)
EXTENDS BountyReview, TLC

CONSTANTS x1, x2, i1, i2, b1

Two == 2
InstOfTwo == x1 :> i1 @@ x2 :> i2
Nothing == {}
RewardTwo == x1 :> 2 @@ x2 :> 2
RewardNone == x1 :> 0 @@ x2 :> 0
InstOfOne == x1 :> i1
RewardOne == x1 :> 2
OneBrick == i1 :> b1 @@ i2 :> b1

SwapSubs == {x1 :> x1 @@ x2 :> x2 @@ i1 :> i1 @@ i2 :> i2,
             x1 :> x2 @@ x2 :> x1 @@ i1 :> i2 @@ i2 :> i1}
Symmetry == {f @@ g @@ h : f \in Permutations(Users), g \in Permutations(Sessions),
                           h \in SwapSubs}
=============================================================================
