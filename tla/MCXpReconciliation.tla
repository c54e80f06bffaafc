------------------------- MODULE MCXpReconciliation -------------------------
(* Bounded instances of XpReconciliation: three events, of which some take   *)
(* XP away, three levels, two workers.  The model stops at its bounds.       *)
EXTENDS XpReconciliation, TLC

GainAndLoss == {-1, 2}
ThreeLevels == <<0, 2, 3>>
WorkersAlike == Permutations(Workers)
=============================================================================
