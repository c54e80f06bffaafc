---------------------------- MODULE MCLeaderboard ----------------------------
(* Bounded instances of Leaderboard: two users and a handful of events       *)
(* around the end of the week.  The model stops at its bounds.               *)
EXTENDS Leaderboard, TLC

OnePoint == {1}
FinalizersAlike == Permutations(Finalizers)
=============================================================================
