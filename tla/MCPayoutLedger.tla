--------------------------- MODULE MCPayoutLedger ---------------------------
(* Bounded instance of PayoutLedger: two users, two payout requests and two  *)
(* concurrent sessions; amounts of one and two cents.                        *)
EXTENDS PayoutRefinement, TLC

SmallAmounts == {1, 2}
=============================================================================
