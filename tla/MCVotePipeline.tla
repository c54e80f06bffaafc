--------------------------- MODULE MCVotePipeline ---------------------------
(* Bounded instances of VotePipeline: a verified and an unverified voter on  *)
(* one brick, one credit each, cycles that one vote may close.  The system   *)
(* stops when MaxVotes votes were made and processed.                        *)
EXTENDS VotePipeline, TLC
=============================================================================
