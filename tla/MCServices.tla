------------------------------ MODULE MCServices ------------------------------
(* Two requests at once of each service, two workers for the trust jobs.      *)
EXTENDS Services, TLC

(* Two bricks, a morning of one and an evening of two: every evening finds    *)
(* fewer bricks left than it wants and rotates in the middle of a day.        *)
OneAndTwo == [k \in {"MORNING", "EVENING"} |-> IF k = "MORNING" THEN 1 ELSE 2]

(* A context opened and read, two keys for the vote, one for the driver.      *)
KindOfFive == [k \in Keys |-> CASE k = "o" -> "open" [] k = "p" -> "progress"
                                [] k = "d" -> "driver" [] OTHER -> "vote"]

(* Three templates of one family for two slots of it and a wildcard.          *)
FourSlots == <<"vote_1", "vote_2", "explore", "wildcard">>
FamilyOfFour == [t \in PoolTemplates |-> IF t = "e1" THEN "explore" ELSE "vote"]
FamilyMix == [s \in {"vote_1", "vote_2", "explore", "wildcard"} |->
    CASE s = "explore" -> "explore" [] s = "wildcard" -> "*" [] OTHER -> "vote"]

(* Two votes in the first cycle, one of them perhaps FAIR, and one in the     *)
(* second, perhaps unverified; one miss in the last two scores is enough for  *)
(* a cooldown.                                                                *)
Ballot(type, verified) == [type |-> type, verified |-> verified]
TwoCycles == <<{Ballot("OVER", TRUE), Ballot("UNDER", TRUE), Ballot("FAIR", TRUE)},
               {Ballot("OVER", TRUE), Ballot("UNDER", FALSE)}>>
TwoVotesAndOne == <<2, 1>>

Symmetry == Permutations(Requests) \cup Permutations(Bricks)
===============================================================================
