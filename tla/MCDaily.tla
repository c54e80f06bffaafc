------------------------------- MODULE MCDaily -------------------------------
(* One user's windows, challenges and zones; one brick; four rows to link.    *)
EXTENDS Daily

(* A morning of one brick, an evening of two.                                 *)
OneAndTwo == [k \in {"MORNING", "EVENING"} |-> IF k = "MORNING" THEN 1 ELSE 2]

(* Two bricks on days 1, 2 and 4: the evening takes two of them, the guest's  *)
(* session has one of them and signs up in it; day 3 has no window.           *)
OneBrick == CHOOSE b \in Bricks : TRUE
Other == CHOOSE b \in Bricks \ {OneBrick} : TRUE
KindOfWindow == <<"MORNING", "EVENING", "MORNING", "MORNING">>
DayOfWindow == <<1, 1, 2, 4>>
ItemsOfWindow == <<{OneBrick}, {OneBrick, Other}, {OneBrick}, {Other}>>
OneGuestBrick == <<OneBrick>>

(* Four dailies, and one weekly for two slots: a daily only possible early,   *)
(* one only possible late, and targets of one and two votes.                  *)
Challenges == {"a", "b", "c", "d", "w"}
ThreeDailies == <<"a", "b", "c">>
TwoWeeklySlots == <<{"w"}, {"w"}>>
OwnSignature == [t \in Challenges |-> t]
OpenMoments == [t \in Challenges |-> CASE t = "a" -> {1} [] t = "c" -> {2} [] OTHER -> 1..3]
OneOrTwoVotes == [t \in Challenges |-> IF t \in {"a", "w"} THEN 2 ELSE 1]
UpOrBoth == [t \in Challenges |-> IF t = "b" THEN {"UP"} ELSE {"UP", "DOWN"}]
UpAndDown == {[type |-> "UP", brick |-> "k"], [type |-> "DOWN", brick |-> "l"]}

(* Los Angeles around the two changes of 2026 and Berlin through a summer     *)
(* (every half hour of those days), eleven years of UTC noons day by day,     *)
(* and the offsets +14, +5:30 and -12.  Day 20518 is 2026-03-06.              *)
Zone(offset, summer, from, to, start, step, until) ==
    [offset |-> offset, summer |-> summer, from |-> from, to |-> to,
     start |-> start, step |-> step, until |-> until]
LosAngeles(start, until) ==
    Zone(-16, -14, 20520*48 + 20, 20758*48 + 18, start*48 + 8, 1, until*48)
Fixed(offset, until) == Zone(offset, offset, 0, 0, 20518*48, 1, until*48)
SevenZones ==
    {LosAngeles(20520, 20524), LosAngeles(20758, 20761),
     Zone(2, 4, 20541*48 + 2, 20751*48 + 2, 20540*48, 1, 20543*48),
     Fixed(11, 20528), Fixed(28, 20522), Fixed(-24, 20522),
     Zone(0, 0, 0, 0, 20081*48, 48, 24300*48)}
===============================================================================
