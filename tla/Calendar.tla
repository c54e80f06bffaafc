-------------------------------- MODULE Calendar -------------------------------
(***************************************************************************)
(* The calendar arithmetic of lib/sessions.js, lib/weeks.js and            *)
(* lib/utcWeeks.js: local days that begin at 5 AM, session windows, local  *)
(* weeks and the UTC instants at which days and weeks end, in zones with a *)
(* summer time; and ISO week keys.  Time is in half hours from the         *)
(* Thursday 1 January 1970, 00:00 UTC, days are day numbers.               *)
(***************************************************************************)
EXTENDS Integers

CONSTANT Zones
    \* [offset, summer: half hours east of UTC; from, to: when summer time holds;
    \*  start, step, until: the instants at which the zone is looked at]

VARIABLES zone, now
vars == <<zone, now>>

TypeOK == zone \in Zones /\ now \in Int

Init == zone \in Zones /\ now = zone.start

Next ==
    /\ now + zone.step <= zone.until
    /\ now' = now + zone.step
    /\ UNCHANGED zone

Spec == Init /\ [][Next]_vars

-----------------------------------------------------------------------------
(* getLocalParts: the wall clock at an instant.                              *)
Wall(t) == t + IF zone.from <= t /\ t < zone.to THEN zone.summer ELSE zone.offset
DayOf(w) == w \div 48
HourOf(w) == (w % 48) \div 2

ComputeLocalDayKey(t) ==
    IF HourOf(Wall(t)) < 5 THEN DayOf(Wall(t)) - 1 ELSE DayOf(Wall(t))

ResolveSessionWindow(t) ==
    LET h == HourOf(Wall(t))
    IN  IF h >= 5 /\ h < 15 THEN "MORNING"
        ELSE IF h >= 17 \/ h < 3 THEN "EVENING" ELSE "none"

(* Mutant: the first correction is taken for the answer.                     *)
NextResetOnce(day) ==
    LET target == (day + 1) * 48 + 10
    IN  target + (target - Wall(target))

(* nextLocalResetUtc: guess that the wall clock is UTC, and correct the      *)
(* guess by what the wall clock then shows, up to four times (a guess that   *)
(* shows the target is corrected by nothing).                                *)
NextLocalResetUtc(day) ==
    LET target == (day + 1) * 48 + 10
        corrected(c) == c + (target - Wall(c))
    IN  corrected(corrected(corrected(corrected(target))))

(* Day 0 was a Thursday: 1 is Monday, 7 is Sunday.                           *)
IsoDow(d) == ((d + 3) % 7) + 1

MondayOf(d) == d - (IsoDow(d) - 1)

NextLocalMondayResetUtc(day) == NextLocalResetUtc(MondayOf(day) + 7 - 1)

-----------------------------------------------------------------------------
(* The Gregorian calendar of a JavaScript Date.                              *)
Leaps(y) == y \div 4 - y \div 100 + y \div 400
YearStart(y) == 365 * (y - 1970) + Leaps(y - 1) - Leaps(1969)
YearOf(d) == CHOOSE y \in 1970 + d \div 366 .. 1970 + d \div 365 :
                 YearStart(y) <= d /\ d < YearStart(y + 1)

(* The Monday of W01: the week of January 4th.                               *)
Week1Monday(y) == LET jan4 == YearStart(y) + 3 IN jan4 - (IsoDow(jan4) - 1)

IsoWeekParts(d) ==
    LET thursday == d + 4 - IsoDow(d)
        year     == YearOf(thursday)
    IN  [year |-> year, week |-> (thursday - Week1Monday(year)) \div 7 + 1]

UtcWeekKey(t) == IsoWeekParts(t \div 48)
UtcWeekStartFromKey(k) == (Week1Monday(k.year) + (k.week - 1) * 7) * 48
UtcWeekBounds(t) == LET start == UtcWeekStartFromKey(UtcWeekKey(t))
                    IN  [start |-> start, end |-> start + 7 * 48]
PreviousUtcWeekKey(k) == UtcWeekKey(UtcWeekStartFromKey(k) - 7 * 48)
NextUtcWeekKey(k) == UtcWeekKey(UtcWeekStartFromKey(k) + 7 * 48)

-----------------------------------------------------------------------------
(* The reset of a local day is the very instant at which the next day's key  *)
(* begins, in every zone and on the days the clocks change: a vote that      *)
(* counts for a day never falls outside its assignments' window.             *)
DaysEndAtTheirReset ==
    LET day == ComputeLocalDayKey(now)
        reset == NextLocalResetUtc(day)
    IN  /\ now < reset
        /\ ComputeLocalDayKey(reset) = day + 1
        /\ ComputeLocalDayKey(reset - 1) = day

(* A week's assignments expire at the instant at which the week key of the   *)
(* local day changes, and that is a Monday.                                  *)
WeeksEndAtTheirReset ==
    LET week == MondayOf(ComputeLocalDayKey(now))
        reset == NextLocalMondayResetUtc(ComputeLocalDayKey(now))
    IN  /\ IsoDow(week) = 1 /\ now < reset
        /\ MondayOf(ComputeLocalDayKey(reset)) = week + 7
        /\ MondayOf(ComputeLocalDayKey(reset - 1)) = week

(* A session window never spans two local days: the evening that runs past   *)
(* midnight has one key, and the night before 5 AM has no window.            *)
DayChangesBetweenWindows ==
    zone.step = 1 /\ ComputeLocalDayKey(now) # ComputeLocalDayKey(now') =>
        ResolveSessionWindow(now) = "none" /\ ResolveSessionWindow(now') = "MORNING"

(* An ISO week key names the week the instant is in, its week number counts  *)
(* the Thursdays of its year (and is one that a key may have, 1 to 53), and  *)
(* the keys before and after it are those of the weeks before and after,     *)
(* over year ends of 52 and 53 weeks.                                        *)
WeekKeysAreIso ==
    LET key == UtcWeekKey(now)
        bounds == UtcWeekBounds(now)
        thursday == bounds.start \div 48 + 3
    IN  /\ bounds.start <= now /\ now < bounds.end
        /\ IsoDow(bounds.start \div 48) = 1
        /\ key.year = YearOf(thursday)
        /\ key.week = (thursday - YearStart(key.year)) \div 7 + 1
        /\ key.week \in 1 .. 53
        /\ NextUtcWeekKey(PreviousUtcWeekKey(key)) = key
        /\ PreviousUtcWeekKey(key) # key

(* Days and weeks follow one another without a gap or an overlap, and keys,  *)
(* bounds and reset instants agree on where they do.                         *)
ResetsAndKeysAgree ==
    /\ DaysEndAtTheirReset
    /\ WeeksEndAtTheirReset
    /\ WeekKeysAreIso
===============================================================================
