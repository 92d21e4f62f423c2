------------------------------- MODULE Calendar -------------------------------
(***************************************************************************)
(* The 64-bit calendar of source/reimpl/time64.c, which the game gets as   *)
(* gmtime64, localtime64 and mktime64.  Time is counted in half days since *)
(* 1970, the unit the time zones of the model differ by.  A behaviour      *)
(* walks from a known date, half a day a step, with the calendar on the    *)
(* wall beside it.                                                         *)
(***************************************************************************)
EXTENDS Integers, Sequences

CONSTANTS
  Anchors,  \* where walks start: [day : days since 1970, year, mon, mday, wday, yday]
  Zones,    \* local time less UTC, in half days
  MaxWalk   \* bound: half days a walk lasts

VARIABLES
  time,     \* the time64_t
  utc,      \* the date on the wall in Greenwich, as a struct tm
  local,    \* the date on the wall here
  zone,
  walked

\* years and months count as in struct tm: from 1900 and from 0
IsLeap(year) ==
  LET y == year + 1900 IN y % 400 = 0 \/ (y % 4 = 0 /\ y % 100 # 0)
LengthOfYear(year) == IF IsLeap(year) THEN 366 ELSE 365
DaysInMonth(year) ==
  <<31, IF IsLeap(year) THEN 29 ELSE 28, 31, 30, 31, 30, 31, 31, 30, 31, 30, 31>>
JulianDays(year) ==
  LET leap == IF IsLeap(year) THEN 1 ELSE 0
  IN  <<0, 31, 59 + leap, 90 + leap, 120 + leap, 151 + leap, 181 + leap, 212 + leap,
        243 + leap, 273 + leap, 304 + leap, 334 + leap, 365 + leap>>

GregorianCycle == 146097
CheatDays == 13879      \* to 2008
MinSafe == 1971
MaxSafe == 2037
SystemMax == 49710      \* 2^31 - 1 seconds

\* C's division and remainder
Quotient(a, b) == IF a >= 0 THEN a \div b ELSE -((-a) \div b)
Remainder(a, b) == a - b * Quotient(a, b)

-----------------------------------------------------------------------------
\* What the loops add up: the days of the years from..(to - 1), years from 1900.
LeapsBefore(year) ==
  LET y == year + 1899 IN (y \div 4) - (y \div 100) + (y \div 400)
DaysOfYears(from, to) == 365 * (to - from) + LeapsBefore(to) - LeapsBefore(from)

Timegm(date) ==
  LET cycles == IF date.year > 100 \/ date.year < -300
                THEN Quotient(date.year - 100, 400) ELSE 0
      year == date.year - 400 * cycles
      days == cycles * GregorianCycle + DaysOfYears(70, year)
              + JulianDays(year)[date.mon + 1] + date.mday - 1
  IN  2 * days + date.half

\* The year and the day of it that a count of days m leads to, from the first
\* day of `year` on, or from its end back.
YearsUp(year, m) ==
  LET y == CHOOSE y \in year..(year + 400) :
             DaysOfYears(year, y) <= m /\ m < DaysOfYears(year, y + 1)
  IN  [year |-> y, yday |-> m - DaysOfYears(year, y)]
YearsDown(year, m) ==
  LET y == CHOOSE y \in (year - 800)..year :
             -DaysOfYears(y, year + 1) <= m /\ m < -DaysOfYears(y + 1, year + 1)
  IN  [year |-> y, yday |-> m + DaysOfYears(y, year + 1)]

\* the year a count of days since 1970 falls in, and the day of that year
YearOf(days) ==
  LET cheat == days >= CheatDays
      m == IF cheat THEN days - CheatDays ELSE days
      start == IF cheat THEN 108 ELSE 70
      cycles == IF m >= 0 THEN m \div GregorianCycle ELSE Quotient(m, GregorianCycle) + 1
      rest == m - cycles * GregorianCycle
  IN  IF m >= 0 THEN YearsUp(start + 400 * cycles, rest)
      ELSE YearsDown(start - 1 + 400 * cycles, rest)
MonthOf(found) ==
  CHOOSE k \in 0..11 : /\ JulianDays(found.year)[k + 1] <= found.yday
                       /\ found.yday < JulianDays(found.year)[k + 2]

Gmtime(t) ==
  LET found == YearOf(t \div 2)
      mon == MonthOf(found)
  IN  [year |-> found.year, mon |-> mon,
       mday |-> found.yday - JulianDays(found.year)[mon + 1] + 1,
       yday |-> found.yday, wday |-> (t \div 2 + 4) % 7, half |-> t % 2]

-----------------------------------------------------------------------------
\* newlib's localtime and mktime, trusted in their range
SystemLocaltime(t) == Gmtime(t + zone)
SystemMktime(date) == Timegm(date) - zone

IsExceptionCentury(year) == year % 100 = 0 /\ year % 400 # 0

CycleOffset(year) ==
  LET diff == IF year > 2000 THEN year - 2001 ELSE year - 2000
  IN  16 * (Quotient(diff, 100) - Quotient(diff, 400))

SafeYearIn(year, cycle) ==
  LET place == IF Remainder(cycle, 28) < 0 THEN 28 + Remainder(cycle, 28) ELSE Remainder(cycle, 28)
  IN  IF year < MinSafe
      THEN IF place < 3 THEN 1996 + place ELSE 1968 + place
      ELSE IF place < 22 THEN 2016 + place ELSE 1988 + place

\* as if a century without a leap year matched the years of its cycle
SafeYearUnshifted(year) ==
  IF year \in MinSafe..MaxSafe THEN year
  ELSE SafeYearIn(year, year + CycleOffset(year) - (IF year < MinSafe THEN 8 ELSE 0)
                        + (IF IsExceptionCentury(year - 1) THEN 17 ELSE 0))

SafeYear(year) ==
  IF year \in MinSafe..MaxSafe THEN year
  ELSE SafeYearIn(year, year + CycleOffset(year)
                        - (IF year < MinSafe THEN 8 ELSE 0)
                        + (IF IsExceptionCentury(year) THEN 11 ELSE 0)
                        + (IF IsExceptionCentury(year - 1) THEN 17 ELSE 0))

DaysBetweenYears(left, right) ==
  LET cycles == IF left > 2400 THEN Quotient(left - 2400, 400)
                ELSE IF left < 1600 THEN Quotient(left - 1600, 400) ELSE 0
      start == IF left < 1600 THEN left + 400 * cycles ELSE left - 400 * cycles
      days == cycles * GregorianCycle
              + (IF start >= right THEN DaysOfYears(right - 1900, start - 1900)
                 ELSE DaysOfYears(start - 1899, right - 1899))
  IN  IF left > right THEN days ELSE -days

Mktime(date) ==
  LET year == date.year + 1900
      safe == SafeYear(year)
  IN  IF year \in MinSafe..MaxSafe THEN SystemMktime(date)
      ELSE SystemMktime([date EXCEPT !.year = safe - 1900]) + 2 * DaysBetweenYears(year, safe)

\* a date in a year the system can show
SafeDate(date) ==
  IF date.year > 137 \/ date.year < 70
  THEN [date EXCEPT !.year = SafeYear(date.year + 1900) - 1900] ELSE date

\* what the system showed for the safe date, back in the year of gm or in the
\* one next to it, when the year has turned in only one of the two places
Restored(here, gm) ==
  LET year == IF here.mon - gm.mon = 11 THEN gm.year - 1
              ELSE IF here.mon - gm.mon = -11 THEN gm.year + 1 ELSE gm.year
      yday == IF ~IsLeap(year) /\ here.yday = 365 THEN 364 ELSE here.yday
  IN  [here EXCEPT !.year = year, !.yday = yday]

Localtime(t) ==
  LET gm == Gmtime(t)
  IN  IF t <= SystemMax /\ t >= -SystemMax THEN SystemLocaltime(t)
      ELSE Restored(SystemLocaltime(Timegm(SafeDate(gm))), gm)

-----------------------------------------------------------------------------
\* The calendar on the wall: the date half a day later, and earlier.
Tomorrow(date) ==
  LET monthEnds == date.mday = DaysInMonth(date.year)[date.mon + 1]
      yearEnds == monthEnds /\ date.mon = 11
  IN  [year |-> IF yearEnds THEN date.year + 1 ELSE date.year,
       mon |-> IF yearEnds THEN 0 ELSE IF monthEnds THEN date.mon + 1 ELSE date.mon,
       mday |-> IF monthEnds THEN 1 ELSE date.mday + 1,
       yday |-> IF yearEnds THEN 0 ELSE date.yday + 1,
       wday |-> (date.wday + 1) % 7,
       half |-> 0]
Later(date) == IF date.half = 0 THEN [date EXCEPT !.half = 1] ELSE Tomorrow(date)

\* anchors are dates of the calendar, with the days since 1970 and the weekday they have
CalendarAssumption ==
  /\ \A a \in Anchors :
       /\ a.year \in Int /\ a.mon \in 0..11 /\ a.mday \in Int
       /\ 1 <= a.mday /\ a.mday <= DaysInMonth(a.year)[a.mon + 1]
       /\ a.yday = JulianDays(a.year)[a.mon + 1] + a.mday - 1
       /\ a.day = DaysOfYears(70, a.year) + a.yday
       /\ a.wday = (a.day + 4) % 7
  /\ Zones \subseteq {-1, 0, 1}

\* zones west of Greenwich are half a day behind: their walk starts at noon
Init ==
  /\ zone \in Zones
  /\ \E a \in Anchors :
       LET midnight == [year |-> a.year, mon |-> a.mon, mday |-> a.mday, yday |-> a.yday,
                        wday |-> a.wday, half |-> 0]
       IN  /\ utc = IF zone < 0 THEN Later(midnight) ELSE midnight
           /\ local = IF zone > 0 THEN Later(midnight) ELSE midnight
           /\ time = 2 * a.day + (IF zone < 0 THEN 1 ELSE 0)
  /\ walked = 0

HalfDayPasses ==
  /\ walked < MaxWalk
  /\ walked' = walked + 1
  /\ time' = time + 1
  /\ utc' = Later(utc)
  /\ local' = Later(local)
  /\ UNCHANGED zone

Next == HalfDayPasses

\* gmtime64, localtime64 and mktime64 agree with the calendar on the wall
\* whatever the year and the zone, the turn of a year that only one of the two
\* places has reached and the exceptional centuries included
\* (time64.c:196-241, 317-359, 461-512, 521-735).
CalendarExact ==
  /\ Gmtime(time) = utc
  /\ Timegm(utc) = time
  /\ Localtime(time) = local
  /\ Mktime(local) = time
=============================================================================
