----------------------------- MODULE CalendarDates -----------------------------
(***************************************************************************)
(* The dates of the leave engine (dates.ts) and the cycles of an           *)
(* employment anniversary (ledger.ts, process.ts). A date is the number    *)
(* yyyymmdd, so that the order of the numbers is that of the ISO strings.  *)
(***************************************************************************)
EXTENDS Integers

CONSTANTS Starts,   \* first days of service
          LastDate  \* how far the calendar is walked

ASSUME DatesAssumption == Starts \subseteq 19000101 .. LastDate

VARIABLES serviceStart,
          date,   \* walked day by day
          cycle   \* the cycle cyclesBetween has come to
dateVars == <<serviceStart, date, cycle>>

Year(d) == d \div 10000
Month(d) == (d \div 100) % 100
Day(d) == d % 100
Of(y, m, d) == 10000 * y + 100 * m + d

Leap(y) == (y % 4 = 0 /\ y % 100 # 0) \/ y % 400 = 0
DaysInMonth(y, m) == IF m = 2 THEN IF Leap(y) THEN 29 ELSE 28 ELSE IF m \in {4, 6, 9, 11} THEN 30 ELSE 31

\* "Clamping to the month's last day".
AddMonths(d, n) ==
  LET months == 12 * Year(d) + Month(d) - 1 + n
      y == months \div 12
      m == (months % 12) + 1
  IN Of(y, m, IF Day(d) <= DaysInMonth(y, m) THEN Day(d) ELSE DaysInMonth(y, m))
AddYears(d, n) == AddMonths(d, 12 * n)
NextDay(d) ==
  IF Day(d) < DaysInMonth(Year(d), Month(d)) THEN d + 1
  ELSE IF Month(d) < 12 THEN Of(Year(d), Month(d) + 1, 1) ELSE Of(Year(d) + 1, 1, 1)

FullMonthsBetween_AnyDay(from, to) ==
  IF to < from THEN 0 ELSE 12 * (Year(to) - Year(from)) + Month(to) - Month(from)
FullMonthsBetween(from, to) ==
  LET months == 12 * (Year(to) - Year(from)) + Month(to) - Month(from)
                - (IF Day(to) < Day(from) THEN 1 ELSE 0)
  IN IF to < from \/ months < 0 THEN 0 ELSE months

\* "The employment-anniversary cycle containing `date`"; its end is the next
\* anniversary, and the cycle that follows is asked for with that date.
AnniversaryCycle(start, d) ==
  LET years == FullMonthsBetween(start, d) \div 12
  IN [start |-> AddYears(start, years), end |-> AddYears(start, years + 1)]
-----------------------------------------------------------------------------
DatesInit ==
  /\ serviceStart \in Starts
  /\ date = serviceStart
  /\ cycle = AnniversaryCycle(serviceStart, serviceStart)

\* cyclesBetween asks for the cycle of each cycle's end.
Walk ==
  /\ date < LastDate
  /\ date' = NextDay(date)
  /\ cycle' = IF cycle.end <= NextDay(date) THEN AnniversaryCycle(serviceStart, cycle.end) ELSE cycle
  /\ UNCHANGED serviceStart
DatesSpec == DatesInit /\ [][Walk]_dateVars
-----------------------------------------------------------------------------
\* "The employment-anniversary cycle containing `date`" has begun on that date
\* and not ended. A service that began on a 29th of February breaks it.
CycleContains ==
  LET c == AnniversaryCycle(serviceStart, date) IN c.start <= date /\ date < c.end

\* cyclesBetween, which goes from the end of one cycle to the cycle of that
\* day, is on every day in the cycle a posting of that day is keyed with: it
\* misses no day, counts none twice, and comes to an end. Short months and leap
\* years are met on the way.
AnniversaryCycles == CycleContains /\ cycle = AnniversaryCycle(serviceStart, date)
=============================================================================
