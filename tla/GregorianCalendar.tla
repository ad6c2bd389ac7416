------------------------- MODULE GregorianCalendar -------------------------
(* java.util.GregorianCalendar as CronExpression.getTimeAfter uses it:      *)
(* whole seconds, lenient (day 0 is the day before the first, month 13 the  *)
(* January that follows), in a time zone without daylight saving.           *)
(* An instant is a number of seconds, a day a number of days, since         *)
(* 1 January of FirstYear.                                                  *)
EXTENDS Integers, FiniteSetsExt

CONSTANTS
  SecondsPerMinute, MinutesPerHour, HoursPerDay,  \* 60, 60 and 24
  FirstYear, LastYear       \* bound: the years the tables below cover

ASSUME CalendarAssumption ==
  /\ {SecondsPerMinute, MinutesPerHour, HoursPerDay} \subseteq Nat \ {0}
  /\ FirstYear \in Nat \ {0}
  /\ LastYear \in Nat
  /\ FirstYear < LastYear

CalendarYears == FirstYear..LastYear

IsLeapYear(year) ==
  (year % 4 = 0 /\ year % 100 # 0) \/ year % 400 = 0

LastDayOfMonth(mon, year) ==
  IF mon = 2 THEN IF IsLeapYear(year) THEN 29 ELSE 28
             ELSE IF mon \in {4, 6, 9, 11} THEN 30 ELSE 31

\* Days from 1 January of year 1, a Monday, to 1 January of year
DaysBeforeYear(year) ==
  LET y == year - 1 IN 365 * y + y \div 4 - y \div 100 + y \div 400

\* Days from 1 January to the first of month mon; month 13 is the next year's January
DaysBeforeMonth(mon, year) ==
  <<0, 31, 59, 90, 120, 151, 181, 212, 243, 273, 304, 334, 365>>[mon]
    + IF mon > 2 /\ IsLeapYear(year) THEN 1 ELSE 0

\* The first day of each month
MonthStart ==
  [year \in CalendarYears |->
     [mon \in 1..13 |->
        DaysBeforeYear(year) - DaysBeforeYear(FirstYear) + DaysBeforeMonth(mon, year)]]

CalendarDays == 0..(MonthStart[LastYear][13] - 1)

DateOf ==
  [n \in CalendarDays |->
     LET y == Max({z \in CalendarYears : MonthStart[z][1] <= n})
         m == Max({k \in 1..12 : MonthStart[y][k] <= n})
     IN  [year |-> y, month |-> m, day |-> n - MonthStart[y][m] + 1]]

\* 1 is Sunday, 7 Saturday
DayOfWeek(n) == ((DaysBeforeYear(FirstYear) + n + 1) % 7) + 1

SecondsPerHour == SecondsPerMinute * MinutesPerHour
SecondsPerDay == SecondsPerHour * HoursPerDay

\* The instant a lenient calendar stands at after these fields are set
Instant(year, mon, day, hour, minute, second) ==
  (MonthStart[year][mon] + day - 1) * SecondsPerDay
    + hour * SecondsPerHour + minute * SecondsPerMinute + second

\* What the calendar's get returns for each field
DayNumber(t) == t \div SecondsPerDay
Year(t) == DateOf[DayNumber(t)].year
Month(t) == DateOf[DayNumber(t)].month
Day(t) == DateOf[DayNumber(t)].day
Hour(t) == (t % SecondsPerDay) \div SecondsPerHour
Minute(t) == (t % SecondsPerHour) \div SecondsPerMinute
Second(t) == t % SecondsPerMinute
=============================================================================
