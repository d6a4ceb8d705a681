------------------------------ MODULE Calendar ------------------------------
(***************************************************************************)
(* The dates that the periods of subscriptions begin and end on            *)
(* (backend/src/subscriptions/periods.ts), and how JavaScript moves them.  *)
(*                                                                         *)
(* A month is a number, 12 to a year, January of the year 0 being 0.  A    *)
(* date is a number too, of 31 to a month, so that < is the order of time; *)
(* in shorter months the last of them are no dates.  The time of the day,  *)
(* which nothing changes, is left out.                                     *)
(***************************************************************************)
EXTENDS Integers

DateOf(month, day) == 31 * month + day - 1
MonthOf(date) == date \div 31
DayOf(date) == (date % 31) + 1

IsLeap(year) == year % 4 = 0 /\ (year % 100 # 0 \/ year % 400 = 0)

February == 1

DaysIn(month) ==
    IF month % 12 = February THEN IF IsLeap(month \div 12) THEN 29 ELSE 28
    ELSE IF month % 12 \in {3, 5, 8, 10} THEN 30
    ELSE 31

IsDate(date) == DayOf(date) <= DaysIn(MonthOf(date))

Dates == {date \in Nat : IsDate(date)}

-----------------------------------------------------------------------------
(* nextPeriodEnd: a month and a year later *)

\* What Date makes of a day of a month: it rolls over into the next one, silently.
Rolled(month, day) ==
    IF day <= DaysIn(month) THEN DateOf(month, day) ELSE DateOf(month + 1, day - DaysIn(month))

\* setUTCDate(0): the last day of the month before.
PulledBack(date) ==
    LET month == MonthOf(date) - 1 IN DateOf(month, DaysIn(month))

\* Mutation of MonthLater: the overflow is not pulled back.
MonthLaterRolled(from) == Rolled(MonthOf(from) + 1, DayOf(from))

MonthLater(from) ==
    LET next == Rolled(MonthOf(from) + 1, DayOf(from)) IN
    IF DayOf(next) < DayOf(from) THEN PulledBack(next) ELSE next

YearLater(from) ==
    LET isLeapDay == MonthOf(from) % 12 = February /\ DayOf(from) = 29
        next == Rolled(MonthOf(from) + 12, DayOf(from))
    IN  IF isLeapDay /\ DayOf(next) # 29 THEN PulledBack(next) ELSE next

-----------------------------------------------------------------------------
(* What they are for: the same day, or the last one if the month has no such *)

IsMonthsLater(end, start, n) ==
    LET days == DaysIn(MonthOf(start) + n) IN
    /\ MonthOf(end) = MonthOf(start) + n
    /\ DayOf(end) = IF DayOf(start) <= days THEN DayOf(start) ELSE days
=============================================================================
