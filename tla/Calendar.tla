------------------------------ MODULE Calendar ------------------------------
(***************************************************************************)
(* Dates as the income code sees them.  Time is a number whose tens are    *)
(* the day; day 0 is a Monday.                                             *)
(***************************************************************************)
EXTENDS Integers

Day(t)      == t \div 10
DayStart(t) == 10 * Day(t)
WeekOf(t)   == Day(t) \div 7
IsSunday(t) == Day(t) % 7 = 6

(* dayjs counts weeks from Sunday: day(1)..day(7), and startOf('week') plus *)
(* a day, name the Monday to Sunday that FOLLOWS when the date is a Sunday. *)
CheckedWeek(t) == IF IsSunday(t) THEN WeekOf(t) + 1 ELSE WeekOf(t)
=============================================================================
