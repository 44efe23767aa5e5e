------------------------------ MODULE Calendar ------------------------------
(***************************************************************************)
(* What package sub takes from Go's package time: the UTC day of an       *)
(* instant, its day of the week and of the month, in the Gregorian        *)
(* calendar.  Days are counted from 1 January 1970.                       *)
(***************************************************************************)
EXTENDS Integers

CONSTANTS DayLen,           \* instants in a day
          FirstDay          \* the day of instant 0

ASSUME CalendarAssumption == DayLen \in Nat \ {0} /\ FirstDay \in Int

Day(now) == FirstDay + now \div DayLen

\* time.Date(now.Year(), now.Month(), now.Day() - back, 0, 0, 0, 0, time.UTC)
Midnight(now, back) == now - (now % DayLen) - back * DayLen

\* Time.Weekday: 0 is a Sunday.  The first day was a Thursday.
Weekday(d) == (d + 4) % 7

\* Time.Day: years are counted from a 1 March, so that the leap day is the
\* last of its year; 146097 days are 400 years, 153 days five months.
MonthDay(d) ==
    LET z == (d + 719468) % 146097
        year == (z - z \div 1460 + z \div 36524 - z \div 146096) \div 365
        yday == z - 365 * year - year \div 4 + year \div 100
        month == (5 * yday + 2) \div 153
    IN  yday - (153 * month + 2) \div 5 + 1
=============================================================================
