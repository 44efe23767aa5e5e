------------------------------ MODULE MCPeriods ------------------------------
(***************************************************************************)
(* MCPlaneApply, and before the run PeriodStart against a calendar that   *)
(* is written down: the years 2023 to 2028.                               *)
(***************************************************************************)
EXTENDS MCPlaneApply

Lengths(feb) == <<31, feb, 31, 30, 31, 30, 31, 31, 30, 31, 30, 31>>
Months == Lengths(28) \o Lengths(29) \o Lengths(28) \o Lengths(28)
              \o Lengths(28) \o Lengths(29)
Jan2023 == 19358            \* a Sunday
FirstOf[i \in 1 .. 73] ==
    IF i = 1 THEN Jan2023 ELSE FirstOf[i - 1] + Months[i - 1]

Boundaries == [day   |-> Jan2023 .. FirstOf[73],
               week  |-> {Jan2023 + 1 + 7 * i : i \in 0 .. 312},
               month |-> {FirstOf[i] : i \in 1 .. 73}]

\* The period of a day of these years begins with the latest boundary, at
\* every instant of the day.
ASSUME PeriodsBeginAtBoundaries ==
    \A kind \in {"day", "week", "month"}, d \in Jan2023 + 1 .. FirstOf[73] - 1 :
        \A i \in (d - FirstDay) * DayLen .. (d + 1 - FirstDay) * DayLen - 1 :
            LET start == FirstDay + PeriodStart(kind, i) \div DayLen
            IN  (start .. d) \cap Boundaries[kind] = {start}

\* The dates of period_test.go: 13 and 14 September 2026.
ASSUME TestPeriodStart ==
    LET start(d) == (d - FirstDay) * DayLen
    IN  /\ PeriodStart("week", start(20709)) = start(20703)
        /\ PeriodStart("week", start(20710)) = start(20710)
        /\ PeriodStart("month", start(20709)) = start(20697)
=============================================================================
