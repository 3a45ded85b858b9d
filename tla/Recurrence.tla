------------------------------- MODULE Recurrence -------------------------------
(***************************************************************************)
(* When a repeating event occurs: the app's search (frontend recurrence.ts),*)
(* which goes from the start in steps of 24 hours of absolute time and      *)
(* looks at the local day it is on, and the server's (events/service.py),   *)
(* which repeats the local time of the start and converts what it finds.    *)
(* A day has H units of time; the local time is ahead of the absolute one   *)
(* by `before' units, and from the change of the clocks on by `after'.      *)
(***************************************************************************)
EXTENDS Integers, FiniteSetsExt

CONSTANTS
    H,                \* units of a day
    MonthStarts,      \* the first day of each month, in a year that starts with day 0
    Year,             \* the days of a year
    MAX_SEARCH_DAYS,  \* how far the app looks
    Starts,           \* the days on which a series may start
    Changes,          \* the days on which the clocks may change
    MaxDay            \* bound: the days looked at

VARIABLES
    rule,  \* the series: [freq, days, until, start], start being absolute
    zone,  \* [before, after, change]: the day on which the clocks change, at its second unit
    day    \* the local day that is shown

vars == <<rule, zone, day>>

Never == -1

\* The day in the year, its number in the month, and its weekday.
DayInYear(d) == d % Year
DayNumber(d) == DayInYear(d) - Max({m \in MonthStarts : m <= DayInYear(d)})
Weekday(d)   == d % 7

-------------------------------------------------------------------------------
(* Absolute and local time *)

ChangeAt == zone.change * H + 1 - zone.before

local(t) == t + (IF t < ChangeAt THEN zone.before ELSE zone.after)

\* A local time the clocks skip or repeat is read with the offset before.
absolute(l) ==
    LET w == IF zone.before > zone.after THEN zone.before ELSE zone.after
    IN  l - (IF l < ChangeAt + w THEN zone.before ELSE zone.after)

localCalendarDay(t) == local(t) \div H

-------------------------------------------------------------------------------
(* What both searches look for *)

startDay == localCalendarDay(rule.start)

\* Mistake: a weekly series without days is on every day.
everyDay == IF rule.days = {} THEN 0..6 ELSE rule.days

\* A weekly series without days is on the weekday of its start.
weeklyDays == IF rule.days = {} THEN {Weekday(startDay)} ELSE rule.days

matches(d) ==
    \/ rule.freq = "daily"
    \/ rule.freq = "weekly" /\ Weekday(d) \in weeklyDays
    \/ rule.freq = "monthly" /\ DayNumber(d) = DayNumber(startDay)
    \/ rule.freq = "yearly" /\ DayInYear(d) = DayInYear(startDay)

untilAllows(d) == rule.until = Never \/ d <= rule.until

\* The least number up to n that has property P, or Never.
Least(n, P(_)) ==
    IF \E k \in 0..n : P(k) THEN CHOOSE k \in 0..n : P(k) /\ \A j \in 0..(k - 1) : ~P(j) ELSE Never

-------------------------------------------------------------------------------
(* The app *)

alignForward(from) ==
    IF rule.start >= from THEN rule.start
    ELSE rule.start + ((from - rule.start + H - 1) \div H) * H

Found(t) == matches(localCalendarDay(t)) /\ untilAllows(localCalendarDay(t))

nextOccurrenceOnOrAfter(from) ==
    LET k == Least(MAX_SEARCH_DAYS - 1, LAMBDA i : Found(alignForward(from) + i * H))
    IN  IF k = Never THEN Never ELSE alignForward(from) + k * H

\* The search stops at the end of the day it is asked about.
occursOnDay(d) ==
    \E t \in {alignForward(absolute(d * H)) + k * H : k \in 0..1} : t < absolute((d + 1) * H) /\ Found(t)

-------------------------------------------------------------------------------
(* The server: dateutil's rrule from the local start, of which it takes one *)

serverDays == IF rule.days = {} THEN {Weekday(startDay)} ELSE rule.days

rrule(d) ==
    \/ rule.freq = "daily"
    \/ rule.freq = "weekly" /\ Weekday(d) \in serverDays
    \/ rule.freq = "monthly" /\ DayNumber(d) = DayNumber(startDay)
    \/ rule.freq = "yearly" /\ DayInYear(d) = DayInYear(startDay)

next_occurrence_on_or_after(from) ==
    LET first == local(rule.start)
        k == Least(MaxDay + Year, LAMBDA i : first + i * H >= local(from) /\ rrule((first + i * H) \div H))
    IN  IF k = Never \/ ~untilAllows((first + k * H) \div H) THEN Never ELSE absolute(first + k * H)

-------------------------------------------------------------------------------

Init ==
    /\ zone \in [before : {1, 2}, after : {1, 2}, change : Changes]
    /\ \E f \in {"daily", "weekly", "monthly", "yearly"}, d \in Starts, unit \in 0..(H - 1) :
       \E days \in IF f = "weekly" THEN {{}, {Weekday(d), Weekday(d + 3)}} ELSE {{}} :
       \E until \in {Never, d + 35} :
           rule = [freq |-> f, days |-> days, until |-> until, start |-> d * H + unit - zone.before]
    /\ day = 0

\* The calendar shows the days one after the other.
Show ==
    /\ day < MaxDay
    /\ day' = day + 1
    /\ UNCHANGED <<rule, zone>>

Next == Show

-------------------------------------------------------------------------------

Shorter(d) == d = zone.change /\ zone.before < zone.after

DayOf(t) == IF t = Never THEN Never ELSE localCalendarDay(t)

\* The app and the server agree, on every local day, on whether the event occurs
\* and on the day it occurs next, although the app never looks at the local time:
\* but on a day that the clocks make shorter the app may find nothing.
SameDays ==
    LET app    == DayOf(nextOccurrenceOnOrAfter(absolute(day * H)))
        server == DayOf(next_occurrence_on_or_after(absolute(day * H)))
    IN  \/ app = server /\ (occursOnDay(day) <=> server = day)
        \/ Shorter(server)
===============================================================================
