----------------------------- MODULE MCCalendarSync -----------------------------
EXTENDS CalendarSync

\* Bound: a behaviour is not followed beyond an overlap, which excuses every
\* property for ever, nor beyond three changes with both faults.
Alone == Sound /\ count.changes + count.faults <= 4
===============================================================================
