---------------------------- MODULE MCRemindersProps ----------------------------
(* Reminders with its history on a few events and plans. *)
EXTENDS RemindersProps
CONSTANTS e1, e2, k1, k2, d1, d2

Plan(start, minutes, period) == [start |-> start, minutes |-> minutes, period |-> period, until |-> 0]

\* An event that is moved, or whose reminder is switched off.
Moved   == {Plan(3, 1, 0), Plan(5, 1, 0), Plan(5, 0, 0)}
\* A series, another rhythm of it, and one that ends with its first occurrence.
Series  == {Plan(3, 1, 2), Plan(3, 1, 3), [start |-> 3, minutes |-> 1, period |-> 2, until |-> 3]}
=============================================================================
