------------------------------ MODULE MCEventSync ------------------------------
EXTENDS EventSync

\* Bound: a behaviour is not followed beyond an overlap or a kill that excuses
\* a property (a lost reply or a dropped item does not end it).
Undisturbed == ~past.raced /\ ~past.astray /\ ~past.cut
===============================================================================
