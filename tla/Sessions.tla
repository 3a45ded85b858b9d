-------------------------------- MODULE Sessions --------------------------------
(***************************************************************************)
(* What the server promises of sessions: one is opened under an id that no *)
(* session ever had, and an id that is retired (by a logout, a reset of    *)
(* the password, the age of the session, a login that failed) stays so.    *)
(* `Accounts' implements it; `SignIn' is built upon it.                    *)
(***************************************************************************)
CONSTANT SessionIds

VARIABLES
    open,    \* the sessions whose tokens the server honours
    closed   \* the ids no session will have any more

Init == open = {} /\ closed \in SUBSET SessionIds

Open(s) ==
    /\ s \notin open \cup closed
    /\ open' = open \cup {s}
    /\ UNCHANGED closed

Retire(S) ==
    /\ open' = open \ S
    /\ closed' = closed \cup S

Next ==
    \/ \E s \in SessionIds : Open(s)
    \/ \E S \in SUBSET SessionIds : Retire(S)

Spec == Init /\ [][Next]_<<open, closed>>

===============================================================================
