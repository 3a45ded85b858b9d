-------------------------------- MODULE Limiter --------------------------------
(***************************************************************************)
(* The sliding windows that limit the AI endpoints per user and over all    *)
(* users (core/ratelimit.py), and those of a login, per address and per     *)
(* email (auth/router.py): the same windows, two keys a call, and a slot is *)
(* taken in both or in none.  A check runs under a lock, or without an      *)
(* await, so it is one step.                                                *)
(***************************************************************************)
EXTENDS Naturals, Sequences, SequencesExt

CONSTANTS
    Users,        \* the users, or the emails of a login
    Limit,        \* a user's calls per window
    GlobalLimit,  \* all users' calls, or an address's logins, per window
    Window,
    MaxTime       \* bound: the clock

VARIABLES
    now,
    events,  \* the calls of each key that the limiter remembers
    passed,  \* history: when each key's calls were let through
    told     \* history: when a user that was refused may come again; 0: not told

vars == <<now, events, passed, told>>

Shared == "global"
Keys   == Users \cup {Shared}
Quota(key) == IF key = Shared THEN GlobalLimit ELSE Limit

Init ==
    /\ now = Window
    /\ events = [key \in Keys |-> <<>>] /\ passed = [key \in Keys |-> <<>>]
    /\ told = [u \in Users |-> 0]

Tick == now < MaxTime /\ now' = now + 1 /\ UNCHANGED <<events, passed, told>>

\* Mistake: a call leaves the window a moment before its time.
early(t) == t + Window > now + 1

inWindow(t) == t > now - Window

\* What has left the window is taken off the front: the calls are in order.
fresh(key)  == {i \in 1..Len(events[key]) : inWindow(events[key][i])}
pruned(key) == IF fresh(key) = {} THEN <<>> ELSE SubSeq(events[key], Min(fresh(key)), Len(events[key]))
full(key)   == Len(pruned(key)) >= Quota(key)

\* Earliest moment the oldest call ages out.
retryAt(key) == Head(pruned(key)) + Window + 1

check(u) ==
    /\ LET allowed == \A key \in {u, Shared} : ~full(key)
           asked   == IF full(u) THEN {u} ELSE {u, Shared}
       IN  /\ events' = [key \in Keys |-> IF key \notin asked THEN events[key]
                                          ELSE IF allowed THEN Append(pruned(key), now) ELSE pruned(key)]
           /\ passed' = [key \in Keys |-> IF allowed /\ key \in {u, Shared} THEN Append(passed[key], now)
                                          ELSE passed[key]]
           /\ told' = [told EXCEPT ![u] = IF full(u) THEN retryAt(u) ELSE 0]
    /\ UNCHANGED now

\* A restart of the server forgets every window: what was let through before
\* does not count any more.
Restart ==
    /\ events' = [key \in Keys |-> <<>>] /\ passed' = [key \in Keys |-> <<>>]
    /\ told' = [u \in Users |-> 0]
    /\ UNCHANGED now

Next == Tick \/ (\E u \in Users : check(u)) \/ Restart

-------------------------------------------------------------------------------

\* No window of time, wherever it starts, lets more calls of a user or of all
\* users through than the quota; and a user who was refused and comes back
\* when told is not refused by the own window again.
QuotaHolds ==
    /\ \A key \in Keys : \A i \in 1..(Len(passed[key]) - Quota(key)) :
           passed[key][i + Quota(key)] - passed[key][i] >= Window
    /\ \A u \in Users : told[u] # 0 /\ now >= told[u] => ~full(u)
===============================================================================
