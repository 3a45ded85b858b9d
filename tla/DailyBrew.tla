-------------------------------- MODULE DailyBrew --------------------------------
(***************************************************************************)
(* The headlines of the Daily Brew on the server (backend/dailybrew/        *)
(* service.py): a cache per outlet that a request and the prewarmer fill    *)
(* behind one lock, and the choice of a few headlines among the outlets a   *)
(* user follows.  An outlet's items are numbered from the newest on, and    *)
(* the outlets publish in turn.                                             *)
(***************************************************************************)
EXTENDS Naturals, FiniteSets, Sequences

CONSTANTS
    Outlets,    \* numbers
    Limit,      \* headlines of a reply
    Feeds,      \* what the outlets may have: functions from Outlets to Nat
    MaxFails    \* bound: fetches that fail

VARIABLES
    feed,    \* the number of items of each outlet
    cache,   \* "none", "fresh" (younger than CACHE_TTL_SECONDS) or "stale"
    holder,  \* the fetch that has _fetch_lock, or NoOne
    fetch,   \* for whom and of which outlet: "no", "check", "lock", "get", "full" or "empty"
    follow,  \* the outlets of the user whose request is answered, in their order
    past     \* counters, and whether a fresh cache was fetched again

vars == <<feed, cache, holder, fetch, follow, past>>

Actors == {"user", "prewarmer"}
NoOne  == <<"nobody", 0>>

Init ==
    /\ feed \in Feeds
    /\ cache = [o \in Outlets |-> "none"] /\ holder = NoOne
    /\ fetch = [f \in Actors \X Outlets |-> "no"] /\ follow = <<>>
    /\ past = [fails |-> 0, again |-> FALSE]

-------------------------------------------------------------------------------
(* _fetch_outlet *)

Known(o) == IF cache[o] = "none" THEN "empty" ELSE "full"

Check(f) ==
    /\ fetch[f] = "check"
    /\ fetch' = [fetch EXCEPT ![f] = IF cache[f[2]] = "fresh" THEN "full" ELSE "lock"]
    /\ UNCHANGED <<feed, cache, holder, follow, past>>

\* Mistake: the cache is not looked at again behind the lock.
asBefore(o) == FALSE

refreshed(o) == cache[o] = "fresh"

Acquire(f) ==
    /\ fetch[f] = "lock" /\ holder = NoOne
    /\ \/ /\ refreshed(f[2])
          /\ fetch' = [fetch EXCEPT ![f] = "full"] /\ UNCHANGED holder
       \/ /\ ~refreshed(f[2])
          /\ fetch' = [fetch EXCEPT ![f] = "get"] /\ holder' = f
    /\ UNCHANGED <<feed, cache, follow, past>>

Fetched(f) ==
    /\ fetch[f] = "get"
    /\ cache' = [cache EXCEPT ![f[2]] = "fresh"]
    /\ fetch' = [fetch EXCEPT ![f] = "full"] /\ holder' = NoOne
    /\ past' = [past EXCEPT !.again = @ \/ cache[f[2]] = "fresh"]
    /\ UNCHANGED <<feed, follow>>

\* The network, or a feed that cannot be parsed: what was known is good enough.
FetchFails(f) ==
    /\ fetch[f] = "get" /\ past.fails < MaxFails
    /\ fetch' = [fetch EXCEPT ![f] = Known(f[2])] /\ holder' = NoOne
    /\ past' = [past EXCEPT !.fails = @ + 1]
    /\ UNCHANGED <<feed, cache, follow>>

Age(o) ==
    /\ cache[o] = "fresh"
    /\ cache' = [cache EXCEPT ![o] = "stale"]
    /\ UNCHANGED <<feed, holder, fetch, follow, past>>

-------------------------------------------------------------------------------
(* Who asks *)

Gather(a, S) == fetch' = [f \in DOMAIN fetch |-> IF f[1] = a THEN IF f[2] \in S THEN "check" ELSE "no" ELSE fetch[f]]

Over(a, S) == \A o \in S : fetch[<<a, o>>] \in {"no", "full", "empty"}

prewarm_all_outlets ==
    /\ Over("prewarmer", Outlets)
    /\ Gather("prewarmer", Outlets)
    /\ UNCHANGED <<feed, cache, holder, follow, past>>

Orders == {s \in UNION {[1..n -> Outlets] : n \in 1..Limit} : \A i, j \in DOMAIN s : s[i] = s[j] => i = j}

get_headlines_for_user ==
    /\ follow = <<>>
    /\ \E s \in Orders : follow' = s /\ Gather("user", {s[i] : i \in DOMAIN s})
    /\ UNCHANGED <<feed, cache, holder, past>>

Answered == follow # <<>> /\ Over("user", Outlets)

Reply ==
    /\ Answered
    /\ follow' = <<>> /\ Gather("user", {})
    /\ UNCHANGED <<feed, cache, holder, past>>

-------------------------------------------------------------------------------
(* The headlines of a reply *)

Items(o)    == {<<i, o>> : i \in 1..(IF fetch[<<"user", o>>] = "full" THEN feed[o] ELSE 0)}
Newer(x, y) == x[1] < y[1] \/ (x[1] = y[1] /\ x[2] < y[2])
Newest(S, n) == {x \in S : Cardinality({y \in S : Newer(y, x)}) < n}

\* Mistake: the outlet followed last gets what is left over.
lastGetsMore == IF Len(follow) = 2 THEN <<Limit \div 2, Limit - Limit \div 2>> ELSE [i \in 1..Len(follow) |-> Limit \div Len(follow)]

quotas ==
    LET n == Len(follow)
    IN  IF n = 2 THEN <<Limit - Limit \div 2, Limit \div 2>>
        ELSE [i \in 1..n |-> Limit \div n + (IF i <= Limit % n THEN 1 ELSE 0)]

picked ==
    LET all   == UNION {Items(follow[i]) : i \in 1..Len(follow)}
        quota == UNION {Newest(Items(follow[i]), quotas[i]) : i \in 1..Len(follow)}
    IN  quota \cup Newest(all \ quota, Limit - Cardinality(quota))

Next ==
    \/ \E f \in Actors \X Outlets : Check(f) \/ Acquire(f) \/ Fetched(f) \/ FetchFails(f)
    \/ \E o \in Outlets : Age(o)
    \/ prewarm_all_outlets \/ get_headlines_for_user \/ Reply

-------------------------------------------------------------------------------

\* However requests and the prewarmer overlap, no outlet is fetched while its
\* cache is fresh.
FetchSpared == ~past.again

\* A reply is as full as it can be, no outlet is left out for the second item of
\* another, and of two outlets the one that is followed first has more of it.
SlotsAreFair ==
    Answered =>
        LET Of(i) == {x \in picked : x[2] = follow[i]}
            Has(i) == Items(follow[i])
            n == Len(follow)
        IN  /\ picked = UNION {Has(i) : i \in 1..n} \/ Cardinality(picked) = Limit
            /\ \A i \in 1..n : Has(i) # {} => <<1, follow[i]>> \in picked
            /\ n = 2 => Cardinality(Of(1)) > Cardinality(Of(2)) \/ Of(1) = Has(1)
===============================================================================
