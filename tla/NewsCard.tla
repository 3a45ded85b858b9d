-------------------------------- MODULE NewsCard --------------------------------
(***************************************************************************)
(* The Daily Brew card (DailyBrewCard.tsx) and the screen that chooses its  *)
(* news sources (news-source-settings.tsx): the screen saves by itself, on  *)
(* a timer and when it is left, the server keeps the choice, and the card   *)
(* shows what a cache of today has, or fetches it anew.                     *)
(* A choice of sources is the number of the change that made it, 0 at the   *)
(* start, and news are the choice they were fetched for.                    *)
(***************************************************************************)
EXTENDS Naturals, FiniteSets

CONSTANTS
    MaxChanges,  \* bound: changes of the choice
    MaxVisits,   \* bound: visits of the settings
    MaxFails     \* bound: requests that fail

VARIABLES
    screen,  \* the settings: [open, choice, timer]
    puts,    \* saves under way: [n, pc, choice]
    user,    \* the choice in the user the app holds
    prefs,   \* the choice the server holds
    cache,   \* today's cache: None, or [news, fresh]
    card,    \* the run of the card's focus effect: [pc, news]
    writes,  \* cache writes that have read the old cache, as news
    past     \* counters, and what excuses the property

vars == <<screen, puts, user, prefs, cache, card, writes, past>>

None  == [news |-> 0, fresh |-> FALSE]
Empty == MaxChanges + 1   \* no headlines, what a failed fetch gives
Idle  == [pc |-> "no", news |-> 0]
Run   == [Idle EXCEPT !.pc = "reading"]

Init ==
    /\ screen = [open |-> FALSE, choice |-> 0, timer |-> FALSE]
    /\ puts = {} /\ user = 0 /\ prefs = 0 /\ writes = {}
    /\ cache = None /\ card = Run
    /\ past = [changes |-> 0, visits |-> 0, puts |-> 0, fails |-> 0, lost |-> FALSE,
               crossed |-> FALSE, straddled |-> FALSE]

Fail == past.fails < MaxFails /\ past' = [past EXCEPT !.fails = @ + 1]

-------------------------------------------------------------------------------
(* The settings *)

persistPrefs ==
    /\ puts' = puts \cup {[n |-> past.puts + 1, pc |-> "sent", choice |-> screen.choice]}
    /\ past' = [past EXCEPT !.puts = @ + 1, !.crossed = @ \/ puts # {}]

\* The screen starts from the user the app holds; the card loses its focus.
Open ==
    /\ ~screen.open /\ past.visits < MaxVisits
    /\ screen' = [open |-> TRUE, choice |-> user, timer |-> FALSE]
    /\ card' = Idle
    /\ past' = [past EXCEPT !.visits = @ + 1, !.crossed = @ \/ puts # {}]
    /\ UNCHANGED <<puts, user, prefs, cache, writes>>

\* A toggle, a feed that is added, or the default picks of a first visit.
setSelectedOutletIds ==
    /\ screen.open /\ past.changes < MaxChanges
    /\ screen' = [screen EXCEPT !.choice = past.changes + 1, !.timer = TRUE]
    /\ past' = [past EXCEPT !.changes = @ + 1]
    /\ UNCHANGED <<puts, user, prefs, cache, card, writes>>

AutoSave ==
    /\ screen.timer
    /\ screen' = [screen EXCEPT !.timer = FALSE]
    /\ persistPrefs
    /\ UNCHANGED <<user, prefs, cache, card, writes>>

\* The way out cancels the timer and saves, changed or not.
Back ==
    /\ screen.open
    /\ screen' = [screen EXCEPT !.open = FALSE, !.timer = FALSE]
    /\ persistPrefs
    /\ card' = Run
    /\ UNCHANGED <<user, prefs, cache, writes>>

-------------------------------------------------------------------------------
(* A save, from the request to the clearing of the cache *)

To(p, pc, choice) == puts' = (puts \ {p}) \cup {[p EXCEPT !.pc = pc, !.choice = choice]}

update_news_preferences(p) ==
    /\ p.pc = "sent"
    /\ prefs' = p.choice /\ To(p, "landed", p.choice)
    /\ UNCHANGED <<screen, user, cache, card, writes, past>>

\* The row is read again for the reply.
Reply(p) ==
    /\ p.pc = "landed"
    /\ To(p, "replied", prefs)
    /\ UNCHANGED <<screen, user, prefs, cache, card, writes, past>>

PutFails(p) ==
    /\ p.pc \in {"sent", "landed"}
    /\ past.fails < MaxFails
    /\ past' = [past EXCEPT !.fails = @ + 1, !.lost = TRUE]
    /\ puts' = puts \ {p}
    /\ UNCHANGED <<screen, user, prefs, cache, card, writes>>

\* Mistake: the card's run goes on as if the user were the same.
goesOn == card

\* A new user object starts the effect of a focused card over.
rerun == IF screen.open THEN Idle ELSE Run

setUser(p) ==
    /\ p.pc = "replied"
    /\ user' = p.choice /\ card' = rerun /\ To(p, "clear", p.choice)
    /\ UNCHANGED <<screen, prefs, cache, writes, past>>

clearCachedBrew(p) ==
    /\ p.pc = "clear"
    /\ cache' = None /\ puts' = puts \ {p}
    /\ past' = [past EXCEPT !.straddled = @ \/ writes # {}]
    /\ UNCHANGED <<screen, user, prefs, card, writes>>

-------------------------------------------------------------------------------
(* The card *)

\* A cache of the last minutes is final.
getCachedBrew ==
    /\ card.pc = "reading"
    /\ card' = IF cache.fresh THEN [pc |-> "no", news |-> cache.news] ELSE [card EXCEPT !.pc = "asked"]
    /\ UNCHANGED <<screen, puts, user, prefs, cache, writes, past>>

\* The server reads the user's sources and answers; a failure is an empty list.
getHeadlines ==
    /\ card.pc = "asked"
    /\ \/ card' = [pc |-> "fetched", news |-> prefs] /\ UNCHANGED past
       \/ card' = [pc |-> "fetched", news |-> Empty] /\ Fail
    /\ UNCHANGED <<screen, puts, user, prefs, cache, writes>>

setNews ==
    /\ card.pc = "fetched"
    /\ card' = Idle
    /\ writes' = writes \cup {card.news}
    /\ UNCHANGED <<screen, puts, user, prefs, cache, past>>

setCachedBrew ==
    /\ \E w \in writes : cache' = [news |-> w, fresh |-> TRUE] /\ writes' = writes \ {w}
    /\ UNCHANGED <<screen, puts, user, prefs, card, past>>

\* Five minutes go by.
Age ==
    /\ cache.fresh
    /\ cache' = [cache EXCEPT !.fresh = FALSE]
    /\ UNCHANGED <<screen, puts, user, prefs, card, writes, past>>

\* The tab is focused again.
Focus ==
    /\ ~screen.open /\ card.pc = "no"
    /\ card' = Run
    /\ UNCHANGED <<screen, puts, user, prefs, cache, writes, past>>

Next ==
    \/ Open \/ setSelectedOutletIds \/ AutoSave \/ Back
    \/ \E p \in puts : update_news_preferences(p) \/ Reply(p) \/ PutFails(p) \/ setUser(p) \/ clearCachedBrew(p)
    \/ getCachedBrew \/ getHeadlines \/ setNews \/ setCachedBrew \/ Age \/ Focus

-------------------------------------------------------------------------------

\* Once the settings are left and every save is over, the server has the last
\* choice, unless a save was lost or two crossed, and the cache holds no news of
\* other sources: not those of a fetch that was under way when the choice was
\* saved, unless its cache write was.
CacheIsFollowed ==
    ~screen.open /\ puts = {} /\ writes = {} /\ card.pc = "no" /\ ~past.lost =>
        /\ past.crossed \/ prefs = past.changes
        /\ past.straddled \/ cache.news \in {prefs, Empty} \/ cache = None
===============================================================================
