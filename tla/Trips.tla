---------------------------------- MODULE Trips ----------------------------------
(***************************************************************************)
(* Trips and the link of one event to them: the trip editor and the voice  *)
(* screen, the trips of offlineSync with their push and pull, and the trips *)
(* service, which other devices use too.  A step is the code between two    *)
(* awaits on the server.                                                    *)
(***************************************************************************)
EXTENDS Naturals, FiniteSets

CONSTANTS
    TempIds,    \* the ids a device makes up, one for each trip it creates
    RealIds,    \* the ids the server gives
    None,       \* no trip
    MaxWrites   \* bound: writes of the event, on the device and elsewhere

VARIABLES
    trips,    \* the device's trips: id, local (never pushed), gone (tombstone)
    ev,       \* the device's event: its trip_id and when it was written
    queue,    \* the sync queue: items of trips, and one of the event
    screen,   \* the trip editor or the voice screen: what it does, its tripId
    push,     \* processSyncQueue: under way, its snapshot, what failed
    pull,     \* fullSync: its step and what it has read
    server,   \* the ids in db.trips
    sev,      \* the server's event
    del,      \* the trips whose events are unlinked and that are not deleted yet
    other,    \* the trip another device is about to link the event to
    past      \* history: the ids made, what excuses a property

vars == <<trips, ev, queue, screen, push, pull, server, sev, del, other, past>>

Idle == [pc |-> "idle", id |-> None]
NoPull == [pc |-> "idle", ev |-> None, trips |-> None, dead |-> {}]
NoPush == [on |-> FALSE, todo |-> {}, failed |-> {}]
Event == "event"

\* The device has the trip that the server has; the event is in none.
Init ==
    /\ \E ids \in {{}, {CHOOSE i \in RealIds : TRUE}} :
           /\ server = ids
           /\ trips = {[id |-> i, local |-> FALSE, gone |-> FALSE, young |-> FALSE] : i \in ids}
           /\ past = [made |-> ids, gone |-> {}, temp |-> FALSE, held |-> FALSE, raced |-> FALSE]
    /\ ev = [link |-> None, at |-> 0] /\ sev = [link |-> None, at |-> 0]
    /\ queue = {} /\ screen = Idle /\ push = NoPush /\ pull = NoPull
    /\ del = {} /\ other = None

Now == IF ev.at > sev.at THEN ev.at ELSE sev.at
Stored(id) == \E t \in trips : t.id = id
Dead == (past.made \ TempIds) \ (server \cup del)

-------------------------------------------------------------------------------
(* The queue *)

Item(id, op, at) == [id |-> id, op |-> op, at |-> at, link |-> None]

\* One item per record: it keeps the operation it began with, unless it is
\* deleted; the delete of what was never created leaves nothing.
enqueueOperation(q, item) ==
    LET old == {x \in q : x.id = item.id}
    IN  (q \ old) \cup
            IF old = {} THEN {item}
            ELSE {[item EXCEPT !.op = IF item.op = "delete" THEN "delete" ELSE x.op]
                     : x \in {y \in old : item.op = "delete" => y.op # "create"}}

-------------------------------------------------------------------------------
(* The screens *)

\* Opened for a trip of the list; the user may go back.
OpenEditor ==
    /\ screen = Idle
    /\ \E t \in {u \in trips : ~u.gone} : screen' = [pc |-> "open", id |-> t.id]
    /\ UNCHANGED <<trips, ev, queue, push, pull, server, sev, del, other, past>>

Leave ==
    /\ screen.pc = "open" /\ screen' = Idle
    /\ UNCHANGED <<trips, ev, queue, push, pull, server, sev, del, other, past>>

\* Both screens create a trip; the voice screen for the event it makes next.
createTripOffline ==
    /\ screen = Idle
    /\ \E id \in TempIds \ past.made :
           /\ trips' = trips \cup
                  {[id |-> id, local |-> TRUE, gone |-> FALSE, young |-> pull.pc # "idle"]}
           /\ queue' = enqueueOperation(queue, Item(id, "create", 0))
           /\ past' = [past EXCEPT !.made = @ \cup {id}]
           /\ \E pc \in {"creating", "voice"} : screen' = [pc |-> pc, id |-> id]
    /\ UNCHANGED <<ev, push, pull, server, sev, del, other>>

\* The call returns the trip as it was made, whether it was pushed meanwhile or not.
createdId == screen.id

CreateReturns ==
    /\ screen.pc = "creating" /\ screen' = [pc |-> "open", id |-> createdId]
    /\ UNCHANGED <<trips, ev, queue, push, pull, server, sev, del, other, past>>

\* updateTripOffline: a trip that is not in the store is passed over.
handleSave ==
    /\ screen.pc = "open" /\ screen' = Idle
    /\ queue' = IF Stored(screen.id)
                THEN LET t == CHOOSE u \in trips : u.id = screen.id
                     IN  enqueueOperation(queue, Item(t.id, IF t.local THEN "create" ELSE "update", 0))
                ELSE queue
    /\ UNCHANGED <<trips, ev, push, pull, server, sev, del, other, past>>

\* What was never pushed goes with its create; a tombstone stays for the rest.
confirmDelete ==
    /\ screen.pc = "open"
    /\ LET id == screen.id
           local == \E t \in trips : t.id = id /\ t.local
       IN  /\ trips' = IF local THEN {t \in trips : t.id # id}
                       ELSE {[t EXCEPT !.gone = @ \/ t.id = id] : t \in trips}
           /\ queue' = IF local THEN {x \in queue : x.id # id}
                       ELSE enqueueOperation(queue, Item(id, "delete", 0))
           /\ screen' = IF local THEN Idle ELSE [pc |-> "deleting", id |-> id]
    /\ UNCHANGED <<ev, push, pull, server, sev, del, other, past>>

\* Online the tombstone goes once the push is over, whatever became of it.
deleteLocalTrip ==
    /\ screen.pc = "deleting" /\ screen' = Idle
    /\ trips' \in {trips, {t \in trips : t.id # screen.id}}
    /\ UNCHANGED <<ev, queue, push, pull, server, sev, del, other, past>>

\* updateEventOffline: the whole event is queued, its link included.
WriteEvent(link) ==
    /\ Now < MaxWrites
    /\ ev' = [link |-> link, at |-> Now + 1]
    /\ queue' = enqueueOperation(queue, [Item(Event, "update", Now + 1) EXCEPT !.link = link])
    /\ past' = [past EXCEPT !.temp = @ \/ (link \in TempIds /\ link # ev.link),
                            !.held = @ \/ link \in Dead]
    /\ UNCHANGED <<trips, push, pull, server, sev, del, other>>

\* The picker offers the events that are in no trip.
linkEvent == screen.pc = "open" /\ ev.link = None /\ WriteEvent(screen.id) /\ UNCHANGED screen

unlinkEvent ==
    /\ screen.pc = "open" /\ ev.link = screen.id
    /\ WriteEvent(None) /\ UNCHANGED screen

\* saveAll: its new event, which stands for the one here, gets the id the trip was
\* made with.
saveAll ==
    /\ screen.pc = "voice" /\ ev.link = None
    /\ WriteEvent(createdId) /\ screen' = Idle

\* The event editor saves something else of the event.
EditEvent == WriteEvent(ev.link) /\ UNCHANGED screen

-------------------------------------------------------------------------------
(* The trips service, for this device and for others *)

\* Mistake: the trip goes and its events keep its id.
keepLinks(link, id) == link

\* update_many: the events of the trip lose it; their time stays.
unlinked(link, id) == IF link = id THEN None ELSE link

BeginDelete(id) ==
    /\ del' = del \cup {id}
    /\ sev' = [sev EXCEPT !.link = unlinked(@, id)]

EndDelete(id) ==
    /\ del' = del \ {id}
    /\ server' = server \ {id}

otherDelete ==
    /\ \E id \in server \ del : BeginDelete(id)
    /\ UNCHANGED <<trips, ev, queue, screen, push, pull, server, other, past>>

deleteEnds ==
    /\ \E id \in del : EndDelete(id) /\ past' = [past EXCEPT !.gone = @ \cup {id}]
    /\ UNCHANGED <<trips, ev, queue, screen, push, pull, sev, other>>

\* The server restarts between the two writes.
Restart ==
    /\ del # {} /\ del' = {}
    /\ UNCHANGED <<trips, ev, queue, screen, push, pull, server, sev, other, past>>

\* Another device links the event to a trip it has seen, which may be gone.
otherPicks ==
    /\ other = None /\ Now < MaxWrites
    /\ \E id \in server : other' = id
    /\ UNCHANGED <<trips, ev, queue, screen, push, pull, server, sev, del, past>>

otherLinks ==
    /\ other # None /\ Now < MaxWrites
    /\ sev' = [link |-> other, at |-> Now + 1]
    /\ past' = [past EXCEPT !.raced = @ \/ other \in del \/ other \notin server]
    /\ other' = None
    /\ UNCHANGED <<trips, ev, queue, screen, push, pull, server, del>>

-------------------------------------------------------------------------------
(* processSyncQueue *)

PushBegins ==
    /\ ~push.on /\ queue # {}
    /\ push' = [on |-> TRUE, todo |-> queue, failed |-> {}]
    /\ UNCHANGED <<trips, ev, queue, screen, pull, server, sev, del, other, past>>

\* One item's request is answered.  The order of the items does not matter here.
Pushed(item) ==
    /\ item \in push.todo
    /\ push' = [push EXCEPT !.todo = @ \ {item}]
    /\ UNCHANGED <<ev, queue, screen, pull, other>>

PushCreate ==
    \E item \in push.todo, real \in RealIds \ past.made :
        /\ item.op = "create" /\ Pushed(item)
        /\ server' = server \cup {real}
        /\ trips' = {IF t.id = item.id THEN [t EXCEPT !.id = real, !.local = FALSE] ELSE t : t \in trips}
        /\ past' = [past EXCEPT !.made = @ \cup {real}]
        /\ UNCHANGED <<sev, del>>

PushEvent ==
    \E item \in push.todo :
        /\ item.id = Event /\ Pushed(item)
        /\ sev' = [link |-> item.link, at |-> item.at]
        /\ past' = [past EXCEPT !.held = @ \/ item.link \in (RealIds \ server) \cup del]
        /\ UNCHANGED <<trips, server, del>>

PushUpdate ==
    /\ \E item \in push.todo : item.op = "update" /\ item.id \in server /\ Pushed(item)
    /\ UNCHANGED <<trips, server, sev, del, past>>

PushDelete ==
    \E item \in push.todo :
        /\ item.op = "delete" /\ item.id \in server \ del
        /\ Pushed(item) /\ BeginDelete(item.id)
        /\ UNCHANGED <<trips, server, past>>

\* The request fails, or the trip is not there: the item is kept, or was
\* refused too often.
PushFails ==
    /\ \E item \in push.todo, kept \in BOOLEAN :
           push' = [push EXCEPT !.todo = @ \ {item}, !.failed = IF kept THEN @ \cup {item} ELSE @]
    /\ UNCHANGED <<trips, ev, queue, screen, pull, server, sev, del, other, past>>

\* The queue is overwritten with what failed of the snapshot.
PushEnds ==
    /\ push.on /\ push.todo = {}
    /\ queue' = push.failed /\ push' = NoPush
    /\ UNCHANGED <<trips, ev, screen, pull, server, sev, del, other, past>>

-------------------------------------------------------------------------------
(* fullSync, as far as events and trips go *)

PullBegins ==
    /\ pull.pc = "idle" /\ pull' = [NoPull EXCEPT !.pc = "read"]
    /\ trips' = {[t EXCEPT !.young = FALSE] : t \in trips}
    /\ UNCHANGED <<ev, queue, screen, push, server, sev, del, other, past>>

\* The two collections are read at once.
ReadEvents ==
    /\ pull.pc = "read" /\ pull.ev = None
    /\ pull' = [pull EXCEPT !.ev = sev, !.dead = Dead]
    /\ UNCHANGED <<trips, ev, queue, screen, push, server, sev, del, other, past>>

ReadTrips ==
    /\ pull.pc = "read" /\ pull.trips = None /\ pull' = [pull EXCEPT !.trips = [ids |-> server]]
    /\ UNCHANGED <<trips, ev, queue, screen, push, server, sev, del, other, past>>

\* Mistake: of two copies written at the same time the device's stays.
deviceWinsTies(mine, theirs) == ~(theirs.at > mine.at)

\* isNewerTimestamp
deviceWins(mine, theirs) == mine.at > theirs.at

MergeEvents ==
    /\ pull.pc = "read" /\ pull.ev # None /\ pull' = [pull EXCEPT !.pc = "trips"]
    /\ ev' = IF deviceWins(ev, pull.ev) THEN ev ELSE pull.ev
    /\ past' = [past EXCEPT !.gone = IF ev.at > pull.ev.at THEN @ ELSE @ \ pull.dead]
    /\ UNCHANGED <<trips, queue, screen, push, server, sev, del, other>>

\* Trips have no updated_at: the server's copy is as new as the device's.  One
\* that was not returned goes, unless it was made since the pull began.
MergeTrips ==
    /\ pull.pc = "trips" /\ pull.trips # None /\ pull' = NoPull
    /\ LET returned == pull.trips.ids
           mine == {t \in trips : t.id \notin returned /\ (t.local \/ (t.young /\ ~t.gone))}
           both == {t \in trips : t.id \in returned /\ t.gone}
           theirs == {[id |-> i, local |-> FALSE, gone |-> FALSE, young |-> FALSE]
                         : i \in returned \ {t.id : t \in both}}
       IN  trips' = mine \cup both \cup theirs
    /\ UNCHANGED <<ev, queue, screen, push, server, sev, del, other, past>>

\* Either read fails: that merge is passed over.
PullFails ==
    /\ pull.pc # "idle" /\ pull' = NoPull
    /\ UNCHANGED <<trips, ev, queue, screen, push, server, sev, del, other, past>>

Next ==
    \/ OpenEditor \/ Leave \/ createTripOffline \/ CreateReturns \/ handleSave
    \/ confirmDelete \/ deleteLocalTrip \/ linkEvent \/ unlinkEvent \/ saveAll \/ EditEvent
    \/ otherDelete \/ deleteEnds \/ Restart \/ otherPicks \/ otherLinks
    \/ PushBegins \/ PushCreate \/ PushEvent \/ PushUpdate \/ PushDelete \/ PushFails \/ PushEnds
    \/ PullBegins \/ ReadEvents \/ ReadTrips \/ MergeEvents \/ MergeTrips \/ PullFails

Spec == Init /\ [][Next]_vars

-------------------------------------------------------------------------------
(* Properties.  `past' tells what excuses them:                            *)
(*   temp   the event was linked under the id a trip was made with         *)
(*   held   the event was saved, or sent, with the id of a deleted trip    *)
(*   raced  another device linked it to a trip that was being deleted      *)
(*   gone   the trips deleted since the event was last taken from a pull   *)

\* The event's link names a trip of the server, on the server at all times and
\* on the device from the next pull on: the deletion of a trip leaves the
\* event's time alone, and still every device learns of it.
LinksLive ==
    past.temp \/ past.held \/ past.raced
        \/ /\ sev.link = None \/ sev.link \in server
           /\ ev.link = None \/ ev.link \in server \cup past.gone

\* A screen links the event to a trip the device has: "no caller needs the real
\* server id back synchronously" (offlineSync.ts:628).
LinkedTripIsStored ==
    [][queue' # queue /\ ev'.link \notin {None, ev.link} => Stored(ev'.link)]_vars
===============================================================================
