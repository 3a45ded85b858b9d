------------------------------ MODULE CalendarSync ------------------------------
(***************************************************************************)
(* The import of the device's calendars (calendarSync.ts, its plan in      *)
(* calendarSyncCore.ts): a run of the app and a run of the background task  *)
(* share their state in AsyncStorage, a lock among it, and the server's     *)
(* events.  Each device event is in a calendar of its own; its content, and *)
(* the hash of it, is the time of its last change.                          *)
(***************************************************************************)
EXTENDS Naturals, FiniteSets

CONSTANTS
    Events,      \* the device's events, and the calendars they are in
    MaxChanges,  \* bound: what the user does on the device and in the settings
    MaxFaults    \* bound: failures, kills and runs that outlive the lock

\* The mark of ids that are not stored is no event.
ASSUME UnsetApart == "unset" \notin Events

VARIABLES
    device,  \* when each event was last changed; 0: not in its calendar
    old,     \* the events that have left the window
    chosen,  \* the calendars to sync; {}: the sync is off
    keys,    \* AsyncStorage: hashes, ids, lock, recent (LAST_RUN_AT)
    copies,  \* the account's events on the server, [dev, n, at]
    queue,   \* the deletes in the device's sync queue, [dev, n]
    runs,    \* runCalendarSync in each context
    count,   \* how many changes, faults and copies there were
    past     \* history: what happened that excuses a property

vars == <<device, old, chosen, keys, copies, queue, runs, count, past>>

Contexts == {"app", "task"}
Unset    == Events \cup {"unset"}   \* LAST_CALENDAR_IDS is not stored

None == [e \in Events |-> 0]        \* no hashes
Keys == [hashes |-> None, ids |-> Unset, lock |-> "free", recent |-> FALSE]

Idle == [pc |-> "idle", ids |-> {}, seen |-> None, known |-> {}, was |-> None, next |-> None, todo |-> {}]

Init ==
    /\ device = [e \in Events |-> 1] /\ old = {} /\ chosen = {}
    /\ keys = Keys /\ copies = {} /\ queue = {}
    /\ runs = [c \in Contexts |-> Idle]
    /\ count = [changes |-> 0, faults |-> 0, made |-> 0]
    /\ past = [overlap |-> FALSE, astray |-> FALSE, cut |-> FALSE,
               left |-> {}, removed |-> {}, late |-> {}, deleted |-> {}]

Changed == count.changes < MaxChanges /\ count' = [count EXCEPT !.changes = @ + 1]
Fault   == count.faults < MaxFaults /\ count' = [count EXCEPT !.faults = @ + 1]
Now     == count.changes + 2

-------------------------------------------------------------------------------
(* The user *)

EditOnDevice(e) ==
    /\ Changed /\ device' = [device EXCEPT ![e] = Now]
    /\ UNCHANGED <<old, chosen, keys, copies, queue, runs, past>>

RemoveFromDevice(e) ==
    /\ device[e] # 0 /\ Changed /\ device' = [device EXCEPT ![e] = 0]
    /\ past' = [past EXCEPT !.left = @ \cup {e}]
    /\ UNCHANGED <<old, chosen, keys, copies, queue, runs>>

\* Seven days after it has ended the event is no longer read.
LeaveWindow(e) ==
    /\ device[e] # 0 /\ e \notin old /\ Changed /\ old' = old \cup {e}
    /\ UNCHANGED <<device, chosen, keys, copies, queue, runs, past>>

\* calendar-sync-settings: the switch and the list of calendars.
setSyncedCalendarIds(ids) ==
    /\ Changed /\ chosen' = ids
    /\ UNCHANGED <<device, old, keys, copies, queue, runs, past>>

DeleteCopy(k) ==
    /\ Changed /\ copies' = copies \ {k}
    /\ past' = [past EXCEPT !.removed = @ \cup {k.dev}]
    /\ UNCHANGED <<device, old, chosen, keys, queue, runs>>

resetCalendarSyncState == Keys

\* The next user of the device has events of their own.  A run in progress
\* goes on with their tokens; the sync queue stays, too.
SwitchUser ==
    /\ Changed
    /\ keys' = resetCalendarSyncState /\ chosen' = {} /\ copies' = {}
    /\ past' = [past EXCEPT !.astray = @ \/ \E c \in Contexts : runs[c].pc # "idle",
                            !.removed = {}, !.late = {}]
    /\ UNCHANGED <<device, old, queue, runs>>

-------------------------------------------------------------------------------
(* planCalendarSync *)

Action(kind, d, known) == {[kind |-> kind, dev |-> d, n |-> k.n] : k \in {x \in known : x.dev = d}}

\* Mistake: the copies of a calendar that was deselected go, too.
everySelection(storedIds, ids, hashes) == TRUE

isCalendarSelectionUnchanged(storedIds, ids, hashes) ==
    IF storedIds = Unset THEN hashes # None ELSE storedIds = ids

planCalendarSync(seen, known, hashes, selectionUnchanged) ==
    UNION {IF seen[d] # 0
           THEN IF seen[d] = hashes[d] THEN {}
                ELSE IF Action("update", d, known) # {} THEN Action("update", d, known)
                ELSE {[kind |-> "create", dev |-> d, n |-> 0]}
           ELSE IF selectionUnchanged /\ seen # None /\ hashes[d] # 0 THEN Action("delete", d, known)
                ELSE {} : d \in Events}

-------------------------------------------------------------------------------
(* runCalendarSync *)

Stays == UNCHANGED <<device, old, chosen, queue>>
Goes(c, pc) == runs' = [runs EXCEPT ![c].pc = pc]

\* Mistake: a lock that was left behind counts for ever.
anyLock == keys.lock # "free"

lockHeld == keys.lock = "held"

\* The settings' runs are forced, the others are throttled.
runCalendarSync(c) ==
    /\ runs[c].pc = "idle" /\ chosen # {}
    /\ c = "app" \/ ~keys.recent
    /\ ~lockHeld
    /\ runs' = [runs EXCEPT ![c] = [Idle EXCEPT !.pc = "lock", !.ids = chosen]]
    /\ Stays /\ UNCHANGED <<keys, copies, count, past>>

TakeLock(c) ==
    /\ runs[c].pc = "lock"
    /\ keys' = [keys EXCEPT !.lock = "held"]
    /\ Goes(c, "device")
    /\ past' = [past EXCEPT !.overlap = @ \/ \E d \in Contexts \ {c} : runs[d].pc # "idle"]
    /\ Stays /\ UNCHANGED <<copies, count>>

\* A transient read may be empty.
ReadDevice(c) ==
    /\ runs[c].pc = "device"
    /\ \/ /\ runs' = [runs EXCEPT ![c].pc = "copies",
                          ![c].seen = [e \in Events |-> IF e \in runs[c].ids \ old THEN device[e] ELSE 0]]
          /\ UNCHANGED count
       \/ Fault /\ Goes(c, "copies")
       \/ Fault /\ Goes(c, "unlock")
    /\ Stays /\ UNCHANGED <<keys, copies, past>>

\* Mistake: the pages that did arrive are taken for the whole list.
partTaken == SUBSET copies

wholeTaken == {copies}

\* Without every one of the account's events the run gives up.
ReadCopies(c) ==
    /\ runs[c].pc = "copies"
    /\ \/ \E part \in wholeTaken : runs' = [runs EXCEPT ![c].pc = "plan", ![c].known = part]
          /\ UNCHANGED count
       \/ Fault /\ Goes(c, "unlock")
    /\ Stays /\ UNCHANGED <<keys, copies, past>>

\* The hashes are those of a plan that succeeds.
Plan(c) ==
    /\ runs[c].pc = "plan"
    /\ runs' = [runs EXCEPT ![c].pc = "apply", ![c].was = keys.hashes, ![c].next = runs[c].seen,
                    ![c].todo = planCalendarSync(runs[c].seen, runs[c].known, keys.hashes,
                                    isCalendarSelectionUnchanged(keys.ids, runs[c].ids, keys.hashes))]
    /\ Stays /\ UNCHANGED <<keys, copies, count, past>>

priorHash(r, a) == [r.next EXCEPT ![a.dev] = r.was[a.dev]]

Create(a, at) ==
    /\ copies' = copies \cup {[dev |-> a.dev, n |-> count.made + 1, at |-> at]}
    /\ past' = [past EXCEPT !.removed = @ \ {a.dev}, !.late = @ \ {a.dev}]

\* An update of a copy that is gone is answered 404; a delete goes through the
\* queue, and its push may carry it at once.
Carry(a, at) ==
    CASE a.kind = "create" -> Create(a, at)
      [] a.kind = "update" -> /\ copies' = {IF k.n = a.n THEN [k EXCEPT !.at = at] ELSE k : k \in copies}
                              /\ UNCHANGED past
      [] a.kind = "delete" -> /\ copies' = {k \in copies : k.n # a.n}
                              /\ past' = [past EXCEPT !.deleted = @ \cup {a.dev}]

Done(c, a) == runs' = [runs EXCEPT ![c].todo = @ \ {a}]
Failed(c, a) == runs' = [runs EXCEPT ![c].todo = @ \ {a}, ![c].next = priorHash(runs[c], a)]

\* deleteEventOffline catches what its push throws: offline, on an error or
\* while another push is under way the delete stays queued and counts as done.
\* Only a storage write that fails, before or after that, is seen by the run.
Queued(c, a) ==
    /\ a.kind = "delete"
    /\ queue' = queue \cup {[dev |-> a.dev, n |-> a.n]}
    /\ (Done(c, a) /\ UNCHANGED count) \/ (Failed(c, a) /\ Fault)
    /\ UNCHANGED <<copies, past>>

Apply(c, a) ==
    /\ runs[c].pc = "apply"
    /\ \/ /\ a.kind = "update" => \E k \in copies : k.n = a.n
          /\ Carry(a, runs[c].seen[a.dev]) /\ UNCHANGED queue
          /\ LET n == IF a.kind = "create" THEN 1 ELSE 0 IN
             \/ Done(c, a) /\ count' = [count EXCEPT !.made = @ + n]
             \/ Failed(c, a) /\ count.faults < MaxFaults
                /\ count' = [count EXCEPT !.made = @ + n, !.faults = @ + 1]
       \/ Failed(c, a) /\ Fault /\ UNCHANGED <<copies, past, queue>>
       \/ /\ a.kind = "update" /\ ~\E k \in copies : k.n = a.n
          /\ Failed(c, a) /\ UNCHANGED <<copies, past, queue, count>>
       \/ Queued(c, a)
    /\ UNCHANGED <<device, old, chosen, keys>>

SaveHashes(c) ==
    /\ runs[c].pc = "apply" /\ runs[c].todo = {}
    /\ keys' = [keys EXCEPT !.hashes = runs[c].next]
    /\ Goes(c, "ids")
    /\ Stays /\ UNCHANGED <<copies, count, past>>

SaveIds(c) ==
    /\ runs[c].pc = "ids"
    /\ keys' = [keys EXCEPT !.ids = runs[c].ids, !.recent = TRUE]
    /\ Goes(c, "unlock")
    /\ Stays /\ UNCHANGED <<copies, count, past>>

\* The lock is removed whoever holds it by now.
Unlock(c) ==
    /\ runs[c].pc = "unlock"
    /\ keys' = [keys EXCEPT !.lock = "free"]
    /\ runs' = [runs EXCEPT ![c] = Idle]
    /\ Stays /\ UNCHANGED <<copies, count, past>>

-------------------------------------------------------------------------------
(* processSyncQueue, of the deletes *)

\* A later push deletes the copy as it is by then: of an event that has come
\* back to the device, and was updated, too.
CarryDelete(q) ==
    /\ \E k \in copies : k.n = q.n
    /\ copies' = {k \in copies : k.n # q.n} /\ queue' = queue \ {q}
    /\ past' = [past EXCEPT !.deleted = @ \cup {q.dev},
                            !.late = IF device[q.dev] # 0 THEN @ \cup {q.dev} ELSE @]
    /\ UNCHANGED <<device, old, chosen, keys, runs, count>>

\* It leaves the queue unsent after five retries, which a copy that is gone
\* needs no fault for, or when another push writes the queue back.
DropDelete(q) ==
    /\ queue' = queue \ {q}
    /\ IF \E k \in copies : k.n = q.n THEN Fault ELSE UNCHANGED count
    /\ UNCHANGED <<device, old, chosen, keys, copies, runs, past>>

-------------------------------------------------------------------------------
(* Time and kills *)

ThrottleEnds ==
    /\ keys.recent /\ keys' = [keys EXCEPT !.recent = FALSE]
    /\ Stays /\ UNCHANGED <<copies, runs, count, past>>

LockLeft == \A c \in Contexts : runs[c].pc \in {"idle", "lock"}

\* Two minutes: a lock that a kill has left, or a run that takes longer.
LockExpires ==
    /\ keys.lock = "held" /\ keys' = [keys EXCEPT !.lock = "stale"]
    /\ IF LockLeft THEN UNCHANGED count ELSE Fault
    /\ Stays /\ UNCHANGED <<copies, runs, past>>

Killed ==
    /\ Fault /\ \E c \in Contexts : runs[c].pc # "idle"
    /\ runs' = [c \in Contexts |-> Idle]
    /\ past' = [past EXCEPT !.cut = @ \/ \E c \in Contexts : runs[c].pc = "ids"]
    /\ Stays /\ UNCHANGED <<keys, copies>>

Step(c) == \/ TakeLock(c) \/ ReadDevice(c) \/ ReadCopies(c) \/ Plan(c)
           \/ (\E a \in runs[c].todo : Apply(c, a)) \/ SaveHashes(c) \/ SaveIds(c) \/ Unlock(c)

User ==
    \/ \E e \in Events : EditOnDevice(e) \/ RemoveFromDevice(e) \/ LeaveWindow(e)
    \/ (\E ids \in SUBSET Events : setSyncedCalendarIds(ids)) \/ (\E k \in copies : DeleteCopy(k)) \/ SwitchUser

Next ==
    \/ User
    \/ \E c \in Contexts : runCalendarSync(c) \/ Step(c)
    \/ \E q \in queue : CarryDelete(q) \/ DropDelete(q)
    \/ ThrottleEnds \/ LockExpires \/ Killed

\* The app is opened again and again, whose runs are throttled; time goes on.
Fairness ==
    /\ \A c \in Contexts : WF_vars(Step(c))
    /\ WF_vars(~keys.recent /\ runCalendarSync("app"))
    /\ WF_vars(ThrottleEnds) /\ WF_vars(LockLeft /\ LockExpires)

Spec == Init /\ [][Next]_vars /\ Fairness

-------------------------------------------------------------------------------
(* Properties.  `past' tells what excuses them: two runs overlapped (the    *)
(* lock is read and then set, and it expires), the user changed during a    *)
(* run, a kill came between the hashes and the calendar ids, the user       *)
(* deleted a copy, or a queued delete took it when its event was back.      *)

Sound == ~past.overlap /\ ~past.astray

\* A device event has one copy at most: a create whose reply is lost, an
\* incomplete read of the account's events or a kill do not import it twice.
OneCopyEach == Sound => \A k, l \in copies : k.dev = l.dev => k = l

\* The sync deletes the copy of an event only if the event was removed at its
\* source or has left the window, whenever the queue carries the delete;
\* deselecting its calendar deletes nothing.
DeletedIsGone == Sound /\ ~past.cut => past.deleted \subseteq past.left \cup old

Imported == \A e \in chosen \ old :
    device[e] # 0 => e \in past.removed \cup past.late \/ \E k \in copies : k.dev = e /\ k.at = device[e]

\* Once the user and the faults have come to an end every chosen event is
\* imported with its last change: the lock that a killed run has left behind,
\* or a failed create or update, delays it only.  A delete that was queued
\* when the event was gone may take its copy after it has come back (`late').
GetsImported == <>[](Imported \/ ~Sound \/ past.cut)
===============================================================================
