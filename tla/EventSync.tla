------------------------------- MODULE EventSync -------------------------------
(***************************************************************************)
(* One event of a device from its editor to the server: the autosave and   *)
(* the save on Back under the save lock (app/event-editor.tsx), the event  *)
(* operations and the push and pull of offlineSync.ts, and the reminder    *)
(* scheduled with the OS, which the editor and refreshRecurringReminders   *)
(* replace.  Events share the queue with notes (NoteSync) but have no      *)
(* aliases, no conflict check and a POST of their own on creation.         *)
(* The event repeats and always has a reminder; its content is the time of *)
(* the edit.  A step is the code between two awaits that wait; what it     *)
(* saves is durable, the rest is lost when the app is killed.              *)
(***************************************************************************)
EXTENDS SyncMerge, FiniteSets

CONSTANTS
    MAX_RETRIES,  \* 5 in the code
    MaxEdits,     \* bound: how often the user types
    MaxIds,       \* bound: the events the server may make
    MaxNotes,     \* bound: the notifications scheduled
    MaxRuns       \* bound: pulls, refreshes and kills together

ASSUME NaturalBounds == {MAX_RETRIES, MaxEdits, MaxIds, MaxNotes, MaxRuns} \subseteq Nat

VARIABLES
    now,      \* the time of the newest edit
    srv,      \* the server's events, [id, at]
    made,     \* how many events the server has made: ids 1..made
    local,    \* events.json
    queue,    \* syncQueue.json, the event's items
    push,     \* processSyncQueue; pc "idle" is ~_isSyncing
    full,     \* fullSync, the events' part
    ed,       \* the editor screen's refs, the last one's after it is closed
    wants,    \* the saves waiting for the lock or holding it
    save,     \* the save that holds the lock
    del,      \* deleteEventOffline in progress
    refresh,  \* refreshRecurringReminders at one event
    os,       \* the notifications scheduled with the OS
    notes,    \* how many were ever scheduled
    past      \* history: what happened that excuses a property

vars == <<now, srv, made, local, queue, push, full, ed, wants, save, del, refresh, os, notes, past>>

-------------------------------------------------------------------------------
(* Data *)

Temp == 0     \* local_<uuid>; the server's ids are 1, 2, ...
NoId == MaxIds + 1

Event(i, at, isLocal, note) ==
    [id |-> i, updated_at |-> at, created_at |-> 1, isLocal |-> isLocal,
     pendingDelete |-> FALSE, note |-> note]
Item(i, op, at) == [id |-> i, operation |-> op, at |-> at, retries |-> 0]

IdlePush    == [pc |-> "idle", todo |-> {}, failed |-> {}, item |-> Item(Temp, "none", 0), reply |-> NoId]
IdleFull    == [pc |-> "idle", at |-> 0, seen |-> {}, complete |-> FALSE]
IdleSave    == [pc |-> "idle", by |-> "none", new |-> FALSE, isLocal |-> FALSE, at |-> 0, note |-> 0, reply |-> NoId]
IdleDel     == [pc |-> "idle", id |-> NoId, list |-> FALSE]
IdleRefresh == [pc |-> "idle", id |-> NoId, note |-> 0]
Closed      == [open |-> FALSE, id |-> NoId, created |-> FALSE, ref |-> 0, draft |-> 0,
                saved |-> 0, timer |-> FALSE]

Init ==
    /\ now = 0
    /\ srv = {} /\ made = 0
    /\ local = {} /\ queue = {}
    /\ push = IdlePush /\ full = IdleFull
    /\ ed = [Closed EXCEPT !.open = TRUE]
    /\ wants = {} /\ save = IdleSave /\ del = IdleDel /\ refresh = IdleRefresh
    /\ os = {} /\ notes = 0
    /\ past = [lost |-> FALSE, raced |-> FALSE, stale |-> FALSE, dropped |-> FALSE, astray |-> FALSE, cut |-> FALSE,
               runs |-> 0]

Did(event)  == past' = [past EXCEPT ![event] = TRUE]
Excused(event, cond) == IF cond THEN Did(event) ELSE UNCHANGED past

\* The OS replaces the notification old by a new one; an occurrence whose time
\* has passed gets none.
Schedule(old, n) ==
    /\ n \in {0} \cup {m \in {notes + 1} : m <= MaxNotes}
    /\ os' = (os \ {old}) \cup ({n} \ {0})
    /\ notes' = IF n = 0 THEN notes ELSE n

enqueueOperation(item) ==
    LET old == WithId(queue, item.id)
    IN  IF old = {} THEN queue \cup {item}
        ELSE (queue \ old) \cup
             {[o EXCEPT !.operation = IF item.operation = "delete" THEN "delete" ELSE @, !.at = item.at] :
                 o \in {p \in old : ~(item.operation = "delete" /\ p.operation = "create")}}

unqueued(i) == {q \in queue : q.id # i}

upsertLocalEvent(e) == (local \ WithId(local, e.id)) \cup {e}

\* processSyncQueue: one that runs already makes this call return at once.
processSyncQueue(Q) ==
    push' = IF push.pc # "idle" \/ Q = {} THEN push ELSE [IdlePush EXCEPT !.pc = "next", !.todo = Q]

-------------------------------------------------------------------------------
(* The editor *)

\* The dialog of a delete covers the form.
Type ==
    /\ ed.open /\ now < MaxEdits /\ del.pc = "idle"
    /\ now' = now + 1
    /\ ed' = [ed EXCEPT !.draft = now + 1, !.timer = TRUE]
    /\ UNCHANGED <<srv, made, local, queue, push, full, wants, save, del, refresh, os, notes, past>>

\* The timer fires, on a closed screen too unless Back has cleared it.
triggerAutoSave ==
    /\ ed.timer
    /\ ed' = [ed EXCEPT !.timer = FALSE]
    /\ wants' = IF ed.draft = ed.saved THEN wants ELSE wants \cup {"auto"}
    /\ UNCHANGED <<now, srv, made, local, queue, push, full, save, del, refresh, os, notes, past>>

handleBack ==
    /\ ed.open /\ ed.draft # 0 /\ del.pc = "idle"
    /\ ed' = [ed EXCEPT !.timer = FALSE, !.open = FALSE]
    /\ wants' = wants \cup {"back"}
    /\ UNCHANGED <<now, srv, made, local, queue, push, full, save, del, refresh, os, notes, past>>

isNew == ~ed.created

\* A save takes the lock.  Only the autosave schedules the reminder.
withSaveLock(w) ==
    /\ w \in wants /\ save.pc = "idle"
    /\ save' = [IdleSave EXCEPT !.pc = IF w = "auto" THEN "schedule" ELSE "write", !.by = w, !.note = ed.ref]
    /\ UNCHANGED <<now, srv, made, local, queue, push, full, ed, wants, del, refresh, os, notes, past>>

\* Before the write, and once more when the new event has its id.
scheduleReminder ==
    /\ save.pc \in {"schedule", "again"}
    /\ \E n \in 0..MaxNotes :
           /\ Schedule(ed.ref, n)
           /\ ed' = [ed EXCEPT !.ref = n]
           /\ save' = [save EXCEPT !.note = n, !.pc = IF @ = "schedule" THEN "write" ELSE "keep"]
    /\ UNCHANGED <<now, srv, made, local, queue, push, full, wants, del, refresh, past>>

\* buildEventData and the local write.  An event that is gone is not updated,
\* and neither is one whose temp id the push has swapped.  The save goes on with
\* the record it read, whatever becomes of it during the write.
WriteEvent ==
    /\ save.pc = "write"
    /\ LET held == WithId(local, ed.id) IN
       /\ local' = IF isNew THEN upsertLocalEvent(Event(Temp, ed.draft, TRUE, 0))
                   ELSE {IF e.id = ed.id THEN [e EXCEPT !.updated_at = ed.draft] ELSE e : e \in local}
       /\ save' = [save EXCEPT !.new = isNew, !.at = ed.draft, !.isLocal = isNew \/ \E e \in held : e.isLocal,
                               !.pc = IF isNew \/ held # {} THEN "enqueue" ELSE "keep"]
       /\ Excused("astray", ~isNew /\ held = {})
    /\ UNCHANGED <<now, srv, made, queue, push, full, ed, wants, del, refresh, os, notes>>

\* The event has an id for the editor: the autosave goes on with its reminder.
Named(i) ==
    /\ ed' = [ed EXCEPT !.id = i, !.created = TRUE]
    /\ save' = [save EXCEPT !.pc = IF save.by = "auto" /\ save.note # 0 THEN "again" ELSE "keep"]

\* enqueueOperation, then offline, the POST, or a push.
EnqueueEvent ==
    /\ save.pc = "enqueue"
    /\ queue' = enqueueOperation(Item(IF save.new THEN Temp ELSE ed.id,
                                      IF save.isLocal THEN "create" ELSE "update", save.at))
    /\ IF save.new
       THEN /\ \/ save' = [save EXCEPT !.pc = "post"] /\ UNCHANGED ed
               \/ Named(Temp)
            /\ UNCHANGED push
       ELSE /\ UNCHANGED ed
            /\ \/ processSyncQueue(queue') /\
                  save' = [save EXCEPT !.pc = IF save.by = "auto" /\ push.pc = "idle" THEN "pushing" ELSE "keep"]
               \/ save' = [save EXCEPT !.pc = "keep"] /\ UNCHANGED push
    /\ Excused("dropped", push.pc # "idle")
    /\ UNCHANGED <<now, srv, made, local, full, wants, del, refresh, os, notes>>

\* createEventOffline's own POST, while the create is in the queue, too.
PostEvent ==
    /\ save.pc = "post" /\ made < MaxIds
    /\ \/ /\ made' = made + 1
          /\ srv' = srv \cup {[id |-> made + 1, at |-> save.at]}
          /\ \/ save' = [save EXCEPT !.pc = "resolve", !.reply = made + 1] /\ UNCHANGED <<ed, past>>
             \/ Named(Temp) /\ Did("lost")
       \/ Named(Temp) /\ UNCHANGED <<srv, made, past>>
    /\ UNCHANGED <<now, local, queue, push, full, wants, del, refresh, os, notes>>

ResolveEvent ==
    /\ save.pc = "resolve"
    /\ local' = IF WithId(local, Temp) = {} THEN local
                ELSE (local \ WithId(local, Temp)) \cup {Event(save.reply, save.at, FALSE, 0)}
    /\ save' = [save EXCEPT !.pc = "unqueue"]
    /\ Excused("astray", save.reply \in IdsOf(local))
    /\ UNCHANGED <<now, srv, made, queue, push, full, ed, wants, del, refresh, os, notes>>

\* Mistake: the create that was just sent stays queued.
keepQueued(i) == queue

sentUnqueued(i) == unqueued(i)

UnqueueEvent ==
    /\ save.pc = "unqueue"
    /\ queue' = sentUnqueued(Temp)
    /\ Excused("raced", \E q \in push.todo \cup push.failed \cup {push.item} : push.pc # "idle" /\ q.id = Temp)
    /\ Named(save.reply)
    /\ UNCHANGED <<now, srv, made, local, push, full, wants, del, refresh, os, notes>>

\* The push an update waits for is over.
PushAwaited ==
    /\ save.pc = "pushing" /\ push.pc = "idle"
    /\ save' = [save EXCEPT !.pc = "keep"]
    /\ UNCHANGED <<now, srv, made, local, queue, push, full, ed, wants, del, refresh, os, notes, past>>

setLocalEventNotificationId(i, n) == {IF e.id = i THEN [e EXCEPT !.note = n] ELSE e : e \in local}

\* The autosave records the notification; either way the lock is free.
SaveEnds ==
    /\ save.pc = "keep"
    /\ local' = IF save.by = "auto" THEN setLocalEventNotificationId(ed.id, save.note) ELSE local
    /\ ed' = [ed EXCEPT !.saved = save.at]
    /\ wants' = wants \ {save.by} /\ save' = IdleSave
    /\ Excused("astray", save.by = "auto" /\ save.note # 0 /\ WithId(local, ed.id) = {})
    /\ UNCHANGED <<now, srv, made, queue, push, full, del, refresh, os, notes>>

\* A write to the device fails: the finally gives the lock back.
SaveFails ==
    /\ save.pc = "write"
    /\ save' = IdleSave /\ wants' = wants \ {save.by}
    /\ Did("astray")
    /\ UNCHANGED <<now, srv, made, local, queue, push, full, ed, del, refresh, os, notes>>

\* The screen opens again at a stored event; without an answer of the server
\* its form is blank and it knows no notification.
loadEvent ==
    /\ ~ed.open /\ ~ed.timer /\ wants = {} /\ del.pc = "idle" /\ now < MaxEdits
    /\ \E e \in local :
           /\ ~e.pendingDelete
           /\ \E n \in IF e.isLocal THEN {0} ELSE {e.note, 0} :
                  /\ ed' = [Closed EXCEPT !.open = TRUE, !.id = e.id, !.created = TRUE, !.ref = n]
                  /\ Excused("astray", n # e.note \/ refresh.pc # "idle")
    /\ UNCHANGED <<now, srv, made, local, queue, push, full, wants, save, del, refresh, os, notes>>

-------------------------------------------------------------------------------
(* deleteEventOffline, from the editor or from a list *)

cancelReminder == os \ {ed.ref}

confirmDelete ==
    /\ ed.open /\ ed.id # NoId /\ del.pc = "idle"
    /\ os' = cancelReminder
    /\ del' = [pc |-> "mark", id |-> ed.id, list |-> FALSE]
    /\ Excused("astray", wants # {} \/ ed.timer)
    /\ UNCHANGED <<now, srv, made, local, queue, push, full, ed, wants, save, refresh, notes>>

\* The lists do not cancel the reminder.
DeleteFromList ==
    /\ ~ed.open /\ del.pc = "idle"
    /\ \E e \in local :
           /\ ~e.pendingDelete
           /\ del' = [pc |-> "mark", id |-> e.id, list |-> TRUE]
    /\ UNCHANGED <<now, srv, made, local, queue, push, full, ed, wants, save, refresh, os, notes, past>>

deleteEventOffline ==
    /\ del.pc = "mark"
    /\ IF \E e \in WithId(local, del.id) : e.isLocal
       THEN /\ local' = {e \in local : e.id # del.id} /\ queue' = unqueued(del.id)
            /\ del' = [del EXCEPT !.pc = "done"]
       ELSE /\ local' = {IF e.id = del.id THEN [e EXCEPT !.pendingDelete = TRUE] ELSE e : e \in local}
            /\ del' = [del EXCEPT !.pc = "enqueue"] /\ UNCHANGED queue
    /\ Excused("astray", del.list \/ refresh.pc # "idle")
    /\ UNCHANGED <<now, srv, made, push, full, ed, wants, save, refresh, os, notes>>

EnqueueDelete ==
    /\ del.pc = "enqueue"
    /\ queue' = enqueueOperation(Item(del.id, "delete", 0))
    /\ \/ processSyncQueue(queue') /\ del' = [del EXCEPT !.pc = IF push.pc = "idle" THEN "pushing" ELSE "drop"]
       \/ del' = [del EXCEPT !.pc = "done"] /\ UNCHANGED push
    /\ Excused("dropped", push.pc # "idle")
    /\ UNCHANGED <<now, srv, made, local, full, ed, wants, save, refresh, os, notes>>

\* After the push the record goes, whatever became of the delete; the editor
\* closes, its timer runs on.
DeleteEnds ==
    /\ \/ del.pc = "done" /\ UNCHANGED local
       \/ /\ del.pc \in {"pushing", "drop"} /\ (del.pc = "pushing" => push.pc = "idle")
          /\ local' = {e \in local : e.id # del.id}
    /\ del' = IdleDel
    /\ ed' = IF ed.id = del.id THEN [ed EXCEPT !.open = FALSE] ELSE ed
    /\ UNCHANGED <<now, srv, made, queue, push, full, wants, save, refresh, os, notes, past>>

-------------------------------------------------------------------------------
(* processSyncQueue for events *)

TriggerPush ==
    /\ push.pc = "idle" /\ queue # {}
    /\ processSyncQueue(queue)
    /\ UNCHANGED <<now, srv, made, local, queue, full, ed, wants, save, del, refresh, os, notes, past>>

\* Mistake: a failed item is not kept.
ItemForgotten(q) == push.failed

ItemKept(q) == IF q.retries < MAX_RETRIES THEN push.failed \cup {[q EXCEPT !.retries = @ + 1]} ELSE push.failed

ItemFailed(q) ==
    /\ push' = [push EXCEPT !.pc = "next", !.todo = @ \ {q}, !.failed = ItemKept(q)]
    /\ Excused("dropped", q.retries = MAX_RETRIES)

ItemDone(q) == push' = [push EXCEPT !.pc = "next", !.todo = @ \ {q}]

processEventOperation ==
    /\ push.pc = "next"
    /\ \E q \in push.todo :
       \/ /\ q.operation = "create" /\ made < MaxIds
          /\ made' = made + 1 /\ srv' = srv \cup {[id |-> made + 1, at |-> q.at]}
          /\ \/ push' = [push EXCEPT !.pc = "swap", !.item = q, !.reply = made + 1]
                /\ Excused("raced", save.pc \in {"post", "resolve", "unqueue"})
             \/ push' = [push EXCEPT !.todo = @ \ {q}, !.failed = ItemKept(q)]
                /\ past' = [past EXCEPT !.lost = TRUE, !.dropped = @ \/ q.retries = MAX_RETRIES]
       \/ /\ q.operation = "update" /\ \E r \in srv : r.id = q.id
          /\ srv' = {IF r.id = q.id THEN [r EXCEPT !.at = q.at] ELSE r : r \in srv}
          /\ ItemDone(q) /\ UNCHANGED <<made, past>>
       \/ /\ q.operation = "delete" /\ \E r \in srv : r.id = q.id
          /\ srv' = {r \in srv : r.id # q.id}
          /\ ItemDone(q) /\ UNCHANGED <<made, past>>
       \/ ItemFailed(q) /\ UNCHANGED <<srv, made>>
    /\ UNCHANGED <<now, local, queue, full, ed, wants, save, del, refresh, os, notes>>

\* A pull may have stored the new event already: then there are two copies.  A
\* save that is writing takes the event for a local one, and creates it again.
SwapEventId ==
    /\ push.pc = "swap"
    /\ local' = {IF e.id = push.item.id THEN [e EXCEPT !.id = push.reply, !.isLocal = FALSE] ELSE e : e \in local}
    /\ ItemDone(push.item)
    /\ past' = [past EXCEPT !.astray = @ \/ push.reply \in IdsOf(local),
                            !.stale = @ \/ (save.pc = "enqueue" /\ save.isLocal)]
    /\ UNCHANGED <<now, srv, made, queue, full, ed, wants, save, del, refresh, os, notes>>

\* The queue becomes the failed items: what was enqueued meanwhile is gone.
FinishPush ==
    /\ push.pc = "next" /\ push.todo = {}
    /\ queue' = push.failed /\ push' = IdlePush
    /\ UNCHANGED <<now, srv, made, local, full, ed, wants, save, del, refresh, os, notes, past>>

PushStep == processEventOperation \/ SwapEventId \/ FinishPush

-------------------------------------------------------------------------------
(* fullSync after its push, and the reminders' refresh *)

fullSync ==
    /\ full.pc = "idle" /\ past.runs < MaxRuns
    /\ past' = [past EXCEPT !.runs = @ + 1]
    /\ full' = [IdleFull EXCEPT !.pc = "pull", !.at = now]
    /\ UNCHANGED <<now, srv, made, local, queue, push, ed, wants, save, del, refresh, os, notes>>

\* The events' pages; an incomplete pull has a part of them.
PullEvents ==
    /\ full.pc = "pull"
    /\ \/ full' = [full EXCEPT !.pc = "merge", !.seen = srv, !.complete = TRUE]
       \/ \E part \in SUBSET srv : full' = [full EXCEPT !.pc = "merge", !.seen = part]
    /\ UNCHANGED <<now, srv, made, local, queue, push, ed, wants, save, del, refresh, os, notes, past>>

\* Mistake: what the server does not know is not carried over.
dropLocalFields(r) == 0

adoptLocalFields(r) == IF WithId(local, r.id) = {} THEN 0 ELSE (CHOOSE e \in WithId(local, r.id) : TRUE).note

\* An event posted after its page was read is dropped till the next pull.
MergeEvents ==
    /\ full.pc = "merge"
    /\ local' \in mergeRecords({Event(r.id, r.at, FALSE, adoptLocalFields(r)) : r \in full.seen},
                               local, full.complete, full.at)
    /\ full' = IdleFull
    /\ Excused("astray", ~IdsOf(local) \subseteq IdsOf(local'))
    /\ UNCHANGED <<now, srv, made, queue, push, ed, wants, save, del, refresh, os, notes>>

Editing == ed.open \/ ed.timer \/ wants # {}

\* The list of events is read once, before the first notification is touched.
refreshRecurringReminders ==
    /\ refresh.pc = "idle" /\ past.runs < MaxRuns
    /\ past' = [past EXCEPT !.runs = @ + 1, !.astray = @ \/ Editing]
    /\ \E e \in local : ~e.pendingDelete /\ refresh' = [pc |-> "schedule", id |-> e.id, note |-> e.note]
    /\ UNCHANGED <<now, srv, made, local, queue, push, full, ed, wants, save, del, os, notes>>

RefreshSchedules ==
    /\ refresh.pc = "schedule"
    /\ \E n \in 1..MaxNotes :
           Schedule(refresh.note, n) /\ refresh' = [refresh EXCEPT !.pc = "keep", !.note = n]
    /\ UNCHANGED <<now, srv, made, local, queue, push, full, ed, wants, save, del, past>>

\* An open editor, or a save, holds the id the refresh has just cancelled.
RefreshKeeps ==
    /\ refresh.pc = "keep"
    /\ local' = setLocalEventNotificationId(refresh.id, refresh.note)
    /\ refresh' = IdleRefresh
    /\ Excused("astray", Editing \/ WithId(local, refresh.id) = {})
    /\ UNCHANGED <<now, srv, made, queue, push, full, ed, wants, save, del, os, notes>>

\* The app is killed: the files and the OS's notifications stay.
Killed ==
    /\ past.runs < MaxRuns
    /\ past' = [past EXCEPT !.runs = @ + 1, !.cut = @ \/ \E f \in {save, refresh, del, push} : f.pc # "idle"]
    /\ push' = IdlePush /\ full' = IdleFull /\ save' = IdleSave /\ del' = IdleDel /\ refresh' = IdleRefresh
    /\ ed' = Closed /\ wants' = {}
    /\ UNCHANGED <<now, srv, made, local, queue, os, notes>>

SaveStep == WriteEvent \/ scheduleReminder \/ EnqueueEvent \/ PostEvent \/ ResolveEvent \/ UnqueueEvent
                \/ PushAwaited \/ SaveEnds \/ SaveFails
Deleting == deleteEventOffline \/ EnqueueDelete \/ DeleteEnds

Next ==
    \/ Type \/ triggerAutoSave \/ handleBack \/ loadEvent
    \/ (\E w \in wants : withSaveLock(w)) \/ SaveStep
    \/ confirmDelete \/ DeleteFromList \/ Deleting
    \/ TriggerPush \/ PushStep
    \/ fullSync \/ PullEvents \/ MergeEvents
    \/ refreshRecurringReminders \/ RefreshSchedules \/ RefreshKeeps
    \/ Killed

Spec == Init /\ [][Next]_vars

-------------------------------------------------------------------------------
(* Properties.  `past' tells what excuses them:                            *)
(*   lost     a POST arrived and its reply did not                          *)
(*   raced    the editor's POST and the push sent the same create           *)
(*   stale    an edit's write overlapped the swap of its event's temp id    *)
(*   dropped  an item failed once too often, or was enqueued during a push   *)
(*   astray   a reminder changed hands while somebody held its old id       *)
(*   cut      the app was killed in the middle of something                 *)

Quiet == /\ \A f \in {save, push, full, del, refresh} : f.pc = "idle"
         /\ wants = {} /\ ~ed.timer

\* However the autosave, the save on Back, the POST of the creation and the
\* push of its queued twin follow each other, one event is made on the server.
EventCreatedOnce == made <= 1 \/ past.lost \/ past.raced \/ past.stale \/ past.cut

\* Every reminder the OS holds is known to the event or to the editor, which
\* can cancel it: none is orphaned by a reschedule, by an id swap, by a pull
\* (the server never has the reminder's id) or by a delete.
ReminderIsKnown == Quiet => os \subseteq ({ed.ref} \cup {e.note : e \in local}) \/ past.astray \/ past.cut

\* When the queue is empty the server has what the device shows, or a newer
\* edit that a stale pull took back: an event with a temp id or an edit does not
\* leave the queue before it was carried.
EventsCarried ==
    Quiet /\ queue = {} => \/ past.stale \/ past.dropped \/ past.cut
        \/ \A e \in local : ~e.pendingDelete =>
               ~e.isLocal /\ \A r \in WithId(srv, e.id) : e.updated_at <= r.at
===============================================================================
