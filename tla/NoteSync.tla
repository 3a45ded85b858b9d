------------------------------- MODULE NoteSync -------------------------------
(***************************************************************************)
(* One device's offline-first notes: the local store, the sync queue, the  *)
(* temp-id aliases, the push (processSyncQueue), the pull (fullSync) and   *)
(* the screens that create, edit and delete notes, against the server and  *)
(* the account's other devices.                                            *)
(*                                                                         *)
(* A step is the code between two awaits that wait for something: a        *)
(* request, a file write, the notes lock.  A read of a warm cache and what *)
(* the code does with it is one step (LocalStore models the cache itself). *)
(* What a step saves is durable at once; the aliases, the flags and the    *)
(* running operations are memory and a restart loses them.                 *)
(*                                                                         *)
(* A note's fields hold the time of the edit that wrote them, 0 when the   *)
(* field is blank, so a lost edit shows.  All clocks read the one clock.   *)
(***************************************************************************)
EXTENDS SyncMerge, FiniteSets

CONSTANTS
    Screens,      \* the UI flows that can run a note operation (list, editor)
    TempIds,      \* ids "local_<uuid>" made on the device
    ServerIds,    \* ids the server gives, the bound on creates
    Synced,       \* the notes both sides have at the start
    Fields,       \* the fields of a note
    Drafts,       \* the sets of fields an edit may send
    MAX_RETRIES,  \* 5 in the code
    MaxClock,     \* bound: no edit after this time
    MaxRestarts,  \* bound: how many times the app may be killed
    MaxPulls,     \* bound: how many times fullSync may run
    MaxRemote     \* bound: how many edits and deletes other devices may make

ASSUME IdsDisjoint     == TempIds \cap ServerIds = {}
ASSUME SomeServerId    == ServerIds # {}
ASSUME SyncedOnServer  == Synced \subseteq ServerIds
ASSUME DraftsAreFields == Drafts \subseteq SUBSET Fields
ASSUME CallersApart    == {"none", "full"} \cap Screens = {}
ASSUME BoundsAreNat    == {MAX_RETRIES, MaxClock, MaxRestarts, MaxPulls, MaxRemote} \subseteq Nat

VARIABLES
    clock,    \* now
    server,   \* the notes collection of the backend
    local,    \* notes.json and its cache
    queue,    \* syncQueue.json and its cache
    alias,    \* _noteIdAliases, the identity where it has no entry
    handle,   \* temp ids screens still hold (noteIdRef, a list not reloaded)
    scr,      \* per screen, the operation in progress
    push,     \* processSyncQueue in progress; pc "idle" is ~_isSyncing
    full,     \* fullSync in progress; pc "idle" is ~_isFullSyncing
    born,     \* temp ids used so far (uuids are fresh)
    used      \* what the bounds have counted

vars == <<clock, server, local, queue, alias, handle, scr, push, full, born, used>>

Ids == TempIds \cup ServerIds
Ops == {"create", "update", "delete"}

-------------------------------------------------------------------------------
(* Data *)

Content  == [Fields -> Nat]
Note     == [id : Ids, content : Content, updated_at : Nat, created_at : {0},
             isLocal : BOOLEAN, pendingDelete : BOOLEAN]
Payload  == [fields : SUBSET Fields, at : Nat, stamped : BOOLEAN]
Item     == [id : Ids, operation : Ops, payload : Payload,
             retries : 0..MAX_RETRIES]
Row      == [state : {"none", "live", "gone"}, content : Content,
             updated_at : Nat, origin : TempIds \cup ServerIds]

Blank     == [f \in Fields |-> 0]
NoPayload == [fields |-> {}, at |-> 0, stamped |-> FALSE]

Written(content, fields, at) == [f \in Fields |-> IF f \in fields THEN at ELSE content[f]]

\* A note or a row after an edit of some of its fields.
Edited(n, fields, at) ==
    [n EXCEPT !.content = Written(@, fields, at), !.updated_at = at]

Live(s) == s \in ServerIds /\ server[s].state = "live"

\* What GET /notes returns for the row s.
ServerNote(s) ==
    [id |-> s, content |-> server[s].content, updated_at |-> server[s].updated_at,
     created_at |-> 0, isLocal |-> FALSE, pendingDelete |-> FALSE]

-------------------------------------------------------------------------------
(* The queue and the local store *)

\* Mistake: the earlier operation keeps its name even against a delete.
mergeByName(old, item) == [old EXCEPT !.payload = item.payload]

mergeItem(old, item) ==
    [old EXCEPT !.operation = IF item.operation = "delete" THEN "delete" ELSE @,
                !.payload = item.payload]

\* One item per id: a delete annuls a create that is still queued, any other
\* operation keeps the earlier operation's name and takes over its payload.
enqueueOperation(Q, item) ==
    LET old  == WithId(Q, item.id)
        rest == Q \ old
    IN  IF old = {} THEN Q \cup {item}
        ELSE rest \cup {mergeItem(o, item) :
                 o \in {p \in old : ~(item.operation = "delete" /\ p.operation = "create")}}

\* Mistake: the last writer wins, whatever the timestamps say.
upsertBlindly(L, note) == {{n \in L : n.id # note.id} \cup {note}}

\* The stores upsertLocalNote can leave: the strictly newer copy stays.
upsertLocalNote(L, note) ==
    IF note.id \notin IdsOf(L) THEN {L \cup {note}}
    ELSE {IF isNewerTimestamp(note.updated_at, n.updated_at) THEN (L \ {n}) \cup {note} ELSE L :
             n \in WithId(L, note.id)}

deleteLocalNote(L, i) == {n \in L : n.id # i}

markPendingDelete(L, i) == {IF n.id = i THEN [n EXCEPT !.pendingDelete = TRUE] ELSE n : n \in L}

resolveNoteId(i) == IF i \in TempIds THEN alias[i] ELSE i

\* Of the sections under withNotesLock only the id swap of a create has a state
\* change left after its write: the others are one step here.
LockFree == push.pc # "aliasing"

-------------------------------------------------------------------------------
(* States at rest *)

NoItem  == [id |-> CHOOSE i \in Ids : TRUE, operation |-> "delete", payload |-> NoPayload, retries |-> 0]
NoNote  == [id |-> CHOOSE i \in Ids : TRUE, content |-> Blank, updated_at |-> 0, created_at |-> 0,
            isLocal |-> FALSE, pendingDelete |-> FALSE]
NoRow   == [state |-> "none", content |-> Blank, updated_at |-> 0, origin |-> CHOOSE i \in Ids : TRUE]

IdleScreen == [pc |-> "idle", item |-> NoItem, note |-> NoNote]
IdlePush   == [pc |-> "idle", todo |-> {}, failed |-> {}, item |-> NoItem, reply |-> NoNote, caller |-> "none"]
IdleFull   == [pc |-> "idle", startedAt |-> 0, pulled |-> {}, complete |-> FALSE]

Init ==
    /\ clock = 1
    /\ server = [s \in ServerIds |->
           IF s \in Synced
           THEN [state |-> "live", content |-> [f \in Fields |-> 1], updated_at |-> 1, origin |-> s]
           ELSE NoRow]
    /\ local = {ServerNote(s) : s \in Synced}
    /\ queue = {}
    /\ alias = [t \in TempIds |-> t]
    /\ handle = {} /\ born = {} 
    /\ scr = [u \in Screens |-> IdleScreen]
    /\ push = IdlePush
    /\ full = IdleFull
    /\ used = [restarts |-> 0, pulls |-> 0, remote |-> 0]

-------------------------------------------------------------------------------
(* The screens' operations.  Each starts with the read of the store, then   *)
(* goes through the steps its scr[u].pc names.                              *)

\* An edit happens now, later than all before it.
Tick == clock < MaxClock /\ clock' = clock + 1

Do(u, pc, item, note) == scr' = [scr EXCEPT ![u] = [pc |-> pc, item |-> item, note |-> note]]
Go(u, pc)             == scr' = [scr EXCEPT ![u].pc = pc]
Done(u)               == scr' = [scr EXCEPT ![u] = IdleScreen]

Visible == {n.id : n \in {m \in local : ~m.pendingDelete}} \cup handle

createNoteOffline(u) ==
    /\ scr[u].pc = "idle"
    /\ Tick
    /\ \E t \in TempIds \ born :
           /\ born' = born \cup {t}
           /\ Do(u, "upsert",
                 [id |-> t, operation |-> "create", retries |-> 0,
                  payload |-> [fields |-> Fields, at |-> clock', stamped |-> FALSE]],
                 [id |-> t, content |-> Written(Blank, Fields, clock'), updated_at |-> clock',
                  created_at |-> 0, isLocal |-> TRUE, pendingDelete |-> FALSE])
    /\ UNCHANGED <<server, local, queue, alias, handle, push, full, used>>

\* Mistake: an edit of a note the server has never seen is queued as an update.
updateAsUpdate(u) ==
    /\ scr[u].pc = "idle"
    /\ Tick
    /\ \E i \in Visible, fields \in Drafts : \E existing \in WithId(local, resolveNoteId(i)) :
           Do(u, "upsert",
              [id |-> existing.id, retries |-> 0, operation |-> "update",
               payload |-> [fields |-> fields, at |-> clock', stamped |-> TRUE]],
              Edited(existing, fields, clock'))
    /\ UNCHANGED <<server, local, queue, alias, handle, push, full, born, used>>

\* With no note under the resolved id the edit ends here, without an error.
updateNoteOffline(u) ==
    /\ scr[u].pc = "idle"
    /\ Tick
    /\ \E i \in Visible, fields \in Drafts :
           LET found == WithId(local, resolveNoteId(i)) IN
           \/ /\ found = {}
              /\ UNCHANGED scr
           \/ \E existing \in found :
              Do(u, "upsert",
                 [id |-> existing.id, retries |-> 0,
                  operation |-> IF existing.isLocal THEN "create" ELSE "update",
                  payload |-> [fields |-> fields, at |-> clock', stamped |-> TRUE]],
                 Edited(existing, fields, clock'))
    /\ UNCHANGED <<server, local, queue, alias, handle, push, full, born, used>>

\* The local write of a create or an edit, under the notes lock.
SaveLocally(u) ==
    /\ scr[u].pc = "upsert"
    /\ LockFree
    /\ local' \in upsertLocalNote(local, scr[u].note)
    /\ Go(u, "enqueue")
    /\ UNCHANGED <<clock, server, queue, alias, handle, push, full, born, used>>

Enqueue(u) ==
    /\ scr[u].pc = "enqueue"
    /\ queue' = enqueueOperation(queue, scr[u].item)
    /\ IF scr[u].item.operation = "delete"
       THEN Go(u, "deleteTail") /\ UNCHANGED handle
       ELSE /\ Done(u)
            /\ handle' = handle \cup (TempIds \cap {scr[u].item.id})
    /\ UNCHANGED <<clock, server, local, alias, push, full, born, used>>

DeleteItem(i) == [id |-> i, operation |-> "delete", payload |-> NoPayload, retries |-> 0]

Forget(i) == handle' = {t \in handle : t # i /\ alias[t] # i}

\* Deleting from the editor.  A note that never reached the server is removed
\* and its queued create with it; any other becomes a tombstone.
deleteNoteOffline(u) ==
    /\ scr[u].pc = "idle"
    /\ \E j \in Visible :
           LET i == resolveNoteId(j) IN
           /\ Forget(i)
           /\ IF \E n \in WithId(local, i) : n.isLocal
              THEN local' = deleteLocalNote(local, i) /\ Do(u, "filter", DeleteItem(i), NoNote)
              ELSE local' = markPendingDelete(local, i) /\ Do(u, "enqueue", DeleteItem(i), NoNote)
    /\ UNCHANGED <<clock, server, queue, alias, push, full, born, used>>

\* Mistake: the queued create of a deleted note stays in the queue.
KeepQueue(u) ==
    /\ scr[u].pc = "filter"
    /\ Done(u)
    /\ UNCHANGED <<clock, server, local, queue, alias, handle, push, full, born, used>>

FilterQueue(u) ==
    /\ scr[u].pc = "filter"
    /\ queue' = {q \in queue : q.id # scr[u].item.id}
    /\ Done(u)
    /\ UNCHANGED <<clock, server, local, alias, handle, push, full, born, used>>

\* Deleting from the list (useOfflineNotes.deleteNote): no alias is followed
\* and a queued create is left in the queue.
deleteNote(u) ==
    /\ scr[u].pc = "idle"
    /\ \E i \in Visible :
           /\ Forget(i)
           /\ IF \E n \in WithId(local, i) : n.isLocal
              THEN local' = deleteLocalNote(local, i) /\ UNCHANGED scr
              ELSE local' = markPendingDelete(local, i) /\ Do(u, "enqueue", DeleteItem(i), NoNote)
    /\ UNCHANGED <<clock, server, queue, alias, push, full, born, used>>

-------------------------------------------------------------------------------
(* processSyncQueue.  It takes a snapshot of the queue, tries every item of *)
(* it and at the end writes the items that failed over the queue.  Items    *)
(* with different ids do not depend on their order: any order is allowed.   *)

\* What a call of processSyncQueue does at once.  `next' is the caller's
\* state when the call returned (skipped, or nothing to do), `wait' when the
\* caller has to wait for the push it started.
Call(caller, next, wait) ==
    IF push.pc = "idle" /\ queue # {}
    THEN /\ push' = [IdlePush EXCEPT !.pc = "next", !.todo = queue, !.caller = caller]
         /\ wait
    ELSE UNCHANGED push /\ next

\* Every trigger nobody waits for: connectivity, leaving the editor, a pin
\* toggle, the push at the end of a create or an edit.
TriggerPush ==
    /\ push.pc = "idle" /\ queue # {}
    /\ Call("none", TRUE, TRUE)
    /\ UNCHANGED <<clock, server, local, queue, alias, handle, scr, full, born, used>>

\* fullSync notes the time just before its pull (used when it pushed first).
StartPull == full' = [full EXCEPT !.pc = "pulling", !.startedAt = clock]

PushGo(pc) == push' = [push EXCEPT !.pc = pc]
ItemDone  == push' = [push EXCEPT !.pc = "next", !.item = NoItem, !.reply = NoNote]

\* Mistakes: one retry too many; a failed item is forgotten.
ItemFailedOnceMore ==
    push' = [push EXCEPT !.pc = "next", !.item = NoItem, !.reply = NoNote,
                 !.failed = IF push.item.retries <= MAX_RETRIES
                            THEN @ \cup {[push.item EXCEPT !.retries = @ + 1]}
                            ELSE @]
ItemForgotten == ItemDone

\* The catch of the loop: back in the queue with one more retry, or dropped.
ItemFailed ==
    push' = [push EXCEPT !.pc = "next", !.item = NoItem, !.reply = NoNote,
                 !.failed = IF push.item.retries < MAX_RETRIES
                            THEN @ \cup {[push.item EXCEPT !.retries = @ + 1]}
                            ELSE @]

\* Mistake: the loop never gets past an item.
PickAgain ==
    /\ push.pc = "next"
    /\ \E item \in push.todo : push' = [push EXCEPT !.item = item, !.pc = item.operation]
    /\ UNCHANGED <<clock, server, local, queue, alias, handle, scr, full, born, used>>

PickItem ==
    /\ push.pc = "next"
    /\ \E item \in push.todo :
           push' = [push EXCEPT !.todo = @ \ {item}, !.item = item, !.pc = item.operation]
    /\ UNCHANGED <<clock, server, local, queue, alias, handle, scr, full, born, used>>

\* POST /notes: the server makes a new note of the payload and, unless the
\* payload carries the time of the edit, stamps it with its own clock.
PostNote ==
    /\ push.pc = "create"
    /\ \E s \in ServerIds :
           /\ server[s].state = "none"
           /\ LET pay == push.item.payload
                  row == [state |-> "live", content |-> Written(Blank, pay.fields, pay.at),
                          updated_at |-> IF pay.stamped THEN pay.at ELSE clock,
                          origin |-> push.item.id]
              IN  /\ server' = [server EXCEPT ![s] = row]
                  /\ push' = [push EXCEPT !.pc = "created", !.reply = [NoNote EXCEPT !.id = s]]
    /\ UNCHANGED <<clock, local, queue, alias, handle, scr, full, born, used>>

\* The reply of the POST: the local note takes the server's id.  The alias is
\* set when the file is written; until then the notes lock is held.
SwapId ==
    /\ push.pc = "created"
    /\ LET old == push.item.id IN
       IF old \in IdsOf(local)
       THEN /\ \E n \in WithId(local, old) :
                   local' = (local \ {n}) \cup {[n EXCEPT !.id = push.reply.id, !.isLocal = FALSE]}
            /\ PushGo("aliasing")
       ELSE ItemDone /\ UNCHANGED local
    /\ UNCHANGED <<clock, server, queue, alias, handle, scr, full, born, used>>

\* Mistake: nothing remembers what the temp id became.
NoAlias ==
    /\ push.pc = "aliasing"
    /\ ItemDone
    /\ UNCHANGED <<clock, server, local, queue, alias, handle, scr, full, born, used>>

SetAlias ==
    /\ push.pc = "aliasing"
    /\ alias' = [alias EXCEPT ![push.item.id] = push.reply.id]
    /\ ItemDone
    /\ UNCHANGED <<clock, server, local, queue, handle, scr, full, born, used>>

\* GET /notes/:id before an update; a failure of any kind goes to the catch.
GetNote ==
    /\ push.pc = "update"
    /\ \/ /\ Live(push.item.id)
          /\ push' = [push EXCEPT !.pc = "compare", !.reply = ServerNote(push.item.id)]
       \/ PushGo("putAnyway")
    /\ UNCHANGED <<clock, server, local, queue, alias, handle, scr, full, born, used>>

Compare ==
    /\ push.pc = "compare"
    /\ IF isNewerTimestamp(push.item.payload.at, push.reply.updated_at)
       THEN PushGo("put") /\ UNCHANGED local
       ELSE local' \in upsertLocalNote(local, push.reply) /\ ItemDone
    /\ UNCHANGED <<clock, server, queue, alias, handle, scr, full, born, used>>

\* PUT /notes/:id sets the fields it is given and the client's time.
Put ==
    LET pay == push.item.payload IN
    server' = [server EXCEPT ![push.item.id] = Edited(@, pay.fields, pay.at)]

\* The PUT after the comparison; when it fails, or its reply is lost, the same
\* catch sends it again.
PutNote ==
    /\ push.pc = "put"
    /\ \/ Live(push.item.id) /\ Put /\ (ItemDone \/ PushGo("putAnyway"))
       \/ UNCHANGED server /\ PushGo("putAnyway")
    /\ UNCHANGED <<clock, local, queue, alias, handle, scr, full, born, used>>

PutAnyway ==
    /\ push.pc = "putAnyway"
    /\ \/ Live(push.item.id) /\ Put /\ (ItemDone \/ ItemFailed)
       \/ UNCHANGED server /\ ItemFailed
    /\ UNCHANGED <<clock, local, queue, alias, handle, scr, full, born, used>>

\* DELETE /notes/:id; a note that is not there answers 404, which is a failure.
DeleteOnServer ==
    /\ push.pc = "delete"
    /\ \/ /\ Live(push.item.id)
          /\ server' = [server EXCEPT ![push.item.id].state = "gone"]
          /\ ItemDone \/ ItemFailed
       \/ UNCHANGED server /\ ItemFailed
    /\ UNCHANGED <<clock, local, queue, alias, handle, scr, full, born, used>>

\* A POST that never reached the server, or whose reply never came back.
CreateFailed ==
    /\ push.pc \in {"create", "created"}
    /\ ItemFailed
    /\ UNCHANGED <<clock, server, local, queue, alias, handle, scr, full, born, used>>

\* Mistake: what was pushed stays in the queue.
SaveQueue ==
    /\ push.pc = "next" /\ push.todo = {}
    /\ queue' = queue \cup push.failed
    /\ PushGo("saved")
    /\ UNCHANGED <<clock, server, local, alias, handle, scr, full, born, used>>

\* The queue becomes the failed items, whatever was enqueued meanwhile.
SaveFailed ==
    /\ push.pc = "next" /\ push.todo = {}
    /\ queue' = push.failed
    /\ PushGo("saved")
    /\ UNCHANGED <<clock, server, local, alias, handle, scr, full, born, used>>

\* The flag is reset and the caller goes on: a delete removes the local note,
\* a fullSync starts its pull.
FinishPush ==
    /\ push.pc = "saved"
    /\ push' = IdlePush
    /\ IF push.caller \in Screens
       THEN local' = deleteLocalNote(local, scr[push.caller].item.id) /\ Done(push.caller)
       ELSE UNCHANGED <<local, scr>>
    /\ IF push.caller = "full" THEN StartPull ELSE UNCHANGED full
    /\ UNCHANGED <<clock, server, queue, alias, handle, born, used>>

PushStep ==
    \/ PickItem \/ PostNote \/ SwapId \/ SetAlias \/ GetNote \/ Compare \/ PutNote
    \/ PutAnyway \/ DeleteOnServer \/ CreateFailed \/ SaveFailed
    \/ FinishPush

\* The rest of a delete.  Offline it ends with the enqueue; online it pushes
\* and then removes the tombstone, whatever became of the push.
DeleteTail(u) ==
    /\ scr[u].pc = "deleteTail"
    /\ \/ Done(u) /\ UNCHANGED <<local, push>>
       \/ Call(u, local' = deleteLocalNote(local, scr[u].item.id) /\ Done(u),
                  Go(u, "pushing") /\ UNCHANGED local)
    /\ UNCHANGED <<clock, server, queue, alias, handle, full, born, used>>

ScreenStep(u) == SaveLocally(u) \/ Enqueue(u) \/ FilterQueue(u) \/ DeleteTail(u)

-------------------------------------------------------------------------------
(* fullSync: push, then pull, then merge. *)

StartFullSync ==
    /\ full.pc = "idle"
    /\ used.pulls < MaxPulls
    /\ used' = [used EXCEPT !.pulls = @ + 1]
    /\ Call("full", StartPull, full' = [full EXCEPT !.pc = "pushing"])
    /\ UNCHANGED <<clock, server, local, queue, alias, handle, scr, born>>

\* The pull reads the collection to its end, or stops with part of it, or has
\* nothing to merge (PagedPull models the pages).
Pull ==
    /\ full.pc = "pulling"
    /\ LET all == {ServerNote(s) : s \in {r \in ServerIds : Live(r)}} IN
       \/ full' = [full EXCEPT !.pc = "merge", !.pulled = all, !.complete = TRUE]
       \/ \E part \in SUBSET all : full' = [full EXCEPT !.pc = "merge", !.pulled = part]
       \/ full' = IdleFull
    /\ UNCHANGED <<clock, server, local, queue, alias, handle, scr, push, born, used>>

MergePull ==
    /\ full.pc = "merge"
    /\ LockFree
    /\ local' \in mergeRecords(full.pulled, local, full.complete, full.startedAt)
    /\ full' = IdleFull
    /\ UNCHANGED <<clock, server, queue, alias, handle, scr, push, born, used>>

FullStep == Pull \/ MergePull

-------------------------------------------------------------------------------
(* The rest of the world *)

\* Another device of the account edits or deletes a note.
Remote == used.remote < MaxRemote /\ used' = [used EXCEPT !.remote = @ + 1]

OtherEdit ==
    /\ Tick /\ Remote
    /\ \E s \in ServerIds :
           /\ Live(s)
           /\ server' = [server EXCEPT ![s] = Edited(@, Fields, clock')]
    /\ UNCHANGED <<local, queue, alias, handle, scr, push, full, born>>

OtherDelete ==
    /\ Remote
    /\ \E s \in ServerIds : Live(s) /\ server' = [server EXCEPT ![s].state = "gone"]
    /\ UNCHANGED <<clock, local, queue, alias, handle, scr, push, full, born>>

\* The app is killed and started again: the files stay.
Restart ==
    /\ used.restarts < MaxRestarts
    /\ used' = [used EXCEPT !.restarts = @ + 1]
    /\ alias' = [t \in TempIds |-> t]
    /\ handle' = {}
    /\ scr' = [u \in Screens |-> IdleScreen]
    /\ push' = IdlePush
    /\ full' = IdleFull
    /\ UNCHANGED <<clock, server, local, queue, born>>

UserOp(u) == createNoteOffline(u) \/ updateNoteOffline(u) \/ deleteNoteOffline(u) \/ deleteNote(u)

Next ==
    \/ \E u \in Screens : UserOp(u) \/ ScreenStep(u)
    \/ TriggerPush \/ PushStep
    \/ StartFullSync \/ FullStep
    \/ OtherEdit \/ OtherDelete \/ Restart

\* Every running operation goes on: JavaScript runs each continuation, and a
\* request ends, at the latest with the 30 s abort of api.ts.  Nothing is
\* assumed of what starts a push, a pull or a user's operation.
Fairness ==
    /\ WF_vars(PushStep)
    /\ WF_vars(FullStep)
    /\ \A u \in Screens : WF_vars(ScreenStep(u))

Spec == Init /\ [][Next]_vars /\ Fairness

-------------------------------------------------------------------------------
(* Invariants *)

ScreenState == [pc : {"idle", "upsert", "enqueue", "filter", "deleteTail", "pushing"},
                item : Item, note : Note]
PushState   == [pc : {"idle", "next", "create", "created", "aliasing", "update", "compare", "put",
                      "putAnyway", "delete", "saved"},
                todo : SUBSET Item, failed : SUBSET Item, item : Item, reply : Note,
                caller : Screens \cup {"none", "full"}]
FullState   == [pc : {"idle", "pushing", "pulling", "merge"}, startedAt : Nat,
                pulled : SUBSET Note, complete : BOOLEAN]

\* The values the state can have, no item beyond its last retry.
TypeOK ==
    /\ clock \in Nat
    /\ server \in [ServerIds -> Row]
    /\ local \in SUBSET Note
    /\ queue \in SUBSET Item
    /\ alias \in [TempIds -> Ids]
    /\ handle \in SUBSET TempIds
    /\ born \in SUBSET TempIds
    /\ scr \in [Screens -> ScreenState]
    /\ push \in PushState
    /\ full \in FullState
    /\ used \in [restarts : Nat, pulls : Nat, remote : Nat]

Known == {s \in ServerIds : server[s].state # "none"}

\* An update is only sent for a note the server has made: no edit, however it
\* overlaps the id swap, turns into a "doomed update" of a temp id.
UpdatesNameServerNotes ==
    push.pc \in {"update", "compare", "put", "putAnyway"} => push.item.id \in Known

\* Why: ids stay with their kind through the queue, the snapshot, the id swap
\* and the pull.  A local note has a temp id and any other a known one, a create
\* is filed under a temp id and an update under a known one.
GoodNote(n) == IF n.isLocal THEN n.id \in TempIds ELSE n.id \in Known

GoodItem(q) == /\ q.operation = "create" => q.id \in TempIds
               /\ q.operation = "update" => q.id \in Known

LocalMatches == \A n \in local : GoodNote(n)
QueueMatches == \A q \in queue : GoodItem(q)
ScreenMatches(u) == GoodItem(scr[u].item) /\ (scr[u].pc = "upsert" => GoodNote(scr[u].note))
PushMatches ==
    /\ \A q \in push.todo : GoodItem(q)
    /\ \A q \in push.failed : GoodItem(q)
    /\ GoodItem(push.item)
    /\ push.pc \in {"update", "compare", "put", "putAnyway"} => push.item.operation = "update"
    /\ push.pc \in {"created", "compare"} => push.reply.id \in Known /\ ~push.reply.isLocal
FullMatches == \A n \in full.pulled : n.id \in Known

IdsMatchKinds ==
    LocalMatches /\ QueueMatches /\ (\A u \in Screens : ScreenMatches(u)) /\ PushMatches /\ FullMatches

\* Neither flag stays set: a push, a fullSync and a screen's operation end.
OperationsEnd ==
    /\ push.pc # "idle" ~> push.pc = "idle"
    /\ full.pc # "idle" ~> full.pc = "idle"
    /\ \A u \in Screens : scr[u].pc # "idle" ~> scr[u].pc = "idle"

=============================================================================
