---------------------------- MODULE NoteSyncProps ----------------------------
(***************************************************************************)
(* What NoteSync promises its user, and exactly when it does not.  The     *)
(* history `past' observes the steps of NoteSync and never constrains      *)
(* them:                                                                   *)
(*   late     ids enqueued since the running push took its snapshot        *)
(*   exposed  ids whose queued operation the code has thrown away          *)
(*   deleted  ids the user has deleted while the server had the note, and  *)
(*            has not edited since                                         *)
(*   dropped  temp ids whose delete from the editor was done while no push *)
(*            had their create                                             *)
(*   clobbered  ids whose newer version on the server a push overwrote     *)
(*   doubt    temp ids whose note the server may have created twice        *)
(*   crossed  temp ids deleted on one screen while another was saving them *)
(***************************************************************************)
EXTENDS NoteSync

VARIABLE past

pvars == <<vars, past>>

Rows(t) == {s \in ServerIds : server[s].state # "none" /\ server[s].origin = t}

\* The items the running push has still to do, or to put back.
InPush == IF push.pc \in {"idle", "saved"} THEN {}
          ELSE push.todo \cup push.failed \cup (IF push.pc = "next" THEN {} ELSE {push.item})

\* Ids under which a note's operations may be filed: its own and the temp id
\* it was created with.
Names(i) == {i} \cup (IF i \in ServerIds THEN {server[i].origin} ELSE {})

AwaitsEnqueue == {scr[u].item.id : u \in {v \in Screens : scr[v].pc = "enqueue"}}

InitPast == past = [late |-> {}, exposed |-> {}, deleted |-> {}, doubt |-> {}, clobbered |-> {},
                    dropped |-> {}, crossed |-> {}]

-------------------------------------------------------------------------------
(* What a step does to the history.  The actions are used as predicates on  *)
(* the step Next has taken.                                                 *)

Pushing == push.pc \notin {"idle", "saved"}

EnqueuedNow == {scr[u].item.id : u \in {v \in Screens : Enqueue(v)}}

\* The queued operation is of a later edit than the item that takes its place.
Outruns(old, item) ==
    /\ old.id = item.id /\ old.operation # "delete" /\ item.operation # "delete"
    /\ old.payload.at > item.payload.at

\* An item as new as the notes it is about.
UpToDate(item) ==
    item.operation = "delete" \/ \A n \in local : item.id \in Names(n.id) => n.updated_at <= item.payload.at

LateNow ==
    IF push'.pc \in {"idle", "saved"} THEN {}
    ELSE past.late \cup (IF Pushing THEN EnqueuedNow ELSE {})

\* The six ways to lose what the user did:
\*  - the failed items are written over a queue that got newer items;
\*  - an item is dropped after its last retry;
\*  - the app is killed between the local write and the enqueue;
\*  - a delete under a stale temp id annuls the operation queued under it;
\*  - the edit that is enqueued is older than the one it takes the place of;
\*  - a delete takes an operation out of the queue while the note is there again.
Dropping == PutNote \/ PutAnyway \/ DeleteOnServer \/ CreateFailed
ThrownNow ==
    {i \in past.late : SaveFailed}
    \cup {i \in {push.item.id} : /\ Dropping /\ UNCHANGED server
                                 /\ push.item.retries >= MAX_RETRIES /\ push'.pc = "next"}
    \cup {i \in AwaitsEnqueue : Restart}
    \cup {i \in EnqueuedNow : i \notin IdsOf(queue')}
    \cup {q.id : q \in {p \in queue : \E u \in Screens : Enqueue(u) /\ Outruns(p, scr[u].item)}}
    \cup {q.id : q \in {p \in queue : \E u \in Screens : /\ FilterQueue(u) /\ scr[u].item.id = p.id
                                                         /\ \E n \in local : p.id \in Names(n.id)}}

\* A PUT that takes the server back behind a newer edit of another device.
ClobberedNow == {s \in ServerIds : server'[s].updated_at < server[s].updated_at}

\* A create that may come again: its reply was lost, the app was killed
\* between the POST and the write of the queue, or a screen that had read the
\* note before the id swap saved or queued it under the old id.
DoubtNow ==
    {t \in TempIds :
        /\ Rows(t) # {}
        /\ \/ CreateFailed /\ push.item.id = t
           \/ Restart /\ t \in IdsOf(queue)
           \/ \E u \in Screens : (SaveLocally(u) \/ Enqueue(u)) /\ scr[u].item.id = t}

EditedNow == {i \in EnqueuedNow : \E u \in Screens : scr[u].item.id = i /\ scr[u].item.operation # "delete"}

CoveredNow == {scr[u].item.id : u \in {v \in Screens : Enqueue(v) /\ ~Pushing /\ UpToDate(scr[v].item)}}

DeletedNow == {scr'[u].item.id : u \in {v \in Screens : /\ deleteNoteOffline(v) \/ deleteNote(v)
                                                      /\ scr'[v].pc # "idle"}}

CrossedNow ==
    {t \in TempIds \cap (IdsOf(local) \ IdsOf(local')) :
        \E u, v \in Screens : /\ deleteNoteOffline(u) \/ deleteNote(u)
                              /\ scr[v].pc # "idle" /\ scr[v].item.id = t}

\* No push and no other screen is at work on the temp id t, nor has one saved it
\* again since the delete.
Untried(t, u) ==
    /\ Rows(t) = {} /\ t \notin IdsOf(InPush) \cup IdsOf(local)
    /\ \A v \in Screens \ {u} : scr[v].pc = "idle" \/ scr[v].item.id # t

DroppedNow ==
    {t \in TempIds : \E u \in Screens : FilterQueue(u) /\ scr[u].item.id = t /\ Untried(t, u)}

Observe ==
    past' = [late    |-> LateNow,
             exposed |-> (past.exposed \ CoveredNow) \cup ThrownNow,
             deleted |-> (past.deleted \ EditedNow) \cup {i \in DeletedNow : Live(i)},
             doubt   |-> past.doubt \cup DoubtNow,
             clobbered |-> past.clobbered \cup ClobberedNow,
             dropped |-> past.dropped \cup DroppedNow,
             crossed |-> past.crossed \cup CrossedNow]

PSpec == Init /\ InitPast /\ [][Next /\ Observe]_pvars

-------------------------------------------------------------------------------
(* Who still answers for a note *)

Carried(i) == Names(i) \cap (IdsOf(queue) \cup IdsOf(InPush) \cup AwaitsEnqueue) # {}

Unsynced(n) ==
    /\ ~n.pendingDelete
    /\ n.isLocal \/ (Live(n.id) /\ n.updated_at > server[n.id].updated_at)

\* A note that is newer here than on the server has an operation queued, in
\* the running push or about to be enqueued: enqueueOperation, the snapshot
\* and the write-back of processSyncQueue, the id swap and the pull lose the
\* user's edit in no other way than those ThrownNow lists.  Of a note that was
\* created twice the edit may have gone to the other copy.
InTwin(n) ==
    \E t \in Names(n.id) \cap past.doubt : \E s \in Rows(t) :
        s \in past.clobbered \/ server[s].updated_at >= n.updated_at

EditsAreCarried ==
    \A n \in local : Unsynced(n) =>
        Carried(n.id) \/ Names(n.id) \cap (past.exposed \cup past.clobbered) # {} \/ InTwin(n)

Deletes(Q) == {q \in Q : q.operation = "delete"}

DeleteCarried(i) ==
    \/ Names(i) \cap IdsOf(Deletes(queue \cup InPush)) # {}
    \/ \E u \in Screens : scr[u].pc = "enqueue" /\ scr[u].item.operation = "delete"
                          /\ scr[u].item.id \in Names(i)

\* The same of a delete, tombstone or not: while the server has a note the
\* user deleted, its delete is queued, in the running push or about to be
\* enqueued, and as a delete: no later or earlier operation takes its place.
DeletesAreCarried ==
    \A s \in past.deleted : Live(s) => DeleteCarried(s) \/ Names(s) \cap past.exposed # {}

\* One note made on the device becomes one note on the server, but for the
\* lost replies, kills and late saves DoubtNow lists.
CreatedAtMostOnce ==
    \A t \in TempIds : Cardinality(Rows(t)) > 1 => t \in past.doubt

\* A note whose create deleteNoteOffline took out of the queue, no push having
\* it, never gets to the server: neither a failed push nor an edit puts it back.
\* (The list's deleteNote leaves the create in the queue.)
DroppedNeverCreated == \A t \in past.dropped : Rows(t) = {}

CreatedOnce == CreatedAtMostOnce /\ DroppedNeverCreated

\* A temp id a screen still holds leads to the note it became, except between
\* the write of the swapped id and the alias (updateNoteOffline would find
\* nothing and return).
HandleLeadsToNote ==
    \A t \in handle \ (past.doubt \cup past.crossed) :
        /\ push.pc # "aliasing"
        /\ \E n \in local : n.id \in Rows(t)
        => resolveNoteId(t) \in IdsOf(local)

\* Of a note the device has once, no step replaces the copy by an older one,
\* whatever overlaps: last write wins on the device.  (Of a note it has twice,
\* mergeRecords keeps any.)
Forward ==
    \A n \in local :
        /\ \A m \in local : m.id = n.id => m = n
        /\ n.id \in IdsOf(local')
        => \E m \in local' : m.id = n.id /\ m.updated_at >= n.updated_at

NeverOlder == [][Forward]_pvars

=============================================================================
