---------------------------- MODULE NoteSyncProofs ----------------------------
(***************************************************************************)
(* The merge of a pull (SyncMerge), whatever its inputs.  And NoteSync,     *)
(* proved for every set of screens, ids and fields, every bound:           *)
(* its types, and that an update is only ever sent for a note the server   *)
(* has made; then the history properties (NoteSyncProps): notes are        *)
(* created once, and edits and deletes are carried to the server or lost   *)
(* in a way that has a name.                                               *)
(***************************************************************************)
EXTENDS NoteSyncProps, FiniteSetTheorems, TLAPS

-------------------------------------------------------------------------------
(* The four precedence rules of mergeRecords (syncMergeCore.ts:69-74), for    *)
(* every server response and every local store.  Records need an id, the two  *)
(* flags and two timestamps, and any content; rules about one local record    *)
(* need it to be the only one with its id.                                    *)

Kept(S, L, complete, start) == {r \in L : Survives(r, S, complete, start)}

OnlyOne(L, n) == n \in L /\ \A m \in L : m.id = n.id => m = n

Unique(L) == \A a, b \in L : a.id = b.id => a = b

Record(I, C) == [id : I, content : C, updated_at : Nat, created_at : Nat,
                 isLocal : BOOLEAN, pendingDelete : BOOLEAN]

\* Where a record of the result comes from: it is a surviving local record, or
\* the server's record where no local one survived.
LEMMA MergeParts ==
    ASSUME NEW S, NEW L, NEW complete, NEW start,
           NEW M \in mergeRecords(S, L, complete, start)
    PROVE  \E m \in OnePerId(Kept(S, L, complete, start)) :
               M = {[s EXCEPT !.isLocal = FALSE] :
                       s \in {x \in S : x.id \notin IdsOf(Kept(S, L, complete, start))}} \cup m
<1>1. mergeRecords(S, L, complete, start) =
        {{[s EXCEPT !.isLocal = FALSE] :
             s \in {x \in S : x.id \notin IdsOf(Kept(S, L, complete, start))}} \cup m :
             m \in OnePerId(Kept(S, L, complete, start))}
  BY DEF mergeRecords, Kept
<1> QED
  BY <1>1

\* The kept records: local ones that survive, one for each of their ids.
LEMMA KeptFacts ==
    ASSUME NEW K, NEW m \in OnePerId(K)
    PROVE  /\ m \subseteq K /\ Unique(m)
           /\ \A k \in K : \E r \in m : r.id = k.id
           /\ \A k \in K : OnlyOne(K, k) => k \in m
<1>1. m \subseteq K /\ Unique(m) /\ IdsOf(m) = IdsOf(K)
  BY DEF OnePerId, Unique
<1>2. ASSUME NEW k \in K PROVE \E r \in m : r.id = k.id
  <2>1. k.id \in IdsOf(m)
    BY <1>1 DEF IdsOf
  <2> QED
    BY <2>1 DEF IdsOf
<1> QED
  BY <1>1, <1>2 DEF OnlyOne

\* Nothing in the result is new.
LEMMA MergeSources ==
    ASSUME NEW S, NEW L, NEW complete, NEW start,
           NEW M \in mergeRecords(S, L, complete, start), NEW r \in M
    PROVE  r \in L \/ \E s \in S : r = [s EXCEPT !.isLocal = FALSE]
<1>1. PICK m \in OnePerId(Kept(S, L, complete, start)) :
          M = {[s EXCEPT !.isLocal = FALSE] :
                  s \in {x \in S : x.id \notin IdsOf(Kept(S, L, complete, start))}} \cup m
  BY MergeParts
<1>2. m \subseteq L
  BY KeptFacts DEF Kept
<1> QED
  BY <1>1, <1>2

-------------------------------------------------------------------------------
(* The rules *)

\* Rule 1: a local record queued for deletion never comes back as a live one.
THEOREM TombstoneStays ==
    ASSUME NEW I, NEW C, NEW S \in SUBSET Record(I, C), NEW L \in SUBSET Record(I, C),
           NEW complete, NEW start, NEW M \in mergeRecords(S, L, complete, start),
           NEW n \in L, OnlyOne(L, n), n.pendingDelete,
           NEW r \in M, r.id = n.id
    PROVE  r = n
<1> DEFINE K == Kept(S, L, complete, start)
<1>1. PICK m \in OnePerId(K) :
          M = {[s EXCEPT !.isLocal = FALSE] : s \in {x \in S : x.id \notin IdsOf(K)}} \cup m
  BY MergeParts
<1>2. CASE r \in m
  BY <1>2, KeptFacts DEF Kept, OnlyOne
<1>3. CASE r \notin m
  <2>1. PICK s \in S : s.id \notin IdsOf(K) /\ r = [s EXCEPT !.isLocal = FALSE]
    BY <1>1, <1>3
  <2>2. s.id = n.id
    BY <2>1 DEF Record
  <2>3. n \in K
    BY <2>2 DEF Kept, Survives, IdsOf
  <2> QED
    BY <2>1, <2>2, <2>3 DEF IdsOf
<1> QED
  BY <1>2, <1>3

\* Rule 2: a local-only record always survives.
THEOREM LocalOnlySurvives ==
    ASSUME NEW S, NEW L, NEW complete, NEW start,
           NEW M \in mergeRecords(S, L, complete, start),
           NEW n \in L, OnlyOne(L, n), ~n.pendingDelete, n.isLocal
    PROVE  n \in M
<1> DEFINE K == Kept(S, L, complete, start)
<1>1. PICK m \in OnePerId(K) :
          M = {[s EXCEPT !.isLocal = FALSE] : s \in {x \in S : x.id \notin IdsOf(K)}} \cup m
  BY MergeParts
<1>2. n \in K /\ OnlyOne(K, n)
  BY DEF Kept, Survives, OnlyOne
<1> QED
  BY <1>1, <1>2, KeptFacts

\* Rule 3: when both sides have it, no result is older than either copy.
THEOREM NewestWins ==
    ASSUME NEW I, NEW C, NEW S \in SUBSET Record(I, C), NEW L \in SUBSET Record(I, C),
           NEW complete, NEW start, NEW M \in mergeRecords(S, L, complete, start),
           NEW n \in L, OnlyOne(L, n), ~n.pendingDelete, ~n.isLocal,
           NEW s \in S, OnlyOne(S, s), s.id = n.id,
           NEW r \in M, r.id = n.id
    PROVE  /\ ~isNewerTimestamp(recordTimestamp(n), recordTimestamp(r))
           /\ ~isNewerTimestamp(recordTimestamp(s), recordTimestamp(r))
<1> DEFINE K == Kept(S, L, complete, start)
<1>1. PICK m \in OnePerId(K) :
          M = {[x EXCEPT !.isLocal = FALSE] : x \in {y \in S : y.id \notin IdsOf(K)}} \cup m
  BY MergeParts
<1>2. recordTimestamp(n) \in Nat /\ recordTimestamp(s) \in Nat
  BY DEF Record, recordTimestamp
<1>3. CASE r \in m
  <2>1. r = n /\ Survives(n, S, complete, start)
    BY <1>3, KeptFacts DEF Kept, OnlyOne
  <2>2. isNewerTimestamp(recordTimestamp(n), recordTimestamp(s))
    BY <2>1 DEF Survives, WithId, IdsOf
  <2> QED
    BY <1>2, <2>1, <2>2 DEF isNewerTimestamp
<1>4. CASE r \notin m
  <2>1. PICK x \in S : x.id \notin IdsOf(K) /\ r = [x EXCEPT !.isLocal = FALSE]
    BY <1>1, <1>4
  <2>2. x.id = n.id /\ recordTimestamp(r) = recordTimestamp(x)
    BY <2>1 DEF Record, recordTimestamp
  <2>3. x = s
    BY <2>2 DEF OnlyOne
  <2>4. n \notin K
    BY <2>1, <2>2 DEF IdsOf
  <2>5. ~isNewerTimestamp(recordTimestamp(n), recordTimestamp(s))
    BY <2>4 DEF Kept, Survives, WithId, IdsOf, OnlyOne
  <2> QED
    BY <1>2, <2>2, <2>3, <2>5 DEF isNewerTimestamp
<1> QED
  BY <1>3, <1>4

\* Rule 4: what only the device has survives a pull that is not known to be
\* complete, and an edit made after the pull began survives any pull.
THEOREM AbsentSurvives ==
    ASSUME NEW S, NEW L, NEW complete, NEW start,
           NEW M \in mergeRecords(S, L, complete, start),
           NEW n \in L, OnlyOne(L, n), ~n.pendingDelete, n.id \notin IdsOf(S),
           ~complete \/ isNewerTimestamp(recordTimestamp(n), start)
    PROVE  n \in M
<1> DEFINE K == Kept(S, L, complete, start)
<1>1. PICK m \in OnePerId(K) :
          M = {[s EXCEPT !.isLocal = FALSE] : s \in {x \in S : x.id \notin IdsOf(K)}} \cup m
  BY MergeParts
<1>2. n \in K /\ OnlyOne(K, n)
  BY DEF Kept, Survives, OnlyOne, absenceMeansDeleted
<1> QED
  BY <1>1, <1>2, KeptFacts

\* The pull also repairs the store: whatever the store held, the result has
\* one record per id, and one for every record of the server.
THEOREM MergeIsAMap ==
    ASSUME NEW I, NEW C, NEW S \in SUBSET Record(I, C), Unique(S), NEW L \in SUBSET Record(I, C),
           NEW complete, NEW start, NEW M \in mergeRecords(S, L, complete, start)
    PROVE  Unique(M) /\ \A s \in S : \E r \in M : r.id = s.id
<1> DEFINE K == Kept(S, L, complete, start)
           T == {[s EXCEPT !.isLocal = FALSE] : s \in {x \in S : x.id \notin IdsOf(K)}}
<1>1. PICK m \in OnePerId(K) : M = T \cup m
  BY MergeParts
<1>2. m \subseteq K /\ Unique(m) /\ \A k \in K : \E r \in m : r.id = k.id
  BY KeptFacts
<1>3. ASSUME NEW t \in T
      PROVE  \E s \in S : s.id \notin IdsOf(K) /\ t = [s EXCEPT !.isLocal = FALSE] /\ t.id = s.id
  BY DEF Record
<1>4. \A t \in T, r \in m : t.id # r.id
  BY <1>2, <1>3 DEF IdsOf
<1>5. Unique(T)
  BY <1>3 DEF Unique
<1>6. ASSUME NEW s \in S PROVE \E r \in M : r.id = s.id
  <2>1. CASE s.id \in IdsOf(K)
    BY <1>1, <1>2, <2>1 DEF IdsOf
  <2>2. CASE s.id \notin IdsOf(K)
    <3>1. [s EXCEPT !.isLocal = FALSE] \in M /\ [s EXCEPT !.isLocal = FALSE].id = s.id
      BY <1>1, <2>2 DEF Record
    <3> QED
      BY <3>1
  <2> QED
    BY <2>1, <2>2
<1>7. Unique(M)
  <2> HIDE DEF T, K
  <2> QED
    BY <1>1, <1>2, <1>4, <1>5 DEF Unique
<1> QED
  BY <1>6, <1>7

-------------------------------------------------------------------------------
(* The operators keep the types *)

LEMMA IdleTypes ==
    /\ NoItem \in Item /\ NoNote \in Note /\ NoRow \in Row
    /\ Blank \in Content /\ NoPayload \in Payload
    /\ IdleScreen \in ScreenState /\ IdlePush \in PushState /\ IdleFull \in FullState
<1>1. (CHOOSE i \in Ids : TRUE) \in Ids
  BY SomeServerId DEF Ids
<1>2. Blank \in Content /\ NoPayload \in Payload
  BY DEF Blank, Content, NoPayload, Payload
<1>3. NoItem \in Item /\ NoNote \in Note /\ NoRow \in Row
  BY <1>1, <1>2, BoundsAreNat DEF NoItem, Item, Ops, NoNote, Note, NoRow, Row, Ids
<1> QED
  BY <1>2, <1>3 DEF IdleScreen, ScreenState, IdlePush, PushState, IdleFull, FullState

LEMMA WrittenType ==
    ASSUME NEW content \in Content, NEW fields, NEW at \in Nat
    PROVE  Written(content, fields, at) \in Content
  BY DEF Written, Content

LEMMA EditedType ==
    ASSUME NEW fields, NEW at \in Nat
    PROVE  /\ \A row \in Row : Edited(row, fields, at) \in Row
           /\ \A note \in Note : Edited(note, fields, at) \in Note
  BY WrittenType DEF Edited, Row, Note

LEMMA ServerNoteType ==
    ASSUME server \in [ServerIds -> Row], NEW s \in ServerIds
    PROVE  ServerNote(s) \in Note
  BY DEF ServerNote, Row, Note, Ids

LEMMA UpsertType ==
    ASSUME NEW L \in SUBSET Note, NEW note \in Note, NEW M \in upsertLocalNote(L, note)
    PROVE  M \in SUBSET Note
  BY DEF upsertLocalNote

LEMMA EnqueueType ==
    ASSUME NEW Q \in SUBSET Item, NEW item \in Item
    PROVE  enqueueOperation(Q, item) \in SUBSET Item
<1>1. ASSUME NEW o \in Item PROVE mergeItem(o, item) \in Item
  BY DEF mergeItem, Item
<1> QED
  BY <1>1 DEF enqueueOperation, WithId

LEMMA MergeType ==
    ASSUME NEW S \in SUBSET Note, NEW L \in SUBSET Note, NEW complete, NEW start,
           NEW M \in mergeRecords(S, L, complete, start)
    PROVE  M \in SUBSET Note
<1>1. ASSUME NEW s \in Note PROVE [s EXCEPT !.isLocal = FALSE] \in Note
  BY DEF Note
<1> QED
  BY <1>1, MergeSources

-------------------------------------------------------------------------------
(* Type correctness *)

LEMMA TypeInit == Init => TypeOK
<1> SUFFICES ASSUME Init PROVE TypeOK
  OBVIOUS
<1>1. server \in [ServerIds -> Row]
  <2>1. ASSUME NEW s \in Synced
        PROVE  [state |-> "live", content |-> [f \in Fields |-> 1], updated_at |-> 1, origin |-> s] \in Row
    BY SyncedOnServer DEF Row, Content
  <2> QED
    BY <2>1, IdleTypes DEF Init
<1>2. local \in SUBSET Note
  BY <1>1, ServerNoteType, SyncedOnServer DEF Init
<1> QED
  BY <1>1, <1>2, IdleTypes DEF Init, TypeOK, Ids


\* The steps of the screens.
LEMMA TypeScreens ==
    ASSUME TypeOK, NEW u \in Screens, UserOp(u) \/ ScreenStep(u)
    PROVE  TypeOK'
<1> USE DEF TypeOK
<1>1. CASE createNoteOffline(u)
  <2>1. PICK t \in TempIds \ born :
            /\ born' = born \cup {t}
            /\ Do(u, "upsert",
                  [id |-> t, operation |-> "create", retries |-> 0,
                   payload |-> [fields |-> Fields, at |-> clock', stamped |-> FALSE]],
                  [id |-> t, content |-> Written(Blank, Fields, clock'), updated_at |-> clock',
                   created_at |-> 0, isLocal |-> TRUE, pendingDelete |-> FALSE])
    BY <1>1 DEF createNoteOffline
  <2>2. clock' \in Nat
    BY <1>1 DEF createNoteOffline, Tick
  <2>3. [id |-> t, operation |-> "create", retries |-> 0,
         payload |-> [fields |-> Fields, at |-> clock', stamped |-> FALSE]] \in Item
    BY <2>2, BoundsAreNat DEF Item, Ids, Ops, Payload
  <2>4. [id |-> t, content |-> Written(Blank, Fields, clock'), updated_at |-> clock',
         created_at |-> 0, isLocal |-> TRUE, pendingDelete |-> FALSE] \in Note
    BY <2>2, WrittenType, IdleTypes DEF Note, Ids
  <2>5. scr' \in [Screens -> ScreenState]
    BY <2>1, <2>3, <2>4 DEF Do, ScreenState
  <2> QED
    BY <1>1, <2>1, <2>2, <2>5 DEF createNoteOffline
<1>2. CASE updateNoteOffline(u)
  <2>1. clock' \in Nat
    <3>1. Tick
      BY <1>2 DEF updateNoteOffline
    <3> QED
      BY <3>1 DEF Tick
  <2>2. ASSUME NEW i \in Visible, NEW fields \in Drafts, NEW existing \in WithId(local, resolveNoteId(i)),
               Do(u, "upsert",
                  [id |-> existing.id, retries |-> 0,
                   operation |-> IF existing.isLocal THEN "create" ELSE "update",
                   payload |-> [fields |-> fields, at |-> clock', stamped |-> TRUE]],
                  Edited(existing, fields, clock'))
        PROVE  scr' \in [Screens -> ScreenState]
    <3>1. existing \in Note
      BY DEF WithId
    <3>2. [id |-> existing.id, retries |-> 0,
           operation |-> IF existing.isLocal THEN "create" ELSE "update",
           payload |-> [fields |-> fields, at |-> clock', stamped |-> TRUE]] \in Item
      BY <2>1, <3>1, DraftsAreFields, BoundsAreNat DEF Item, Ops, Payload, Note
    <3>3. Edited(existing, fields, clock') \in Note
      BY <2>1, <3>1, EditedType
    <3> QED
      BY <2>2, <3>2, <3>3 DEF Do, ScreenState
  <2>3. scr' \in [Screens -> ScreenState]
    BY <1>2, <2>2 DEF updateNoteOffline
  <2> QED
    BY <1>2, <2>1, <2>3 DEF updateNoteOffline
<1>3. CASE deleteNoteOffline(u) \/ deleteNote(u)
  <2>1. ASSUME NEW i \in Ids PROVE DeleteItem(i) \in Item
    BY IdleTypes, BoundsAreNat DEF DeleteItem, Item, Ops
  <2>2. Visible \subseteq Ids
    BY DEF Visible, Note, Ids
  <2>3. \A i \in Visible : resolveNoteId(i) \in Ids
    BY <2>2 DEF resolveNoteId
  <2>4. \A i : deleteLocalNote(local, i) \in SUBSET Note
    BY DEF deleteLocalNote
  <2>5. ASSUME NEW i PROVE markPendingDelete(local, i) \in SUBSET Note
    <3>1. ASSUME NEW n \in Note PROVE [n EXCEPT !.pendingDelete = TRUE] \in Note
      BY DEF Note
    <3> QED
      BY <3>1 DEF markPendingDelete
  <2>6. \A i : Forget(i) => handle' \in SUBSET TempIds
    BY DEF Forget
  <2>7. ASSUME NEW pc \in {"filter", "enqueue"}, NEW i \in Ids, Do(u, pc, DeleteItem(i), NoNote)
        PROVE  scr' \in [Screens -> ScreenState]
    BY <2>1, <2>7, IdleTypes DEF Do, ScreenState
  <2>8. CASE deleteNoteOffline(u)
    BY <2>2, <2>3, <2>4, <2>5, <2>6, <2>7, <2>8 DEF deleteNoteOffline
  <2>9. CASE deleteNote(u)
    BY <2>2, <2>4, <2>5, <2>6, <2>7, <2>9 DEF deleteNote
  <2> QED
    BY <1>3, <2>8, <2>9
<1>4. CASE SaveLocally(u)
  <2>1. scr[u].note \in Note
    BY DEF ScreenState
  <2> QED
    BY <1>4, <2>1, UpsertType DEF SaveLocally, Go, ScreenState
<1>5. CASE Enqueue(u)
  <2>1. scr[u].item \in Item
    BY DEF ScreenState
  <2>2. queue' \in SUBSET Item
    BY <1>5, <2>1, EnqueueType DEF Enqueue
  <2>3. scr' \in [Screens -> ScreenState] /\ handle' \in SUBSET TempIds
    BY <1>5, IdleTypes DEF Enqueue, Go, Done, ScreenState
  <2> QED
    BY <1>5, <2>2, <2>3 DEF Enqueue
<1>6. CASE FilterQueue(u)
  BY <1>6, IdleTypes DEF FilterQueue, Done
<1>7. CASE DeleteTail(u)
  <2>1. scr' \in [Screens -> ScreenState] /\ local' \in SUBSET Note
    BY <1>7, IdleTypes DEF DeleteTail, Call, Go, Done, ScreenState, deleteLocalNote
  <2>2. push' \in PushState
    BY <1>7, IdleTypes DEF DeleteTail, Call, PushState
  <2> QED
    BY <1>7, <2>1, <2>2 DEF DeleteTail
<1> QED
  BY <1>1, <1>2, <1>3, <1>4, <1>5, <1>6, <1>7 DEF UserOp, ScreenStep


\* The steps of processSyncQueue.
LEMMA TypePush ==
    ASSUME TypeOK, TriggerPush \/ PushStep
    PROVE  TypeOK'
<1> USE DEF TypeOK
<1>1. push.item \in Item /\ push.reply \in Note /\ push.item.id \in Ids
      /\ push.item.payload \in Payload
  BY DEF PushState, Item
<1>2. /\ ItemDone => push' \in PushState
      /\ \A pc \in {"aliasing", "put", "putAnyway", "saved"} : PushGo(pc) => push' \in PushState
  BY IdleTypes DEF ItemDone, PushGo, PushState
<1>3. ItemFailed => push' \in PushState
  <2>1. push.item.retries < MAX_RETRIES => [push.item EXCEPT !.retries = @ + 1] \in Item
    BY <1>1, BoundsAreNat DEF Item
  <2>2. (IF push.item.retries < MAX_RETRIES
         THEN push.failed \cup {[push.item EXCEPT !.retries = @ + 1]}
         ELSE push.failed) \in SUBSET Item
    BY <2>1 DEF PushState
  <2> QED
    BY <2>2, IdleTypes DEF ItemFailed, PushState
<1>4. Put /\ Live(push.item.id) => server' \in [ServerIds -> Row]
  BY <1>1, EditedType DEF Put, Payload, Live
<1>5. CASE TriggerPush
  BY <1>5, IdleTypes DEF TriggerPush, Call, PushState
<1>6. CASE PickItem
  <2>1. PICK item \in push.todo :
            push' = [push EXCEPT !.todo = @ \ {item}, !.item = item, !.pc = item.operation]
    BY <1>6 DEF PickItem
  <2>2. item \in Item /\ item.operation \in {"create", "update", "delete"}
    BY DEF PushState, Item, Ops
  <2>3. push' \in PushState
    BY <2>1, <2>2 DEF PushState
  <2> QED
    BY <1>6, <2>3 DEF PickItem
<1>7. CASE PostNote
  <2>1. ASSUME NEW s \in ServerIds PROVE [NoNote EXCEPT !.id = s] \in Note
    BY IdleTypes DEF Note, Ids
  <2>2. Written(Blank, push.item.payload.fields, push.item.payload.at) \in Content
    BY <1>1, WrittenType, IdleTypes DEF Payload
  <2>3. [state |-> "live",
         content |-> Written(Blank, push.item.payload.fields, push.item.payload.at),
         updated_at |-> IF push.item.payload.stamped THEN push.item.payload.at ELSE clock,
         origin |-> push.item.id] \in Row
    BY <1>1, <2>2 DEF Row, Payload, Ids
  <2>4. push' \in PushState
    <3>1. PICK s \in ServerIds :
              push' = [push EXCEPT !.pc = "created", !.reply = [NoNote EXCEPT !.id = s]]
      BY <1>7 DEF PostNote
    <3> QED
      BY <2>1, <3>1 DEF PushState
  <2>5. server' \in [ServerIds -> Row]
    BY <1>7, <2>3 DEF PostNote
  <2> QED
    BY <1>7, <2>4, <2>5 DEF PostNote
<1>8. CASE SwapId
  <2>1. ASSUME NEW n \in Note PROVE [n EXCEPT !.id = push.reply.id, !.isLocal = FALSE] \in Note
    BY <1>1 DEF Note
  <2>2. local' \in SUBSET Note
    BY <1>8, <2>1 DEF SwapId, WithId
  <2> QED
    BY <1>2, <1>8, <2>2 DEF SwapId
<1>9. CASE SetAlias
  BY <1>1, <1>2, <1>9 DEF SetAlias, Note
<1>10. CASE GetNote
  <2>1. Live(push.item.id) => ServerNote(push.item.id) \in Note
    BY ServerNoteType DEF Live
  <2> QED
    BY <1>2, <1>10, <2>1 DEF GetNote, PushState
<1>11. CASE Compare
  BY <1>1, <1>2, <1>11, UpsertType DEF Compare
<1>12. CASE PutNote
  BY <1>2, <1>4, <1>12 DEF PutNote
<1>13. CASE PutAnyway
  BY <1>2, <1>3, <1>4, <1>13 DEF PutAnyway
<1>14. CASE DeleteOnServer
  <2>1. Live(push.item.id) => [server[push.item.id] EXCEPT !.state = "gone"] \in Row
    BY DEF Live, Row
  <2> QED
    BY <1>2, <1>3, <1>14, <2>1 DEF DeleteOnServer, Live
<1>15. CASE CreateFailed
  BY <1>3, <1>15 DEF CreateFailed
<1>16. CASE SaveFailed
  BY <1>2, <1>16 DEF SaveFailed, PushState
<1>17. CASE FinishPush
  <2>1. local' \in SUBSET Note /\ scr' \in [Screens -> ScreenState]
    BY <1>17, IdleTypes DEF FinishPush, Done, deleteLocalNote
  <2>2. full' \in FullState
    BY <1>17 DEF FinishPush, StartPull, FullState
  <2> QED
    BY <1>17, <2>1, <2>2, IdleTypes DEF FinishPush
<1> QED
  BY <1>5, <1>6, <1>7, <1>8, <1>9, <1>10, <1>11, <1>12, <1>13, <1>14, <1>15, <1>16, <1>17
     DEF PushStep

\* The pull, the other devices and the restart.
LEMMA TypeRest ==
    ASSUME TypeOK, StartFullSync \/ FullStep \/ OtherEdit \/ OtherDelete \/ Restart
    PROVE  TypeOK'
<1> USE DEF TypeOK
<1>1. CASE StartFullSync
  <2>1. push' \in PushState
    BY <1>1, IdleTypes DEF StartFullSync, Call, PushState
  <2>2. full' \in FullState
    BY <1>1 DEF StartFullSync, Call, StartPull, FullState
  <2>3. used' \in [restarts : Nat, pulls : Nat, remote : Nat]
    BY <1>1 DEF StartFullSync
  <2> QED
    BY <1>1, <2>1, <2>2, <2>3 DEF StartFullSync
<1>2. CASE Pull
  <2>1. {ServerNote(s) : s \in {r \in ServerIds : Live(r)}} \in SUBSET Note
    BY ServerNoteType
  <2> QED
    BY <1>2, <2>1, IdleTypes DEF Pull, FullState
<1>3. CASE MergePull
  <2>1. full.pulled \in SUBSET Note
    BY DEF FullState
  <2>2. local' \in SUBSET Note
    BY <1>3, <2>1, MergeType DEF MergePull
  <2> QED
    BY <1>3, <2>2, IdleTypes DEF MergePull
<1>4. CASE OtherEdit
  <2>1. Tick /\ Remote
    BY <1>4 DEF OtherEdit
  <2>2. clock' \in Nat /\ used' \in [restarts : Nat, pulls : Nat, remote : Nat]
    BY <2>1 DEF Tick, Remote
  <2>3. server' \in [ServerIds -> Row]
    BY <1>4, <2>2, EditedType DEF OtherEdit
  <2> QED
    BY <1>4, <2>2, <2>3 DEF OtherEdit
<1>5. CASE OtherDelete
  <2>1. server' \in [ServerIds -> Row]
    BY <1>5 DEF OtherDelete, Row
  <2>2. used' \in [restarts : Nat, pulls : Nat, remote : Nat]
    BY <1>5 DEF OtherDelete, Remote
  <2> QED
    BY <1>5, <2>1, <2>2 DEF OtherDelete
<1>6. CASE Restart
  BY <1>6, IdleTypes DEF Restart, Ids
<1> QED
  BY <1>1, <1>2, <1>3, <1>4, <1>5, <1>6 DEF FullStep

LEMMA TypeNext == TypeOK /\ [Next]_vars => TypeOK'
<1>1. CASE UNCHANGED vars
  BY <1>1 DEF vars, TypeOK
<1> QED
  BY <1>1, TypeScreens, TypePush, TypeRest DEF Next

\* The state keeps its types and no item is ever kept beyond its last retry:
\* the types of every store, queue, flag and running operation of offlineSync.ts.
THEOREM TypeCorrect == Spec => []TypeOK
  BY TypeInit, TypeNext, PTL DEF Spec


-------------------------------------------------------------------------------
(* Ids match kinds: the inductive invariant behind UpdatesNameServerNotes *)

LEMMA KnownGrows == TypeOK /\ [Next]_vars => Known \subseteq Known'
<1> SUFFICES ASSUME TypeOK, [Next]_vars, NEW s \in ServerIds, server[s].state # "none"
             PROVE  server'[s].state # "none"
  BY DEF Known
<1> USE DEF TypeOK
<1>1. CASE UNCHANGED server
  BY <1>1
<1>2. \A fields, at : Edited(server[s], fields, at).state = server[s].state
  BY DEF Edited, Row
<1>3. CASE PostNote
  BY <1>3 DEF PostNote
<1>4. CASE PutNote \/ PutAnyway
  BY <1>2, <1>4 DEF PutNote, PutAnyway, Put, Live
<1>5. CASE DeleteOnServer
  BY <1>5 DEF DeleteOnServer, Live, Row
<1>6. CASE OtherEdit
  BY <1>2, <1>6 DEF OtherEdit
<1>7. CASE OtherDelete
  BY <1>7 DEF OtherDelete, Row
<1>8. [Next]_vars => \/ UNCHANGED server \/ PostNote \/ PutNote \/ PutAnyway
                     \/ DeleteOnServer \/ OtherEdit \/ OtherDelete
  BY DEF Next, UserOp, ScreenStep, PushStep, FullStep, vars, createNoteOffline, updateNoteOffline,
         deleteNoteOffline, deleteNote, SaveLocally, Enqueue, FilterQueue, DeleteTail, TriggerPush,
         PickItem, SwapId, SetAlias, GetNote, Compare, CreateFailed, SaveFailed, FinishPush,
         StartFullSync, Pull, MergePull, Restart
<1> QED
  BY <1>1, <1>3, <1>4, <1>5, <1>6, <1>7, <1>8

\* What a step leaves alone still matches, since known ids stay known.
LEMMA MatchesStay ==
    ASSUME IdsMatchKinds, Known \subseteq Known'
    PROVE  /\ \A n : GoodNote(n) => GoodNote(n)'
           /\ \A q : GoodItem(q) => GoodItem(q)'
           /\ UNCHANGED local => LocalMatches'
           /\ UNCHANGED queue => QueueMatches'
           /\ UNCHANGED scr   => \A u \in Screens : ScreenMatches(u)'
           /\ UNCHANGED push  => PushMatches'
           /\ UNCHANGED full  => FullMatches'
<1>1. /\ \A n : GoodNote(n) => GoodNote(n)'
      /\ \A q : GoodItem(q) => GoodItem(q)'
  BY DEF GoodNote, GoodItem
<1>2. UNCHANGED local => LocalMatches'
  BY <1>1 DEF IdsMatchKinds, LocalMatches
<1>3. UNCHANGED queue => QueueMatches'
  BY <1>1 DEF IdsMatchKinds, QueueMatches
<1>4. UNCHANGED scr => \A u \in Screens : ScreenMatches(u)'
  BY DEF IdsMatchKinds, ScreenMatches, GoodNote, GoodItem
<1>5. UNCHANGED push => PushMatches'
  BY DEF IdsMatchKinds, PushMatches, GoodItem
<1>6. UNCHANGED full => FullMatches'
  BY DEF IdsMatchKinds, FullMatches
<1> QED
  BY <1>1, <1>2, <1>3, <1>4, <1>5, <1>6

LEMMA MatchInit == Init => IdsMatchKinds
<1> SUFFICES ASSUME Init PROVE IdsMatchKinds
  OBVIOUS
<1>1. Synced \subseteq Known
  BY SyncedOnServer DEF Init, Known
<1>2. LocalMatches
  BY <1>1 DEF Init, LocalMatches, GoodNote, ServerNote
<1>3. GoodItem(NoItem)
  BY DEF GoodItem, NoItem
<1> QED
  BY <1>2, <1>3 DEF Init, IdsMatchKinds, QueueMatches, ScreenMatches, PushMatches, FullMatches,
     IdleScreen, IdlePush, IdleFull


\* The operators on the stores keep what every element has.
LEMMA StoreOperators ==
    /\ \A L, n : \A M \in upsertLocalNote(L, n) : M \subseteq L \cup {n}
    /\ \A L, i : deleteLocalNote(L, i) \subseteq L
    /\ \A L \in SUBSET Note : \A i : \A m \in markPendingDelete(L, i) :
           \E n \in L : m.id = n.id /\ m.isLocal = n.isLocal
    /\ \A Q \in SUBSET Item, item \in Item : \A q \in enqueueOperation(Q, item) :
           \/ q \in Q \/ q = item
           \/ \E o \in Q : q.id = o.id /\ q.operation \in {"delete", o.operation}
<1>1. ASSUME NEW L, NEW n, NEW M \in upsertLocalNote(L, n) PROVE M \subseteq L \cup {n}
  BY DEF upsertLocalNote
<1>2. ASSUME NEW L, NEW i PROVE deleteLocalNote(L, i) \subseteq L
  BY DEF deleteLocalNote
<1>3. ASSUME NEW L \in SUBSET Note, NEW i, NEW m \in markPendingDelete(L, i)
      PROVE  \E n \in L : m.id = n.id /\ m.isLocal = n.isLocal
  <2>1. PICK n \in L : m = IF n.id = i THEN [n EXCEPT !.pendingDelete = TRUE] ELSE n
    BY DEF markPendingDelete
  <2> QED
    BY <2>1 DEF Note
<1>4. ASSUME NEW Q \in SUBSET Item, NEW item \in Item, NEW q \in enqueueOperation(Q, item)
      PROVE  \/ q \in Q \/ q = item
             \/ \E o \in Q : q.id = o.id /\ q.operation \in {"delete", o.operation}
  <2>1. ASSUME NEW o \in Item
        PROVE  /\ mergeItem(o, item).id = o.id
               /\ mergeItem(o, item).operation \in {"delete", o.operation}
    BY DEF mergeItem, Item
  <2>2. q \in Q \/ q = item \/ \E o \in Q : q = mergeItem(o, item)
    BY DEF enqueueOperation, WithId
  <2> QED
    BY <2>1, <2>2
<1> QED
  BY <1>1, <1>2, <1>3, <1>4

LEMMA StartedPushMatches ==
    ASSUME IdsMatchKinds, Known \subseteq Known', NEW caller,
           push' = [IdlePush EXCEPT !.pc = "next", !.todo = queue, !.caller = caller]
    PROVE  PushMatches'
<1>1. /\ push'.pc = "next" /\ push'.todo = queue /\ push'.failed = {}
      /\ push'.item.operation = "delete"
  BY DEF IdlePush, NoItem
<1>2. \A q \in queue : GoodItem(q)'
  BY MatchesStay DEF IdsMatchKinds, QueueMatches
<1> QED
  BY <1>1, <1>2 DEF PushMatches, GoodItem

LEMMA MatchScreens ==
    ASSUME TypeOK, IdsMatchKinds, Known \subseteq Known',
           NEW u \in Screens, UserOp(u) \/ ScreenStep(u)
    PROVE  IdsMatchKinds'
<1>1. /\ local \in SUBSET Note /\ queue \in SUBSET Item /\ scr \in [Screens -> ScreenState]
      /\ LocalMatches /\ QueueMatches /\ PushMatches /\ \A v \in Screens : ScreenMatches(v)
  BY DEF TypeOK, IdsMatchKinds
\* A screen's step leaves the other screens alone.
<1>2. ASSUME NEW pc, NEW item, NEW note, Do(u, pc, item, note), GoodItem(item)',
             pc = "upsert" => GoodNote(note)'
      PROVE  \A v \in Screens : ScreenMatches(v)'
  <2>1. \A v \in Screens : v # u => scr'[v] = scr[v]
    BY <1>1, <1>2 DEF Do
  <2>2. scr'[u] = [pc |-> pc, item |-> item, note |-> note]
    BY <1>1, <1>2 DEF Do
  <2>3. ScreenMatches(u)'
    BY <1>2, <2>2 DEF ScreenMatches
  <2>4. ASSUME NEW v \in Screens, v # u PROVE ScreenMatches(v)'
    BY <1>1, <2>1, <2>4, MatchesStay DEF ScreenMatches, GoodNote, GoodItem
  <2> QED
    BY <2>3, <2>4
<1>3. \A i : GoodItem(DeleteItem(i))'
  BY DEF GoodItem, DeleteItem
<1>4. ASSUME NEW pc \in {"enqueue", "deleteTail", "pushing"}, Go(u, pc)
      PROVE  \A v \in Screens : ScreenMatches(v)'
  <2>1. \A v \in Screens : scr'[v].item = scr[v].item /\ scr'[v].note = scr[v].note
                            /\ (scr'[v].pc = "upsert" => scr[v].pc = "upsert")
    BY <1>1, <1>4 DEF Go, ScreenState
  <2> QED
    BY <1>1, <2>1, MatchesStay DEF ScreenMatches, GoodNote, GoodItem
<1>5. Done(u) => \A v \in Screens : ScreenMatches(v)'
  <2>1. SUFFICES ASSUME Done(u), NEW v \in Screens PROVE ScreenMatches(v)'
    OBVIOUS
  <2>2. scr'[v] = scr[v] \/ scr'[v] = IdleScreen
    BY <1>1, <2>1 DEF Done
  <2> QED
    BY <1>1, <2>2, MatchesStay DEF ScreenMatches, GoodNote, GoodItem, IdleScreen, NoItem
<1>6. \A i : /\ local' = deleteLocalNote(local, i) => LocalMatches'
             /\ local' = markPendingDelete(local, i) => LocalMatches'
  BY <1>1, StoreOperators, MatchesStay DEF LocalMatches, GoodNote
<1>7. CASE createNoteOffline(u)
  <2>1. PICK t \in TempIds :
            Do(u, "upsert",
                  [id |-> t, operation |-> "create", retries |-> 0,
                   payload |-> [fields |-> Fields, at |-> clock', stamped |-> FALSE]],
                  [id |-> t, content |-> Written(Blank, Fields, clock'), updated_at |-> clock',
                   created_at |-> 0, isLocal |-> TRUE, pendingDelete |-> FALSE])
    BY <1>7 DEF createNoteOffline
  <2>2. \A v \in Screens : ScreenMatches(v)'
    BY <1>2, <2>1 DEF GoodItem, GoodNote
  <2> QED
    BY <1>7, <2>2, MatchesStay DEF createNoteOffline, IdsMatchKinds
<1>8. CASE updateNoteOffline(u)
  <2>1. ASSUME NEW i \in Visible, NEW fields \in Drafts, NEW existing \in WithId(local, resolveNoteId(i)), NEW at,
               Do(u, "upsert",
                  [id |-> existing.id, retries |-> 0,
                   operation |-> IF existing.isLocal THEN "create" ELSE "update",
                   payload |-> [fields |-> fields, at |-> at, stamped |-> TRUE]],
                  Edited(existing, fields, at))
        PROVE  \A v \in Screens : ScreenMatches(v)'
    <3>1. existing \in Note /\ GoodNote(existing)'
      BY <1>1, MatchesStay DEF WithId, LocalMatches
    <3>2. GoodNote(Edited(existing, fields, at))'
      BY <3>1 DEF Edited, Note, GoodNote
    <3>3. GoodItem([id |-> existing.id, retries |-> 0,
                    operation |-> IF existing.isLocal THEN "create" ELSE "update",
                    payload |-> [fields |-> fields, at |-> at, stamped |-> TRUE]])'
      BY <3>1 DEF GoodItem, GoodNote, Note
    <3> QED
      BY <1>2, <2>1, <3>2, <3>3
  <2>2. \A v \in Screens : ScreenMatches(v)'
    BY <1>8, <2>1, MatchesStay DEF updateNoteOffline
  <2> QED
    BY <1>8, <2>2, MatchesStay DEF updateNoteOffline, IdsMatchKinds
<1>9. CASE deleteNoteOffline(u) \/ deleteNote(u)
  <2>1. ASSUME NEW i, NEW pc \in {"filter", "enqueue"}, Do(u, pc, DeleteItem(i), NoNote)
        PROVE  \A v \in Screens : ScreenMatches(v)'
    BY <1>2, <1>3, <2>1
  <2>2. (\A v \in Screens : ScreenMatches(v)') /\ LocalMatches'
    BY <1>6, <1>9, <2>1, MatchesStay DEF deleteNoteOffline, deleteNote
  <2> QED
    BY <1>9, <2>2, MatchesStay DEF deleteNoteOffline, deleteNote, IdsMatchKinds
<1>10. CASE SaveLocally(u)
  <2>1. LocalMatches'
    BY <1>1, <1>10, StoreOperators, MatchesStay DEF SaveLocally, LocalMatches, ScreenMatches
  <2> QED
    BY <1>4, <1>10, <2>1, MatchesStay DEF SaveLocally, IdsMatchKinds
<1>11. CASE Enqueue(u)
  <2>1. scr[u].item \in Item /\ GoodItem(scr[u].item)
    BY <1>1 DEF ScreenState, ScreenMatches
  <2>2. \A q \in queue' : q \in queue \/ q = scr[u].item
            \/ \E o \in queue : q.id = o.id /\ q.operation \in {"delete", o.operation}
    BY <1>1, <1>11, <2>1, StoreOperators DEF Enqueue
  <2>3. \A q \in queue' : GoodItem(q)
    BY <1>1, <2>1, <2>2 DEF QueueMatches, GoodItem
  <2>4. QueueMatches'
    BY <2>3, MatchesStay DEF QueueMatches
  <2>5. \A v \in Screens : ScreenMatches(v)'
    BY <1>4, <1>5, <1>11 DEF Enqueue
  <2> QED
    BY <1>11, <2>4, <2>5, MatchesStay DEF Enqueue, IdsMatchKinds
<1>12. CASE FilterQueue(u)
  <2>1. QueueMatches'
    BY <1>1, <1>12, MatchesStay DEF FilterQueue, QueueMatches
  <2> QED
    BY <1>5, <1>12, <2>1, MatchesStay DEF FilterQueue, IdsMatchKinds
<1>13. CASE DeleteTail(u)
  <2>1. \A v \in Screens : ScreenMatches(v)'
    BY <1>4, <1>5, <1>13 DEF DeleteTail, Call
  <2>2. LocalMatches'
    BY <1>6, <1>13, MatchesStay DEF DeleteTail, Call
  <2>3. PushMatches'
    BY <1>13, MatchesStay, StartedPushMatches DEF DeleteTail, Call
  <2> QED
    BY <1>13, <2>1, <2>2, <2>3, MatchesStay DEF DeleteTail, IdsMatchKinds
<1> QED
  BY <1>7, <1>8, <1>9, <1>10, <1>11, <1>12, <1>13 DEF UserOp, ScreenStep


LEMMA MatchPush ==
    ASSUME TypeOK, IdsMatchKinds, Known \subseteq Known', TriggerPush \/ PushStep
    PROVE  IdsMatchKinds'
<1>1. /\ local \in SUBSET Note /\ push \in PushState /\ push.item \in Item /\ push.reply \in Note
      /\ LocalMatches /\ QueueMatches /\ PushMatches
  BY DEF TypeOK, IdsMatchKinds, PushState
<1>2. /\ \A q \in push.todo : GoodItem(q)'
      /\ \A q \in push.failed : GoodItem(q)'
      /\ \A q : q \in {push.item, NoItem} => GoodItem(q)'
  <2>1. GoodItem(NoItem)
    BY DEF GoodItem, NoItem
  <2> QED
    BY <1>1, <2>1, MatchesStay DEF PushMatches
<1>3. ItemDone => PushMatches'
  BY <1>1, <1>2 DEF ItemDone, PushMatches, PushState, GoodItem
<1>4. ItemFailed => PushMatches'
  <2>1. SUFFICES ASSUME ItemFailed PROVE PushMatches'
    OBVIOUS
  <2>2. GoodItem([push.item EXCEPT !.retries = @ + 1])
    BY <1>1 DEF GoodItem, Item, PushMatches
  <2>3. \A q \in push'.failed : q \in push.failed \/ q = [push.item EXCEPT !.retries = @ + 1]
    BY <1>1, <2>1 DEF ItemFailed, PushState
  <2>4. \A q \in push'.failed : GoodItem(q)'
    BY <1>2, <2>2, <2>3, MatchesStay
  <2> QED
    BY <1>1, <1>2, <2>1, <2>4 DEF ItemFailed, PushMatches, PushState, GoodItem
<1>5. PushGo("aliasing") \/ PushGo("saved") => PushMatches'
  BY <1>1, <1>2 DEF PushGo, PushMatches, PushState, GoodItem
<1>6. ASSUME push.pc \in {"update", "compare", "put", "putAnyway"}, PushGo("put") \/ PushGo("putAnyway")
      PROVE  PushMatches'
  BY <1>1, <1>2, <1>6 DEF PushGo, PushMatches, PushState, GoodItem
<1>7. \A i : local' = deleteLocalNote(local, i) => LocalMatches'
  BY <1>1, StoreOperators, MatchesStay DEF LocalMatches
<1>8. CASE TriggerPush
  BY <1>8, MatchesStay, StartedPushMatches DEF TriggerPush, Call, IdsMatchKinds
<1>9. CASE PickItem
  <2>1. PICK item \in push.todo :
            push' = [push EXCEPT !.todo = @ \ {item}, !.item = item, !.pc = item.operation]
    BY <1>9 DEF PickItem
  <2>2. /\ push'.todo \subseteq push.todo /\ push'.failed = push.failed
        /\ push'.item = item /\ push'.pc = item.operation
    BY <1>1, <2>1 DEF PushState
  <2>3. item.operation \in {"create", "update", "delete"}
    BY <1>1 DEF PushState, Item, Ops
  <2>4. PushMatches'
    BY <1>2, <2>2, <2>3 DEF PushMatches, GoodItem
  <2> QED
    BY <1>9, <2>4, MatchesStay DEF PickItem, IdsMatchKinds
<1>10. CASE PostNote
  <2>1. PICK s \in ServerIds :
            /\ server' = [server EXCEPT ![s] =
                  [state |-> "live",
                   content |-> Written(Blank, push.item.payload.fields, push.item.payload.at),
                   updated_at |-> IF push.item.payload.stamped THEN push.item.payload.at ELSE clock,
                   origin |-> push.item.id]]
            /\ push' = [push EXCEPT !.pc = "created", !.reply = [NoNote EXCEPT !.id = s]]
    BY <1>10 DEF PostNote
  <2>2. s \in Known'
    BY <2>1 DEF Known, TypeOK
  <2>3. /\ push'.pc = "created" /\ push'.reply.id = s /\ ~push'.reply.isLocal
        /\ push'.todo = push.todo /\ push'.failed = push.failed /\ push'.item = push.item
    BY <1>1, <2>1 DEF PushState, NoNote
  <2>4. PushMatches'
    BY <1>2, <2>2, <2>3 DEF PushMatches, GoodItem
  <2> QED
    BY <1>10, <2>4, MatchesStay DEF PostNote, IdsMatchKinds
<1>11. CASE SwapId
  <2>1. push.reply.id \in Known'
    BY <1>1, <1>11 DEF SwapId, PushMatches
  <2>2. ASSUME NEW n \in local,
               local' = (local \ {n}) \cup {[n EXCEPT !.id = push.reply.id, !.isLocal = FALSE]}
        PROVE  LocalMatches'
    <3>1. \A m \in local' :
              m \in local \/ \E i : i \in Known' /\ m = [n EXCEPT !.id = i, !.isLocal = FALSE]
      BY <2>1, <2>2
    <3>2. \A m \in local' : GoodNote(m)'
      <4>1. \A m \in local : m \in Note /\ GoodNote(m)'
        BY <1>1, MatchesStay DEF LocalMatches
      <4>2. ASSUME NEW i, i \in Known', NEW m, m = [n EXCEPT !.id = i, !.isLocal = FALSE]
            PROVE  GoodNote(m)'
        BY <4>1, <4>2 DEF GoodNote, Note
      <4> QED
        BY <3>1, <4>1, <4>2
    <3> QED
      BY <3>2 DEF LocalMatches
  <2>3. LocalMatches' /\ PushMatches'
    BY <1>3, <1>5, <1>11, <2>2, MatchesStay DEF SwapId, WithId
  <2> QED
    BY <1>11, <2>3, MatchesStay DEF SwapId, IdsMatchKinds
<1>12. CASE SetAlias
  BY <1>3, <1>12, MatchesStay DEF SetAlias, IdsMatchKinds
<1>13. CASE GetNote
  <2>1. ASSUME Live(push.item.id),
               push' = [push EXCEPT !.pc = "compare", !.reply = ServerNote(push.item.id)]
        PROVE  PushMatches'
    <3>1. push.item.id \in Known'
      BY <2>1 DEF Live, Known
    <3>2. /\ push'.pc = "compare" /\ push'.reply.id = push.item.id /\ ~push'.reply.isLocal
          /\ push'.todo = push.todo /\ push'.failed = push.failed /\ push'.item = push.item
      BY <1>1, <2>1 DEF PushState, ServerNote
    <3> QED
      BY <1>1, <1>2, <1>13, <3>1, <3>2 DEF PushMatches, GoodItem, GetNote
  <2>2. PushMatches'
    BY <1>6, <1>13, <2>1 DEF GetNote
  <2> QED
    BY <1>13, <2>2, MatchesStay DEF GetNote, IdsMatchKinds
<1>14. CASE Compare
  <2>1. GoodNote(push.reply)
    BY <1>1, <1>14 DEF Compare, PushMatches, GoodNote
  <2>2. LocalMatches' /\ PushMatches'
    BY <1>1, <1>3, <1>6, <1>14, <2>1, StoreOperators, MatchesStay DEF Compare, LocalMatches
  <2> QED
    BY <1>14, <2>2, MatchesStay DEF Compare, IdsMatchKinds
<1>15. CASE PutNote
  BY <1>3, <1>6, <1>15, MatchesStay DEF PutNote, IdsMatchKinds
<1>16. CASE PutAnyway
  BY <1>3, <1>4, <1>16, MatchesStay DEF PutAnyway, IdsMatchKinds
<1>17. CASE DeleteOnServer
  BY <1>3, <1>4, <1>17, MatchesStay DEF DeleteOnServer, IdsMatchKinds
<1>18. CASE CreateFailed
  BY <1>4, <1>18, MatchesStay DEF CreateFailed, IdsMatchKinds
<1>19. CASE SaveFailed
  <2>1. QueueMatches'
    BY <1>2, <1>19 DEF SaveFailed, QueueMatches
  <2> QED
    BY <1>5, <1>19, <2>1, MatchesStay DEF SaveFailed, IdsMatchKinds
<1>20. CASE FinishPush
  <2>1. PushMatches'
    BY <1>2, <1>20 DEF FinishPush, PushMatches, IdlePush, GoodItem
  <2>2. LocalMatches'
    BY <1>7, <1>20, MatchesStay DEF FinishPush
  <2>3. \A v \in Screens : ScreenMatches(v)'
    <3>1. ASSUME NEW v \in Screens, scr'[v] = scr[v] \/ scr'[v] = IdleScreen
          PROVE  ScreenMatches(v)'
      BY <1>2, <3>1, MatchesStay DEF IdsMatchKinds, ScreenMatches, GoodNote, GoodItem, IdleScreen
    <3>2. \A v \in Screens : scr'[v] = scr[v] \/ scr'[v] = IdleScreen
      BY <1>20 DEF FinishPush, Done, TypeOK
    <3> QED
      BY <3>1, <3>2
  <2>4. FullMatches'
    <3>1. full'.pulled = full.pulled
      BY <1>20 DEF FinishPush, StartPull, TypeOK, FullState
    <3> QED
      BY <3>1 DEF IdsMatchKinds, FullMatches
  <2> QED
    BY <1>20, <2>1, <2>2, <2>3, <2>4, MatchesStay DEF FinishPush, IdsMatchKinds
<1> QED
  BY <1>8, <1>9, <1>10, <1>11, <1>12, <1>13, <1>14, <1>15, <1>16, <1>17, <1>18, <1>19, <1>20
     DEF PushStep

LEMMA MatchRest ==
    ASSUME TypeOK, IdsMatchKinds, Known \subseteq Known',
           StartFullSync \/ FullStep \/ OtherEdit \/ OtherDelete \/ Restart
    PROVE  IdsMatchKinds'
<1>1. full \in FullState /\ FullMatches /\ LocalMatches
  BY DEF TypeOK, IdsMatchKinds
<1>2. CASE StartFullSync
  <2>1. PushMatches'
    BY <1>2, MatchesStay, StartedPushMatches DEF StartFullSync, Call
  <2>2. full'.pulled = full.pulled
    BY <1>1, <1>2 DEF StartFullSync, Call, StartPull, FullState
  <2>3. FullMatches'
    BY <1>1, <2>2 DEF FullMatches
  <2> QED
    BY <1>2, <2>1, <2>3, MatchesStay DEF StartFullSync, IdsMatchKinds
<1>3. CASE Pull
  <2> DEFINE all == {ServerNote(s) : s \in {r \in ServerIds : Live(r)}}
  <2>1. \A n \in all : n.id \in Known
    BY DEF Live, ServerNote, Known
  <2>2. full'.pulled \subseteq all
    <3>1. \/ full'.pulled = all
          \/ \E part \in SUBSET all : full' = [full EXCEPT !.pc = "merge", !.pulled = part]
          \/ full' = IdleFull
      BY <1>1, <1>3 DEF Pull, FullState
    <3>2. \A part : full' = [full EXCEPT !.pc = "merge", !.pulled = part] => full'.pulled = part
      BY <1>1 DEF FullState
    <3>3. full' = IdleFull => full'.pulled = {}
      BY DEF IdleFull
    <3> HIDE DEF all
    <3> QED
      BY <3>1, <3>2, <3>3
  <2>3. \A n \in full'.pulled : n.id \in Known'
    BY <2>1, <2>2
  <2> QED
    BY <1>3, <2>3, MatchesStay DEF Pull, IdsMatchKinds, FullMatches
<1>4. CASE MergePull
  <2>1. local' \in mergeRecords(full.pulled, local, full.complete, full.startedAt)
    BY <1>4 DEF MergePull
  <2>2. \A n \in local' : n \in local \/ \E s \in full.pulled : n = [s EXCEPT !.isLocal = FALSE]
    BY <2>1, MergeSources
  <2>3. ASSUME NEW s \in full.pulled PROVE GoodNote([s EXCEPT !.isLocal = FALSE])'
    BY <1>1 DEF GoodNote, FullMatches, FullState, Note
  <2>4. LocalMatches'
    BY <1>1, <2>2, <2>3, MatchesStay DEF LocalMatches
  <2>5. FullMatches'
    BY <1>4 DEF MergePull, FullMatches, IdleFull
  <2> QED
    BY <1>4, <2>4, <2>5, MatchesStay DEF MergePull, IdsMatchKinds
<1>5. CASE OtherEdit \/ OtherDelete
  BY <1>5, MatchesStay DEF OtherEdit, OtherDelete, IdsMatchKinds
<1>6. CASE Restart
  <2>1. GoodItem(NoItem)'
    BY DEF GoodItem, NoItem
  <2> QED
    BY <1>6, <2>1, MatchesStay DEF Restart, IdsMatchKinds, ScreenMatches, PushMatches, FullMatches,
       IdleScreen, IdlePush, IdleFull
<1> QED
  BY <1>2, <1>3, <1>4, <1>5, <1>6 DEF FullStep

LEMMA MatchNext == TypeOK /\ IdsMatchKinds /\ [Next]_vars => IdsMatchKinds'
<1> SUFFICES ASSUME TypeOK, IdsMatchKinds, [Next]_vars PROVE IdsMatchKinds'
  OBVIOUS
<1>1. Known \subseteq Known'
  BY KnownGrows
<1>2. CASE UNCHANGED vars
  BY <1>1, <1>2, MatchesStay DEF vars, IdsMatchKinds
<1> QED
  BY <1>1, <1>2, MatchScreens, MatchPush, MatchRest DEF Next

\* Creates stay filed under temp ids and updates under ids the server has given,
\* through enqueueOperation's merging, the id swap of processNoteOperation and
\* the merge of a pull.
THEOREM IdsAlwaysMatchKinds == Spec => []IdsMatchKinds
<1>1. Init => TypeOK /\ IdsMatchKinds
  BY TypeInit, MatchInit
<1>2. TypeOK /\ IdsMatchKinds /\ [Next]_vars => (TypeOK /\ IdsMatchKinds)'
  BY TypeNext, MatchNext
<1> QED
  BY <1>1, <1>2, PTL DEF Spec

\* No doomed update: whatever overlaps, the push of processNoteOperation only
\* updates notes the server has made.
THEOREM NoDoomedUpdate == Spec => []UpdatesNameServerNotes
<1>1. TypeOK /\ IdsMatchKinds => UpdatesNameServerNotes
  BY DEF IdsMatchKinds, PushMatches, GoodItem, UpdatesNameServerNotes
<1> QED
  BY <1>1, TypeCorrect, IdsAlwaysMatchKinds, PTL

-------------------------------------------------------------------------------
(* The shape of the state *)

Working == push.pc \notin {"idle", "saved", "next"}

\* What a screen's operation has in hand.
ScreenShape(u) ==
    /\ scr[u].pc = "upsert" =>
        /\ scr[u].item.operation # "delete" /\ scr[u].note.id = scr[u].item.id
        /\ scr[u].note.updated_at = scr[u].item.payload.at
        /\ scr[u].note.isLocal => ~scr[u].note.pendingDelete
    /\ scr[u].pc \in {"filter", "deleteTail", "pushing"} => scr[u].item.operation = "delete"
    /\ scr[u].pc = "filter" => scr[u].item.id \in TempIds
    /\ scr[u].item.payload.at <= clock

\* Who waits for a push is there when it ends.
CallerWaits == push.caller \in Screens => scr[push.caller].pc = "pushing"

\* One item per id, in the queue and in what a push has taken from it.
Distinct(Q) == \A p, q \in Q : p.id = q.id => p = q

ItemsApart ==
    /\ Distinct(queue) /\ Distinct(push.todo) /\ Distinct(push.failed)
    /\ \A p \in push.todo, q \in push.failed : p.id # q.id
    /\ Working => \A p \in push.todo \cup push.failed : p.id # push.item.id

\* No item is of a time that is still to come.
Past(Q) == \A q \in Q : q.payload.at <= clock
ItemsArePast == Past(queue) /\ Past(push.todo) /\ Past(push.failed) /\ Past({push.item})

\* What the push has in hand; the reply of a create is a row of its item and
\* not older.
PushShape ==
    /\ push.pc \in {"create", "created", "aliasing"} => push.item.operation = "create"
    /\ push.pc = "delete" => push.item.operation = "delete"
    /\ push.pc = "compare" => push.reply.id = push.item.id /\ ~push.reply.isLocal
    /\ push.pc \in {"created", "aliasing"} =>
        /\ push.reply.id \in Rows(push.item.id)
        /\ push.item.payload.at <= server[push.reply.id].updated_at
    /\ push.pc = "aliasing" => push.item.id \notin IdsOf(local)

\* One local note per temp id, and it is never a tombstone.
TempNotes ==
    /\ \A n, m \in local : n.id = m.id /\ n.id \in TempIds => n = m
    /\ \A n \in local : n.isLocal => ~n.pendingDelete

Origins == \A s \in Known : server[s].origin \in TempIds \cup {s}

\* Nothing read from the server is ahead of it, but for a clobbered note.
NotAhead(n) == n.id \in past.clobbered \/ n.updated_at <= server[n.id].updated_at

Behind ==
    /\ \A n \in full.pulled : NotAhead(n) /\ ~n.isLocal /\ ~n.pendingDelete
    /\ push.pc = "compare" => NotAhead(push.reply)

AliasShape == \A t \in TempIds : alias[t] = t \/ alias[t] \in Rows(t)

\* Temp ids in use were given out.
TempsBorn ==
    /\ TempIds \cap IdsOf(local) \subseteq born /\ handle \subseteq born
    /\ \A u \in Screens : scr[u].pc # "idle" /\ scr[u].item.id \in TempIds => scr[u].item.id \in born

Shape ==
    /\ TypeOK /\ IdsMatchKinds
    /\ (\A u \in Screens : ScreenShape(u)) /\ CallerWaits /\ ItemsApart /\ ItemsArePast
    /\ PushShape /\ TempNotes /\ Origins /\ Behind /\ AliasShape /\ TempsBorn
    /\ past.deleted \subseteq Known

-------------------------------------------------------------------------------
(* The invariants *)

\* Every create still to be posted is the first, or in doubt.
Undone(t) == Rows(t) = {} \/ t \in past.doubt
Creates(Q) == {q \in Q : q.operation = "create"}

OnceInv ==
    /\ \A t \in TempIds \ past.doubt : \A r, s \in Rows(t) : r = s
    /\ push.pc \in {"idle", "saved"} => \A q \in Creates(queue) : Undone(q.id)
    /\ Pushing => \A q \in Creates(push.todo \cup push.failed) : Undone(q.id)
    /\ push.pc = "create" => Undone(push.item.id)

\* Nothing can bring the note back: all there is of it are deletes.
Gone(t) ==
    /\ t \in born /\ Rows(t) = {} /\ t \notin IdsOf(local)
    /\ \A u \in Screens : scr[u].pc # "idle" /\ scr[u].item.id = t => scr[u].item.operation = "delete"
    /\ \A q \in queue \cup InPush : q.id = t => q.operation = "delete"

DroppedInv == \A t \in past.dropped : t \in TempIds /\ Gone(t)

Leads(t) == t \in IdsOf(local) \/ alias[t] \in Rows(t) \/ (push.pc = "aliasing" /\ push.item.id = t)

HandleInv ==
    \A t \in TempIds \ (past.doubt \cup past.crossed) :
        /\ t \in handle => Leads(t)
        /\ \A u \in Screens : scr[u].item.id = t =>
            /\ scr[u].pc = "enqueue" /\ scr[u].item.operation # "delete" => Leads(t)
            /\ scr[u].pc \in {"enqueue", "deleteTail", "pushing"} /\ scr[u].item.operation = "delete" =>
                t \notin IdsOf(local) /\ Rows(t) # {}

HasDelete(Q, s) == \E q \in Q : q.id = s /\ q.operation = "delete"
WillDelete(s) ==
    \E u \in Screens : scr[u].pc = "enqueue" /\ scr[u].item.id = s /\ scr[u].item.operation = "delete"

DeletesInv ==
    /\ \A s \in ServerIds : HasDelete(InPush, s) => HasDelete(queue, s)
    /\ \A s \in past.deleted : Live(s) /\ s \notin past.exposed =>
        /\ HasDelete(queue, s) \/ WillDelete(s)
        /\ Pushing => HasDelete(InPush, s) \/ WillDelete(s) \/ s \in past.late

\* The item is about the note and not older than it.
Covers(q, n) == q.id \in Names(n.id) /\ (q.operation = "delete" \/ n.updated_at <= q.payload.at)

Excused(n) == Names(n.id) \cap (past.exposed \cup past.clobbered) # {} \/ InTwin(n)
Saving(n) == \E u \in Screens : scr[u].pc = "enqueue" /\ Covers(scr[u].item, n)
Queued(n) == \E q \in queue : Covers(q, n)
QueuedLate(n) == \E q \in queue : Covers(q, n) /\ q.id \in past.late
Pushed(n) == \E q \in InPush : Covers(q, n)

\* An edit the server has not got is in the queue or on its way there, and
\* while a push runs the end of the push will not take it out.
EditsInv ==
    \A n \in local : Unsynced(n) /\ ~Excused(n) =>
        /\ Saving(n) \/ Queued(n)
        /\ Pushing => Saving(n) \/ QueuedLate(n) \/ Pushed(n)

-------------------------------------------------------------------------------
(* What the steps do to a screen, to the push and to the stores *)

ScreenIs(u, pc, item, note) ==
    /\ scr'[u].pc = pc /\ scr'[u].item = item /\ scr'[u].note = note
    /\ \A v \in Screens \ {u} : scr'[v] = scr[v]

LEMMA ScreenFacts ==
    ASSUME TypeOK, NEW u \in Screens
    PROVE  /\ \A pc, item, note : Do(u, pc, item, note) => ScreenIs(u, pc, item, note)
           /\ \A pc : Go(u, pc) => ScreenIs(u, pc, scr[u].item, scr[u].note)
           /\ Done(u) => ScreenIs(u, "idle", NoItem, NoNote)
  BY DEF TypeOK, ScreenState, Do, Go, Done, ScreenIs, IdleScreen

PushIs(pc, todo, failed, item, reply) ==
    /\ push'.pc = pc /\ push'.todo = todo /\ push'.failed = failed
    /\ push'.item = item /\ push'.reply = reply

Again(item) == [item EXCEPT !.retries = @ + 1]

LEMMA PushFacts ==
    ASSUME TypeOK
    PROVE  /\ \A pc : PushGo(pc) => PushIs(pc, push.todo, push.failed, push.item, push.reply)
                                     /\ push'.caller = push.caller
           /\ ItemDone => PushIs("next", push.todo, push.failed, NoItem, NoNote)
                          /\ push'.caller = push.caller
           /\ ItemFailed =>
                /\ PushIs("next", push.todo,
                          IF push.item.retries < MAX_RETRIES
                          THEN push.failed \cup {Again(push.item)} ELSE push.failed, NoItem, NoNote)
                /\ push'.caller = push.caller
           /\ \A caller : push' = [IdlePush EXCEPT !.pc = "next", !.todo = queue, !.caller = caller] =>
                PushIs("next", queue, {}, NoItem, NoNote) /\ push'.caller = caller
           /\ push' = IdlePush => PushIs("idle", {}, {}, NoItem, NoNote) /\ push'.caller = "none"
<1> USE DEF TypeOK, PushState, PushIs
<1>1. \A pc : PushGo(pc) => PushIs(pc, push.todo, push.failed, push.item, push.reply)
                            /\ push'.caller = push.caller
  BY DEF PushGo
<1>2. ItemDone => PushIs("next", push.todo, push.failed, NoItem, NoNote) /\ push'.caller = push.caller
  BY DEF ItemDone
<1>3. ItemFailed =>
        /\ PushIs("next", push.todo,
                  IF push.item.retries < MAX_RETRIES
                  THEN push.failed \cup {Again(push.item)} ELSE push.failed, NoItem, NoNote)
        /\ push'.caller = push.caller
  BY DEF ItemFailed, Again
<1>4. \A caller : push' = [IdlePush EXCEPT !.pc = "next", !.todo = queue, !.caller = caller] =>
        PushIs("next", queue, {}, NoItem, NoNote) /\ push'.caller = caller
  BY DEF IdlePush
<1>5. push' = IdlePush => PushIs("idle", {}, {}, NoItem, NoNote) /\ push'.caller = "none"
  BY DEF IdlePush
<1> QED
  BY <1>1, <1>2, <1>3, <1>4, <1>5

LEMMA AgainFacts ==
    ASSUME TypeOK
    PROVE  /\ Again(push.item).id = push.item.id /\ Again(push.item).operation = push.item.operation
           /\ Again(push.item).payload = push.item.payload
  BY DEF TypeOK, PushState, Item, Again

LEMMA PickFacts ==
    ASSUME TypeOK, PickItem
    PROVE  \E item \in push.todo :
               /\ push.pc = "next" /\ item.operation \in {"create", "update", "delete"}
               /\ PushIs(item.operation, push.todo \ {item}, push.failed, item, push.reply)
               /\ push'.caller = push.caller
  BY DEF TypeOK, PushState, Item, Ops, PickItem, PushIs

LEMMA PostFacts ==
    ASSUME TypeOK, PostNote
    PROVE  \E s \in ServerIds :
               /\ push.pc = "create" /\ server[s].state = "none"
               /\ server'[s].state = "live" /\ server'[s].origin = push.item.id
               /\ server'[s].updated_at \in {push.item.payload.at, clock}
               /\ \A r \in ServerIds \ {s} : server'[r] = server[r]
               /\ push'.pc = "created" /\ push'.todo = push.todo /\ push'.failed = push.failed
               /\ push'.item = push.item /\ push'.reply.id = s /\ push'.caller = push.caller
<1>1. PICK s \in ServerIds :
          /\ server[s].state = "none"
          /\ server' = [server EXCEPT ![s] =
                [state |-> "live",
                 content |-> Written(Blank, push.item.payload.fields, push.item.payload.at),
                 updated_at |-> IF push.item.payload.stamped THEN push.item.payload.at ELSE clock,
                 origin |-> push.item.id]]
          /\ push' = [push EXCEPT !.pc = "created", !.reply = [NoNote EXCEPT !.id = s]]
  BY DEF PostNote
<1>2. push.pc = "create"
  BY DEF PostNote
<1>3. /\ push'.pc = "created" /\ push'.todo = push.todo /\ push'.failed = push.failed
      /\ push'.item = push.item /\ push'.reply.id = s /\ push'.caller = push.caller
  BY <1>1 DEF TypeOK, PushState, NoNote
<1> QED
  BY <1>1, <1>2, <1>3 DEF TypeOK

LEMMA GetFacts ==
    ASSUME TypeOK, GetNote
    PROVE  \/ /\ Live(push.item.id) /\ push'.caller = push.caller
              /\ PushIs("compare", push.todo, push.failed, push.item, ServerNote(push.item.id))
           \/ PushGo("putAnyway")
  BY DEF TypeOK, PushState, GetNote, PushIs

\* What a step does to the rows the server has.
Rewritten(s, pay) ==
    /\ server'[s].state = server[s].state /\ server'[s].origin = server[s].origin
    /\ server'[s].updated_at = pay
    /\ \A r \in ServerIds \ {s} : server'[r] = server[r]

Removed(s) ==
    /\ server'[s].state = "gone" /\ server'[s].origin = server[s].origin
    /\ server'[s].updated_at = server[s].updated_at
    /\ \A r \in ServerIds \ {s} : server'[r] = server[r]

LEMMA ServerFacts ==
    ASSUME TypeOK
    PROVE  /\ Live(push.item.id) /\ Put => Rewritten(push.item.id, push.item.payload.at)
           /\ \A s \in ServerIds : server' = [server EXCEPT ![s].state = "gone"] => Removed(s)
           /\ OtherEdit => \E s \in ServerIds : Live(s) /\ Rewritten(s, clock')
           /\ OtherDelete => \E s \in ServerIds : Live(s) /\ Removed(s)
<1>1. \A row \in Row : \A fields, at :
          /\ Edited(row, fields, at).state = row.state /\ Edited(row, fields, at).origin = row.origin
          /\ Edited(row, fields, at).updated_at = at
  BY DEF Edited, Row
<1>2. Live(push.item.id) /\ Put => Rewritten(push.item.id, push.item.payload.at)
  BY <1>1 DEF TypeOK, Live, Put, Rewritten
<1>3. ASSUME NEW s \in ServerIds, server' = [server EXCEPT ![s].state = "gone"] PROVE Removed(s)
  BY <1>3 DEF TypeOK, Row, Removed
<1>4. OtherEdit => \E s \in ServerIds : Live(s) /\ Rewritten(s, clock')
  BY <1>1 DEF TypeOK, OtherEdit, Rewritten
<1>5. OtherDelete => \E s \in ServerIds : Live(s) /\ Removed(s)
  BY <1>3 DEF OtherDelete
<1> QED
  BY <1>2, <1>3, <1>4, <1>5

\* The queue after an enqueue: what has another id stays, and what the queue
\* has under the item's id takes the item's payload.
LEMMA EnqueueFacts ==
    ASSUME NEW Q \in SUBSET Item, Distinct(Q), NEW item \in Item, NEW R, R = enqueueOperation(Q, item)
    PROVE  /\ \A q : q.id # item.id => (q \in R <=> q \in Q)
           /\ \A q \in R : q.id = item.id =>
                /\ q.payload = item.payload
                /\ \/ q = item /\ item.id \notin IdsOf(Q)
                   \/ \E o \in Q : /\ o.id = item.id
                                   /\ q.operation = IF item.operation = "delete" THEN "delete"
                                                    ELSE o.operation
           /\ \A o \in Q : o.id = item.id =>
                \/ \E q \in R : q.id = item.id
                \/ item.operation = "delete" /\ o.operation = "create"
           /\ item.id \notin IdsOf(Q) => item \in R
           /\ Distinct(R)
<1> DEFINE old  == WithId(Q, item.id)
           kept == {p \in old : ~(item.operation = "delete" /\ p.operation = "create")}
<1>1. \A o : o \in old <=> o \in Q /\ o.id = item.id
  BY DEF WithId
<1>2. ASSUME NEW o \in Item
      PROVE  /\ mergeItem(o, item).id = o.id /\ mergeItem(o, item).payload = item.payload
             /\ mergeItem(o, item).operation =
                   IF item.operation = "delete" THEN "delete" ELSE o.operation
  BY DEF mergeItem, Item
<1>3. old = {} => R = Q \cup {item}
  BY DEF enqueueOperation
<1>4. old # {} => R = (Q \ old) \cup {mergeItem(o, item) : o \in kept}
  BY DEF enqueueOperation
<1>5. old = {} <=> item.id \notin IdsOf(Q)
  BY <1>1 DEF IdsOf
<1>6. \A o, p \in old : o = p
  BY <1>1 DEF Distinct
<1> HIDE DEF old
<1>7. CASE old = {}
  BY <1>1, <1>3, <1>5, <1>7 DEF Distinct, IdsOf
<1>8. CASE old # {}
  <2>1. \A q \in R : \/ q \in Q /\ q.id # item.id
                     \/ \E o \in kept : q = mergeItem(o, item)
    BY <1>1, <1>4, <1>8
  <2>2. \A o \in kept : o \in Item /\ o.id = item.id /\ o \in Q
    BY <1>1
  <2>3. \A q : q \in Q /\ q.id # item.id => q \in R
    BY <1>1, <1>4, <1>8
  <2>4. \A q \in R : q.id = item.id => \E o \in kept : q = mergeItem(o, item)
    BY <2>1
  <2>5. \A q : q.id # item.id => (q \in R <=> q \in Q)
    BY <1>2, <2>1, <2>2, <2>3
  <2>6. ASSUME NEW q \in R, q.id = item.id
        PROVE  /\ q.payload = item.payload
               /\ \E o \in Q : /\ o.id = item.id
                               /\ q.operation = IF item.operation = "delete" THEN "delete" ELSE o.operation
    BY <1>2, <2>2, <2>4, <2>6
  <2>7. ASSUME NEW o \in Q, o.id = item.id, ~(item.operation = "delete" /\ o.operation = "create")
        PROVE  \E q \in R : q.id = item.id
    <3>1. o \in kept
      BY <1>1, <2>7
    <3>2. mergeItem(o, item) \in R
      BY <1>4, <1>8, <3>1
    <3> QED
      BY <1>2, <2>2, <3>1, <3>2
  <2>8. Distinct(R)
    <3>1. ASSUME NEW p \in R, NEW q \in R, p.id = q.id PROVE p = q
      <4>1. CASE p.id = item.id
        <5>1. PICK o1 \in kept : p = mergeItem(o1, item)
          BY <2>4, <4>1
        <5>2. PICK o2 \in kept : q = mergeItem(o2, item)
          BY <2>4, <3>1, <4>1
        <5> QED
          BY <1>6, <5>1, <5>2
      <4>2. CASE p.id # item.id
        BY <2>5, <3>1, <4>2 DEF Distinct
      <4> QED
        BY <4>1, <4>2
    <3> QED
      BY <3>1 DEF Distinct
  <2> QED
    BY <1>5, <1>8, <2>5, <2>6, <2>7, <2>8
<1> QED
  BY <1>7, <1>8

\* The operations of the screens.
LEMMA CreateFacts ==
    ASSUME TypeOK, NEW u \in Screens, createNoteOffline(u)
    PROVE  \E t \in TempIds \ born : \E item, note :
               /\ scr[u].pc = "idle" /\ born' = born \cup {t} /\ ScreenIs(u, "upsert", item, note)
               /\ item.id = t /\ item.operation = "create" /\ item.payload.at = clock'
               /\ note.id = t /\ note.updated_at = clock' /\ note.isLocal /\ ~note.pendingDelete
<1>1. PICK t \in TempIds \ born :
          /\ born' = born \cup {t}
          /\ Do(u, "upsert",
                [id |-> t, operation |-> "create", retries |-> 0,
                 payload |-> [fields |-> Fields, at |-> clock', stamped |-> FALSE]],
                [id |-> t, content |-> Written(Blank, Fields, clock'), updated_at |-> clock',
                 created_at |-> 0, isLocal |-> TRUE, pendingDelete |-> FALSE])
  BY DEF createNoteOffline
<1> DEFINE item == [id |-> t, operation |-> "create", retries |-> 0,
                    payload |-> [fields |-> Fields, at |-> clock', stamped |-> FALSE]]
           note == [id |-> t, content |-> Written(Blank, Fields, clock'), updated_at |-> clock',
                    created_at |-> 0, isLocal |-> TRUE, pendingDelete |-> FALSE]
<1>2. ScreenIs(u, "upsert", item, note)
  BY <1>1, ScreenFacts
<1>3. /\ item.id = t /\ item.operation = "create" /\ item.payload.at = clock'
      /\ note.id = t /\ note.updated_at = clock' /\ note.isLocal /\ ~note.pendingDelete
  OBVIOUS
<1>4. scr[u].pc = "idle"
  BY DEF createNoteOffline
<1> HIDE DEF item, note
<1> QED
  BY <1>1, <1>2, <1>3, <1>4

LEMMA UpdateFacts ==
    ASSUME TypeOK, NEW u \in Screens, updateNoteOffline(u), scr' # scr
    PROVE  \E existing \in local : \E item, note :
               /\ scr[u].pc = "idle" /\ ScreenIs(u, "upsert", item, note)
               /\ item.id = existing.id /\ item.payload.at = clock'
               /\ item.operation = IF existing.isLocal THEN "create" ELSE "update"
               /\ note.id = existing.id /\ note.updated_at = clock'
               /\ note.isLocal = existing.isLocal /\ note.pendingDelete = existing.pendingDelete
<1>1. PICK i \in Visible, fields \in Drafts : \E existing \in WithId(local, resolveNoteId(i)) :
          Do(u, "upsert",
             [id |-> existing.id, retries |-> 0,
              operation |-> IF existing.isLocal THEN "create" ELSE "update",
              payload |-> [fields |-> fields, at |-> clock', stamped |-> TRUE]],
             Edited(existing, fields, clock'))
  BY DEF updateNoteOffline
<1>2. PICK existing \in WithId(local, resolveNoteId(i)) :
          Do(u, "upsert",
             [id |-> existing.id, retries |-> 0,
              operation |-> IF existing.isLocal THEN "create" ELSE "update",
              payload |-> [fields |-> fields, at |-> clock', stamped |-> TRUE]],
             Edited(existing, fields, clock'))
  BY <1>1
<1> DEFINE item == [id |-> existing.id, retries |-> 0,
                    operation |-> IF existing.isLocal THEN "create" ELSE "update",
                    payload |-> [fields |-> fields, at |-> clock', stamped |-> TRUE]]
           note == Edited(existing, fields, clock')
<1>3. existing \in local /\ existing \in Note
  BY DEF WithId, TypeOK
<1>4. ScreenIs(u, "upsert", item, note)
  BY <1>2, ScreenFacts
<1>5. /\ item.id = existing.id /\ item.payload.at = clock'
      /\ item.operation = IF existing.isLocal THEN "create" ELSE "update"
  OBVIOUS
<1>6. /\ note.id = existing.id /\ note.updated_at = clock'
      /\ note.isLocal = existing.isLocal /\ note.pendingDelete = existing.pendingDelete
  BY <1>3 DEF Edited, Note
<1>7. scr[u].pc = "idle"
  BY DEF updateNoteOffline
<1> HIDE DEF item, note
<1> QED
  BY <1>3, <1>4, <1>5, <1>6, <1>7

DeleteFrom(u, i) ==
    \/ /\ \E n \in local : n.id = i /\ n.isLocal
       /\ local' = deleteLocalNote(local, i)
       /\ ScreenIs(u, "filter", DeleteItem(i), NoNote) \/ UNCHANGED scr
    \/ /\ \A n \in local : n.id = i => ~n.isLocal
       /\ local' = markPendingDelete(local, i)
       /\ ScreenIs(u, "enqueue", DeleteItem(i), NoNote)

LEMMA DeleteFacts ==
    ASSUME TypeOK, NEW u \in Screens, deleteNoteOffline(u) \/ deleteNote(u)
    PROVE  /\ scr[u].pc = "idle"
           /\ UNCHANGED <<clock, server, queue, alias, push, full, born, used>>
           /\ \E j \in Visible : \E i \in {j, resolveNoteId(j)} : Forget(i) /\ DeleteFrom(u, i)
<1>1. /\ scr[u].pc = "idle"
      /\ UNCHANGED <<clock, server, queue, alias, push, full, born, used>>
  BY DEF deleteNoteOffline, deleteNote
<1>2. CASE deleteNoteOffline(u)
  <2>1. PICK j \in Visible :
            /\ Forget(resolveNoteId(j))
            /\ IF \E n \in WithId(local, resolveNoteId(j)) : n.isLocal
               THEN /\ local' = deleteLocalNote(local, resolveNoteId(j))
                    /\ Do(u, "filter", DeleteItem(resolveNoteId(j)), NoNote)
               ELSE /\ local' = markPendingDelete(local, resolveNoteId(j))
                    /\ Do(u, "enqueue", DeleteItem(resolveNoteId(j)), NoNote)
    BY <1>2 DEF deleteNoteOffline
  <2>2. DeleteFrom(u, resolveNoteId(j))
    BY <2>1, ScreenFacts DEF DeleteFrom, WithId
  <2> QED
    BY <1>1, <2>1, <2>2
<1>3. CASE deleteNote(u)
  <2>1. PICK j \in Visible :
            /\ Forget(j)
            /\ IF \E n \in WithId(local, j) : n.isLocal
               THEN local' = deleteLocalNote(local, j) /\ UNCHANGED scr
               ELSE local' = markPendingDelete(local, j) /\ Do(u, "enqueue", DeleteItem(j), NoNote)
    BY <1>3 DEF deleteNote
  <2>2. DeleteFrom(u, j)
    BY <2>1, ScreenFacts DEF DeleteFrom, WithId
  <2> QED
    BY <1>1, <2>1, <2>2
<1> QED
  BY <1>2, <1>3

LEMMA DeleteItemFacts ==
    ASSUME NEW i
    PROVE  /\ DeleteItem(i).id = i /\ DeleteItem(i).operation = "delete"
           /\ DeleteItem(i).payload.at = 0
  BY DEF DeleteItem, NoPayload

\* The operators on the local store.
LEMMA UpsertFacts ==
    ASSUME NEW L, NEW note, NEW M \in upsertLocalNote(L, note)
    PROVE  /\ M \subseteq L \cup {note}
           /\ \A n \in L : n.id # note.id => n \in M
           /\ \E m \in M : m.id = note.id
           /\ (\A n, m \in L : n.id = note.id /\ m.id = note.id => n = m) =>
                 \A n, m \in M : n.id = note.id /\ m.id = note.id => n = m
<1>1. CASE note.id \notin IdsOf(L)
  BY <1>1 DEF upsertLocalNote, IdsOf
<1>2. CASE note.id \in IdsOf(L)
  <2>1. PICK n \in WithId(L, note.id) : M = (L \ {n}) \cup {note} \/ M = L
    BY <1>2 DEF upsertLocalNote
  <2>2. n \in L /\ n.id = note.id
    BY DEF WithId
  <2>3. \E m \in M : m.id = note.id
    BY <2>1, <2>2
  <2> QED
    BY <2>1, <2>2, <2>3
<1> QED
  BY <1>1, <1>2

LEMMA MarkFacts ==
    ASSUME NEW L \in SUBSET Note, NEW i
    PROVE  /\ \A m \in markPendingDelete(L, i) :
                 \/ m \in L /\ m.id # i
                 \/ m.pendingDelete /\ m.id = i /\ \E n \in L : n.id = i /\ m.isLocal = n.isLocal
           /\ \A n \in L : \E m \in markPendingDelete(L, i) : m.id = n.id
<1>1. \A n \in Note : /\ [n EXCEPT !.pendingDelete = TRUE].id = n.id
                      /\ [n EXCEPT !.pendingDelete = TRUE].isLocal = n.isLocal
                      /\ [n EXCEPT !.pendingDelete = TRUE].pendingDelete
  BY DEF Note
<1>2. ASSUME NEW m \in markPendingDelete(L, i)
      PROVE  \/ m \in L /\ m.id # i
             \/ m.pendingDelete /\ m.id = i /\ \E n \in L : n.id = i /\ m.isLocal = n.isLocal
  <2>1. PICK n \in L : m = IF n.id = i THEN [n EXCEPT !.pendingDelete = TRUE] ELSE n
    BY DEF markPendingDelete
  <2> QED
    BY <1>1, <2>1
<1>3. ASSUME NEW n \in L PROVE \E m \in markPendingDelete(L, i) : m.id = n.id
  <2>1. (IF n.id = i THEN [n EXCEPT !.pendingDelete = TRUE] ELSE n) \in markPendingDelete(L, i)
    BY DEF markPendingDelete
  <2> QED
    BY <1>1, <2>1
<1> QED
  BY <1>2, <1>3

LEMMA SwapFacts ==
    ASSUME TypeOK, SwapId, push.item.id \in IdsOf(local)
    PROVE  \E n \in local, m \in Note :
               /\ n.id = push.item.id /\ local' = (local \ {n}) \cup {m}
               /\ m.id = push.reply.id /\ ~m.isLocal /\ m.updated_at = n.updated_at
               /\ m.pendingDelete = n.pendingDelete
               /\ PushGo("aliasing")
<1>1. PICK n \in WithId(local, push.item.id) :
          /\ local' = (local \ {n}) \cup {[n EXCEPT !.id = push.reply.id, !.isLocal = FALSE]}
          /\ PushGo("aliasing")
  BY DEF SwapId
<1> DEFINE m == [n EXCEPT !.id = push.reply.id, !.isLocal = FALSE]
<1>2. n \in local /\ n \in Note /\ n.id = push.item.id /\ push.reply.id \in Ids
  BY DEF WithId, TypeOK, PushState, Note
<1>3. /\ m.id = push.reply.id /\ ~m.isLocal /\ m.updated_at = n.updated_at
      /\ m.pendingDelete = n.pendingDelete /\ m \in Note
  BY <1>2 DEF Note
<1>4. local' = (local \ {n}) \cup {m} /\ PushGo("aliasing")
  BY <1>1
<1> HIDE DEF m
<1> QED
  BY <1>2, <1>3, <1>4

-------------------------------------------------------------------------------
(* The shape is kept *)

LEMMA ClockGrows ==
    ASSUME TypeOK, [Next]_vars
    PROVE  clock \in Nat /\ clock' \in Nat /\ clock <= clock'
<1>1. clock \in Nat
  BY DEF TypeOK
<1>2. clock' = clock \/ clock' = clock + 1
  BY DEF Next, vars, UserOp, ScreenStep, PushStep, FullStep, createNoteOffline, updateNoteOffline,
         deleteNoteOffline, deleteNote, SaveLocally, Enqueue, FilterQueue, DeleteTail, TriggerPush,
         PickItem, PostNote, SwapId, SetAlias, GetNote, Compare, PutNote, PutAnyway, DeleteOnServer,
         CreateFailed, SaveFailed, FinishPush, StartFullSync, Pull, MergePull, OtherEdit, OtherDelete,
         Restart, Tick
<1> QED
  BY <1>1, <1>2

\* The types of what the state holds.
LEMMA ParTypes ==
    ASSUME TypeOK
    PROVE  /\ \A u \in Screens : scr[u] \in ScreenState /\ scr[u].item \in Item /\ scr[u].note \in Note
           /\ push.item \in Item /\ push.reply \in Note /\ push.todo \in SUBSET Item
           /\ push.failed \in SUBSET Item
           /\ \A q \in Item : /\ q.id \in Ids /\ q.operation \in Ops /\ q.payload.at \in Nat
                              /\ q.retries \in Nat
           /\ \A n \in Note : n.id \in Ids /\ n.updated_at \in Nat /\ n.isLocal \in BOOLEAN
                              /\ n.pendingDelete \in BOOLEAN
           /\ \A s \in ServerIds : server[s].updated_at \in Nat
<1>1. /\ \A u \in Screens : scr[u] \in ScreenState /\ scr[u].item \in Item /\ scr[u].note \in Note
      /\ push.item \in Item /\ push.reply \in Note /\ push.todo \in SUBSET Item
      /\ push.failed \in SUBSET Item
  BY DEF TypeOK, ScreenState, PushState
<1>2. \A q \in Item : /\ q.id \in Ids /\ q.operation \in Ops /\ q.payload.at \in Nat
                      /\ q.retries \in Nat
  BY BoundsAreNat DEF Item, Payload
<1>3. \A n \in Note : n.id \in Ids /\ n.updated_at \in Nat /\ n.isLocal \in BOOLEAN
                              /\ n.pendingDelete \in BOOLEAN
  BY DEF Note
<1>4. \A s \in ServerIds : server[s].updated_at \in Nat
  BY DEF TypeOK, Row
<1> QED
  BY <1>1, <1>2, <1>3, <1>4

\* A local note has a temp id, any other a server id.
LEMMA KindFacts ==
    ASSUME IdsMatchKinds
    PROVE  /\ \A n \in local : (n.isLocal <=> n.id \in TempIds) /\ (~n.isLocal => n.id \in Known)
           /\ \A u \in Screens : scr[u].pc = "upsert" => (scr[u].note.isLocal <=> scr[u].note.id \in TempIds)
           /\ \A q \in queue \cup push.todo \cup push.failed \cup {push.item} : GoodItem(q)
           /\ \A u \in Screens : GoodItem(scr[u].item)
           /\ \A i \in Known : i \in ServerIds /\ i \notin TempIds
  BY IdsDisjoint DEF IdsMatchKinds, LocalMatches, QueueMatches, ScreenMatches, PushMatches, GoodNote, Known

\* Which steps are whose.
LEMMA ScreenSteps ==
    ASSUME Next
    PROVE  \/ \E u \in Screens : UserOp(u) \/ ScreenStep(u)
           \/ FinishPush \/ Restart \/ UNCHANGED scr
  BY DEF Next, PushStep, FullStep, TriggerPush, PickItem, PostNote, SwapId, SetAlias, GetNote, Compare,
         PutNote, PutAnyway, DeleteOnServer, CreateFailed, SaveFailed, StartFullSync, Pull, MergePull,
         OtherEdit, OtherDelete

\* The step of a screen, by what it does to that screen.
LEMMA OwnStep ==
    ASSUME TypeOK, NEW u \in Screens, UserOp(u) \/ ScreenStep(u)
    PROVE  /\ \A v \in Screens \ {u} : scr'[v] = scr[v]
           /\ scr[u].pc # "pushing"
           /\ \/ createNoteOffline(u) /\ scr'[u].pc = "upsert"
              \/ updateNoteOffline(u) /\ (UNCHANGED scr \/ scr'[u].pc = "upsert")
              \/ /\ deleteNoteOffline(u) \/ deleteNote(u)
                 /\ UNCHANGED scr \/ scr'[u].pc \in {"filter", "enqueue"}
              \/ SaveLocally(u) /\ scr'[u].pc = "enqueue" /\ scr'[u].item = scr[u].item
              \/ /\ Enqueue(u) /\ scr[u].item.operation = "delete" /\ scr'[u].pc = "deleteTail"
                 /\ scr'[u].item = scr[u].item
              \/ /\ Enqueue(u) /\ scr[u].item.operation # "delete"
                 /\ scr'[u].pc = "idle" /\ scr'[u].item = NoItem
              \/ FilterQueue(u) /\ scr'[u].pc = "idle" /\ scr'[u].item = NoItem
              \/ DeleteTail(u) /\ scr'[u].pc = "idle" /\ scr'[u].item = NoItem
              \/ DeleteTail(u) /\ scr'[u].pc = "pushing" /\ scr'[u].item = scr[u].item
<1>1. CASE createNoteOffline(u)
  BY <1>1, CreateFacts DEF ScreenIs
<1>2. CASE updateNoteOffline(u)
  <2>1. CASE UNCHANGED scr
    BY <1>2, <2>1 DEF updateNoteOffline
  <2>2. CASE ~UNCHANGED scr
    BY <1>2, <2>2, UpdateFacts DEF ScreenIs
  <2> QED
    BY <2>1, <2>2
<1>3. CASE deleteNoteOffline(u) \/ deleteNote(u)
  BY <1>3, DeleteFacts DEF ScreenIs, DeleteFrom
<1>4. CASE SaveLocally(u)
  BY <1>4, ScreenFacts DEF SaveLocally, ScreenIs
<1>5. CASE Enqueue(u)
  BY <1>5, ScreenFacts DEF Enqueue, ScreenIs
<1>6. CASE FilterQueue(u)
  BY <1>6, ScreenFacts DEF FilterQueue, ScreenIs
<1>7. CASE DeleteTail(u)
  BY <1>7, ScreenFacts DEF DeleteTail, Call, ScreenIs
<1> QED
  BY <1>1, <1>2, <1>3, <1>4, <1>5, <1>6, <1>7 DEF UserOp, ScreenStep

LEMMA ScreenShapeStep ==
    ASSUME Shape, [Next]_vars, NEW v \in Screens
    PROVE  ScreenShape(v)'
<1>1. /\ clock \in Nat /\ clock' \in Nat /\ clock <= clock' /\ TypeOK /\ ScreenShape(v)
      /\ scr[v].item.payload.at \in Nat /\ scr[v].item.payload.at <= clock'
  BY ClockGrows, ParTypes DEF Shape, ScreenShape
<1>2. CASE scr'[v] = scr[v]
  BY <1>1, <1>2 DEF ScreenShape
<1>3. ASSUME scr'[v].pc = "idle", scr'[v].item = NoItem PROVE ScreenShape(v)'
  BY <1>1, <1>3 DEF ScreenShape, NoItem, NoPayload
<1>4. ASSUME UserOp(v) \/ ScreenStep(v), scr'[v] # scr[v] PROVE ScreenShape(v)'
  <2>1. CASE createNoteOffline(v)
    BY <1>1, <2>1, CreateFacts DEF ScreenIs, ScreenShape
  <2>2. CASE updateNoteOffline(v)
    <3>1. PICK existing \in local : \E item, note :
               /\ scr[v].pc = "idle" /\ ScreenIs(v, "upsert", item, note)
               /\ item.id = existing.id /\ item.payload.at = clock'
               /\ item.operation = IF existing.isLocal THEN "create" ELSE "update"
               /\ note.id = existing.id /\ note.updated_at = clock'
               /\ note.isLocal = existing.isLocal /\ note.pendingDelete = existing.pendingDelete
      BY <1>1, <1>4, <2>2, UpdateFacts
    <3>2. existing.isLocal => ~existing.pendingDelete
      BY DEF Shape, TempNotes
    <3> QED
      BY <1>1, <3>1, <3>2 DEF ScreenIs, ScreenShape
  <2>3. CASE deleteNoteOffline(v) \/ deleteNote(v)
    <3>1. PICK i : DeleteFrom(v, i)
      BY <1>1, <2>3, DeleteFacts
    <3>2. (\E n \in local : n.id = i /\ n.isLocal) => i \in TempIds
      BY KindFacts DEF Shape
    <3> QED
      BY <1>1, <1>4, <3>1, <3>2, DeleteItemFacts DEF DeleteFrom, ScreenIs, ScreenShape
  <2>4. CASE scr'[v].item = scr[v].item /\ scr'[v].pc \in {"enqueue", "deleteTail", "pushing"}
             /\ (scr'[v].pc # "enqueue" => scr[v].item.operation = "delete")
    BY <1>1, <2>4 DEF ScreenShape
  <2>5. DeleteTail(v) => scr[v].item.operation = "delete"
    BY <1>1 DEF DeleteTail, ScreenShape
  <2> QED
    BY <1>1, <1>3, <1>4, <2>1, <2>2, <2>3, <2>4, <2>5, OwnStep
<1>5. \/ scr'[v] = scr[v] \/ UserOp(v) \/ ScreenStep(v)
      \/ scr'[v].pc = "idle" /\ scr'[v].item = NoItem
  <2>1. CASE UNCHANGED scr
    BY <2>1
  <2>2. CASE \E u \in Screens : UserOp(u) \/ ScreenStep(u)
    BY <1>1, <2>2, OwnStep
  <2>3. CASE FinishPush
    BY <1>1, <2>3 DEF FinishPush, Done, IdleScreen, TypeOK
  <2>4. CASE Restart
    BY <2>4 DEF Restart, IdleScreen
  <2> QED
    BY <2>1, <2>2, <2>3, <2>4, ScreenSteps DEF vars
<1> QED
  BY <1>2, <1>3, <1>4, <1>5

\* The steps that change who waits for the push.
LEMMA CallerSteps ==
    ASSUME TypeOK, [Next]_vars
    PROVE  \/ push'.caller = push.caller
           \/ push'.caller \in {"none", "full"}
           \/ \E u \in Screens : DeleteTail(u) /\ push'.caller = u /\ scr'[u].pc = "pushing"
<1>1. CASE TriggerPush \/ StartFullSync
  BY <1>1, PushFacts DEF TriggerPush, StartFullSync, Call
<1>2. CASE FinishPush \/ Restart
  BY <1>2, PushFacts DEF FinishPush, Restart
<1>3. ASSUME NEW u \in Screens, DeleteTail(u)
      PROVE  \/ push'.caller = push.caller
             \/ push'.caller = u /\ scr'[u].pc = "pushing"
  BY <1>3, PushFacts, ScreenFacts DEF DeleteTail, Call, ScreenIs
<1>4. CASE PushStep
  <2>1. CASE PickItem \/ PostNote \/ GetNote
    BY <2>1, PickFacts, PostFacts, GetFacts, PushFacts
  <2>2. CASE \/ SwapId \/ SetAlias \/ Compare \/ PutNote \/ PutAnyway \/ DeleteOnServer
              \/ CreateFailed \/ SaveFailed
    BY <2>2, PushFacts DEF SwapId, SetAlias, Compare, PutNote, PutAnyway, DeleteOnServer, CreateFailed,
       SaveFailed
  <2> QED
    BY <1>2, <1>4, <2>1, <2>2 DEF PushStep
<1>5. \/ UNCHANGED push \/ TriggerPush \/ StartFullSync \/ PushStep \/ Restart
      \/ \E u \in Screens : DeleteTail(u)
  BY DEF Next, vars, UserOp, ScreenStep, FullStep, createNoteOffline, updateNoteOffline,
         deleteNoteOffline, deleteNote, SaveLocally, Enqueue, FilterQueue, Pull, MergePull,
         OtherEdit, OtherDelete
<1> QED
  BY <1>1, <1>2, <1>3, <1>4, <1>5

LEMMA CallerStep ==
    ASSUME Shape, [Next]_vars
    PROVE  CallerWaits'
<1>1. SUFFICES ASSUME push'.caller \in Screens PROVE scr'[push'.caller].pc = "pushing"
  BY DEF CallerWaits
<1>2. TypeOK /\ CallerWaits
  BY DEF Shape
<1>3. CASE push'.caller = push.caller
  <2>1. CASE UNCHANGED scr
    BY <1>1, <1>2, <1>3, <2>1 DEF CallerWaits
  <2>2. CASE \E u \in Screens : UserOp(u) \/ ScreenStep(u)
    BY <1>1, <1>2, <1>3, <2>2, OwnStep DEF CallerWaits
  <2>3. ~FinishPush /\ ~Restart
    BY <1>1, <1>2, CallersApart, PushFacts DEF FinishPush, Restart
  <2> QED
    BY <2>1, <2>2, <2>3, ScreenSteps DEF vars
<1> QED
  BY <1>1, <1>2, <1>3, CallersApart, CallerSteps

\* How the queue and the push change.
Starts ==
    /\ push.pc = "idle" /\ UNCHANGED queue
    /\ PushIs("next", queue, {}, NoItem, NoNote)

GoesOn ==
    /\ Working /\ push'.pc \notin {"idle", "saved", "next", "delete", "create"}
    /\ push'.todo = push.todo /\ push'.failed = push.failed /\ push'.item = push.item

LEMMA QueueSteps ==
    ASSUME [Next]_vars
    PROVE  \/ UNCHANGED queue \/ SaveFailed
           \/ \E u \in Screens : Enqueue(u) \/ FilterQueue(u)
  BY DEF Next, vars, UserOp, ScreenStep, PushStep, FullStep, createNoteOffline, updateNoteOffline,
         deleteNoteOffline, deleteNote, SaveLocally, DeleteTail, TriggerPush,
         PickItem, PostNote, SwapId, SetAlias, GetNote, Compare, PutNote, PutAnyway, DeleteOnServer,
         CreateFailed, FinishPush, StartFullSync, Pull, MergePull, OtherEdit, OtherDelete, Restart

LEMMA PushSteps ==
    ASSUME TypeOK, [Next]_vars
    PROVE  \/ UNCHANGED push \/ Starts \/ PushStep \/ Restart
<1>1. CASE TriggerPush
  BY <1>1, PushFacts DEF TriggerPush, Call, Starts
<1>2. CASE StartFullSync
  BY <1>2, PushFacts DEF StartFullSync, Call, Starts
<1>3. ASSUME NEW u \in Screens, DeleteTail(u) PROVE UNCHANGED push \/ Starts
  BY <1>3, PushFacts DEF DeleteTail, Call, Starts
<1> QED
  BY <1>1, <1>2, <1>3
     DEF Next, vars, UserOp, ScreenStep, FullStep, createNoteOffline, updateNoteOffline,
         deleteNoteOffline, deleteNote, SaveLocally, Enqueue, FilterQueue, Pull, MergePull,
         OtherEdit, OtherDelete

LEMMA PushKinds ==
    ASSUME TypeOK, PushStep
    PROVE  \/ PickItem
           \/ (PostNote \/ SwapId \/ GetNote \/ Compare \/ PutNote) /\ GoesOn
           \/ (SwapId \/ SetAlias \/ Compare \/ PutNote \/ PutAnyway \/ DeleteOnServer) /\ Working /\ ItemDone
           \/ (PutAnyway \/ DeleteOnServer \/ CreateFailed) /\ Working /\ ItemFailed
           \/ SaveFailed /\ push.pc = "next" /\ push.todo = {} /\ PushGo("saved") /\ queue' = push.failed
           \/ FinishPush /\ push.pc = "saved" /\ push' = IdlePush
<1> DEFINE On == {"aliasing", "put", "putAnyway"}
<1>0. \A pc \in On : Working /\ PushGo(pc) => GoesOn
  BY PushFacts DEF PushIs, GoesOn
<1>1. CASE PostNote
  BY <1>1, PostFacts DEF GoesOn, Working
<1>2. CASE GetNote
  <2>1. Working
    BY <1>2 DEF GetNote, Working
  <2>2. GoesOn
    BY <1>0, <1>2, <2>1, GetFacts DEF GoesOn, PushIs
  <2> QED
    BY <1>2, <2>2
<1>3. CASE SwapId
  <2>1. Working /\ (PushGo("aliasing") \/ ItemDone)
    BY <1>3 DEF SwapId, Working
  <2> QED
    BY <1>0, <1>3, <2>1
<1>4. CASE Compare
  <2>1. Working /\ (PushGo("put") \/ ItemDone)
    BY <1>4 DEF Compare, Working
  <2> QED
    BY <1>0, <1>4, <2>1
<1>5. CASE PutNote
  <2>1. Working /\ (PushGo("putAnyway") \/ ItemDone)
    BY <1>5 DEF PutNote, Working
  <2> QED
    BY <1>0, <1>5, <2>1
<1>6. CASE SetAlias
  BY <1>6 DEF SetAlias, Working
<1>7. CASE PutAnyway \/ DeleteOnServer
  BY <1>7 DEF PutAnyway, DeleteOnServer, Working
<1>8. CASE CreateFailed
  BY <1>8 DEF CreateFailed, Working
<1>9. CASE SaveFailed \/ FinishPush
  BY <1>9 DEF SaveFailed, FinishPush
<1> QED
  BY <1>1, <1>2, <1>3, <1>4, <1>5, <1>6, <1>7, <1>8, <1>9 DEF PushStep

LEMMA ItemsApartStep ==
    ASSUME Shape, [Next]_vars
    PROVE  ItemsApart'
<1> USE DEF ItemsApart
<1>1. TypeOK /\ ItemsApart
  BY DEF Shape
<1>2. Distinct(queue')
  <2>1. CASE UNCHANGED queue
    BY <1>1, <2>1
  <2>2. CASE SaveFailed
    BY <1>1, <2>2 DEF SaveFailed
  <2>3. ASSUME NEW u \in Screens, Enqueue(u) PROVE Distinct(queue')
    BY <1>1, <2>3, ParTypes, EnqueueFacts DEF Enqueue, TypeOK
  <2>4. ASSUME NEW u \in Screens, FilterQueue(u) PROVE Distinct(queue')
    BY <1>1, <2>4 DEF FilterQueue, Distinct
  <2> QED
    BY <2>1, <2>2, <2>3, <2>4, QueueSteps
<1> DEFINE Rest == /\ Distinct(push'.todo) /\ Distinct(push'.failed)
                   /\ \A p \in push'.todo, q \in push'.failed : p.id # q.id
                   /\ Working' => \A p \in push'.todo \cup push'.failed : p.id # push'.item.id
<1>3. Rest
  <2>1. CASE UNCHANGED push
    BY <1>1, <2>1 DEF Working
  <2>2. CASE Starts
    BY <1>1, <2>2 DEF Starts, PushIs, Working, Distinct
  <2>3. CASE Restart
    BY <2>3, PushFacts, <1>1 DEF Restart, PushIs, Working, Distinct
  <2>4. CASE PickItem
    <3>1. PICK item \in push.todo :
              /\ push.pc = "next"
              /\ PushIs(item.operation, push.todo \ {item}, push.failed, item, push.reply)
      BY <1>1, <2>4, PickFacts
    <3> QED
      BY <1>1, <3>1 DEF PushIs, Distinct
  <2>5. CASE GoesOn
    BY <1>1, <2>5 DEF GoesOn
  <2>6. CASE Working /\ ItemDone
    BY <1>1, <2>6, PushFacts DEF PushIs, Working
  <2>7. CASE Working /\ ItemFailed
    <3>1. /\ push'.pc = "next" /\ push'.todo = push.todo
          /\ push'.failed \subseteq push.failed \cup {Again(push.item)}
      BY <1>1, <2>7, PushFacts DEF PushIs
    <3>2. Again(push.item).id = push.item.id
      BY <1>1, AgainFacts
    <3>3. \A p \in push.todo \cup push.failed : p.id # Again(push.item).id
      BY <1>1, <2>7, <3>2
    <3> QED
      BY <1>1, <3>1, <3>3 DEF Working, Distinct
  <2>8. CASE PushGo("saved")
    BY <1>1, <2>8, PushFacts DEF PushIs, Working
  <2>9. CASE push' = IdlePush
    BY <1>1, <2>9, PushFacts DEF PushIs, Working, Distinct
  <2> HIDE DEF Rest
  <2> QED
    BY <1>1, <2>1, <2>2, <2>3, <2>4, <2>5, <2>6, <2>7, <2>8, <2>9, PushSteps, PushKinds
<1> QED
  BY <1>2, <1>3

LEMMA ItemsArePastStep ==
    ASSUME Shape, [Next]_vars
    PROVE  ItemsArePast'
<1> USE DEF ItemsArePast
<1>1. TypeOK /\ ItemsArePast /\ ItemsApart /\ clock \in Nat /\ clock' \in Nat /\ clock <= clock'
  BY ClockGrows DEF Shape
<1>2. ASSUME NEW Q \in SUBSET Item, Past(Q) PROVE \A q \in Q : q.payload.at <= clock'
  BY <1>1, <1>2, ParTypes DEF Past
<1>3. NoItem.payload.at <= clock'
  BY <1>1 DEF NoItem, NoPayload
<1>4. /\ \A q \in queue \cup push.todo \cup push.failed \cup {push.item} : q.payload.at <= clock'
      /\ \A u \in Screens : scr[u].item.payload.at <= clock'
  <2>1. \A u \in Screens : scr[u].item.payload.at <= clock'
    BY <1>1, ParTypes DEF Shape, ScreenShape
  <2>2. queue \in SUBSET Item
    BY <1>1 DEF TypeOK
  <2> QED
    BY <1>1, <1>2, <2>1, <2>2, ParTypes
<1>5. \A q \in queue' : q.payload.at <= clock'
  <2>1. CASE UNCHANGED queue \/ SaveFailed
    BY <1>4, <2>1 DEF SaveFailed
  <2>2. ASSUME NEW u \in Screens, Enqueue(u) PROVE \A q \in queue' : q.payload.at <= clock'
    <3>1. \A q \in queue' : q \in queue \/ q.payload = scr[u].item.payload
      <4>1. queue \in SUBSET Item /\ Distinct(queue) /\ scr[u].item \in Item
        BY <1>1, ParTypes DEF TypeOK, ItemsApart
      <4> QED
        BY <2>2, <4>1, EnqueueFacts DEF Enqueue
    <3> QED
      BY <1>4, <3>1
  <2>3. ASSUME NEW u \in Screens, FilterQueue(u) PROVE queue' \subseteq queue
    BY <2>3 DEF FilterQueue
  <2> QED
    BY <1>4, <2>1, <2>2, <2>3, QueueSteps
<1> DEFINE Rest == \A q \in push'.todo \cup push'.failed \cup {push'.item} : q.payload.at <= clock'
<1>6. Rest
  <2>1. CASE UNCHANGED push
    BY <1>4, <2>1
  <2>2. CASE Starts
    BY <1>3, <1>4, <2>2 DEF Starts, PushIs
  <2>3. CASE push' = IdlePush
    BY <1>1, <1>3, <2>3, PushFacts DEF PushIs
  <2>4. CASE PickItem
    BY <1>1, <1>4, <2>4, PickFacts DEF PushIs
  <2>5. CASE GoesOn
    BY <1>4, <2>5 DEF GoesOn
  <2>6. CASE ItemDone
    BY <1>1, <1>3, <1>4, <2>6, PushFacts DEF PushIs
  <2>7. CASE ItemFailed
    <3>1. /\ push'.todo = push.todo /\ push'.item = NoItem
          /\ push'.failed \subseteq push.failed \cup {Again(push.item)}
      BY <1>1, <2>7, PushFacts DEF PushIs
    <3> QED
      BY <1>1, <1>3, <1>4, <3>1, AgainFacts
  <2>8. CASE PushGo("saved")
    BY <1>1, <1>4, <2>8, PushFacts DEF PushIs
  <2>9. Restart => push' = IdlePush
    BY DEF Restart
  <2> HIDE DEF Rest
  <2> QED
    BY <1>1, <2>1, <2>2, <2>3, <2>4, <2>5, <2>6, <2>7, <2>8, <2>9, PushSteps, PushKinds
<1> QED
  BY <1>5, <1>6 DEF Past

\* How the server changes.
PutLands ==
    /\ Live(push.item.id) /\ push.pc \in {"put", "putAnyway"}
    /\ Rewritten(push.item.id, push.item.payload.at)

LEMMA ServerSteps ==
    ASSUME TypeOK, [Next]_vars
    PROVE  \/ UNCHANGED server \/ PostNote
           \/ (PutNote \/ PutAnyway) /\ PutLands
           \/ DeleteOnServer /\ Live(push.item.id) /\ Removed(push.item.id)
           \/ /\ OtherEdit /\ UNCHANGED <<local, push, full>>
              /\ \E s \in ServerIds : Live(s) /\ Rewritten(s, clock')
           \/ OtherDelete /\ UNCHANGED <<local, push, full>> /\ \E s \in ServerIds : Live(s) /\ Removed(s)
<1>1. CASE PutNote \/ PutAnyway
  BY <1>1, ServerFacts DEF PutNote, PutAnyway, PutLands
<1>2. CASE DeleteOnServer
  BY <1>2, ServerFacts DEF DeleteOnServer, Live
<1>3. CASE OtherEdit
  <2>1. UNCHANGED <<local, push, full>>
    BY <1>3 DEF OtherEdit
  <2> QED
    BY <1>3, <2>1, ServerFacts
<1>4. CASE OtherDelete
  <2>1. UNCHANGED <<local, push, full>>
    BY <1>4 DEF OtherDelete
  <2> QED
    BY <1>4, <2>1, ServerFacts
<1>5. \/ UNCHANGED server \/ PostNote \/ PutNote \/ PutAnyway
      \/ DeleteOnServer \/ OtherEdit \/ OtherDelete
  BY DEF Next, UserOp, ScreenStep, PushStep, FullStep, vars, createNoteOffline, updateNoteOffline,
         deleteNoteOffline, deleteNote, SaveLocally, Enqueue, FilterQueue, DeleteTail, TriggerPush,
         PickItem, SwapId, SetAlias, GetNote, Compare, CreateFailed, SaveFailed, FinishPush,
         StartFullSync, Pull, MergePull, Restart
<1> QED
  BY <1>1, <1>2, <1>3, <1>4, <1>5

\* What the server has of a note stays there, with its origin.
LEMMA RowsStay ==
    ASSUME TypeOK, [Next]_vars
    PROVE  /\ \A s \in Known : /\ s \in Known' /\ server'[s].origin = server[s].origin
                               /\ Live(s)' => Live(s)
           /\ \A t : Rows(t) \subseteq Rows(t)'
           /\ \A t : \A s \in Rows(t)' \ Rows(t) :
                 PostNote /\ t = push.item.id /\ push'.reply.id = s /\ server[s].state = "none"
<1>1. ASSUME NEW s \in Known
      PROVE  server'[s].state # "none" /\ server'[s].origin = server[s].origin /\ (Live(s)' => Live(s))
  <2> USE DEF Known, Live
  <2>1. CASE UNCHANGED server
    BY <1>1, <2>1
  <2>2. CASE PostNote
    BY <1>1, <2>2, PostFacts
  <2>3. ASSUME NEW r \in ServerIds, Live(r), Removed(r) \/ \E pay : Rewritten(r, pay)
        PROVE  server'[s].state # "none" /\ server'[s].origin = server[s].origin /\ (Live(s)' => Live(s))
    BY <1>1, <2>3 DEF Removed, Rewritten
  <2>4. \A r : Live(r) => r \in ServerIds
    OBVIOUS
  <2> HIDE DEF Known, Live
  <2> QED
    BY <2>1, <2>2, <2>3, <2>4, ServerSteps DEF PutLands
<1>2. \A t : Rows(t) \subseteq Rows(t)'
  BY <1>1 DEF Rows, Known
<1>3. ASSUME NEW t, NEW s \in Rows(t)' \ Rows(t)
      PROVE  PostNote /\ t = push.item.id /\ push'.reply.id = s /\ server[s].state = "none"
  <2>1. s \in ServerIds /\ server'[s].state # "none" /\ server'[s].origin = t
    BY DEF Rows
  <2>2. s \notin Known
    BY <1>1, <2>1 DEF Rows, Known
  <2>3. CASE PostNote
    BY <2>1, <2>2, <2>3, PostFacts DEF Known
  <2>4. ASSUME NEW r, Live(r), Removed(r) \/ \E pay : Rewritten(r, pay) PROVE FALSE
    BY <2>1, <2>2, <2>4 DEF Removed, Rewritten, Known, Live
  <2>5. ~UNCHANGED server
    BY <2>1, <2>2 DEF Known
  <2> QED
    BY <2>3, <2>4, <2>5, ServerSteps DEF PutLands
<1> QED
  BY <1>1, <1>2, <1>3 DEF Known

\* How the local store changes.
LEMMA LocalSteps ==
    ASSUME [Next]_vars
    PROVE  \/ UNCHANGED local \/ SwapId \/ Compare \/ FinishPush \/ MergePull
           \/ \E u \in Screens : SaveLocally(u) \/ deleteNoteOffline(u) \/ deleteNote(u) \/ DeleteTail(u)
  BY DEF Next, UserOp, ScreenStep, PushStep, FullStep, vars, createNoteOffline, updateNoteOffline,
         Enqueue, FilterQueue, TriggerPush, PickItem, PostNote, SetAlias, GetNote, PutNote, PutAnyway,
         DeleteOnServer, CreateFailed, SaveFailed, StartFullSync, Pull, OtherEdit, OtherDelete, Restart

LEMMA DeleteLocalFacts ==
    ASSUME NEW L, NEW i
    PROVE  \A n : n \in deleteLocalNote(L, i) <=> n \in L /\ n.id # i
  BY DEF deleteLocalNote

\* A note that is new in the local store is the one a screen saves, or one
\* the server has.
LEMMA NewNotes ==
    ASSUME Shape, [Next]_vars, NEW m \in local', m \notin local
    PROVE  \/ ~m.isLocal /\ m.id \in Known /\ m.id \notin TempIds
           \/ \E u \in Screens : SaveLocally(u) /\ m = scr[u].note
<1>1. TypeOK /\ IdsMatchKinds /\ PushShape
  BY DEF Shape
<1>2. CASE SwapId
  <2>1. push.item.id \in IdsOf(local)
    BY <1>2 DEF SwapId, IdsOf
  <2>2. push.reply.id \in Known
    BY <1>1, <1>2 DEF SwapId, IdsMatchKinds, PushMatches
  <2> QED
    BY <1>1, <1>2, <2>1, <2>2, SwapFacts, KindFacts
<1>3. CASE Compare
  <2>1. m = push.reply
    BY <1>3, UpsertFacts DEF Compare
  <2>2. push.reply.id \in Known /\ ~push.reply.isLocal
    BY <1>1, <1>3 DEF Compare, IdsMatchKinds, PushMatches
  <2> QED
    BY <1>1, <2>1, <2>2, KindFacts
<1>4. CASE MergePull
  <2>1. PICK s \in full.pulled : m = [s EXCEPT !.isLocal = FALSE]
    BY <1>4, MergeSources DEF MergePull
  <2>2. s \in Note /\ s.id \in Known
    BY <1>1 DEF TypeOK, FullState, IdsMatchKinds, FullMatches
  <2>3. ~m.isLocal /\ m.id = s.id
    BY <2>1, <2>2 DEF Note
  <2> QED
    BY <1>1, <2>2, <2>3, KindFacts
<1>5. CASE FinishPush
  BY <1>5, DeleteLocalFacts DEF FinishPush
<1>6. ASSUME NEW u \in Screens, DeleteTail(u) PROVE FALSE
  BY <1>6, DeleteLocalFacts DEF DeleteTail, Call
<1>7. ASSUME NEW u \in Screens, SaveLocally(u) PROVE m = scr[u].note
  BY <1>7, UpsertFacts DEF SaveLocally
<1>8. ASSUME NEW u \in Screens, deleteNoteOffline(u) \/ deleteNote(u)
      PROVE  ~m.isLocal /\ m.id \in Known
  <2>1. PICK i : DeleteFrom(u, i)
    BY <1>1, <1>8, DeleteFacts
  <2>2. CASE local' = deleteLocalNote(local, i)
    BY <2>2, DeleteLocalFacts
  <2>3. CASE local' = markPendingDelete(local, i) /\ \A n \in local : n.id = i => ~n.isLocal
    <3>1. m.id = i /\ \E n \in local : n.id = i /\ m.isLocal = n.isLocal
      BY <1>1, <2>3, MarkFacts DEF TypeOK
    <3> QED
      BY <1>1, <2>3, <3>1, KindFacts
  <2> QED
    BY <2>1, <2>2, <2>3 DEF DeleteFrom
<1> QED
  BY <1>1, <1>2, <1>3, <1>4, <1>5, <1>6, <1>7, <1>8, LocalSteps, KindFacts

LEMMA TempNotesStep ==
    ASSUME Shape, [Next]_vars
    PROVE  TempNotes'
<1>1. TypeOK /\ IdsMatchKinds /\ TempNotes
  BY DEF Shape
<1>2. ASSUME NEW n \in local', n.isLocal PROVE ~n.pendingDelete
  <2>1. CASE n \in local
    BY <1>1, <1>2, <2>1 DEF TempNotes
  <2>2. CASE n \notin local
    <3>1. PICK u \in Screens : SaveLocally(u) /\ n = scr[u].note
      BY <1>2, <2>2, NewNotes
    <3> QED
      BY <1>2, <3>1 DEF SaveLocally, Shape, ScreenShape
  <2> QED
    BY <2>1, <2>2
<1>3. ASSUME NEW n \in local', NEW m \in local', n.id = m.id, n.id \in TempIds PROVE n = m
  <2>1. CASE n \in local /\ m \in local
    BY <1>1, <1>3, <2>1 DEF TempNotes
  <2>2. CASE n \notin local \/ m \notin local
    <3>1. PICK u \in Screens : SaveLocally(u) /\ scr[u].note.id = n.id
      BY <1>3, <2>2, NewNotes
    <3>2. local' \in upsertLocalNote(local, scr[u].note)
      BY <3>1 DEF SaveLocally
    <3>3. \A a, b \in local : a.id = scr[u].note.id /\ b.id = scr[u].note.id => a = b
      BY <1>1, <1>3, <3>1 DEF TempNotes
    <3> QED
      BY <1>3, <3>1, <3>2, <3>3, UpsertFacts
  <2> QED
    BY <2>1, <2>2
<1> QED
  BY <1>2, <1>3 DEF TempNotes

LEMMA OriginsStep ==
    ASSUME Shape, [Next]_vars
    PROVE  Origins'
<1>1. TypeOK /\ Origins /\ PushShape /\ IdsMatchKinds
  BY DEF Shape
<1>2. ASSUME NEW s \in Known' PROVE server'[s].origin \in TempIds \cup {s}
  <2>1. CASE s \in Known
    BY <1>1, <2>1, RowsStay DEF Origins
  <2>2. CASE s \notin Known
    <3>1. \A t : t = server'[s].origin => s \in Rows(t)' \ Rows(t)
      BY <2>2 DEF Rows, Known
    <3>2. PostNote /\ server'[s].origin = push.item.id
      BY <1>1, <3>1, RowsStay
    <3>3. push.item.operation = "create"
      BY <1>1, <3>2 DEF PostNote, PushShape
    <3> QED
      BY <1>1, <3>2, <3>3, KindFacts DEF GoodItem
  <2> QED
    BY <2>1, <2>2
<1> QED
  BY <1>2 DEF Origins

LEMMA AliasSteps ==
    ASSUME [Next]_vars
    PROVE  UNCHANGED alias \/ Restart \/ SetAlias
  BY DEF Next, UserOp, ScreenStep, PushStep, FullStep, vars, createNoteOffline, updateNoteOffline,
         deleteNoteOffline, deleteNote, SaveLocally, Enqueue, FilterQueue, DeleteTail, TriggerPush,
         PickItem, PostNote, SwapId, GetNote, Compare, PutNote, PutAnyway, DeleteOnServer, CreateFailed,
         SaveFailed, FinishPush, StartFullSync, Pull, MergePull, OtherEdit, OtherDelete

LEMMA AliasStep ==
    ASSUME Shape, [Next]_vars
    PROVE  AliasShape'
<1>1. TypeOK /\ AliasShape /\ PushShape
  BY DEF Shape
<1>2. CASE UNCHANGED alias
  BY <1>1, <1>2, RowsStay DEF AliasShape
<1>3. CASE Restart
  BY <1>3 DEF Restart, AliasShape
<1>4. CASE SetAlias
  <2>1. push.reply.id \in Rows(push.item.id) /\ alias' = [alias EXCEPT ![push.item.id] = push.reply.id]
    BY <1>1, <1>4 DEF SetAlias, PushShape
  <2>2. \A t \in TempIds : alias'[t] = alias[t] \/ (t = push.item.id /\ alias'[t] = push.reply.id)
    BY <1>1, <2>1 DEF TypeOK
  <2> QED
    BY <1>1, <2>1, <2>2, RowsStay DEF AliasShape
<1> QED
  BY <1>2, <1>3, <1>4, AliasSteps

LEMMA BornGrows ==
    ASSUME [Next]_vars
    PROVE  born \subseteq born'
  BY DEF Next, UserOp, ScreenStep, PushStep, FullStep, vars, createNoteOffline, updateNoteOffline,
         deleteNoteOffline, deleteNote, SaveLocally, Enqueue, FilterQueue, DeleteTail, TriggerPush,
         PickItem, PostNote, SwapId, SetAlias, GetNote, Compare, PutNote, PutAnyway, DeleteOnServer,
         CreateFailed, SaveFailed, FinishPush, StartFullSync, Pull, MergePull, OtherEdit, OtherDelete,
         Restart

\* The temp ids the screens hold.
LEMMA HandleSteps ==
    ASSUME [Next]_vars, NEW t \in handle', t \notin handle
    PROVE  \E u \in Screens : /\ Enqueue(u) /\ scr[u].item.operation # "delete"
                              /\ t = scr[u].item.id /\ t \in TempIds
<1>1. \/ UNCHANGED handle \/ handle' \subseteq handle
      \/ \E u \in Screens : /\ Enqueue(u) /\ scr[u].item.operation # "delete"
                            /\ handle' = handle \cup (TempIds \cap {scr[u].item.id})
  BY DEF Next, UserOp, ScreenStep, PushStep, FullStep, vars, createNoteOffline, updateNoteOffline,
         deleteNoteOffline, deleteNote, SaveLocally, Enqueue, FilterQueue, DeleteTail, TriggerPush,
         PickItem, PostNote, SwapId, SetAlias, GetNote, Compare, PutNote, PutAnyway, DeleteOnServer,
         CreateFailed, SaveFailed, FinishPush, StartFullSync, Pull, MergePull, OtherEdit, OtherDelete,
         Restart, Forget
<1> QED
  BY <1>1

LEMMA TempsBornStep ==
    ASSUME Shape, [Next]_vars
    PROVE  TempsBorn'
<1>1. TypeOK /\ TempsBorn /\ AliasShape
  BY DEF Shape
<1>2. born \subseteq born'
  BY BornGrows
<1>3. ASSUME NEW n \in local', n.id \in TempIds PROVE n.id \in born
  <2>1. CASE n \in local
    BY <1>1, <1>3, <2>1 DEF TempsBorn, IdsOf
  <2>2. CASE n \notin local
    <3>1. PICK u \in Screens : SaveLocally(u) /\ n = scr[u].note
      BY <1>3, <2>2, NewNotes
    <3>2. scr[u].pc = "upsert" /\ n.id = scr[u].item.id
      BY <3>1 DEF SaveLocally, Shape, ScreenShape
    <3> QED
      BY <1>1, <1>3, <3>2 DEF TempsBorn
  <2> QED
    BY <2>1, <2>2
<1>4. handle' \subseteq born
  <2>1. ASSUME NEW t \in handle', t \notin handle
        PROVE  \E u \in Screens : Enqueue(u) /\ t = scr[u].item.id /\ t \in TempIds
    BY <2>1, HandleSteps
  <2>2. ASSUME NEW u \in Screens, Enqueue(u), scr[u].item.id \in TempIds PROVE scr[u].item.id \in born
    BY <1>1, <2>2 DEF Enqueue, TempsBorn
  <2> QED
    BY <1>1, <2>1, <2>2 DEF TempsBorn
<1>5. ASSUME NEW u \in Screens, scr'[u].pc # "idle", scr'[u].item.id \in TempIds
      PROVE  scr'[u].item.id \in born'
  <2>1. CASE scr[u].pc # "idle" /\ scr'[u].item = scr[u].item
    BY <1>1, <1>2, <1>5, <2>1 DEF TempsBorn
  <2>2. CASE createNoteOffline(u)
    BY <1>1, <2>2, CreateFacts DEF ScreenIs
  <2>3. CASE updateNoteOffline(u) /\ scr' # scr
    <3>1. scr'[u].item.id \in IdsOf(local)
      BY <1>1, <2>3, UpdateFacts DEF ScreenIs, IdsOf
    <3> QED
      BY <1>1, <1>2, <1>5, <3>1 DEF TempsBorn
  <2>4. CASE (deleteNoteOffline(u) \/ deleteNote(u)) /\ scr' # scr
    <3>1. PICK j \in Visible : \E i \in {j, resolveNoteId(j)} : DeleteFrom(u, i)
      BY <1>1, <2>4, DeleteFacts
    <3>2. PICK i \in {j, resolveNoteId(j)} : DeleteFrom(u, i)
      BY <3>1
    <3>3. scr'[u].item.id = i
      BY <2>4, <3>2, DeleteItemFacts DEF DeleteFrom, ScreenIs
    <3>4. i \in TempIds => i = j
      BY <1>1, <3>2, IdsDisjoint DEF resolveNoteId, AliasShape, Rows
    <3>5. j \in IdsOf(local) \cup handle
      BY DEF Visible, IdsOf
    <3> QED
      BY <1>1, <1>2, <1>5, <3>3, <3>4, <3>5 DEF TempsBorn
  <2>5. CASE UNCHANGED scr
    BY <1>1, <1>2, <1>5, <2>5 DEF TempsBorn
  <2>6. CASE \E v \in Screens : UserOp(v) \/ ScreenStep(v)
    <3>1. PICK v \in Screens : UserOp(v) \/ ScreenStep(v)
      BY <2>6
    <3>2. CASE v # u
      BY <1>1, <1>5, <2>1, <3>1, <3>2, OwnStep
    <3>3. CASE v = u
      BY <1>1, <1>5, <2>1, <2>2, <2>3, <2>4, <2>5, <3>1, <3>3, OwnStep
         DEF SaveLocally, Enqueue, DeleteTail
    <3> QED
      BY <3>2, <3>3
  <2>7. CASE FinishPush
    <3>1. scr' = scr \/ (push.caller \in Screens /\ scr' = [scr EXCEPT ![push.caller] = IdleScreen])
      BY <2>7 DEF FinishPush, Done
    <3> QED
      BY <1>1, <1>5, <2>1, <3>1 DEF TypeOK, IdleScreen
  <2>8. CASE Restart
    BY <1>5, <2>8 DEF Restart, IdleScreen
  <2> QED
    BY <2>5, <2>6, <2>7, <2>8, ScreenSteps DEF vars
<1> QED
  BY <1>2, <1>3, <1>4, <1>5 DEF TempsBorn, IdsOf

\* Where the push can be after a step.
LEMMA PushPcs ==
    ASSUME TypeOK, [Next]_vars
    PROVE  \/ UNCHANGED push
           \/ PickItem /\ push'.pc \in {"create", "update", "delete"}
           \/ PostNote /\ push'.pc = "created"
           \/ SwapId /\ push'.pc \in {"aliasing", "next"}
           \/ GetNote /\ push'.pc \in {"compare", "putAnyway"}
           \/ push'.pc \in {"idle", "next", "saved", "put", "putAnyway"}
<1>1. CASE Compare \/ PutNote
  BY <1>1, PushFacts DEF Compare, PutNote, PushIs
<1>2. CASE ItemDone \/ ItemFailed \/ PushGo("saved") \/ push' = IdlePush
  BY <1>2, PushFacts DEF PushIs
<1>3. Restart => push' = IdlePush
  BY DEF Restart
<1>4. Starts => push'.pc = "next"
  BY DEF Starts, PushIs
<1>5. CASE PickItem
  BY <1>5, PickFacts DEF PushIs
<1>6. CASE PostNote
  BY <1>6, PostFacts
<1>7. CASE SwapId
  BY <1>7, PushFacts DEF SwapId, PushIs
<1>8. CASE GetNote
  BY <1>8, GetFacts, PushFacts DEF PushIs
<1> QED
  BY <1>1, <1>2, <1>3, <1>4, <1>5, <1>6, <1>7, <1>8, PushSteps, PushKinds

LEMMA PushShapeStep ==
    ASSUME Shape, [Next]_vars
    PROVE  PushShape'
<1>1. /\ TypeOK /\ PushShape /\ IdsMatchKinds /\ TempNotes
      /\ push.item.payload.at \in Nat /\ push.item.payload.at <= clock
      /\ clock \in Nat /\ clock' \in Nat /\ clock <= clock'
  BY ParTypes, ClockGrows DEF Shape, ItemsArePast, Past
<1>2. CASE push'.pc \in {"idle", "next", "saved", "update", "put", "putAnyway"}
  BY <1>2 DEF PushShape
<1>3. CASE PickItem
  BY <1>1, <1>3, PickFacts DEF PushShape, PushIs
<1>4. CASE PostNote
  <2>1. PICK s \in ServerIds :
            /\ server'[s].state = "live" /\ server'[s].origin = push.item.id
            /\ server'[s].updated_at \in {push.item.payload.at, clock}
            /\ push.pc = "create" /\ push'.pc = "created" /\ push'.item = push.item /\ push'.reply.id = s
    BY <1>1, <1>4, PostFacts
  <2>2. s \in Rows(push.item.id)' /\ push.item.payload.at <= server'[s].updated_at
    BY <1>1, <2>1 DEF Rows
  <2> QED
    BY <1>1, <2>1, <2>2 DEF PushShape
<1>5. CASE SwapId
  <2>1. CASE push.item.id \notin IdsOf(local)
    BY <1>1, <1>2, <1>5, <2>1, PushFacts DEF SwapId, PushIs
  <2>2. CASE push.item.id \in IdsOf(local)
    <3>1. PICK n \in local, m \in Note :
               /\ n.id = push.item.id /\ local' = (local \ {n}) \cup {m}
               /\ m.id = push.reply.id /\ PushGo("aliasing")
      BY <1>1, <1>5, <2>2, SwapFacts
    <3>2. /\ push.pc = "created" /\ push.item.operation = "create" /\ push.item.id \in TempIds
          /\ push.reply.id \in Rows(push.item.id)
      BY <1>1, <1>5, KindFacts DEF SwapId, PushShape, GoodItem
    <3>3. push.item.id \notin IdsOf(local')
      BY <1>1, <3>1, <3>2, IdsDisjoint DEF TempNotes, IdsOf, Rows
    <3>4. /\ push'.pc = "aliasing" /\ push'.item = push.item /\ push'.reply = push.reply
          /\ UNCHANGED server
      BY <1>1, <1>5, <3>1, PushFacts DEF PushIs, SwapId
    <3> QED
      BY <1>1, <3>2, <3>3, <3>4 DEF PushShape, Rows
  <2> QED
    BY <2>1, <2>2
<1>6. CASE GetNote
  <2>1. CASE push'.pc = "putAnyway"
    BY <1>2, <2>1
  <2>2. CASE PushIs("compare", push.todo, push.failed, push.item, ServerNote(push.item.id))
    BY <2>2 DEF PushIs, PushShape, ServerNote
  <2> QED
    BY <1>1, <1>6, <2>1, <2>2, GetFacts, PushFacts DEF PushIs
<1>7. CASE UNCHANGED push
  <2>1. CASE push.pc = "aliasing" /\ push.item.id \in IdsOf(local')
    <3>1. PICK n \in local' : n.id = push.item.id
      BY <2>1 DEF IdsOf
    <3>2. n \notin local
      BY <1>1, <2>1, <3>1 DEF PushShape, IdsOf
    <3>3. push.item.id \in TempIds
      BY <1>1, <2>1, KindFacts DEF PushShape, GoodItem
    <3> QED
      BY <2>1, <3>1, <3>2, <3>3, NewNotes DEF SaveLocally, LockFree
  <2>2. ASSUME push.pc \in {"created", "aliasing"}
        PROVE  /\ push.reply.id \in Rows(push.item.id)'
               /\ push.item.payload.at <= server'[push.reply.id].updated_at
    <3>1. /\ push.reply.id \in Rows(push.item.id) /\ push.reply.id \in ServerIds
          /\ push.item.payload.at <= server[push.reply.id].updated_at
      BY <1>1, <2>2 DEF PushShape, Rows
    <3>2. push.reply.id \in Rows(push.item.id)'
      BY <1>1, <1>7, <3>1, RowsStay
    <3>3. push.item.payload.at <= server'[push.reply.id].updated_at
      <4>1. CASE UNCHANGED server
        BY <3>1, <4>1
      <4>2. ASSUME NEW s \in ServerIds, Rewritten(s, clock') \/ Removed(s)
            PROVE  server'[push.reply.id].updated_at \in {server[push.reply.id].updated_at, clock'}
        BY <3>1, <4>2 DEF Rewritten, Removed
      <4>3. ~PostNote /\ ~DeleteOnServer /\ ~PutLands
        BY <2>2 DEF PostNote, DeleteOnServer, PutLands
      <4> QED
        BY <1>1, <3>1, <4>1, <4>2, <4>3, ServerSteps
    <3> QED
      BY <3>2, <3>3
  <2> QED
    BY <1>1, <1>7, <2>1, <2>2 DEF PushShape
<1> QED
  BY <1>1, <1>2, <1>3, <1>4, <1>5, <1>6, <1>7, PushPcs

\* No row gets older, but for those the history counts as clobbered.
LEMMA RowsAge ==
    ASSUME TypeOK, Observe
    PROVE  /\ past.clobbered \subseteq past'.clobbered
           /\ \A s \in ServerIds : s \notin past'.clobbered => ~(server'[s].updated_at < server[s].updated_at)
  BY DEF Observe, ClobberedNow

LEMMA BehindStep ==
    ASSUME Shape, Next, Observe
    PROVE  Behind'
<1>1. TypeOK /\ TypeOK' /\ Behind /\ IdsMatchKinds /\ PushShape
  BY TypeNext DEF Shape
<1>2. /\ \A s \in ServerIds : server[s].updated_at \in Nat /\ server'[s].updated_at \in Nat
      /\ \A n \in Note : n.updated_at \in Nat
  BY <1>1 DEF TypeOK, Row, Note
<1>3. ASSUME NEW n \in Note, n.id \in ServerIds, NotAhead(n) PROVE NotAhead(n)'
  BY <1>1, <1>2, <1>3, RowsAge DEF NotAhead
<1>4. ASSUME NEW s \in ServerIds, NEW n, n = ServerNote(s)
      PROVE  NotAhead(n)' /\ ~n.isLocal /\ ~n.pendingDelete
  <2>1. n.id = s /\ NotAhead(n) /\ n \in Note /\ ~n.isLocal /\ ~n.pendingDelete
    BY <1>1, <1>2, <1>4, ServerNoteType DEF ServerNote, NotAhead, TypeOK
  <2> QED
    BY <1>3, <2>1
<1>5. \A n \in full'.pulled : NotAhead(n)' /\ ~n.isLocal /\ ~n.pendingDelete
  <2>1. ASSUME NEW n \in full.pulled PROVE NotAhead(n)' /\ ~n.isLocal /\ ~n.pendingDelete
    <3>1. n \in Note /\ n.id \in ServerIds
      BY <1>1 DEF TypeOK, FullState, IdsMatchKinds, FullMatches, Known
    <3> QED
      BY <1>1, <1>3, <3>1 DEF Behind
  <2>2. \/ UNCHANGED full \/ Pull \/ StartPull \/ full' = IdleFull
        \/ full' = [full EXCEPT !.pc = "pushing"]
    BY DEF Next, UserOp, ScreenStep, PushStep, FullStep, vars, createNoteOffline, updateNoteOffline,
           deleteNoteOffline, deleteNote, SaveLocally, Enqueue, FilterQueue, DeleteTail, TriggerPush,
           PickItem, PostNote, SwapId, SetAlias, GetNote, Compare, PutNote, PutAnyway, DeleteOnServer,
           CreateFailed, SaveFailed, FinishPush, StartFullSync, Call, MergePull, OtherEdit, OtherDelete,
           Restart
  <2>3. ASSUME NEW n \in full'.pulled PROVE n \in full.pulled \/ \E s \in ServerIds : n = ServerNote(s)
    <3>1. CASE full'.pulled = full.pulled \/ full'.pulled = {}
      BY <3>1
    <3>2. CASE Pull
      <4> DEFINE all == {ServerNote(s) : s \in {r \in ServerIds : Live(r)}}
      <4>1. full'.pulled \subseteq all \/ full' = IdleFull
        BY <1>1, <3>2 DEF Pull, TypeOK, FullState
      <4> QED
        BY <3>1, <4>1 DEF IdleFull
    <3>3. StartPull \/ full' = [full EXCEPT !.pc = "pushing"] => full'.pulled = full.pulled
      BY <1>1 DEF StartPull, TypeOK, FullState
    <3>4. full' = IdleFull => full'.pulled = {}
      BY DEF IdleFull
    <3> QED
      BY <2>2, <3>1, <3>2, <3>3, <3>4
  <2> QED
    BY <1>4, <2>1, <2>3
<1>6. ASSUME NEW n, n = push'.reply, push'.pc = "compare" PROVE NotAhead(n)'
  <2>1. CASE GetNote
    <3>1. PushGo("putAnyway") => push'.pc = "putAnyway"
      BY <1>1, PushFacts DEF PushIs
    <3>2. push.item.id \in ServerIds /\ n = ServerNote(push.item.id)
      BY <1>1, <1>6, <2>1, <3>1, GetFacts DEF PushIs, Live
    <3> QED
      BY <1>4, <3>2
  <2>2. CASE UNCHANGED push
    <3>1. n \in Note /\ n.id \in ServerIds /\ NotAhead(n)
      BY <1>1, <1>6, <2>2, ParTypes DEF Behind, IdsMatchKinds, PushMatches, Known
    <3> QED
      BY <1>3, <3>1
  <2>3. CASE push'.pc \in {"idle", "next", "saved", "update", "create", "delete", "created", "aliasing",
                           "put", "putAnyway"}
    BY <1>6, <2>3
  <2> QED
    BY <1>1, <2>1, <2>2, <2>3, PushPcs
<1> QED
  BY <1>5, <1>6 DEF Behind

LEMMA ShapeInit == Init /\ InitPast => Shape
<1> SUFFICES ASSUME Init, InitPast PROVE Shape
  OBVIOUS
<1>1. TypeOK /\ IdsMatchKinds
  BY TypeInit, MatchInit
<1>2. \A n \in local : ~n.isLocal /\ n.id \in Synced
  BY DEF Init, ServerNote
<1>3. /\ (\A u \in Screens : ScreenShape(u)) /\ CallerWaits /\ ItemsApart /\ ItemsArePast
      /\ PushShape /\ Behind
  BY CallersApart DEF Init, IdleScreen, IdlePush, IdleFull, NoItem, NoPayload, ScreenShape, CallerWaits,
     ItemsApart, Distinct, ItemsArePast, Past, PushShape, Behind, Working
<1>4. TempNotes /\ TempsBorn
  BY <1>2, IdsDisjoint, SyncedOnServer DEF Init, TempNotes, TempsBorn, IdsOf, IdleScreen
<1>5. Origins
  BY DEF Init, Origins, Known, NoRow
<1>6. AliasShape /\ past.deleted \subseteq Known
  BY DEF Init, InitPast, AliasShape
<1> QED
  BY <1>1, <1>3, <1>4, <1>5, <1>6 DEF Shape

LEMMA ShapeNext == Shape /\ [Next /\ Observe]_pvars => Shape'
<1> SUFFICES ASSUME Shape, [Next /\ Observe]_pvars PROVE Shape'
  OBVIOUS
<1>1. CASE UNCHANGED pvars
  BY <1>1 DEF pvars, vars, Shape, TypeOK, IdsMatchKinds, LocalMatches, QueueMatches, ScreenMatches,
     PushMatches, FullMatches, GoodNote, GoodItem, Known, ScreenShape, CallerWaits, ItemsApart, Distinct,
     ItemsArePast, Past, PushShape, Rows, TempNotes, Origins, Behind, NotAhead, AliasShape, TempsBorn,
     Working
<1>2. CASE Next /\ Observe
  <2>1. TypeOK' /\ IdsMatchKinds'
    BY <1>2, TypeNext, MatchNext DEF Shape
  <2>2. past'.deleted \subseteq Known'
    <3>1. past'.deleted \subseteq past.deleted \cup Known
      BY <1>2 DEF Observe, Live, Known
    <3> QED
      BY <1>2, <3>1, KnownGrows DEF Shape
  <2> QED
    BY <1>2, <2>1, <2>2, ScreenShapeStep, CallerStep, ItemsApartStep, ItemsArePastStep, PushShapeStep,
       TempNotesStep, OriginsStep, BehindStep, AliasStep, TempsBornStep DEF Shape
<1> QED
  BY <1>1, <1>2

LEMMA ShapeHolds == PSpec => []Shape
  BY ShapeInit, ShapeNext, PTL DEF PSpec

-------------------------------------------------------------------------------
(* Notes are created once *)

LEMMA UndoneStays ==
    ASSUME Shape, Next, Observe, NEW t
    PROVE  /\ Undone(t) /\ ~(PostNote /\ t = push.item.id) => Undone(t)'
           /\ t \in DoubtNow => Undone(t)'
           /\ t \in past.doubt => t \in past'.doubt
<1>1. past'.doubt = past.doubt \cup DoubtNow
  BY DEF Observe
<1>2. \A s \in Rows(t)' \ Rows(t) : PostNote /\ t = push.item.id
  BY RowsStay DEF Shape
<1> QED
  BY <1>1, <1>2 DEF Undone

LEMMA OneRowStep ==
    ASSUME Shape, OnceInv, Next, Observe,
           NEW t \in TempIds, t \notin past'.doubt, NEW r \in Rows(t)', NEW s \in Rows(t)'
    PROVE  r = s
<1>1. t \notin past.doubt /\ TypeOK
  BY UndoneStays DEF Shape
<1>2. \A a, b \in Rows(t) : a = b
  BY <1>1 DEF OnceInv
<1>3. CASE Rows(t)' \ Rows(t) = {}
  BY <1>2, <1>3
<1>4. CASE Rows(t)' \ Rows(t) # {}
  <2>1. /\ PostNote /\ t = push.item.id
        /\ \A x \in Rows(t)' \ Rows(t) : push'.reply.id = x
    BY <1>1, <1>4, RowsStay
  <2>2. Rows(t) = {}
    BY <1>1, <2>1 DEF OnceInv, Undone, PostNote
  <2> QED
    BY <2>1, <2>2
<1> QED
  BY <1>3, <1>4

LEMMA QueueOnceStep ==
    ASSUME Shape, OnceInv, Next, Observe, push'.pc \in {"idle", "saved"},
           NEW q \in queue', q.operation = "create"
    PROVE  Undone(q.id)'
<1>1. TypeOK /\ ItemsApart
  BY DEF Shape
<1>2. q.id \in TempIds
  <2>1. IdsMatchKinds'
    BY MatchNext DEF Shape
  <2> QED
    BY <2>1 DEF IdsMatchKinds, QueueMatches, GoodItem
<1>3. CASE Restart
  <2>1. q \in queue /\ ~PostNote
    BY <1>1, <1>3, PushFacts, PostFacts DEF Restart, PushIs
  <2>2. q.id \in DoubtNow \/ Rows(q.id) = {}
    BY <1>2, <1>3, <2>1 DEF DoubtNow, IdsOf
  <2> QED
    BY <2>1, <2>2, UndoneStays DEF Undone
<1>4. CASE SaveFailed
  <2>1. Pushing /\ queue' = push.failed /\ ~PostNote
    BY <1>4 DEF SaveFailed, Pushing, PostNote
  <2> QED
    BY <2>1, UndoneStays DEF OnceInv, Creates
<1>5. ASSUME NEW u \in Screens, Enqueue(u), q.id = scr[u].item.id PROVE Undone(q.id)'
  <2>1. q.id \in DoubtNow \/ Rows(q.id) = {}
    BY <1>2, <1>5 DEF DoubtNow
  <2> QED
    BY <1>5, <2>1, UndoneStays DEF Undone, Enqueue, PostNote
<1>6. ASSUME q \in queue, ~Restart, ~SaveFailed PROVE Undone(q.id)'
  <2>1. push.pc \in {"idle", "saved"}
    <3>1. UNCHANGED push \/ Starts \/ PushStep
      BY <1>1, <1>6, PushSteps
    <3>2. ~PickItem /\ ~GoesOn /\ ~ItemDone /\ ~ItemFailed /\ ~Starts
      <4>1. ~PickItem
        BY <1>1, PickFacts DEF PushIs
      <4> QED
        BY <1>1, <4>1, PushFacts DEF GoesOn, PushIs, Starts
    <3> QED
      BY <1>1, <1>6, <3>1, <3>2, PushKinds
  <2> QED
    BY <1>6, <2>1, UndoneStays DEF OnceInv, Creates, PostNote
<1>7. ASSUME q \notin queue, ~SaveFailed PROVE \E u \in Screens : Enqueue(u) /\ q.id = scr[u].item.id
  <2>1. PICK u \in Screens : Enqueue(u) \/ FilterQueue(u)
    BY <1>7, QueueSteps
  <2>2. ~FilterQueue(u)
    BY <1>7 DEF FilterQueue
  <2>3. queue \in SUBSET Item /\ Distinct(queue) /\ scr[u].item \in Item
    BY <1>1, ParTypes DEF TypeOK, ItemsApart
  <2>4. queue' = enqueueOperation(queue, scr[u].item)
    BY <2>1, <2>2 DEF Enqueue
  <2> QED
    BY <1>7, <2>1, <2>2, <2>3, <2>4, EnqueueFacts
<1> QED
  BY <1>3, <1>4, <1>5, <1>6, <1>7

LEMMA PushOnceStep ==
    ASSUME Shape, OnceInv, Next, Observe, Pushing',
           NEW q \in push'.todo \cup push'.failed, q.operation = "create"
    PROVE  Undone(q.id)'
<1>1. TypeOK /\ ItemsApart /\ IdsMatchKinds /\ PushShape
  BY DEF Shape
<1>2. ASSUME q \in push.todo \cup push.failed, Pushing PROVE Undone(q.id)'
  <2>1. Undone(q.id)
    BY <1>2 DEF OnceInv, Creates
  <2>2. ~(PostNote /\ q.id = push.item.id)
    BY <1>1, <1>2 DEF ItemsApart, PostNote, Working
  <2> QED
    BY <2>1, <2>2, UndoneStays
<1>3. CASE UNCHANGED push
  BY <1>2, <1>3 DEF Pushing
<1>4. CASE Starts
  <2>1. q \in queue /\ push.pc = "idle" /\ ~PostNote
    BY <1>4 DEF Starts, PushIs, PostNote
  <2> QED
    BY <2>1, UndoneStays DEF OnceInv, Creates
<1>5. CASE PickItem
  BY <1>1, <1>2, <1>5, PickFacts DEF PushIs, Pushing
<1>6. CASE GoesOn
  BY <1>2, <1>6 DEF GoesOn, Pushing, Working
<1>7. CASE Working /\ ItemDone
  BY <1>1, <1>2, <1>7, PushFacts DEF PushIs, Pushing, Working
<1>8. CASE (PutAnyway \/ DeleteOnServer \/ CreateFailed) /\ Working /\ ItemFailed
  <2>1. q \in push.todo \cup push.failed \/ q = Again(push.item)
    BY <1>1, <1>8, PushFacts DEF PushIs
  <2>2. CASE q = Again(push.item)
    <3>1. q.id = push.item.id /\ push.item.operation = "create"
      BY <1>1, <2>2, AgainFacts
    <3>2. CreateFailed
      BY <1>1, <1>8, <3>1 DEF PutAnyway, DeleteOnServer, IdsMatchKinds, PushMatches, PushShape
    <3>3. q.id \in TempIds
      BY <1>1, <3>1, KindFacts DEF GoodItem
    <3>4. CASE Rows(q.id) # {}
      <4>1. q.id \in DoubtNow
        BY <3>1, <3>2, <3>3, <3>4 DEF DoubtNow
      <4> QED
        BY <4>1, UndoneStays
    <3>5. CASE Rows(q.id) = {}
      <4>1. ~PostNote
        BY <1>1, <1>8, PushFacts, PostFacts DEF PushIs
      <4> QED
        BY <3>5, <4>1, UndoneStays DEF Undone
    <3> QED
      BY <3>4, <3>5
  <2> QED
    BY <1>2, <1>8, <2>1, <2>2 DEF Pushing, Working
<1>9. push'.pc \notin {"idle", "saved"}
  BY DEF Pushing
<1>10. ~PushGo("saved") /\ ~(push' = IdlePush) /\ ~Restart
  BY <1>1, <1>9, PushFacts DEF PushIs, Restart
<1> QED
  BY <1>1, <1>3, <1>4, <1>5, <1>6, <1>7, <1>8, <1>10, PushSteps, PushKinds

LEMMA OnceStep ==
    ASSUME Shape, OnceInv, Next, Observe
    PROVE  OnceInv'
<1>1. TypeOK
  BY DEF Shape
<1>2. ASSUME NEW t, t = push'.item.id, push'.pc = "create" PROVE Undone(t)'
  <2>1. CASE UNCHANGED push
    <3>1. ~PostNote
      BY <1>1, <2>1, PostFacts
    <3> QED
      BY <1>2, <2>1, <3>1, UndoneStays DEF OnceInv
  <2>2. CASE PickItem
    <3>1. PICK item \in push.todo :
              push.pc = "next" /\ PushIs(item.operation, push.todo \ {item}, push.failed, item, push.reply)
      BY <1>1, <2>2, PickFacts
    <3>2. item \in Creates(push.todo \cup push.failed) /\ Pushing /\ t = item.id /\ ~PostNote
      BY <1>2, <3>1 DEF PushIs, Creates, Pushing, PostNote
    <3> QED
      BY <3>2, UndoneStays DEF OnceInv
  <2> QED
    BY <1>1, <1>2, <2>1, <2>2, PushPcs
<1>3. \A t \in TempIds \ past'.doubt : \A r, s \in Rows(t)' : r = s
  BY OneRowStep
<1>4. push'.pc \in {"idle", "saved"} => \A q \in Creates(queue)' : Undone(q.id)'
  BY QueueOnceStep DEF Creates
<1>5. Pushing' => \A q \in Creates(push.todo \cup push.failed)' : Undone(q.id)'
  BY PushOnceStep DEF Creates
<1> QED
  BY <1>2, <1>3, <1>4, <1>5 DEF OnceInv

LEMMA OnceHolds == PSpec => []OnceInv
<1>1. Init /\ InitPast => OnceInv
  BY DEF Init, InitPast, OnceInv, IdlePush, Creates, Pushing, Rows, NoRow, Undone
<1>2. Shape /\ OnceInv /\ [Next /\ Observe]_pvars => OnceInv'
  <2>1. OnceInv /\ UNCHANGED pvars => OnceInv'
    BY DEF pvars, vars, OnceInv, Creates, Pushing, Rows, Undone
  <2> QED
    BY <2>1, OnceStep
<1> QED
  BY <1>1, <1>2, ShapeHolds, PTL DEF PSpec

LEMMA AtMostOneEach == PSpec => []CreatedAtMostOnce
<1>1. OnceInv => CreatedAtMostOnce
  <2> SUFFICES ASSUME OnceInv, NEW t \in TempIds, t \notin past.doubt PROVE ~(Cardinality(Rows(t)) > 1)
    BY DEF CreatedAtMostOnce
  <2>1. \A r, s \in Rows(t) : r = s
    BY DEF OnceInv
  <2>2. CASE Rows(t) = {}
    BY <2>2, FS_EmptySet
  <2>3. ASSUME NEW r \in Rows(t) PROVE ~(Cardinality(Rows(t)) > 1)
    <3>1. Rows(t) = {r}
      BY <2>1
    <3> QED
      BY <3>1, FS_Singleton
  <2> QED
    BY <2>2, <2>3
<1> QED
  BY <1>1, OnceHolds, PTL

-------------------------------------------------------------------------------
(* A create taken out of the queue stays out *)

\* What a push has in hand came from the queue, or is the item it tried.
LEMMA InPushSteps ==
    ASSUME TypeOK, [Next]_vars, NEW q \in InPush'
    PROVE  \/ q \in queue /\ Starts
           \/ q \in InPush
           \/ q = Again(push.item) /\ push.item \in InPush
<1>1. CASE UNCHANGED push
  BY <1>1 DEF InPush
<1>2. CASE Starts
  BY <1>2 DEF Starts, PushIs, InPush
<1>3. CASE PickItem
  BY <1>3, PickFacts DEF PushIs, InPush
<1>4. CASE GoesOn
  BY <1>4 DEF GoesOn, InPush, Working
<1>5. CASE Working /\ ItemDone
  BY <1>5, PushFacts DEF PushIs, InPush, Working
<1>6. CASE Working /\ ItemFailed
  BY <1>6, PushFacts DEF PushIs, InPush, Working
<1>7. CASE PushGo("saved") \/ push' = IdlePush
  BY <1>7, PushFacts DEF PushIs, InPush
<1>8. Restart => push' = IdlePush
  BY DEF Restart
<1> QED
  BY <1>1, <1>2, <1>3, <1>4, <1>5, <1>6, <1>7, <1>8, PushSteps, PushKinds

\* What is queued was queued, comes back from a push, or is enqueued now.
LEMMA QueueSources ==
    ASSUME Shape, [Next]_vars, NEW q \in queue'
    PROVE  \/ q \in queue
           \/ SaveFailed /\ q \in push.failed /\ push.failed \subseteq InPush
           \/ \E u \in Screens :
                /\ Enqueue(u) /\ q.id = scr[u].item.id /\ q.payload = scr[u].item.payload
                /\ \/ q = scr[u].item
                   \/ \E o \in queue : /\ o.id = q.id
                                       /\ q.operation = IF scr[u].item.operation = "delete" THEN "delete"
                                                        ELSE o.operation
<1>1. TypeOK /\ ItemsApart
  BY DEF Shape
<1>2. CASE SaveFailed
  BY <1>2 DEF SaveFailed, InPush
<1>3. ASSUME NEW u \in Screens, FilterQueue(u) PROVE q \in queue
  BY <1>3 DEF FilterQueue
<1>4. ASSUME NEW u \in Screens, Enqueue(u)
      PROVE  \/ q \in queue
             \/ /\ Enqueue(u) /\ q.id = scr[u].item.id /\ q.payload = scr[u].item.payload
                /\ \/ q = scr[u].item
                   \/ \E o \in queue : /\ o.id = q.id
                                       /\ q.operation = IF scr[u].item.operation = "delete" THEN "delete"
                                                        ELSE o.operation
  <2>1. queue \in SUBSET Item /\ Distinct(queue) /\ scr[u].item \in Item
    BY <1>1, ParTypes DEF TypeOK, ItemsApart
  <2>2. queue' = enqueueOperation(queue, scr[u].item)
    BY <1>4 DEF Enqueue
  <2> QED
    BY <1>4, <2>1, <2>2, EnqueueFacts
<1> QED
  BY <1>2, <1>3, <1>4, QueueSteps

\* What a screen's operation is about, after a step.
LEMMA ScreenSources ==
    ASSUME Shape, [Next]_vars, NEW u \in Screens, scr'[u].pc # "idle"
    PROVE  \/ scr[u].pc # "idle" /\ scr'[u].item = scr[u].item
           \/ createNoteOffline(u) /\ scr'[u].item.id \in TempIds \ born
           \/ updateNoteOffline(u) /\ scr'[u].item.id \in IdsOf(local)
           \/ (deleteNoteOffline(u) \/ deleteNote(u)) /\ scr'[u].item.operation = "delete"
<1>1. TypeOK
  BY DEF Shape
<1>2. CASE createNoteOffline(u)
  BY <1>1, <1>2, CreateFacts DEF ScreenIs
<1>3. CASE updateNoteOffline(u) /\ scr' # scr
  BY <1>1, <1>3, UpdateFacts DEF ScreenIs, IdsOf
<1>4. CASE (deleteNoteOffline(u) \/ deleteNote(u)) /\ scr' # scr
  BY <1>1, <1>4, DeleteFacts, DeleteItemFacts DEF DeleteFrom, ScreenIs
<1>5. CASE UNCHANGED scr
  BY <1>5
<1>6. CASE \E v \in Screens : UserOp(v) \/ ScreenStep(v)
  <2>1. PICK v \in Screens : UserOp(v) \/ ScreenStep(v)
    BY <1>6
  <2>2. CASE v # u
    BY <1>1, <2>1, <2>2, OwnStep
  <2>3. CASE v = u
    BY <1>1, <1>2, <1>3, <1>4, <1>5, <2>1, <2>3, OwnStep DEF SaveLocally, Enqueue, DeleteTail
  <2> QED
    BY <2>2, <2>3
<1>7. CASE FinishPush \/ Restart
  <2>1. \/ scr' = scr \/ (push.caller \in Screens /\ scr' = [scr EXCEPT ![push.caller] = IdleScreen])
        \/ scr' = [v \in Screens |-> IdleScreen]
    BY <1>7 DEF FinishPush, Done, Restart
  <2> QED
    BY <1>1, <2>1 DEF TypeOK, IdleScreen
<1> QED
  BY <1>5, <1>6, <1>7, ScreenSteps DEF vars

LEMMA GoneStays ==
    ASSUME Shape, [Next]_vars, NEW t \in TempIds, Gone(t)
    PROVE  Gone(t)'
<1>1. /\ TypeOK /\ PushShape /\ t \in born /\ Rows(t) = {} /\ t \notin IdsOf(local)
      /\ \A u \in Screens : scr[u].pc # "idle" /\ scr[u].item.id = t => scr[u].item.operation = "delete"
      /\ \A q \in queue \cup InPush : q.id = t => q.operation = "delete"
  BY DEF Shape, Gone
<1>2. t \in born'
  BY <1>1, BornGrows
<1>3. Rows(t)' = {}
  <2>1. PostNote /\ t = push.item.id => FALSE
    BY <1>1 DEF PostNote, PushShape, InPush
  <2> QED
    BY <1>1, <2>1, RowsStay
<1>4. t \notin IdsOf(local')
  <2>1. ASSUME NEW n \in local', n.id = t PROVE FALSE
    <3>1. n \notin local
      BY <1>1, <2>1 DEF IdsOf
    <3>2. PICK u \in Screens : SaveLocally(u) /\ n = scr[u].note
      BY <2>1, <3>1, NewNotes
    <3> QED
      BY <1>1, <2>1, <3>2 DEF SaveLocally, Shape, ScreenShape
  <2> QED
    BY <2>1 DEF IdsOf
<1>5. ASSUME NEW u \in Screens, scr'[u].pc # "idle", scr'[u].item.id = t
      PROVE  scr'[u].item.operation = "delete"
  BY <1>1, <1>5, ScreenSources
<1>6. ASSUME NEW q \in queue', q.id = t PROVE q.operation = "delete"
  BY <1>1, <1>6, QueueSources DEF Enqueue
<1>7. ASSUME NEW q \in InPush', q.id = t PROVE q.operation = "delete"
  BY <1>1, <1>7, InPushSteps, AgainFacts
<1> QED
  BY <1>2, <1>3, <1>4, <1>5, <1>6, <1>7 DEF Gone

LEMMA DroppedStep ==
    ASSUME Shape, DroppedInv, Next, Observe
    PROVE  DroppedInv'
<1>1. past'.dropped = past.dropped \cup DroppedNow
  BY DEF Observe
<1>2. ASSUME NEW t \in past.dropped PROVE t \in TempIds /\ Gone(t)'
  BY <1>2, GoneStays DEF DroppedInv
<1>3. ASSUME NEW t \in DroppedNow PROVE t \in TempIds /\ Gone(t)'
  <2>1. t \in TempIds /\ TypeOK
    BY DEF DroppedNow, Shape
  <2>2. PICK u \in Screens : FilterQueue(u) /\ scr[u].item.id = t /\ Untried(t, u)
    BY DEF DroppedNow
  <2>3. /\ UNCHANGED <<server, local, push, born>> /\ queue' = {q \in queue : q.id # t}
        /\ scr'[u].pc = "idle" /\ \A v \in Screens \ {u} : scr'[v] = scr[v]
    BY <2>1, <2>2, ScreenFacts DEF FilterQueue, ScreenIs
  <2>4. t \in born
    BY <2>1, <2>2 DEF FilterQueue, Shape, TempsBorn
  <2>5. Rows(t) = {} /\ t \notin IdsOf(local) /\ \A q \in InPush : q.id # t
    BY <2>2 DEF Untried, IdsOf
  <2>6. \A v \in Screens \ {u} : scr[v].pc = "idle" \/ scr[v].item.id # t
    BY <2>2 DEF Untried
  <2> QED
    BY <2>1, <2>3, <2>4, <2>5, <2>6 DEF Gone, Rows, InPush
<1> QED
  BY <1>1, <1>2, <1>3 DEF DroppedInv

LEMMA DroppedStaysDropped == PSpec => []DroppedNeverCreated
<1>1. Init /\ InitPast => DroppedInv
  BY DEF InitPast, DroppedInv
<1>2. Shape /\ DroppedInv /\ [Next /\ Observe]_pvars => DroppedInv'
  <2>1. DroppedInv /\ UNCHANGED pvars => DroppedInv'
    BY DEF pvars, vars, DroppedInv, Gone, Rows, InPush
  <2> QED
    BY <2>1, DroppedStep
<1>3. DroppedInv => DroppedNeverCreated
  BY DEF DroppedInv, Gone, DroppedNeverCreated
<1> QED
  BY <1>1, <1>2, <1>3, ShapeHolds, PTL DEF PSpec

\* One note made on the device becomes one note on the server, except in the
\* cases DoubtNow lists, for what is still to be posted at any point of a push
\* has not been posted yet; and one whose create deleteNoteOffline took out of
\* the queue, no push having it, never gets there.
THEOREM NotesMadeOnce == PSpec => []CreatedOnce
BY AtMostOneEach, DroppedStaysDropped, PTL DEF CreatedOnce

-------------------------------------------------------------------------------
(* A temp id leads to its note *)

\* A screen starts to delete.
Removes(u) == deleteNoteOffline(u) \/ deleteNote(u)

\* The ways a local-only note can leave the store.
LEMMA TempsStay ==
    ASSUME Shape, [Next]_vars, NEW t \in TempIds, t \in IdsOf(local), t \notin IdsOf(local')
    PROVE  \/ push'.pc = "aliasing" /\ push'.item.id = t
           \/ \E u \in Screens : Removes(u) /\ t \notin handle'
           \/ FinishPush /\ push.caller \in Screens /\ scr[push.caller].item.id = t
           \/ \E u \in Screens : DeleteTail(u) /\ scr[u].item.id = t
<1>1. TypeOK /\ IdsMatchKinds /\ PushShape /\ TempNotes /\ t \notin Known
  BY KindFacts DEF Shape
<1>2. PICK n \in local : n.id = t
  BY DEF IdsOf
<1>3. n \notin local' /\ \A m \in local' : m.id # t
  BY <1>2 DEF IdsOf
<1>4. CASE SwapId
  <2>1. push.item.id \in IdsOf(local)
    BY <1>3, <1>4 DEF SwapId, IdsOf
  <2>2. PICK o \in local, m \in Note :
            o.id = push.item.id /\ local' = (local \ {o}) \cup {m} /\ PushGo("aliasing")
    BY <1>1, <1>4, <2>1, SwapFacts
  <2>3. n = o
    BY <1>2, <1>3, <2>2
  <2> QED
    BY <1>1, <1>2, <2>2, <2>3, PushFacts DEF PushIs
<1>5. CASE Compare
  <2>1. CASE local' \in upsertLocalNote(local, push.reply)
    BY <1>2, <1>3, <2>1, UpsertFacts
  <2> QED
    BY <1>3, <1>5, <2>1 DEF Compare
<1>6. CASE FinishPush
  BY <1>2, <1>3, <1>6, DeleteLocalFacts DEF FinishPush
<1>7. CASE MergePull
  <2>1. OnlyOne(local, n) /\ ~n.pendingDelete /\ n.isLocal
    BY <1>1, <1>2, KindFacts DEF TempNotes, OnlyOne
  <2> QED
    BY <1>3, <1>7, <2>1, LocalOnlySurvives DEF MergePull
<1>8. ASSUME NEW u \in Screens, SaveLocally(u) PROVE FALSE
  BY <1>2, <1>3, <1>8, UpsertFacts DEF SaveLocally
<1>9. ASSUME NEW u \in Screens, Removes(u) PROVE t \notin handle'
  <2>1. PICK i : Forget(i) /\ DeleteFrom(u, i)
    BY <1>1, <1>9, DeleteFacts DEF Removes
  <2>2. CASE local' = deleteLocalNote(local, i)
    BY <1>2, <1>3, <2>1, <2>2, DeleteLocalFacts DEF Forget
  <2>3. CASE local' = markPendingDelete(local, i)
    BY <1>1, <1>2, <1>3, <2>3, MarkFacts DEF TypeOK
  <2> QED
    BY <2>1, <2>2, <2>3 DEF DeleteFrom
<1>10. ASSUME NEW u \in Screens, DeleteTail(u) PROVE scr[u].item.id = t
  BY <1>2, <1>3, <1>10, DeleteLocalFacts DEF DeleteTail, Call
<1> QED
  BY <1>3, <1>4, <1>5, <1>6, <1>7, <1>8, <1>9, <1>10, LocalSteps DEF Removes

\* A temp id that leads somewhere goes on doing so, unless it is deleted.
LEMMA LeadsStays ==
    ASSUME Shape, HandleInv, Next, Observe, NEW t \in TempIds \ (past.doubt \cup past.crossed),
           Leads(t), ~Restart
    PROVE  \/ Leads(t)'
           \/ t \in IdsOf(local) \ IdsOf(local') /\ t \notin handle' /\ \E u \in Screens : Removes(u)
<1>1. TypeOK /\ PushShape /\ AliasShape /\ CallerWaits /\ \A u \in Screens : ScreenShape(u)
  BY DEF Shape
<1>2. CASE t \in IdsOf(local) /\ t \notin IdsOf(local')
  <2>1. ~(FinishPush /\ push.caller \in Screens /\ scr[push.caller].item.id = t)
    BY <1>1, <1>2 DEF CallerWaits, ScreenShape, HandleInv
  <2>2. \A u \in Screens : ~(DeleteTail(u) /\ scr[u].item.id = t)
    BY <1>1, <1>2 DEF ScreenShape, HandleInv, DeleteTail
  <2> QED
    BY <1>2, <2>1, <2>2, TempsStay DEF Leads
<1>3. CASE t \in IdsOf(local')
  BY <1>3 DEF Leads
<1>4. CASE alias[t] \in Rows(t)
  <2>1. alias'[t] = alias[t] \/ SetAlias
    BY AliasSteps
  <2>2. CASE SetAlias
    <3>1. CASE t = push.item.id
      BY <1>1, <2>2, <3>1, RowsStay DEF SetAlias, PushShape, TypeOK, Leads
    <3>2. CASE t # push.item.id
      BY <1>1, <1>4, <2>2, <3>2, RowsStay DEF SetAlias, TypeOK, Leads
    <3> QED
      BY <3>1, <3>2
  <2> QED
    BY <1>1, <1>4, <2>1, <2>2, RowsStay DEF Leads
<1>5. CASE push.pc = "aliasing" /\ push.item.id = t
  <2>1. CASE UNCHANGED push
    BY <1>5, <2>1 DEF Leads
  <2>2. CASE SetAlias
    BY <1>1, <1>5, <2>2, RowsStay DEF SetAlias, PushShape, TypeOK, Leads
  <2>3. UNCHANGED push \/ SetAlias
    <3>1. UNCHANGED push \/ Starts \/ PushStep
      BY <1>1, PushSteps
    <3> QED
      BY <1>5, <3>1 DEF Starts, PushStep, PickItem, PostNote, SwapId, GetNote, Compare, PutNote, PutAnyway,
         DeleteOnServer, CreateFailed, SaveFailed, FinishPush
  <2> QED
    BY <2>1, <2>2, <2>3
<1> QED
  BY <1>2, <1>3, <1>4, <1>5 DEF Leads

LEMMA HandleKept ==
    ASSUME Shape, HandleInv, Next, Observe,
           NEW t \in TempIds, t \notin past'.doubt, t \notin past'.crossed, t \in handle'
    PROVE  Leads(t)'
<1>1. t \notin past.doubt /\ t \notin past.crossed /\ TypeOK
  BY DEF Observe, Shape
<1>2. ~Restart
  BY DEF Restart
<1>3. Leads(t)
  <2>1. CASE t \in handle
    BY <1>1, <2>1 DEF HandleInv
  <2>2. CASE t \notin handle
    <3>1. PICK u \in Screens : Enqueue(u) /\ t = scr[u].item.id /\ scr[u].item.operation # "delete"
      BY <2>2, HandleSteps
    <3> QED
      BY <1>1, <3>1 DEF HandleInv, Enqueue
  <2> QED
    BY <2>1, <2>2
<1> QED
  BY <1>1, <1>2, <1>3, LeadsStays

LEMMA SaverKept ==
    ASSUME Shape, HandleInv, Next, Observe,
           NEW t \in TempIds, t \notin past'.doubt, t \notin past'.crossed,
           NEW u \in Screens, scr'[u].item.id = t, scr'[u].pc = "enqueue", scr'[u].item.operation # "delete"
    PROVE  Leads(t)'
<1>1. t \notin past.doubt /\ t \notin past.crossed /\ TypeOK
  BY DEF Observe, Shape
<1>2. ~Restart
  BY DEF Restart, IdleScreen
<1>3. CASE scr'[u] = scr[u]
  <2>1. Leads(t)
    BY <1>1, <1>3 DEF HandleInv
  <2>2. CASE t \in IdsOf(local) \ IdsOf(local') /\ \E v \in Screens : Removes(v)
    <3>1. t \in CrossedNow
      BY <1>3, <2>2 DEF CrossedNow, Removes
    <3> QED
      BY <3>1 DEF Observe
  <2> QED
    BY <1>1, <1>2, <2>1, <2>2, LeadsStays
<1>4. CASE SaveLocally(u)
  <2>1. scr[u].note.id = t
    BY <1>1, <1>4, ScreenFacts DEF SaveLocally, ScreenIs, Shape, ScreenShape
  <2>2. \E m \in local' : m.id = t
    BY <1>4, <2>1, UpsertFacts DEF SaveLocally
  <2> QED
    BY <2>2 DEF Leads, IdsOf
<1>5. scr'[u] = scr[u] \/ SaveLocally(u)
  <2>1. \A v \in Screens \ {u} : UserOp(v) \/ ScreenStep(v) => scr'[u] = scr[u]
    BY <1>1, OwnStep
  <2>2. UserOp(u) \/ ScreenStep(u) => scr'[u] = scr[u] \/ SaveLocally(u)
    <3>1. Removes(u) /\ scr' # scr => scr'[u].item.operation = "delete"
      BY <1>1, DeleteFacts, DeleteItemFacts DEF DeleteFrom, ScreenIs, Removes
    <3> QED
      BY <1>1, <3>1, OwnStep DEF Removes
  <2>3. FinishPush => scr'[u] = scr[u]
    BY <1>1 DEF FinishPush, Done, IdleScreen, TypeOK
  <2> QED
    BY <1>2, <2>1, <2>2, <2>3, ScreenSteps
<1> QED
  BY <1>3, <1>4, <1>5

LEMMA DeleterKept ==
    ASSUME Shape, HandleInv, Next, Observe,
           NEW t \in TempIds, t \notin past'.doubt, t \notin past'.crossed,
           NEW u \in Screens, scr'[u].item.id = t, scr'[u].pc \in {"enqueue", "deleteTail", "pushing"},
           scr'[u].item.operation = "delete"
    PROVE  t \notin IdsOf(local') /\ Rows(t)' # {}
<1>1. /\ t \notin past.doubt /\ t \notin past.crossed /\ TypeOK /\ AliasShape /\ PushShape
      /\ IdsMatchKinds /\ ScreenShape(u)
  BY DEF Observe, Shape
<1>2. CASE t \notin IdsOf(local) /\ Rows(t) # {}
  <2>1. ASSUME t \in IdsOf(local') PROVE FALSE
    <3>1. PICK n \in local' : n.id = t /\ n \notin local
      BY <1>2, <2>1 DEF IdsOf
    <3>2. PICK v \in Screens : SaveLocally(v) /\ n = scr[v].note
      BY <3>1, NewNotes
    <3>3. t \in DoubtNow
      BY <1>2, <3>1, <3>2 DEF DoubtNow, SaveLocally, Shape, ScreenShape
    <3> QED
      BY <3>3 DEF Observe
  <2> QED
    BY <1>1, <1>2, <2>1, RowsStay
<1>3. CASE Removes(u) /\ scr' # scr
  <2>1. PICK j \in Visible : \E i \in {j, resolveNoteId(j)} : DeleteFrom(u, i)
    BY <1>1, <1>3, DeleteFacts DEF Removes
  <2>2. PICK i \in {j, resolveNoteId(j)} : DeleteFrom(u, i)
    BY <2>1
  <2>3. i = t /\ \A n \in local : n.id = t => ~n.isLocal
    BY <1>3, <2>2, DeleteItemFacts DEF DeleteFrom, ScreenIs
  <2>4. t \notin IdsOf(local)
    BY <1>1, <2>3, KindFacts DEF IdsOf
  <2>5. j = t
    BY <1>1, <2>2, <2>3, IdsDisjoint DEF resolveNoteId, AliasShape, Rows
  <2>6. t \in handle
    BY <2>4, <2>5 DEF Visible, IdsOf
  <2>7. Rows(t) # {}
    BY <1>1, <2>4, <2>6 DEF HandleInv, Leads, PushShape
  <2> QED
    BY <1>2, <2>4, <2>7
<1>4. ASSUME scr[u].item = scr'[u].item, scr[u].pc \in {"enqueue", "deleteTail", "pushing"}
      PROVE  t \notin IdsOf(local) /\ Rows(t) # {}
  BY <1>1, <1>4 DEF HandleInv
<1>5. \/ Removes(u) /\ scr' # scr
      \/ scr[u].item = scr'[u].item /\ scr[u].pc \in {"enqueue", "deleteTail", "pushing"}
  <2>1. \A v \in Screens \ {u} : UserOp(v) \/ ScreenStep(v) => scr'[u] = scr[u]
    BY <1>1, OwnStep
  <2>2. CASE UserOp(u) \/ ScreenStep(u)
    BY <1>1, <2>2, OwnStep DEF Removes, Enqueue, DeleteTail, SaveLocally, ScreenShape
  <2>3. ~Restart
    BY DEF Restart, IdleScreen
  <2>4. FinishPush => scr'[u] = scr[u]
    BY <1>1 DEF FinishPush, Done, IdleScreen, TypeOK
  <2> QED
    BY <2>1, <2>2, <2>3, <2>4, ScreenSteps
<1> QED
  BY <1>2, <1>3, <1>4, <1>5

LEMMA HandleStep ==
    ASSUME Shape, HandleInv, Next, Observe
    PROVE  HandleInv'
<1> SUFFICES ASSUME NEW t \in TempIds, t \notin past'.doubt, t \notin past'.crossed
             PROVE  /\ t \in handle' => Leads(t)'
                    /\ \A u \in Screens : scr'[u].item.id = t =>
                         /\ scr'[u].pc = "enqueue" /\ scr'[u].item.operation # "delete" => Leads(t)'
                         /\ scr'[u].pc \in {"enqueue", "deleteTail", "pushing"}
                              /\ scr'[u].item.operation = "delete" => t \notin IdsOf(local') /\ Rows(t)' # {}
  BY DEF HandleInv
<1> QED
  BY HandleKept, SaverKept, DeleterKept

\* A temp id a screen still holds leads to the note it became: the alias is
\* there whenever the swapped note is, except while the swap is being written.
THEOREM HandlesLead == PSpec => []HandleLeadsToNote
<1>1. Init /\ InitPast => HandleInv
  BY DEF Init, HandleInv, IdleScreen
<1>2. Shape /\ HandleInv /\ [Next /\ Observe]_pvars => HandleInv'
  <2>1. HandleInv /\ UNCHANGED pvars => HandleInv'
    BY DEF pvars, vars, HandleInv, Leads, Rows
  <2> QED
    BY <2>1, HandleStep
<1>3. Shape /\ OnceInv /\ HandleInv => HandleLeadsToNote
  <2> SUFFICES ASSUME Shape, OnceInv, HandleInv, NEW t \in handle, t \notin past.doubt, t \notin past.crossed,
                      push.pc # "aliasing", NEW n \in local, n.id \in Rows(t)
               PROVE  alias[t] \in IdsOf(local)
    BY DEF HandleLeadsToNote, resolveNoteId, Shape, TypeOK
  <2>1. t \in TempIds /\ (alias[t] = t \/ alias[t] \in Rows(t)) /\ t \notin Rows(t)
    BY IdsDisjoint DEF Shape, TypeOK, AliasShape, Rows
  <2>2. t \in IdsOf(local) \/ alias[t] \in Rows(t)
    BY <2>1 DEF HandleInv, Leads
  <2>3. alias[t] \in Rows(t) => alias[t] = n.id
    BY <2>1 DEF OnceInv
  <2> QED
    BY <2>1, <2>2, <2>3 DEF IdsOf
<1> QED
  BY <1>1, <1>2, <1>3, ShapeHolds, OnceHolds, PTL DEF PSpec

-------------------------------------------------------------------------------
(* Deletes reach the server, or their loss has a name *)

\* A failed item comes back until its last retry.
LEMMA FailedStays ==
    ASSUME TypeOK, ItemFailed
    PROVE  push'.pc = "next" /\ (push.item.retries >= MAX_RETRIES \/ Again(push.item) \in InPush')
<1>1. push.item.retries \in Nat /\ MAX_RETRIES \in Nat
  BY ParTypes, BoundsAreNat
<1>2. /\ push'.pc = "next"
      /\ push'.failed = IF push.item.retries < MAX_RETRIES
                        THEN push.failed \cup {Again(push.item)} ELSE push.failed
  BY PushFacts DEF PushIs
<1> QED
  BY <1>1, <1>2 DEF InPush

\* An item a push has stays with it, is done, or comes back with one more retry.
LEMMA PushedStays ==
    ASSUME TypeOK, [Next]_vars, Pushing, Pushing', NEW q \in InPush
    PROVE  \/ q \in InPush'
           \/ /\ q = push.item /\ ItemDone
              /\ SwapId \/ SetAlias \/ Compare \/ PutNote \/ PutAnyway \/ DeleteOnServer
           \/ /\ q = push.item /\ ItemFailed /\ push'.pc = "next"
              /\ PutAnyway \/ DeleteOnServer \/ CreateFailed
              /\ push.item.retries >= MAX_RETRIES \/ Again(push.item) \in InPush'
<1>1. CASE UNCHANGED push
  BY <1>1 DEF InPush
<1>2. CASE PickItem
  BY <1>2, PickFacts DEF PushIs, InPush, Pushing
<1>3. CASE GoesOn
  BY <1>3 DEF GoesOn, InPush, Working
<1>4. ASSUME Working, ItemDone PROVE q \in InPush' \/ q = push.item
  BY <1>4, PushFacts DEF PushIs, InPush, Working
<1>5. ASSUME Working, ItemFailed PROVE q \in InPush' \/ q = push.item
  BY <1>5, PushFacts DEF PushIs, InPush, Working
<1>6. ~Starts /\ ~PushGo("saved") /\ ~(push' = IdlePush) /\ ~Restart
  BY PushFacts DEF PushIs, Restart, Pushing, Starts
<1> QED
  BY <1>1, <1>2, <1>3, <1>4, <1>5, <1>6, FailedStays, PushSteps, PushKinds

\* What is about to be enqueued is enqueued, waits, or is lost in a restart.
LEMMA AwaitingStays ==
    ASSUME Shape, [Next]_vars, NEW u \in Screens, scr[u].pc = "enqueue"
    PROVE  scr'[u] = scr[u] \/ Enqueue(u) \/ (Restart /\ scr[u].item.id \in AwaitsEnqueue)
<1>1. TypeOK /\ CallerWaits
  BY DEF Shape
<1>2. \A v \in Screens : UserOp(v) \/ ScreenStep(v) => scr'[u] = scr[u] \/ Enqueue(u)
  BY <1>1, OwnStep DEF createNoteOffline, updateNoteOffline, deleteNoteOffline, deleteNote, SaveLocally,
     FilterQueue, DeleteTail
<1>3. FinishPush => scr'[u] = scr[u]
  BY <1>1 DEF FinishPush, Done, IdleScreen, TypeOK, CallerWaits
<1>4. scr[u].item.id \in AwaitsEnqueue
  BY DEF AwaitsEnqueue
<1> QED
  BY <1>2, <1>3, <1>4, ScreenSteps DEF vars

\* A delete of a server's note in the queue is still one after any step but the
\* write-back of a push.
LEMMA QueuedDeleteStays ==
    ASSUME Shape, [Next]_vars, NEW s \in ServerIds, HasDelete(queue, s), ~SaveFailed
    PROVE  HasDelete(queue', s)
<1>1. TypeOK /\ ItemsApart /\ IdsMatchKinds
  BY DEF Shape
<1>2. PICK q \in queue : q.id = s /\ q.operation = "delete"
  BY DEF HasDelete
<1>3. ASSUME NEW u \in Screens, FilterQueue(u) PROVE q \in queue'
  BY <1>1, <1>2, <1>3, IdsDisjoint DEF FilterQueue, Shape, ScreenShape
<1>4. ASSUME NEW u \in Screens, Enqueue(u) PROVE HasDelete(queue', s)
  <2>1. queue \in SUBSET Item /\ Distinct(queue) /\ scr[u].item \in Item
    BY <1>1, ParTypes DEF TypeOK, ItemsApart
  <2>2. queue' = enqueueOperation(queue, scr[u].item)
    BY <1>4 DEF Enqueue
  <2>3. CASE scr[u].item.id # s
    BY <1>2, <2>1, <2>2, <2>3, EnqueueFacts DEF HasDelete
  <2>4. CASE scr[u].item.id = s
    <3>1. PICK p \in queue' : p.id = s
      BY <1>2, <2>1, <2>2, <2>4, EnqueueFacts
    <3>2. s \in IdsOf(queue)
      BY <1>2 DEF IdsOf
    <3>3. PICK o \in queue :
              /\ o.id = s
              /\ p.operation = IF scr[u].item.operation = "delete" THEN "delete" ELSE o.operation
      BY <2>1, <2>2, <2>4, <3>1, <3>2, EnqueueFacts
    <3>4. o = q
      BY <1>2, <2>1, <3>3 DEF Distinct
    <3> QED
      BY <1>2, <3>1, <3>3, <3>4 DEF HasDelete
  <2> QED
    BY <2>3, <2>4
<1> QED
  BY <1>2, <1>3, <1>4, QueueSteps DEF HasDelete

\* A delete that is enqueued is in the queue.
LEMMA DeleteEnqueued ==
    ASSUME Shape, NEW u \in Screens, Enqueue(u), scr[u].item.operation = "delete",
           scr[u].item.id \in ServerIds
    PROVE  HasDelete(queue', scr[u].item.id)
<1>1. TypeOK /\ ItemsApart /\ IdsMatchKinds
  BY DEF Shape
<1>2. queue \in SUBSET Item /\ Distinct(queue) /\ scr[u].item \in Item
  BY <1>1, ParTypes DEF TypeOK, ItemsApart
<1>3. queue' = enqueueOperation(queue, scr[u].item)
  BY DEF Enqueue
<1>4. \A o \in queue : o.id = scr[u].item.id => o.operation # "create"
  BY <1>1, KindFacts, IdsDisjoint DEF GoodItem
<1>5. \E q \in queue' : q.id = scr[u].item.id
  <2>1. CASE scr[u].item.id \in IdsOf(queue)
    <3>1. PICK o \in queue : o.id = scr[u].item.id
      BY <2>1 DEF IdsOf
    <3> QED
      BY <1>2, <1>3, <1>4, <3>1, EnqueueFacts
  <2>2. CASE scr[u].item.id \notin IdsOf(queue)
    BY <1>2, <1>3, <2>2, EnqueueFacts
  <2> QED
    BY <2>1, <2>2
<1>6. \A q \in queue' : q.id = scr[u].item.id => q.operation = "delete"
  BY <1>2, <1>3, EnqueueFacts
<1> QED
  BY <1>5, <1>6 DEF HasDelete

LEMMA PushedDeletesQueued ==
    ASSUME Shape, DeletesInv, [Next]_vars, NEW s \in ServerIds, HasDelete(InPush', s)
    PROVE  HasDelete(queue', s)
<1>1. PICK q \in InPush' : q.id = s /\ q.operation = "delete"
  BY DEF HasDelete
<1>2. TypeOK
  BY DEF Shape
<1>3. ~SaveFailed
  <2>1. SaveFailed => push'.pc = "saved"
    BY <1>2, PushFacts DEF SaveFailed, PushIs
  <2> QED
    BY <1>1, <2>1 DEF InPush
<1>4. HasDelete(queue, s)
  <2>1. CASE q \in queue
    BY <1>1, <2>1 DEF HasDelete
  <2>2. CASE HasDelete(InPush, s)
    BY <2>2 DEF DeletesInv
  <2> QED
    BY <1>1, <1>2, <2>1, <2>2, InPushSteps, AgainFacts DEF HasDelete
<1> QED
  BY <1>3, <1>4, QueuedDeleteStays

\* What the history says of a step.
LEMMA ObserveFacts ==
    ASSUME Observe
    PROVE  /\ \A i : i \notin past'.exposed =>
                i \notin ThrownNow /\ (i \notin past.exposed \/ i \in CoveredNow)
           /\ Pushing' => past.late \subseteq past'.late
           /\ Pushing' /\ Pushing => \A u \in Screens : Enqueue(u) => scr[u].item.id \in past'.late
  BY DEF Observe, LateNow, Pushing, EnqueuedNow

\* Who was to enqueue a delete still is, or has done it.
LEMMA WillDeleteStays ==
    ASSUME Shape, Next, NEW s \in ServerIds, WillDelete(s), s \notin ThrownNow
    PROVE  \/ WillDelete(s)'
           \/ HasDelete(queue', s) /\ UNCHANGED push /\ \E u \in Screens : Enqueue(u) /\ scr[u].item.id = s
<1>1. PICK u \in Screens : scr[u].pc = "enqueue" /\ scr[u].item.id = s /\ scr[u].item.operation = "delete"
  BY DEF WillDelete
<1>2. ~(Restart /\ scr[u].item.id \in AwaitsEnqueue)
  BY <1>1 DEF ThrownNow
<1>3. CASE scr'[u] = scr[u]
  BY <1>1, <1>3 DEF WillDelete
<1>4. CASE Enqueue(u)
  BY <1>1, <1>4, DeleteEnqueued DEF Enqueue
<1> QED
  BY <1>1, <1>2, <1>3, <1>4, AwaitingStays

\* A delete a push has in hand is sent, comes back, or is thrown away.
LEMMA PushedDeleteStays ==
    ASSUME Shape, Next, Pushing, Pushing', NEW s \in ServerIds, HasDelete(InPush, s),
           s \notin ThrownNow, Live(s)'
    PROVE  HasDelete(InPush', s)
<1>1. TypeOK /\ IdsMatchKinds /\ PushShape
  BY DEF Shape
<1>2. PICK q \in InPush : q.id = s /\ q.operation = "delete"
  BY DEF HasDelete
<1>3. CASE q \in InPush'
  BY <1>2, <1>3 DEF HasDelete
<1>4. CASE q = push.item
  <2>1. ~SwapId /\ ~SetAlias /\ ~Compare /\ ~PutNote /\ ~PutAnyway /\ ~CreateFailed
    BY <1>1, <1>2, <1>4 DEF PushShape, IdsMatchKinds, PushMatches, SwapId, SetAlias, Compare, PutNote,
       PutAnyway, CreateFailed
  <2>2. CASE DeleteOnServer
    <3>1. UNCHANGED server /\ ItemFailed
      <4>1. Live(push.item.id) /\ server' = [server EXCEPT ![push.item.id].state = "gone"] => ~Live(s)'
        BY <1>1, <1>2, <1>4, ServerFacts DEF Removed, Live
      <4> QED
        BY <2>2, <4>1 DEF DeleteOnServer
    <3>2. ~(push.item.retries >= MAX_RETRIES)
      BY <1>1, <1>2, <1>4, <2>2, <3>1, FailedStays DEF ThrownNow, Dropping
    <3> QED
      BY <1>1, <1>2, <1>4, <3>1, <3>2, FailedStays, AgainFacts DEF HasDelete
  <2> QED
    BY <1>1, <1>3, <2>1, <2>2, PushedStays
<1> QED
  BY <1>1, <1>3, <1>4, PushedStays

\* A push that starts takes the whole queue.
LEMMA PushStarts ==
    ASSUME TypeOK, [Next]_vars, ~Pushing, Pushing'
    PROVE  InPush' = queue /\ UNCHANGED queue /\ push.pc = "idle"
<1>1. Starts
  <2>1. ~PickItem /\ ~SaveFailed
    BY DEF PickItem, SaveFailed, Pushing
  <2>2. ~GoesOn /\ ~Working /\ ~(push' = IdlePush) /\ ~UNCHANGED push /\ ~Restart
    BY PushFacts DEF GoesOn, Working, Pushing, PushIs, Restart
  <2> QED
    BY <2>1, <2>2, PushSteps, PushKinds
<1> QED
  BY <1>1 DEF Starts, PushIs, InPush

LEMMA DeletesStart ==
    ASSUME Shape, NEW u \in Screens, deleteNoteOffline(u) \/ deleteNote(u), scr'[u].pc # "idle",
           NEW s \in ServerIds, scr'[u].item.id = s
    PROVE  WillDelete(s)'
<1>1. TypeOK /\ IdsMatchKinds /\ scr[u].pc = "idle"
  BY DeleteFacts DEF Shape
<1>2. PICK i : DeleteFrom(u, i)
  BY <1>1, DeleteFacts
<1>3. ScreenIs(u, "filter", DeleteItem(i), NoNote) => i \notin TempIds /\ i = s
  BY IdsDisjoint, DeleteItemFacts DEF ScreenIs
<1>4. \A n \in local : n.isLocal => n.id \in TempIds
  BY <1>1, KindFacts
<1>5. ScreenIs(u, "enqueue", DeleteItem(i), NoNote)
  BY <1>1, <1>2, <1>3, <1>4 DEF DeleteFrom
<1> QED
  BY <1>5, DeleteItemFacts DEF ScreenIs, WillDelete

LEMMA DeletesStep ==
    ASSUME Shape, DeletesInv, Next, Observe
    PROVE  DeletesInv'
<1>1. TypeOK /\ past.deleted \subseteq Known
  BY DEF Shape
<1>2. \A s \in ServerIds : HasDelete(InPush', s) => HasDelete(queue', s)
  BY PushedDeletesQueued
<1>3. ASSUME NEW s \in past'.deleted, Live(s)', s \notin past'.exposed
      PROVE  /\ HasDelete(queue', s) \/ WillDelete(s)'
             /\ Pushing' => HasDelete(InPush', s) \/ WillDelete(s)' \/ s \in past'.late
  <2>1. s \notin ThrownNow /\ (s \notin past.exposed \/ s \in CoveredNow) /\ s \in ServerIds
    BY <1>3, ObserveFacts DEF Live
  <2>2. CASE s \in DeletedNow
    BY <1>1, <2>1, <2>2, DeletesStart DEF DeletedNow
  <2>3. CASE s \in past.deleted /\ s \notin EditedNow
    <3>1. Live(s)
      BY <1>1, <1>3, <2>3, RowsStay
    <3>2. CASE s \in CoveredNow
      <4>1. PICK u \in Screens : Enqueue(u) /\ ~Pushing /\ scr[u].item.id = s
        BY <3>2 DEF CoveredNow
      <4>2. scr[u].item.operation = "delete"
        BY <2>3, <4>1 DEF EditedNow, EnqueuedNow
      <4>3. HasDelete(queue', s) /\ ~Pushing'
        BY <2>1, <4>1, <4>2, DeleteEnqueued DEF Enqueue, Pushing
      <4> QED
        BY <4>3
    <3>3. CASE s \notin past.exposed
      <4>1. /\ HasDelete(queue, s) \/ WillDelete(s)
            /\ Pushing => HasDelete(InPush, s) \/ WillDelete(s) \/ s \in past.late
        BY <2>3, <3>1, <3>3 DEF DeletesInv
      <4>2. CASE WillDelete(s)
        BY <2>1, <4>2, WillDeleteStays, ObserveFacts DEF Pushing
      <4>3. CASE SaveFailed
        <5>1. Pushing /\ ~Pushing' /\ queue' = push.failed /\ InPush = push.failed
          BY <1>1, <4>3, PushFacts DEF SaveFailed, PushIs, Pushing, InPush
        <5>2. s \notin past.late
          BY <2>1, <4>3 DEF ThrownNow
        <5> QED
          BY <4>1, <4>2, <5>1, <5>2
      <4>4. CASE HasDelete(queue, s) /\ ~SaveFailed /\ ~WillDelete(s)
        <5>1. HasDelete(queue', s)
          BY <2>1, <4>4, QueuedDeleteStays
        <5>2. CASE Pushing' /\ Pushing
          <6>1. CASE HasDelete(InPush, s)
            BY <1>3, <2>1, <5>1, <5>2, <6>1, PushedDeleteStays
          <6>2. CASE s \in past.late
            BY <5>1, <5>2, <6>2, ObserveFacts
          <6> QED
            BY <4>1, <4>4, <5>2, <6>1, <6>2
        <5>3. CASE Pushing' /\ ~Pushing
          <6>1. InPush' = queue
            BY <1>1, <5>3, PushStarts
          <6> QED
            BY <4>4, <5>1, <6>1
        <5> QED
          BY <5>1, <5>2, <5>3
      <4> QED
        BY <4>1, <4>2, <4>3, <4>4
    <3> QED
      BY <2>1, <3>2, <3>3
  <2> QED
    BY <2>2, <2>3 DEF Observe
<1> QED
  BY <1>2, <1>3 DEF DeletesInv

\* While the server has a note the user deleted, its delete is queued, in the
\* running push or about to be enqueued, or it was thrown away in one of the
\* ways ThrownNow lists.
THEOREM DeletesGetThrough == PSpec => []DeletesAreCarried
<1>1. Init /\ InitPast => DeletesInv
  BY DEF Init, InitPast, DeletesInv, IdlePush, InPush, HasDelete
<1>2. Shape /\ DeletesInv /\ [Next /\ Observe]_pvars => DeletesInv'
  <2>1. DeletesInv /\ UNCHANGED pvars => DeletesInv'
    BY DEF pvars, vars, DeletesInv, HasDelete, WillDelete, InPush, Live, Pushing
  <2> QED
    BY <2>1, DeletesStep
<1>3. DeletesInv => DeletesAreCarried
  <2> SUFFICES ASSUME DeletesInv, NEW s \in past.deleted, Live(s), Names(s) \cap past.exposed = {}
               PROVE  DeleteCarried(s)
    BY DEF DeletesAreCarried
  <2>1. s \in Names(s) /\ s \notin past.exposed
    BY DEF Names
  <2>2. HasDelete(queue, s) \/ WillDelete(s)
    BY <2>1 DEF DeletesInv
  <2> QED
    BY <2>1, <2>2 DEF DeleteCarried, HasDelete, WillDelete, Deletes, IdsOf
<1> QED
  BY <1>1, <1>2, <1>3, ShapeHolds, PTL DEF PSpec

-------------------------------------------------------------------------------
(* Edits reach the server, or their loss has a name *)

LEMMA NamesFacts ==
    ASSUME Shape, [Next]_vars, NEW i \in Known \cup TempIds
    PROVE  /\ Names(i)' = Names(i)
           /\ \A j \in Names(i) : j \in ServerIds => j = i
           /\ \A j \in Names(i) : j \in TempIds => j = i \/ (i \in Known /\ i \in Rows(j))
<1>1. TypeOK /\ Origins
  BY DEF Shape
<1>2. CASE i \in TempIds
  BY <1>2, IdsDisjoint DEF Names
<1>3. CASE i \in Known
  <2>1. i \in ServerIds /\ server[i].state # "none" /\ server'[i].origin = server[i].origin
    BY <1>1, <1>3, RowsStay DEF Known
  <2>2. server[i].origin \in TempIds \cup {i}
    BY <1>1, <1>3 DEF Origins
  <2> QED
    BY <1>3, <2>1, <2>2, IdsDisjoint DEF Names, Rows
<1> QED
  BY <1>2, <1>3

\* A note that was in a twin on the server is so after the step.
LEMMA TwinStays ==
    ASSUME Shape, Next, Observe, NEW i \in Known \cup TempIds, NEW at \in Nat,
           NEW t \in Names(i), t \in past.doubt, NEW s \in Rows(t),
           s \in past.clobbered \/ server[s].updated_at >= at
    PROVE  /\ t \in Names(i)' /\ t \in past'.doubt /\ s \in Rows(t)'
           /\ s \in past'.clobbered \/ server'[s].updated_at >= at
<1>1. TypeOK /\ TypeOK' /\ s \in ServerIds
  BY TypeNext DEF Shape, Rows
<1>2. server[s].updated_at \in Nat /\ server'[s].updated_at \in Nat
  BY <1>1 DEF TypeOK, Row
<1>3. past.doubt \subseteq past'.doubt
  BY DEF Observe
<1> QED
  BY <1>1, <1>2, <1>3, NamesFacts, RowsStay, RowsAge

\* What is known of an unsynced note that was in the store before the step.
LEMMA NoteStays ==
    ASSUME Shape, Next, Observe, NEW n \in local, Unsynced(n)', ~Excused(n)'
    PROVE  /\ n.id \in Known \cup TempIds /\ Unsynced(n) /\ ~InTwin(n)
           /\ \A i \in Names(n.id) : /\ i \notin ThrownNow /\ i \notin past.clobbered
                                     /\ i \notin past.exposed \/ i \in CoveredNow
           /\ \A q : Covers(q, n) => Covers(q, n)'
<1>1. TypeOK /\ IdsMatchKinds /\ n \in Note /\ n.updated_at \in Nat
  BY ParTypes DEF Shape, TypeOK
<1>2. n.id \in Known \cup TempIds /\ (n.isLocal <=> n.id \in TempIds)
  BY <1>1, KindFacts
<1>3. Names(n.id)' = Names(n.id) /\ \A q : Covers(q, n) => Covers(q, n)'
  BY <1>2, NamesFacts DEF Covers
<1>4. /\ \A i \in Names(n.id) : i \notin past'.exposed /\ i \notin past'.clobbered
      /\ ~InTwin(n)'
  BY <1>3 DEF Excused
<1>5. \A i \in Names(n.id) : /\ i \notin ThrownNow /\ i \notin past.clobbered
                             /\ i \notin past.exposed \/ i \in CoveredNow
  BY <1>4, RowsAge, ObserveFacts DEF Shape
<1>6. ~InTwin(n)
  <2> SUFFICES ASSUME NEW t \in Names(n.id), t \in past.doubt, NEW s \in Rows(t),
                      s \in past.clobbered \/ server[s].updated_at >= n.updated_at
               PROVE  FALSE
    BY DEF InTwin
  <2> QED
    BY <1>1, <1>2, <1>4, TwinStays DEF InTwin
<1>7. Unsynced(n)
  <2>1. CASE n.isLocal
    BY <2>1 DEF Unsynced
  <2>2. CASE ~n.isLocal
    <3>1. n.id \in Known /\ n.id \in ServerIds /\ n.id \notin past'.clobbered
      BY <1>2, <1>4, <2>2 DEF Known, Names
    <3>2. Live(n.id)' /\ n.updated_at > server'[n.id].updated_at /\ ~n.pendingDelete
      BY <2>2 DEF Unsynced
    <3>3. Live(n.id)
      BY <1>1, <3>1, <3>2, RowsStay
    <3>4. ~(server'[n.id].updated_at < server[n.id].updated_at)
      BY <1>1, <3>1, RowsAge
    <3>5. server[n.id].updated_at \in Nat /\ server'[n.id].updated_at \in Nat
      BY <1>1, <3>1, TypeNext DEF TypeOK, Row
    <3> QED
      BY <1>1, <3>2, <3>3, <3>4, <3>5 DEF Unsynced
  <2> QED
    BY <2>1, <2>2
<1> QED
  BY <1>2, <1>3, <1>5, <1>6, <1>7

\* An item that is enqueued for a note is in the queue.
LEMMA EnqueueCovers ==
    ASSUME Shape, NEW u \in Screens, Enqueue(u), NEW n \in local, Covers(scr[u].item, n),
           scr[u].item.id \notin ThrownNow
    PROVE  \E q \in queue' : q.id = scr[u].item.id /\ Covers(q, n)
<1>1. TypeOK /\ ItemsApart
  BY DEF Shape
<1>2. queue \in SUBSET Item /\ Distinct(queue) /\ scr[u].item \in Item
  BY <1>1, ParTypes DEF TypeOK, ItemsApart
<1>3. queue' = enqueueOperation(queue, scr[u].item)
  BY DEF Enqueue
<1>4. scr[u].item.id \in IdsOf(queue')
  BY DEF ThrownNow, EnqueuedNow
<1>5. PICK q \in queue' : q.id = scr[u].item.id
  BY <1>4 DEF IdsOf
<1>6. q.payload = scr[u].item.payload /\ (scr[u].item.operation = "delete" => q.operation = "delete")
  BY <1>2, <1>3, <1>5, EnqueueFacts
<1> QED
  BY <1>5, <1>6 DEF Covers

\* A queued item that covers a note still does, or its loss is counted.
LEMMA QueuedStays ==
    ASSUME Shape, Next, ~SaveFailed, NEW n \in local, NEW q \in queue, Covers(q, n), q.id \notin ThrownNow
    PROVE  \E p \in queue' : p.id = q.id /\ Covers(p, n)
<1>1. TypeOK /\ ItemsApart
  BY DEF Shape
<1>2. CASE q \in queue'
  BY <1>2
<1>3. ASSUME NEW u \in Screens, FilterQueue(u) PROVE q \in queue'
  <2>1. scr[u].item.id # q.id
    BY <1>3 DEF ThrownNow, Covers
  <2> QED
    BY <1>3, <2>1 DEF FilterQueue
<1>4. ASSUME NEW u \in Screens, Enqueue(u) PROVE \E p \in queue' : p.id = q.id /\ Covers(p, n)
  <2>1. queue \in SUBSET Item /\ Distinct(queue) /\ scr[u].item \in Item
    BY <1>1, ParTypes DEF TypeOK, ItemsApart
  <2>2. queue' = enqueueOperation(queue, scr[u].item)
    BY <1>4 DEF Enqueue
  <2>3. CASE scr[u].item.id # q.id
    BY <2>1, <2>2, <2>3, EnqueueFacts
  <2>4. CASE scr[u].item.id = q.id
    <3>1. q.id \in IdsOf(queue')
      BY <1>4, <2>4 DEF ThrownNow, EnqueuedNow
    <3>2. PICK p \in queue' : p.id = q.id
      BY <3>1 DEF IdsOf
    <3>3. scr[u].item.id \in IdsOf(queue)
      BY <2>4 DEF IdsOf
    <3>4. /\ p.payload = scr[u].item.payload
          /\ \E o \in queue : /\ o.id = q.id
                              /\ p.operation = IF scr[u].item.operation = "delete" THEN "delete"
                                               ELSE o.operation
      BY <2>1, <2>2, <2>4, <3>2, <3>3, EnqueueFacts
    <3>5. p.operation = IF scr[u].item.operation = "delete" THEN "delete" ELSE q.operation
      BY <2>1, <3>4 DEF Distinct
    <3>6. CASE scr[u].item.operation = "delete" \/ q.operation = "delete"
      BY <3>2, <3>5, <3>6 DEF Covers
    <3>7. CASE scr[u].item.operation # "delete" /\ q.operation # "delete"
      <4>1. ~Outruns(q, scr[u].item)
        BY <1>4 DEF ThrownNow
      <4>2. ~(q.payload.at > scr[u].item.payload.at)
        BY <2>4, <3>7, <4>1 DEF Outruns
      <4>3. q.payload.at \in Nat /\ scr[u].item.payload.at \in Nat /\ n.updated_at \in Nat
        BY <1>1, <2>1, ParTypes DEF TypeOK
      <4> QED
        BY <3>2, <3>4, <3>7, <4>2, <4>3 DEF Covers
    <3> QED
      BY <3>6, <3>7
  <2> QED
    BY <2>3, <2>4
<1> QED
  BY <1>2, <1>3, <1>4, QueueSteps

\* When a create has been answered, every note its item covers is on the
\* server, in its row or in a twin of it.
LEMMA CreatedCovers ==
    ASSUME Shape, OnceInv, Next, Observe, push.pc \in {"created", "aliasing"}, UNCHANGED server,
           push.item.id \notin IdsOf(local), NEW n \in local, Covers(push.item, n),
           Unsynced(n)', ~Excused(n)'
    PROVE  FALSE
<1> DEFINE t == push.item.id
           r == push.reply.id
<1>1. TypeOK /\ IdsMatchKinds /\ PushShape /\ n.id \in Known \cup TempIds /\ n.id # t
  BY NoteStays DEF Shape, IdsOf
<1>2. t \in TempIds /\ t \in Names(n.id) /\ n.updated_at <= push.item.payload.at
  BY <1>1, KindFacts DEF PushShape, GoodItem, Covers
<1>3. r \in Rows(t) /\ push.item.payload.at <= server[r].updated_at /\ r \in ServerIds
  BY <1>1 DEF PushShape, Rows
<1>4. n.id \in Known /\ n.id \in Rows(t)
  BY <1>1, <1>2, NamesFacts
<1>5. n.updated_at <= server[r].updated_at
  BY <1>1, <1>2, <1>3, ParTypes DEF TypeOK
<1> HIDE DEF t, r
<1>6. CASE n.id = r
  <2>1. ~n.isLocal
    BY <1>1, <1>4, KindFacts
  <2>2. n.updated_at > server[r].updated_at
    BY <1>6, <2>1 DEF Unsynced
  <2> QED
    BY <1>1, <1>3, <1>5, <2>2, ParTypes DEF TypeOK
<1>7. CASE n.id # r
  <2>1. t \in past.doubt
    BY <1>2, <1>3, <1>4, <1>7 DEF OnceInv
  <2>2. InTwin(n)
    BY <1>1, <1>2, <1>3, <1>5, <2>1, ParTypes DEF InTwin, TypeOK
  <2> QED
    BY <2>2, NoteStays
<1> QED
  BY <1>6, <1>7

\* A push that is done with an item has sent every note it covers, gives it
\* back, or has thrown it away.
LEMMA PushedCovers ==
    ASSUME Shape, OnceInv, Next, Observe, Pushing, Pushing', NEW n \in local,
           Unsynced(n)', ~Excused(n)', NEW q \in InPush, Covers(q, n)
    PROVE  \E p \in InPush' : Covers(p, n)
<1>1. /\ TypeOK /\ IdsMatchKinds /\ PushShape /\ n.id \in Known \cup TempIds
      /\ \A i \in Names(n.id) : i \notin ThrownNow /\ i \notin past.clobbered
      /\ n.updated_at \in Nat /\ push.item.payload.at \in Nat /\ push.reply.updated_at \in Nat
      /\ \A s \in ServerIds : server[s].updated_at \in Nat
  BY NoteStays, ParTypes DEF Shape, TypeOK
<1>2. SUFFICES ASSUME q = push.item, ~(Again(push.item) \in InPush'),
                      \/ ItemDone /\ (SwapId \/ SetAlias \/ Compare \/ PutNote \/ PutAnyway \/ DeleteOnServer)
                      \/ ItemFailed /\ (PutAnyway \/ DeleteOnServer \/ CreateFailed)
               PROVE  FALSE
  <2>1. Covers(push.item, n) => Covers(Again(push.item), n)
    BY <1>1, AgainFacts DEF Covers
  <2> QED
    BY <1>1, <1>2, <2>1, PushedStays
<1>3. Covers(push.item, n) /\ push.item.id \in Names(n.id)
  BY <1>2 DEF Covers
<1>4. ~(ItemFailed /\ Dropping /\ UNCHANGED server)
  BY <1>1, <1>2, <1>3, FailedStays DEF ThrownNow
<1>5. ~CreateFailed
  BY <1>4 DEF CreateFailed, Dropping
<1>6. ASSUME push.item.id \in ServerIds
      PROVE  /\ push.item.id = n.id /\ ~n.isLocal /\ Live(n.id)' /\ n.updated_at > server'[n.id].updated_at
             /\ push.item.operation # "delete" => n.updated_at <= push.item.payload.at
  BY <1>1, <1>3, <1>6, NamesFacts, KindFacts, IdsDisjoint DEF Unsynced, Covers
<1>7. CASE SwapId \/ SetAlias
  <2>1. /\ push.pc \in {"created", "aliasing"} /\ UNCHANGED server /\ push'.pc = "next"
        /\ push.item.id \notin IdsOf(local)
    <3>1. ~PutAnyway /\ ~DeleteOnServer
      BY <1>7 DEF SwapId, SetAlias, PutAnyway, DeleteOnServer
    <3>2. ItemDone
      BY <1>2, <1>5, <3>1
    <3>3. push'.pc = "next"
      BY <1>1, <3>2, PushFacts DEF PushIs
    <3>4. PushGo("aliasing") => push'.pc = "aliasing"
      BY <1>1, PushFacts DEF PushIs
    <3> QED
      BY <1>1, <1>7, <3>3, <3>4 DEF SwapId, SetAlias, PushShape
  <2> QED
    BY <1>3, <2>1, CreatedCovers
<1>8. CASE Compare
  <2>1. /\ push.pc = "compare" /\ UNCHANGED server /\ push'.pc = "next"
        /\ ~isNewerTimestamp(push.item.payload.at, push.reply.updated_at)
    <3>1. push'.pc = "next"
      BY <1>1, <1>2, PushFacts DEF PushIs
    <3>2. PushGo("put") => push'.pc = "put"
      <4>1. PushGo("put") => PushIs("put", push.todo, push.failed, push.item, push.reply)
        BY <1>1, PushFacts
      <4> QED
        BY <4>1 DEF PushIs
    <3> QED
      BY <1>8, <3>1, <3>2 DEF Compare
  <2>2. /\ push.item.operation = "update" /\ push.item.id \in ServerIds /\ push.reply.id = push.item.id
        /\ NotAhead(push.reply)
    BY <1>1, <2>1, KindFacts DEF IdsMatchKinds, PushMatches, GoodItem, PushShape, Shape, Behind
  <2>3. push.reply.updated_at <= server[n.id].updated_at /\ n.updated_at <= push.item.payload.at
    BY <1>1, <1>3, <1>6, <2>2 DEF NotAhead
  <2>4. n.updated_at > server[n.id].updated_at /\ n.id \in ServerIds
    BY <1>6, <2>1, <2>2
  <2> QED
    BY <1>1, <2>1, <2>3, <2>4 DEF isNewerTimestamp
<1>9. CASE PutNote \/ PutAnyway
  <2>1. push.item.operation = "update" /\ push.item.id \in ServerIds
    BY <1>1, <1>9, KindFacts DEF IdsMatchKinds, PushMatches, GoodItem, PutNote, PutAnyway
  <2>2. Live(push.item.id) /\ Put
    <3>1. push'.pc = "next"
      BY <1>1, <1>2, PushFacts DEF PushIs
    <3> QED
      BY <1>1, <1>4, <1>9, <3>1, PushFacts DEF PushIs, PutNote, PutAnyway, Dropping
  <2>3. server'[n.id].updated_at = push.item.payload.at
    BY <1>1, <1>6, <2>1, <2>2, ServerFacts DEF Rewritten
  <2> QED
    BY <1>1, <1>6, <2>1, <2>3
<1>10. CASE DeleteOnServer
  <2>1. Live(push.item.id) /\ server' = [server EXCEPT ![push.item.id].state = "gone"]
    BY <1>4, <1>10 DEF DeleteOnServer, Dropping
  <2>2. push.item.id \in ServerIds /\ Removed(push.item.id)
    BY <1>1, <2>1, ServerFacts DEF Live
  <2> QED
    BY <1>6, <2>2 DEF Removed, Live
<1> QED
  BY <1>2, <1>5, <1>7, <1>8, <1>9, <1>10

\* A note new in the store that the server has not got is one a screen is
\* saving, or one that was there under its temp id.
LEMMA NewUnsynced ==
    ASSUME Shape, Next, Observe, NEW n \in local', n \notin local, Unsynced(n)', ~Excused(n)'
    PROVE  \/ Saving(n)'
           \/ /\ SwapId /\ PushGo("aliasing") /\ UNCHANGED <<scr, queue>>
              /\ \E o \in local : /\ Unsynced(o) /\ ~Excused(o)
                                  /\ \A q : Covers(q, o) => Covers(q, n)'
<1>1. /\ TypeOK /\ TypeOK' /\ IdsMatchKinds /\ IdsMatchKinds' /\ PushShape /\ Behind
      /\ \A i \in Names(n.id)' : i \notin past'.exposed /\ i \notin past'.clobbered
  BY TypeNext, MatchNext DEF Shape, Excused
<1>2. n \in Note /\ n.updated_at \in Nat /\ n.id \notin past.clobbered
  <2>1. n.id \in Names(n.id)'
    BY DEF Names
  <2> QED
    BY <1>1, <2>1, RowsAge, ParTypes DEF TypeOK
<1>3. ASSUME NEW m \in Note, NotAhead(m), ~m.isLocal, m.id = n.id, m.updated_at = n.updated_at, ~n.isLocal,
             UNCHANGED server
      PROVE  FALSE
  <2>1. n.updated_at > server[n.id].updated_at /\ Live(n.id)
    BY <1>3 DEF Unsynced, Live
  <2>2. n.updated_at <= server[n.id].updated_at /\ n.id \in ServerIds
    BY <1>2, <1>3, <2>1 DEF NotAhead, Live
  <2> QED
    BY <1>1, <1>2, <2>1, <2>2, ParTypes DEF TypeOK
<1>4. ~Compare
  <2> SUFFICES ASSUME Compare PROVE FALSE
    OBVIOUS
  <2>1. n = push.reply /\ push.pc = "compare" /\ UNCHANGED server
    BY UpsertFacts DEF Compare
  <2>2. NotAhead(push.reply) /\ ~push.reply.isLocal
    BY <1>1, <2>1 DEF Behind, PushShape
  <2> QED
    BY <1>2, <1>3, <2>1, <2>2
<1>5. ~MergePull
  <2> SUFFICES ASSUME MergePull PROVE FALSE
    OBVIOUS
  <2>1. PICK s \in full.pulled : n = [s EXCEPT !.isLocal = FALSE]
    BY MergeSources DEF MergePull
  <2>2. s \in Note /\ NotAhead(s) /\ ~s.isLocal
    BY <1>1 DEF Behind, TypeOK, FullState
  <2>3. n.id = s.id /\ n.updated_at = s.updated_at /\ ~n.isLocal
    BY <2>1, <2>2 DEF Note
  <2> QED
    BY <1>3, <2>2, <2>3 DEF MergePull
<1>6. /\ FinishPush => FALSE
      /\ \A u \in Screens : DeleteTail(u) => FALSE
  <2>1. \A i : local' = deleteLocalNote(local, i) => FALSE
    BY DeleteLocalFacts
  <2>2. ~UNCHANGED local
    OBVIOUS
  <2> QED
    BY <2>1, <2>2 DEF FinishPush, DeleteTail, Call
<1>7. ASSUME NEW u \in Screens, deleteNoteOffline(u) \/ deleteNote(u) PROVE FALSE
  <2>1. PICK i : DeleteFrom(u, i)
    BY <1>1, <1>7, DeleteFacts
  <2>2. n.pendingDelete
    BY <1>1, <2>1, DeleteLocalFacts, MarkFacts DEF DeleteFrom, TypeOK
  <2> QED
    BY <2>2 DEF Unsynced
<1>8. ASSUME NEW u \in Screens, SaveLocally(u) PROVE Saving(n)'
  <2>1. n = scr[u].note /\ scr[u].pc = "upsert" /\ ScreenIs(u, "enqueue", scr[u].item, scr[u].note)
    BY <1>1, <1>8, UpsertFacts, ScreenFacts DEF SaveLocally
  <2>2. scr'[u].pc = "enqueue" /\ scr'[u].item.id = n.id /\ n.updated_at <= scr'[u].item.payload.at
    BY <1>2, <2>1 DEF Shape, ScreenShape, ScreenIs
  <2>3. scr'[u].item.id \in Names(n.id)'
    BY <2>2 DEF Names
  <2> QED
    BY <2>2, <2>3 DEF Saving, Covers
<1>9. CASE SwapId
  <2>1. push.item.id \in IdsOf(local) /\ UNCHANGED <<server, scr, queue>> /\ push.pc = "created"
    BY <1>9 DEF SwapId
  <2>2. PICK o \in local, m \in Note :
            /\ o.id = push.item.id /\ local' = (local \ {o}) \cup {m}
            /\ m.id = push.reply.id /\ ~m.isLocal /\ m.updated_at = o.updated_at
            /\ m.pendingDelete = o.pendingDelete /\ PushGo("aliasing")
    BY <1>1, <1>9, <2>1, SwapFacts
  <2>3. n = m
    BY <2>2
  <2>4. /\ o.id \in TempIds /\ o.isLocal /\ n.id \in ServerIds /\ server[n.id].origin = o.id
    BY <1>1, <2>1, <2>2, <2>3, KindFacts DEF PushShape, GoodItem, Rows
  <2>5. Unsynced(o)
    BY <2>2, <2>3, <2>4 DEF Unsynced
  <2>6. Names(o.id) = {o.id} /\ o.id \in Names(n.id)' /\ n.id # o.id
    BY <2>1, <2>4, IdsDisjoint DEF Names
  <2>7. \A q : Covers(q, o) => Covers(q, n)'
    BY <2>2, <2>3, <2>6 DEF Covers
  <2>8. o.id \notin past.exposed /\ o.id \notin past.clobbered
    <3>1. CoveredNow = {}
      BY <1>9 DEF CoveredNow, Pushing, SwapId
    <3> QED
      BY <1>1, <2>6, <3>1, ObserveFacts, RowsAge
  <2>9. ~InTwin(o)
    <3> SUFFICES ASSUME o.id \in past.doubt, NEW s \in Rows(o.id),
                        s \in past.clobbered \/ server[s].updated_at >= o.updated_at
                 PROVE  FALSE
      BY <2>6 DEF InTwin
    <3>1. o.id \in past'.doubt /\ s \in Rows(o.id)'
      BY <2>1 DEF Observe, Rows
    <3>2. s \in past'.clobbered \/ server'[s].updated_at >= n.updated_at
      BY <1>1, <2>1, <2>2, <2>3, RowsAge
    <3> QED
      BY <2>6, <3>1, <3>2 DEF Excused, InTwin
  <2> QED
    BY <1>9, <2>1, <2>2, <2>5, <2>6, <2>7, <2>8, <2>9 DEF Excused
<1> QED
  BY <1>4, <1>5, <1>6, <1>7, <1>8, <1>9, LocalSteps

LEMMA EditsStep ==
    ASSUME Shape, OnceInv, EditsInv, Next, Observe
    PROVE  EditsInv'
<1>1. TypeOK
  BY DEF Shape
<1>2. SaveFailed => Pushing /\ ~Pushing' /\ queue' = push.failed /\ InPush = push.failed
  BY <1>1, PushFacts DEF SaveFailed, PushIs, Pushing, InPush
<1> SUFFICES ASSUME NEW n \in local', Unsynced(n)', ~Excused(n)'
             PROVE  /\ Saving(n)' \/ Queued(n)'
                    /\ Pushing' => Saving(n)' \/ QueuedLate(n)' \/ Pushed(n)'
  BY DEF EditsInv
<1>3. CASE n \in local
  <2>1. /\ Unsynced(n) /\ ~InTwin(n)
        /\ \A i \in Names(n.id) : /\ i \notin ThrownNow /\ i \notin past.clobbered
                                  /\ i \notin past.exposed \/ i \in CoveredNow
        /\ \A q : Covers(q, n) => Covers(q, n)'
    BY <1>3, NoteStays
  <2>2. ASSUME NEW u \in Screens, Enqueue(u), Covers(scr[u].item, n)
        PROVE  /\ \E q \in queue' : q.id = scr[u].item.id /\ Covers(q, n)'
               /\ Queued(n)' /\ (Pushing' => QueuedLate(n)' \/ ~Pushing)
    <3>1. scr[u].item.id \notin ThrownNow
      BY <2>1, <2>2 DEF Covers
    <3>2. PICK q \in queue' : q.id = scr[u].item.id /\ Covers(q, n)
      BY <1>3, <2>2, <3>1, EnqueueCovers
    <3> QED
      BY <2>1, <2>2, <3>2, ObserveFacts DEF Queued, QueuedLate
  <2>3. CASE \E i \in Names(n.id) : i \in CoveredNow
    <3>1. PICK u \in Screens :
                 /\ Enqueue(u) /\ ~Pushing
                 /\ UpToDate(scr[u].item) /\ scr[u].item.id \in Names(n.id)
      BY <2>3 DEF CoveredNow
    <3>2. Covers(scr[u].item, n)
      BY <1>3, <3>1 DEF UpToDate, Covers
    <3>3. ~Pushing'
      BY <3>1 DEF Enqueue, Pushing
    <3> QED
      BY <2>2, <3>1, <3>2, <3>3
  <2>4. CASE \A i \in Names(n.id) : i \notin CoveredNow
    <3>1. ~Excused(n)
      BY <2>1, <2>4 DEF Excused
    <3>2. /\ Saving(n) \/ Queued(n)
          /\ Pushing => Saving(n) \/ QueuedLate(n) \/ Pushed(n)
      BY <1>3, <2>1, <3>1 DEF EditsInv
    <3>3. CASE Saving(n)
      <4>1. PICK u \in Screens : scr[u].pc = "enqueue" /\ Covers(scr[u].item, n)
        BY <3>3 DEF Saving
      <4>2. CASE scr'[u] = scr[u]
        BY <2>1, <4>1, <4>2 DEF Saving
      <4>3. CASE Enqueue(u)
        BY <2>2, <4>1, <4>3 DEF Enqueue, Pushing
      <4>4. ~(Restart /\ scr[u].item.id \in AwaitsEnqueue)
        BY <2>1, <4>1 DEF ThrownNow, Covers
      <4> QED
        BY <4>1, <4>2, <4>3, <4>4, AwaitingStays
    <3>4. CASE ~Saving(n) /\ ~SaveFailed
      <4>1. Queued(n)'
        <5>1. PICK q \in queue : Covers(q, n)
          BY <3>2, <3>4 DEF Queued
        <5>2. \E p \in queue' : p.id = q.id /\ Covers(p, n)
          BY <1>3, <2>1, <3>4, <5>1, QueuedStays DEF Covers
        <5> QED
          BY <2>1, <5>2 DEF Queued
      <4>2. CASE Pushing' /\ ~Pushing
        <5>1. InPush' = queue
          BY <1>1, <4>2, PushStarts
        <5> QED
          BY <2>1, <3>2, <3>4, <4>1, <5>1 DEF Queued, Pushed
      <4>3. CASE Pushing' /\ Pushing /\ QueuedLate(n)
        <5>1. PICK q \in queue : Covers(q, n) /\ q.id \in past.late
          BY <4>3 DEF QueuedLate
        <5>2. \E p \in queue' : p.id = q.id /\ Covers(p, n)
          BY <1>3, <2>1, <3>4, <5>1, QueuedStays DEF Covers
        <5>3. QueuedLate(n)'
          BY <2>1, <4>3, <5>1, <5>2, ObserveFacts DEF QueuedLate
        <5> QED
          BY <4>1, <5>3
      <4>4. CASE Pushing' /\ Pushing /\ Pushed(n)
        <5>1. PICK q \in InPush : Covers(q, n)
          BY <4>4 DEF Pushed
        <5>2. \E p \in InPush' : Covers(p, n)
          BY <1>3, <4>4, <5>1, PushedCovers
        <5>3. Pushed(n)'
          BY <2>1, <5>2 DEF Pushed
        <5> QED
          BY <4>1, <5>3
      <4> QED
        BY <3>2, <3>4, <4>1, <4>2, <4>3, <4>4
    <3>5. CASE ~Saving(n) /\ SaveFailed
      <4>1. ~QueuedLate(n)
        BY <2>1, <3>5 DEF QueuedLate, ThrownNow, Covers
      <4>2. Queued(n)'
        BY <1>2, <2>1, <3>2, <3>5, <4>1 DEF Pushed, Queued
      <4> QED
        BY <1>2, <3>5, <4>2
    <3> QED
      BY <3>3, <3>4, <3>5
  <2> QED
    BY <2>3, <2>4
<1>4. CASE n \notin local
  <2>1. CASE Saving(n)'
    BY <2>1
  <2>2. CASE /\ SwapId /\ PushGo("aliasing") /\ UNCHANGED <<scr, queue>>
             /\ \E o \in local : /\ Unsynced(o) /\ ~Excused(o)
                                /\ \A q : Covers(q, o) => Covers(q, n)'
    <3>1. PICK o \in local : Unsynced(o) /\ ~Excused(o) /\ \A q : Covers(q, o) => Covers(q, n)'
      BY <1>4, <2>2
    <3>2. Pushing /\ Pushing' /\ InPush' = InPush /\ past.late \subseteq past'.late
      BY <1>1, <2>2, PushFacts, ObserveFacts DEF SwapId, PushGo, PushIs, InPush, Pushing
    <3>3. /\ Saving(o) => Saving(n)'
          /\ Queued(o) => Queued(n)'
          /\ QueuedLate(o) => QueuedLate(n)'
          /\ Pushed(o) => Pushed(n)'
      BY <2>2, <3>1, <3>2 DEF Saving, Queued, QueuedLate, Pushed
    <3> QED
      BY <3>1, <3>2, <3>3 DEF EditsInv
  <2> QED
    BY <1>4, <2>1, <2>2, NewUnsynced
<1> QED
  BY <1>3, <1>4

\* While the server has not got an edit, an operation that will take it there
\* is queued, in the running push or about to be enqueued, or was thrown away
\* in one of the ways ThrownNow lists: of enqueueOperation, processSyncQueue's
\* snapshot and write-back, the id swap and the merge of a pull.
THEOREM EditsGetThrough == PSpec => []EditsAreCarried
<1>1. Init /\ InitPast => EditsInv
  <2> SUFFICES ASSUME Init, NEW n \in local PROVE ~Unsynced(n)
    BY DEF EditsInv
  <2>1. PICK s \in Synced : n = ServerNote(s)
    BY DEF Init
  <2> QED
    BY <2>1, ParTypes DEF Init, Unsynced, Live, ServerNote
<1>2. Shape /\ OnceInv /\ EditsInv /\ [Next /\ Observe]_pvars => EditsInv'
  <2>1. CASE UNCHANGED pvars
    BY <2>1 DEF pvars, vars, EditsInv, Unsynced, Live, Excused, InTwin, Names, Rows, Saving, Queued,
                QueuedLate, Pushed, Covers, InPush, Pushing
  <2> QED
    BY <2>1, EditsStep
<1>3. EditsInv => EditsAreCarried
  <2> SUFFICES ASSUME EditsInv, NEW n \in local, Unsynced(n), ~Excused(n) PROVE Carried(n.id)
    BY DEF EditsAreCarried, Excused
  <2>1. CASE Saving(n)
    BY <2>1 DEF Saving, Covers, Carried, AwaitsEnqueue
  <2>2. CASE Queued(n)
    BY <2>2 DEF Queued, Covers, Carried, IdsOf
  <2> QED
    BY <2>1, <2>2 DEF EditsInv
<1> QED
  BY <1>1, <1>2, <1>3, ShapeHolds, OnceHolds, PTL DEF PSpec

-------------------------------------------------------------------------------
(* Never older *)

NotOlder(n, M) == \E m \in M : m.id = n.id /\ m.updated_at >= n.updated_at

LEMMA UpsertForward ==
    ASSUME NEW L \in SUBSET Note, NEW note \in Note, NEW M \in upsertLocalNote(L, note),
           NEW n \in L, OnlyOne(L, n)
    PROVE  NotOlder(n, M)
<1>1. n.updated_at \in Nat
  BY DEF Note
<1>2. CASE n.id # note.id
  BY <1>1, <1>2, UpsertFacts DEF NotOlder
<1>3. CASE n.id = note.id
  <2>1. M = IF isNewerTimestamp(note.updated_at, n.updated_at) THEN (L \ {n}) \cup {note} ELSE L
    BY <1>3 DEF upsertLocalNote, IdsOf, WithId, OnlyOne
  <2>2. CASE isNewerTimestamp(note.updated_at, n.updated_at)
    BY <1>1, <1>3, <2>1, <2>2 DEF isNewerTimestamp, NotOlder, Note
  <2>3. CASE ~isNewerTimestamp(note.updated_at, n.updated_at)
    BY <1>1, <2>1, <2>3 DEF NotOlder
  <2> QED
    BY <2>2, <2>3
<1> QED
  BY <1>2, <1>3

LEMMA MarkForward ==
    ASSUME NEW L \in SUBSET Note, NEW i, NEW n \in L
    PROVE  NotOlder(n, markPendingDelete(L, i))
<1> DEFINE m == IF n.id = i THEN [n EXCEPT !.pendingDelete = TRUE] ELSE n
<1>1. m \in markPendingDelete(L, i)
  BY DEF markPendingDelete
<1>2. m.id = n.id /\ m.updated_at = n.updated_at /\ n.updated_at \in Nat
  BY DEF Note
<1> HIDE DEF m
<1> QED
  BY <1>1, <1>2 DEF NotOlder

\* A note that does not survive a merge leaves a server's copy as new in its
\* place, or none at all.
LEMMA MergeForward ==
    ASSUME NEW S \in SUBSET Note, NEW L \in SUBSET Note, NEW complete, NEW start,
           NEW M \in mergeRecords(S, L, complete, start),
           NEW n \in L, OnlyOne(L, n), n.id \in IdsOf(M)
    PROVE  NotOlder(n, M)
<1> DEFINE K == Kept(S, L, complete, start)
           T == {x \in S : x.id \notin IdsOf(K)}
<1>1. PICK m \in OnePerId(K) : M = {[s EXCEPT !.isLocal = FALSE] : s \in T} \cup m
  BY MergeParts
<1>2. n.updated_at \in Nat
  BY DEF Note
<1>3. \A s \in S : /\ [s EXCEPT !.isLocal = FALSE].id = s.id
                   /\ [s EXCEPT !.isLocal = FALSE].updated_at = s.updated_at
                   /\ s.updated_at \in Nat
  BY DEF Note
<1>4. CASE n \in K
  <2>1. n \in M
    BY <1>1, <1>4, KeptFacts DEF OnlyOne, Kept
  <2> QED
    BY <1>2, <2>1 DEF NotOlder
<1>5. CASE n \notin K
  <2>1. n.id \notin IdsOf(K)
    BY <1>5 DEF OnlyOne, Kept, IdsOf
  <2>2. PICK r \in M : r.id = n.id
    BY DEF IdsOf
  <2>3. r \notin m
    BY <2>1, <2>2, KeptFacts DEF IdsOf
  <2>4. PICK s \in T : r = [s EXCEPT !.isLocal = FALSE]
    BY <1>1, <2>3
  <2>5. n.id \in IdsOf(S)
    BY <1>3, <2>2, <2>4 DEF IdsOf
  <2>6. PICK x \in S : x.id = n.id /\ ~isNewerTimestamp(recordTimestamp(n), recordTimestamp(x))
    BY <1>5, <2>5 DEF Kept, Survives, WithId
  <2>7. n.updated_at <= x.updated_at
    <3>1. recordTimestamp(n) = n.updated_at /\ recordTimestamp(x) = x.updated_at
      BY DEF recordTimestamp, Note
    <3> QED
      BY <1>2, <1>3, <2>6, <3>1 DEF isNewerTimestamp
  <2>8. [x EXCEPT !.isLocal = FALSE] \in M
    BY <1>1, <2>1, <2>6
  <2> QED
    BY <1>2, <1>3, <2>6, <2>7, <2>8 DEF NotOlder
<1> QED
  BY <1>4, <1>5

LEMMA ForwardStep ==
    ASSUME TypeOK, IdsMatchKinds, PushShape, [Next]_vars
    PROVE  Forward
<1> SUFFICES ASSUME NEW n \in local, \A m \in local : m.id = n.id => m = n, n.id \in IdsOf(local')
             PROVE  NotOlder(n, local')
  BY DEF Forward, NotOlder
<1>1. /\ n.updated_at \in Nat /\ OnlyOne(local, n)
      /\ local \in SUBSET Note /\ push.reply \in Note /\ full.pulled \in SUBSET Note
      /\ \A u \in Screens : scr[u].note \in Note
  BY DEF TypeOK, Note, OnlyOne, PushState, FullState, ScreenState
<1>2. PICK k \in local' : k.id = n.id
  BY DEF IdsOf
<1>3. CASE n \in local'
  BY <1>1, <1>3 DEF NotOlder
<1>4. CASE n \notin local'
  <2>1. ~SwapId
    <3> SUFFICES ASSUME SwapId PROVE FALSE
      OBVIOUS
    <3>1. push.item.id \in IdsOf(local)
      BY <1>4 DEF SwapId
    <3>2. n.id = push.item.id /\ k.id = push.reply.id
      BY <1>1, <1>2, <1>4, <3>1, SwapFacts DEF OnlyOne
    <3>3. push.item.id \in TempIds /\ push.reply.id \in ServerIds
      BY KindFacts DEF SwapId, PushShape, Rows, IdsMatchKinds, PushMatches, GoodItem
    <3> QED
      BY <1>2, <3>2, <3>3, IdsDisjoint
  <2>2. CASE Compare
    BY <1>1, <1>4, <2>2, UpsertForward DEF Compare
  <2>3. CASE MergePull
    BY <1>1, <1>4, <2>3, MergeForward DEF MergePull
  <2>4. ASSUME NEW i, local' = deleteLocalNote(local, i) PROVE FALSE
    BY <1>2, <1>4, <2>4, DeleteLocalFacts
  <2>5. ~FinishPush
    BY <1>4, <2>4 DEF FinishPush
  <2>6. ASSUME NEW u \in Screens, SaveLocally(u) PROVE NotOlder(n, local')
    BY <1>1, <2>6, UpsertForward DEF SaveLocally
  <2>7. ASSUME NEW u \in Screens, DeleteTail(u) PROVE FALSE
    BY <1>4, <2>4, <2>7 DEF DeleteTail, Call
  <2>8. ASSUME NEW u \in Screens, deleteNoteOffline(u) \/ deleteNote(u) PROVE NotOlder(n, local')
    <3>1. PICK i : DeleteFrom(u, i)
      BY <2>8, DeleteFacts
    <3>2. local' = markPendingDelete(local, i)
      BY <2>4, <3>1 DEF DeleteFrom
    <3> QED
      BY <1>1, <3>2, MarkForward
  <2> QED
    BY <1>4, <2>1, <2>2, <2>3, <2>5, <2>6, <2>7, <2>8, LocalSteps
<1> QED
  BY <1>3, <1>4

\* No step of any screen, push or pull puts an older copy in the place of a
\* note: of upsertLocalNote, the comparison before the PUT and mergeRecords.
THEOREM NeverGoesBack == PSpec => NeverOlder
<1>1. Shape /\ [Next /\ Observe]_pvars => [Forward]_pvars
  BY ForwardStep DEF Shape, pvars, vars
<1> QED
  BY <1>1, ShapeHolds, PTL DEF PSpec, NeverOlder
=============================================================================
