---------------------------- MODULE EventSyncProofs ----------------------------
(***************************************************************************)
(* EventSync, proved for any number of edits, events, notifications, pulls *)
(* and kills: an event is made once, no reminder of the OS is orphaned, and *)
(* every edit is carried.                                                  *)
(***************************************************************************)
EXTENDS EventSync, TLAPS

Unique(L) == \A a, b \in L : a.id = b.id => a = b

-------------------------------------------------------------------------------
(* The shape of the state *)

Row == [id : Nat, at : Nat]
EventRecord == [id : Nat, updated_at : Nat, created_at : {1}, isLocal : BOOLEAN,
                pendingDelete : BOOLEAN, note : Nat]
ItemRecord == [id : Nat, operation : {"create", "update", "delete", "none"}, at : Nat, retries : Nat]
PushState == [pc : {"idle", "next", "swap"}, todo : SUBSET ItemRecord, failed : SUBSET ItemRecord,
              item : ItemRecord, reply : Nat]
FullState == [pc : {"idle", "pull", "merge"}, at : Nat, seen : SUBSET Row, complete : BOOLEAN]
EditorState == [open : BOOLEAN, id : Nat, created : BOOLEAN, ref : Nat, draft : Nat, saved : Nat,
                timer : BOOLEAN]
SaveState == [pc : {"idle", "schedule", "write", "enqueue", "post", "resolve", "unqueue", "pushing",
                    "again", "keep"},
              by : {"none", "auto", "back"}, new : BOOLEAN, isLocal : BOOLEAN, at : Nat, note : Nat, reply : Nat]
DeleteState == [pc : {"idle", "mark", "enqueue", "pushing", "drop", "done"}, id : Nat, list : BOOLEAN]
RefreshState == [pc : {"idle", "schedule", "keep"}, id : Nat, note : Nat]
History == [lost : BOOLEAN, raced : BOOLEAN, stale : BOOLEAN, dropped : BOOLEAN, astray : BOOLEAN, cut : BOOLEAN,
            runs : Nat]

TypeOK ==
    /\ now \in Nat /\ made \in 0..MaxIds /\ notes \in Nat
    /\ srv \subseteq Row /\ local \subseteq EventRecord /\ queue \subseteq ItemRecord /\ os \subseteq Nat
    /\ push \in PushState /\ full \in FullState /\ ed \in EditorState /\ save \in SaveState
    /\ del \in DeleteState /\ refresh \in RefreshState /\ past \in History
    /\ wants \subseteq {"auto", "back"}

LEMMA RestTypes ==
    /\ NoId \in Nat /\ IdlePush \in PushState /\ IdleFull \in FullState /\ IdleSave \in SaveState
    /\ IdleDel \in DeleteState /\ IdleRefresh \in RefreshState /\ Closed \in EditorState
<1>1. NoId \in Nat /\ Temp \in Nat
  BY NaturalBounds DEF NoId, Temp
<1> QED
  BY <1>1 DEF IdlePush, IdleFull, IdleSave, IdleDel, IdleRefresh, Closed, Item, ItemRecord,
              PushState, FullState, SaveState, DeleteState, RefreshState, EditorState

LEMMA EventType ==
    ASSUME NEW i \in Nat, NEW at \in Nat, NEW note \in Nat
    PROVE  /\ Event(i, at, TRUE, note) \in EventRecord /\ Event(i, at, FALSE, note) \in EventRecord
           /\ Event(i, at, TRUE, note).id = i /\ Event(i, at, FALSE, note).id = i
           /\ Event(i, at, TRUE, note).note = note /\ Event(i, at, FALSE, note).note = note
           /\ Event(i, at, TRUE, note).isLocal /\ ~Event(i, at, FALSE, note).isLocal
           /\ ~Event(i, at, TRUE, note).pendingDelete /\ ~Event(i, at, FALSE, note).pendingDelete
  BY DEF Event, EventRecord

LEMMA ItemType ==
    ASSUME NEW i \in Nat, NEW op \in {"create", "update", "delete"}, NEW at \in Nat
    PROVE  Item(i, op, at) \in ItemRecord /\ Item(i, op, at).id = i /\ Item(i, op, at).operation = op
  BY DEF Item, ItemRecord

\* An enqueued operation makes no create, and one item per id stays one.
LEMMA EnqueueFacts ==
    ASSUME queue \subseteq ItemRecord, NEW item \in ItemRecord
    PROVE  /\ enqueueOperation(item) \subseteq ItemRecord
           /\ Unique(queue) => Unique(enqueueOperation(item))
           /\ \A q \in enqueueOperation(item) :
                  q = item \/ \E p \in queue : p.id = q.id /\ (q.operation = "create" => p.operation = "create")
<1> DEFINE old == WithId(queue, item.id)
           kept == {p \in old : ~(item.operation = "delete" /\ p.operation = "create")}
           new(o) == [o EXCEPT !.operation = IF item.operation = "delete" THEN "delete" ELSE @, !.at = item.at]
<1>1. old \subseteq ItemRecord /\ \A o \in old : o.id = item.id /\ o \in queue
  BY DEF WithId
<1>2. \A o \in ItemRecord : new(o) \in ItemRecord /\ new(o).id = o.id
                            /\ (new(o).operation = "create" => o.operation = "create")
  BY DEF ItemRecord
<1>3. enqueueOperation(item) = IF old = {} THEN queue \cup {item} ELSE (queue \ old) \cup {new(o) : o \in kept}
  BY DEF enqueueOperation
<1> HIDE DEF new
<1>4. CASE old = {}
  <2>1. enqueueOperation(item) = queue \cup {item} /\ \A q \in queue : q.id # item.id
    BY <1>3, <1>4 DEF WithId
  <2> QED
    BY <2>1 DEF Unique
<1>5. CASE old # {}
  <2>1. enqueueOperation(item) = (queue \ old) \cup {new(o) : o \in kept}
    BY <1>3, <1>5
  <2>2. \A n \in {new(o) : o \in kept} : \E o \in kept : n = new(o)
    OBVIOUS
  <2>3. Unique(queue) => Unique(enqueueOperation(item))
    <3> SUFFICES ASSUME Unique(queue), NEW a \in enqueueOperation(item), NEW b \in enqueueOperation(item),
                        a.id = b.id
                 PROVE  a = b
      BY DEF Unique
    <3>1. \A q \in queue \ old : q.id # item.id
      BY DEF WithId
    <3>2. \A o, p \in kept : o = p
      BY <1>1 DEF Unique
    <3>3. \A n \in {new(o) : o \in kept} : n.id = item.id
      BY <1>1, <1>2
    <3> QED
      BY <2>1, <2>2, <3>1, <3>2, <3>3 DEF Unique
  <2> QED
    BY <1>1, <1>2, <2>1, <2>2, <2>3
<1> QED
  BY <1>4, <1>5

LEMMA AdoptedType ==
    ASSUME local \subseteq EventRecord, NEW r
    PROVE  /\ adoptLocalFields(r) \in Nat
           /\ WithId(local, r.id) = {} => adoptLocalFields(r) = 0
           /\ WithId(local, r.id) # {} => \E e \in local : e.id = r.id /\ adoptLocalFields(r) = e.note
<1>1. CASE WithId(local, r.id) = {}
  BY <1>1 DEF adoptLocalFields
<1>2. CASE WithId(local, r.id) # {}
  <2>1. (CHOOSE e \in WithId(local, r.id) : TRUE) \in WithId(local, r.id)
    BY <1>2
  <2> QED
    BY <1>2, <2>1 DEF adoptLocalFields, WithId, EventRecord
<1> QED
  BY <1>1, <1>2

\* The server's half of a pull's merge.
Pulled == {Event(r.id, r.at, FALSE, adoptLocalFields(r)) : r \in full.seen}

\* What a merge leaves: events of the device, and rows of the server that
\* bring the notification of the event they replace.
LEMMA MergeFacts ==
    ASSUME local \subseteq EventRecord, full.seen \subseteq Row, Unique(full.seen),
           NEW M \in mergeRecords(Pulled, local, full.complete, full.at)
    PROVE  /\ M \subseteq EventRecord /\ Unique(M)
           /\ \A m \in M : m \in local \/ \E r \in full.seen :
                  m.id = r.id /\ ~m.isLocal /\ ~m.pendingDelete /\ m.note = adoptLocalFields(r) /\ m.updated_at = r.at
<1> DEFINE K == {r \in local : Survives(r, Pulled, full.complete, full.at)}
           T == {[s EXCEPT !.isLocal = FALSE] : s \in {x \in Pulled : x.id \notin IdsOf(K)}}
<1>1. PICK m \in OnePerId(K) : M = T \cup m
  BY DEF mergeRecords
<1>2. m \subseteq K /\ Unique(m) /\ K \subseteq local /\ \A k \in K : \E r \in m : r.id = k.id
  <2>1. K \subseteq local
    OBVIOUS
  <2>2. m \subseteq K /\ Unique(m) /\ IdsOf(m) = IdsOf(K)
    BY DEF OnePerId, Unique
  <2>3. ASSUME NEW k \in K PROVE \E r \in m : r.id = k.id
    <3>1. k.id \in IdsOf(m)
      BY <2>2 DEF IdsOf
    <3> QED
      BY <3>1 DEF IdsOf
  <2> QED
    BY <2>1, <2>2, <2>3
<1>3. ASSUME NEW t \in T
      PROVE  /\ t.id \notin IdsOf(K) /\ t \in EventRecord
             /\ \E r \in full.seen :
                    t.id = r.id /\ ~t.isLocal /\ ~t.pendingDelete /\ t.note = adoptLocalFields(r) /\ t.updated_at = r.at
  <2>1. PICK s \in Pulled : s.id \notin IdsOf(K) /\ t = [s EXCEPT !.isLocal = FALSE]
    OBVIOUS
  <2>2. PICK r \in full.seen : s = Event(r.id, r.at, FALSE, adoptLocalFields(r))
    BY <2>1 DEF Pulled
  <2>3. r.id \in Nat /\ r.at \in Nat /\ adoptLocalFields(r) \in Nat
    BY AdoptedType DEF Row
  <2>4. /\ s \in EventRecord /\ s.id = r.id /\ ~s.isLocal /\ ~s.pendingDelete
        /\ s.note = adoptLocalFields(r) /\ s.updated_at = r.at
    BY <2>2, <2>3 DEF Event, EventRecord
  <2>5. \A e \in EventRecord : ~e.isLocal => [e EXCEPT !.isLocal = FALSE] = e
    BY DEF EventRecord
  <2>6. t = s
    BY <2>1, <2>4, <2>5
  <2> QED
    BY <2>1, <2>4, <2>6
<1>4. \A t \in T, r \in m : t.id # r.id
  <2> HIDE DEF T, K
  <2> QED
    BY <1>2, <1>3 DEF IdsOf
<1>5. Unique(T)
  <2> SUFFICES ASSUME NEW a \in T, NEW b \in T, a.id = b.id PROVE a = b
    BY DEF Unique
  <2>1. PICK s \in Pulled : s.id \notin IdsOf(K) /\ a = [s EXCEPT !.isLocal = FALSE]
    OBVIOUS
  <2>2. PICK t \in Pulled : t.id \notin IdsOf(K) /\ b = [t EXCEPT !.isLocal = FALSE]
    OBVIOUS
  <2>3. PICK r \in full.seen : s = Event(r.id, r.at, FALSE, adoptLocalFields(r))
    BY <2>1 DEF Pulled
  <2>4. PICK q \in full.seen : t = Event(q.id, q.at, FALSE, adoptLocalFields(q))
    BY <2>2 DEF Pulled
  <2>5. a.id = r.id /\ b.id = q.id
    BY <2>1, <2>2, <2>3, <2>4 DEF Event
  <2>6. r = q
    BY <2>5 DEF Unique
  <2> QED
    BY <2>1, <2>2, <2>3, <2>4, <2>6
<1>6. Unique(M)
  <2> HIDE DEF T, K
  <2> QED
    BY <1>1, <1>2, <1>4, <1>5 DEF Unique
<1> QED
  <2> HIDE DEF T, K
  <2> QED
    BY <1>1, <1>2, <1>3, <1>6

LEMMA ItemKeptType ==
    ASSUME push \in PushState, NEW q \in ItemRecord
    PROVE  /\ ItemKept(q) \subseteq ItemRecord /\ push.failed \subseteq ItemKept(q)
           /\ \A p \in ItemKept(q) : p \in push.failed \/ (p.id = q.id /\ p.operation = q.operation)
  BY NaturalBounds DEF ItemKept, ItemRecord, PushState

-------------------------------------------------------------------------------
(* Types *)

LEMMA TypesInit == Init => TypeOK
<1> SUFFICES ASSUME Init PROVE TypeOK
  OBVIOUS
<1>1. /\ now = 0 /\ made = 0 /\ notes = 0 /\ srv = {} /\ local = {} /\ queue = {} /\ os = {} /\ wants = {}
      /\ push \in PushState /\ full \in FullState /\ save \in SaveState /\ del \in DeleteState
      /\ refresh \in RefreshState
  BY RestTypes DEF Init
<1>2. ed \in EditorState
  BY RestTypes DEF Init, EditorState
<1>3. past \in History
  BY DEF Init, History
<1> QED
  BY <1>1, <1>2, <1>3, NaturalBounds DEF TypeOK

LEMMA PastType ==
    ASSUME past \in History
    PROVE  /\ \A event \in {"lost", "raced", "stale", "dropped", "astray", "cut"} : Did(event) => past' \in History
           /\ \A event \in {"lost", "raced", "stale", "dropped", "astray", "cut"} : \A cond : Excused(event, cond) => past' \in History
  BY DEF Did, Excused, History

LEMMA EditorTypes ==
    ASSUME TypeOK, Type \/ triggerAutoSave \/ handleBack \/ loadEvent
    PROVE  TypeOK'
<1> USE DEF TypeOK
<1>1. CASE Type
  <2>1. now + 1 \in Nat /\ now' = now + 1 /\ ed' = [ed EXCEPT !.draft = now + 1, !.timer = TRUE]
    BY <1>1 DEF Type
  <2>2. \A d \in Nat : [ed EXCEPT !.draft = d, !.timer = TRUE] \in EditorState
    BY DEF EditorState
  <2> QED
    BY <1>1, <2>1, <2>2 DEF Type
<1>2. CASE triggerAutoSave
  BY <1>2 DEF triggerAutoSave, EditorState
<1>3. CASE handleBack
  BY <1>3 DEF handleBack, EditorState
<1>4. CASE loadEvent
  <2>1. PICK e \in local : \E n \in IF e.isLocal THEN {0} ELSE {e.note, 0} :
                  /\ ed' = [Closed EXCEPT !.open = TRUE, !.id = e.id, !.created = TRUE, !.ref = n]
                  /\ Excused("astray", n # e.note \/ refresh.pc # "idle")
    BY <1>4 DEF loadEvent
  <2>2. PICK n \in IF e.isLocal THEN {0} ELSE {e.note, 0} :
                  /\ ed' = [Closed EXCEPT !.open = TRUE, !.id = e.id, !.created = TRUE, !.ref = n]
                  /\ Excused("astray", n # e.note \/ refresh.pc # "idle")
    BY <2>1
  <2>3. e.id \in Nat /\ n \in Nat
    BY DEF EventRecord
  <2>4. ed' \in EditorState
    BY <2>2, <2>3, RestTypes DEF EditorState
  <2>5. past' \in History
    BY <2>2, PastType
  <2> QED
    BY <1>4, <2>4, <2>5 DEF loadEvent
<1> QED
  BY <1>1, <1>2, <1>3, <1>4

\* The OS's number of a new notification is a new one; there may be none.
LEMMA ScheduleFacts ==
    ASSUME notes \in Nat, NEW old, NEW n, Schedule(old, n)
    PROVE  /\ n \in Nat /\ notes' \in Nat
           /\ os' = (os \ {old}) \cup ({n} \ {0})
           /\ (n = 0 /\ notes' = notes) \/ (n = notes + 1 /\ notes' = n)
  BY DEF Schedule

\* The item that a save enqueues; it is a create if the record it read was local.
SavedId   == IF save.new THEN Temp ELSE ed.id
SavedItem == Item(SavedId, IF save.isLocal THEN "create" ELSE "update", save.at)

LEMMA SavedFacts ==
    ASSUME ed \in EditorState, save \in SaveState, EnqueueEvent
    PROVE  /\ SavedItem \in ItemRecord /\ queue' = enqueueOperation(SavedItem)
           /\ SavedItem.id = SavedId /\ (SavedItem.operation = "create" <=> save.isLocal)
<1>1. SavedId \in Nat /\ save.at \in Nat
  BY DEF SavedId, EditorState, SaveState, Temp
<1>2. /\ SavedItem \in ItemRecord /\ SavedItem.id = SavedId
      /\ SavedItem.operation = IF save.isLocal THEN "create" ELSE "update"
  BY <1>1, ItemType DEF SavedItem
<1>3. queue' = enqueueOperation(SavedItem)
  BY DEF EnqueueEvent, SavedItem, SavedId
<1> QED
  BY <1>2, <1>3

LEMMA NamedType ==
    ASSUME ed \in EditorState, NEW i \in Nat
    PROVE  [ed EXCEPT !.id = i, !.created = TRUE] \in EditorState
  BY DEF EditorState

\* What a save goes on with after its local write: the record it read.
LEMMA WriteSave ==
    ASSUME save \in SaveState, ed \in EditorState, WriteEvent
    PROVE  /\ save' \in SaveState
           /\ save.pc = "write" /\ save'.pc \in {"enqueue", "keep"} /\ (save'.new => save'.pc = "enqueue")
           /\ save'.by = save.by /\ save'.note = save.note /\ save'.at = ed.draft
           /\ (save'.new <=> ~ed.created)
           /\ (save'.isLocal <=> isNew \/ \E e \in WithId(local, ed.id) : e.isLocal)
           /\ save'.pc = "enqueue" <=> isNew \/ WithId(local, ed.id) # {}
<1> DEFINE k == isNew \/ \E e \in WithId(local, ed.id) : e.isLocal
           h == isNew \/ WithId(local, ed.id) # {}
<1>1. PICK n \in BOOLEAN : n <=> ~ed.created
  OBVIOUS
<1>2. n = isNew
  BY <1>1 DEF isNew
<1>3. k \in BOOLEAN /\ h \in BOOLEAN /\ (n => h)
  BY <1>2
<1>4. /\ save' = [save EXCEPT !.new = n, !.at = ed.draft, !.isLocal = k, !.pc = IF h THEN "enqueue" ELSE "keep"]
      /\ save.pc = "write"
  BY <1>2 DEF WriteEvent
<1> HIDE DEF k, h
<1>5. /\ save'.new = n /\ save'.at = ed.draft /\ save'.isLocal = k /\ save'.pc = (IF h THEN "enqueue" ELSE "keep")
      /\ save'.by = save.by /\ save'.note = save.note
      /\ save' \in SaveState
  BY <1>3, <1>4 DEF SaveState, EditorState
<1>6. /\ (save'.isLocal <=> isNew \/ \E e \in WithId(local, ed.id) : e.isLocal)
      /\ save'.pc = "enqueue" <=> isNew \/ WithId(local, ed.id) # {}
  BY <1>5 DEF k, h
<1> QED
  BY <1>1, <1>3, <1>4, <1>5, <1>6

LEMMA SaveTypes ==
    ASSUME TypeOK, SaveStep \/ \E w \in wants : withSaveLock(w)
    PROVE  TypeOK'
<1> USE DEF TypeOK
<1>1. CASE \E w \in wants : withSaveLock(w)
  <2>1. PICK w \in {"auto", "back"} : withSaveLock(w)
    BY <1>1
  <2>2. save' \in SaveState
    <3>1. /\ ed.ref \in Nat
          /\ save' = [IdleSave EXCEPT !.pc = IF w = "auto" THEN "schedule" ELSE "write", !.by = w, !.note = ed.ref]
      BY <2>1 DEF withSaveLock, EditorState
    <3> QED
      BY <3>1, RestTypes DEF SaveState
  <2> QED
    BY <2>1, <2>2 DEF withSaveLock
<1>2. CASE WriteEvent
  <2>1. save' \in SaveState /\ past' \in History
    BY <1>2, PastType, WriteSave DEF WriteEvent, EditorState
  <2>2. local' \subseteq EventRecord
    <3>1. ed.draft \in Nat /\ Temp \in Nat
      BY DEF EditorState, Temp
    <3>2. Event(Temp, ed.draft, TRUE, 0) \in EventRecord
      BY <3>1, EventType
    <3>3. \A e \in EventRecord : [e EXCEPT !.updated_at = ed.draft] \in EventRecord
      BY <3>1 DEF EventRecord
    <3> QED
      BY <1>2, <3>2, <3>3 DEF WriteEvent, upsertLocalEvent
  <2> QED
    BY <1>2, <2>1, <2>2 DEF WriteEvent
<1>3. CASE scheduleReminder
  <2>1. PICK n \in 0..MaxNotes :
           /\ Schedule(ed.ref, n)
           /\ ed' = [ed EXCEPT !.ref = n]
           /\ save' = [save EXCEPT !.note = n, !.pc = IF @ = "schedule" THEN "write" ELSE "keep"]
    BY <1>3 DEF scheduleReminder
  <2>2. n \in Nat /\ notes' \in Nat /\ os' \subseteq Nat
    BY <2>1, ScheduleFacts
  <2>3. ed' \in EditorState /\ save' \in SaveState
    BY <2>1, <2>2 DEF EditorState, SaveState
  <2> QED
    BY <1>3, <2>2, <2>3 DEF scheduleReminder
<1>4. CASE EnqueueEvent
  <2>3. queue' \subseteq ItemRecord
    BY <1>4, SavedFacts, EnqueueFacts
  <2>4. push' \in PushState
    BY <1>4, <2>3, RestTypes DEF EnqueueEvent, processSyncQueue, PushState
  <2>5. save' \in SaveState /\ ed' \in EditorState /\ past' \in History
    <3>1. past' \in History
      BY <1>4, PastType DEF EnqueueEvent
    <3>2. ed' = ed \/ ed' = [ed EXCEPT !.id = Temp, !.created = TRUE]
      BY <1>4 DEF EnqueueEvent, Named
    <3>3. ed' \in EditorState
      BY <3>2, NamedType DEF Temp
    <3>4. \E pc \in {"post", "again", "keep", "pushing"} : save' = [save EXCEPT !.pc = pc]
      BY <1>4 DEF EnqueueEvent, Named
    <3> QED
      BY <3>1, <3>3, <3>4 DEF SaveState
  <2> QED
    BY <1>4, <2>3, <2>4, <2>5 DEF EnqueueEvent
<1>5. CASE PostEvent
  <2>1. ed' \in EditorState /\ past' \in History
    <3>1. ed' = ed \/ ed' = [ed EXCEPT !.id = Temp, !.created = TRUE]
      BY <1>5 DEF PostEvent, Named
    <3>2. past' \in History
      BY <1>5, PastType DEF PostEvent
    <3> QED
      BY <3>1, <3>2, NamedType DEF Temp
  <2>2. made' \in 0..MaxIds /\ made + 1 \in Nat
    BY <1>5, NaturalBounds DEF PostEvent
  <2>3. save' \in SaveState
    <3>1. \/ save' = [save EXCEPT !.pc = "resolve", !.reply = made + 1]
          \/ \E pc \in {"again", "keep"} : save' = [save EXCEPT !.pc = pc]
      BY <1>5 DEF PostEvent, Named
    <3>2. \A n \in Nat : [save EXCEPT !.pc = "resolve", !.reply = n] \in SaveState
      BY DEF SaveState
    <3>3. \A pc \in {"again", "keep"} : [save EXCEPT !.pc = pc] \in SaveState
      BY DEF SaveState
    <3> QED
      BY <2>2, <3>1, <3>2, <3>3
  <2>4. srv' \subseteq Row
    <3>1. srv' = srv \/ srv' = srv \cup {[id |-> made + 1, at |-> save.at]}
      BY <1>5 DEF PostEvent
    <3> QED
      BY <2>2, <3>1 DEF Row, SaveState
  <2> QED
    BY <1>5, <2>1, <2>2, <2>3, <2>4 DEF PostEvent
<1>6. CASE ResolveEvent
  <2>1. save' \in SaveState /\ past' \in History
    BY <1>6, PastType DEF ResolveEvent, SaveState
  <2>2. Event(save.reply, save.at, FALSE, 0) \in EventRecord
    BY EventType DEF SaveState
  <2> QED
    BY <1>6, <2>1, <2>2 DEF ResolveEvent
<1>7. CASE UnqueueEvent
  <2>1. past' \in History
    BY <1>7, PastType DEF UnqueueEvent
  <2> QED
    BY <1>7, <2>1 DEF UnqueueEvent, sentUnqueued, unqueued, Named, SaveState, EditorState
<1>8. CASE PushAwaited
  BY <1>8 DEF PushAwaited, SaveState
<1>9. CASE SaveEnds
  <2>1. past' \in History
    BY <1>9, PastType DEF SaveEnds
  <2>2. save' \in SaveState /\ ed' \in EditorState
    BY <1>9, RestTypes DEF SaveEnds, SaveState, EditorState
  <2>3. local' \subseteq EventRecord
    <3>1. save.note \in Nat
      BY DEF SaveState
    <3>2. \A e \in EventRecord : [e EXCEPT !.note = save.note] \in EventRecord
      BY <3>1 DEF EventRecord
    <3> QED
      BY <1>9, <3>2 DEF SaveEnds, setLocalEventNotificationId
  <2> QED
    BY <1>9, <2>1, <2>2, <2>3 DEF SaveEnds
<1>10. CASE SaveFails
  BY <1>10, PastType, RestTypes DEF SaveFails
<1> QED
  BY <1>1, <1>2, <1>3, <1>4, <1>5, <1>6, <1>7, <1>8, <1>9, <1>10 DEF SaveStep

LEMMA DeleteTypes ==
    ASSUME TypeOK, confirmDelete \/ DeleteFromList \/ Deleting
    PROVE  TypeOK'
<1> USE DEF TypeOK
<1>1. CASE confirmDelete
  <2>1. past' \in History
    BY <1>1, PastType DEF confirmDelete
  <2> QED
    BY <1>1, <2>1 DEF confirmDelete, cancelReminder, DeleteState, EditorState
<1>2. CASE DeleteFromList
  BY <1>2 DEF DeleteFromList, DeleteState, EventRecord
<1>3. CASE deleteEventOffline
  <2>1. past' \in History
    BY <1>3, PastType DEF deleteEventOffline
  <2>2. \A e \in EventRecord : [e EXCEPT !.pendingDelete = TRUE] \in EventRecord
    BY DEF EventRecord
  <2>3. local' \subseteq EventRecord /\ queue' \subseteq ItemRecord
    BY <1>3, <2>2 DEF deleteEventOffline, unqueued
  <2>4. del' \in DeleteState
    BY <1>3 DEF deleteEventOffline, DeleteState
  <2> QED
    BY <1>3, <2>1, <2>3, <2>4 DEF deleteEventOffline
<1>4. CASE EnqueueDelete
  <2>1. past' \in History
    BY <1>4, PastType DEF EnqueueDelete
  <2>2. Item(del.id, "delete", 0) \in ItemRecord
    BY ItemType DEF DeleteState
  <2>3. queue' \subseteq ItemRecord
    BY <1>4, <2>2, EnqueueFacts DEF EnqueueDelete
  <2>4. push' \in PushState
    BY <1>4, <2>3, RestTypes DEF EnqueueDelete, processSyncQueue, PushState
  <2>5. del' \in DeleteState
    BY <1>4 DEF EnqueueDelete, DeleteState
  <2> QED
    BY <1>4, <2>1, <2>3, <2>4, <2>5 DEF EnqueueDelete
<1>5. CASE DeleteEnds
  BY <1>5, RestTypes DEF DeleteEnds, EditorState
<1> QED
  BY <1>1, <1>2, <1>3, <1>4, <1>5 DEF Deleting

LEMMA PushTypes ==
    ASSUME TypeOK, TriggerPush \/ PushStep
    PROVE  TypeOK'
<1> USE DEF TypeOK
<1>1. CASE TriggerPush
  <2>1. push' \in PushState
    BY <1>1, RestTypes DEF TriggerPush, processSyncQueue, PushState
  <2> QED
    BY <1>1, <2>1 DEF TriggerPush
<1>2. CASE processEventOperation
  <2>1. PICK q \in push.todo :
       \/ /\ q.operation = "create" /\ made < MaxIds
          /\ made' = made + 1 /\ srv' = srv \cup {[id |-> made + 1, at |-> q.at]}
          /\ \/ push' = [push EXCEPT !.pc = "swap", !.item = q, !.reply = made + 1]
                /\ Excused("raced", save.pc \in {"post", "resolve", "unqueue"})
             \/ push' = [push EXCEPT !.todo = @ \ {q}, !.failed = ItemKept(q)]
                /\ past' = [past EXCEPT !.lost = TRUE, !.dropped = @ \/ q.retries = MAX_RETRIES]
       \/ /\ q.operation = "update" /\ \E r \in srv : r.id = q.id
          /\ srv' = {IF r.id = q.id THEN [r EXCEPT !.at = q.at] ELSE r : r \in srv}
          /\ ItemDone(q) /\ UNCHANGED <<made, past>>
       \/ /\ q.operation = "delete" /\ \E r \in srv : r.id = q.id
          /\ srv' = {r \in srv : r.id # q.id}
          /\ ItemDone(q) /\ UNCHANGED <<made, past>>
       \/ ItemFailed(q) /\ UNCHANGED <<srv, made>>
    BY <1>2 DEF processEventOperation
  <2>2. q \in ItemRecord /\ made + 1 \in Nat /\ q.at \in Nat
    BY NaturalBounds DEF PushState, ItemRecord
  <2>3. past' \in History
    <3>1. past' = past \/ past' = [past EXCEPT !.lost = TRUE, !.dropped = @ \/ q.retries = MAX_RETRIES]
          \/ Excused("raced", save.pc \in {"post", "resolve", "unqueue"})
          \/ Excused("dropped", q.retries = MAX_RETRIES)
      BY <2>1 DEF ItemFailed
    <3>2. [past EXCEPT !.lost = TRUE, !.dropped = @ \/ q.retries = MAX_RETRIES] \in History
      BY DEF History
    <3> QED
      BY <3>1, <3>2, PastType
  <2>4. made' \in 0..MaxIds
    BY <2>1, NaturalBounds DEF ItemFailed
  <2>5. srv' \subseteq Row
    <3>1. [id |-> made + 1, at |-> q.at] \in Row /\ \A r \in Row : [r EXCEPT !.at = q.at] \in Row
      BY <2>2 DEF Row
    <3> QED
      BY <2>1, <3>1
  <2>6. push' \in PushState
    <3>1. ItemKept(q) \subseteq ItemRecord
      BY <2>2, ItemKeptType
    <3>2. \/ push' = [push EXCEPT !.pc = "swap", !.item = q, !.reply = made + 1]
          \/ push' = [push EXCEPT !.todo = @ \ {q}, !.failed = ItemKept(q)]
          \/ push' = [push EXCEPT !.pc = "next", !.todo = @ \ {q}]
          \/ push' = [push EXCEPT !.pc = "next", !.todo = @ \ {q}, !.failed = ItemKept(q)]
      BY <2>1 DEF ItemDone, ItemFailed
    <3>3. \A n \in Nat : [push EXCEPT !.pc = "swap", !.item = q, !.reply = n] \in PushState
      BY <2>2 DEF PushState
    <3>4. \A F \in SUBSET ItemRecord :
              /\ [push EXCEPT !.todo = @ \ {q}, !.failed = F] \in PushState
              /\ [push EXCEPT !.pc = "next", !.todo = @ \ {q}, !.failed = F] \in PushState
      BY DEF PushState
    <3>5. [push EXCEPT !.pc = "next", !.todo = @ \ {q}] \in PushState
      BY DEF PushState
    <3> QED
      BY <2>2, <3>1, <3>2, <3>3, <3>4, <3>5
  <2> QED
    BY <1>2, <2>3, <2>4, <2>5, <2>6 DEF processEventOperation
<1>3. CASE SwapEventId
  <2>1. past' \in History
    BY <1>3 DEF SwapEventId, History
  <2>2. local' \subseteq EventRecord
    <3>1. push.reply \in Nat
      BY DEF PushState
    <3>2. \A e \in EventRecord : [e EXCEPT !.id = push.reply, !.isLocal = FALSE] \in EventRecord
      BY <3>1 DEF EventRecord
    <3> QED
      BY <1>3, <3>2 DEF SwapEventId
  <2>3. push' \in PushState
    BY <1>3 DEF SwapEventId, ItemDone, PushState
  <2> QED
    BY <1>3, <2>1, <2>2, <2>3 DEF SwapEventId
<1>4. CASE FinishPush
  BY <1>4, RestTypes DEF FinishPush, PushState
<1> QED
  BY <1>1, <1>2, <1>3, <1>4 DEF PushStep

LEMMA PullTypes ==
    ASSUME TypeOK, Unique(full.seen), fullSync \/ PullEvents \/ MergeEvents
    PROVE  TypeOK'
<1> USE DEF TypeOK
<1>1. CASE fullSync
  <2>1. past' \in History
    <3>1. past.runs + 1 \in Nat /\ past' = [past EXCEPT !.runs = past.runs + 1]
      BY <1>1 DEF fullSync, History
    <3>2. \A n \in Nat : [past EXCEPT !.runs = n] \in History
      BY DEF History
    <3> QED
      BY <3>1, <3>2
  <2>2. full' \in FullState
    BY <1>1, RestTypes DEF fullSync, FullState
  <2> QED
    BY <1>1, <2>1, <2>2 DEF fullSync
<1>2. CASE PullEvents
  <2>1. full' \in FullState
    BY <1>2 DEF PullEvents, FullState
  <2> QED
    BY <1>2, <2>1 DEF PullEvents
<1>3. CASE MergeEvents
  <2>1. local' \in mergeRecords(Pulled, local, full.complete, full.at)
    BY <1>3 DEF MergeEvents, Pulled
  <2>2. local' \subseteq EventRecord
    BY <2>1, MergeFacts DEF FullState
  <2>3. past' \in History
    BY <1>3, PastType DEF MergeEvents
  <2> QED
    BY <1>3, <2>2, <2>3, RestTypes DEF MergeEvents
<1> QED
  BY <1>1, <1>2, <1>3

LEMMA RefreshTypes ==
    ASSUME TypeOK, refreshRecurringReminders \/ RefreshSchedules \/ RefreshKeeps \/ Killed
    PROVE  TypeOK'
<1> USE DEF TypeOK
<1>1. past.runs + 1 \in Nat /\ \A n \in Nat, b \in BOOLEAN :
          /\ [past EXCEPT !.runs = n, !.astray = @ \/ b] \in History
          /\ [past EXCEPT !.runs = n, !.cut = @ \/ b] \in History
  <2>1. past.runs + 1 \in Nat /\ past.astray \in BOOLEAN /\ past.cut \in BOOLEAN
    BY DEF History
  <2>2. \A n \in Nat, b \in BOOLEAN :
            [past EXCEPT !.runs = n, !.astray = b] \in History /\ [past EXCEPT !.runs = n, !.cut = b] \in History
    BY DEF History
  <2> QED
    BY <2>1, <2>2
<1>2. CASE refreshRecurringReminders
  <2>1. past' \in History
    BY <1>1, <1>2 DEF refreshRecurringReminders, Editing
  <2>2. refresh' \in RefreshState
    BY <1>2 DEF refreshRecurringReminders, RefreshState, EventRecord
  <2> QED
    BY <1>2, <2>1, <2>2 DEF refreshRecurringReminders
<1>3. CASE RefreshSchedules
  <2>1. PICK n \in 1..MaxNotes :
            Schedule(refresh.note, n) /\ refresh' = [refresh EXCEPT !.pc = "keep", !.note = n]
    BY <1>3 DEF RefreshSchedules
  <2>2. n \in Nat /\ notes' \in Nat /\ os' \subseteq Nat
    BY <2>1, ScheduleFacts
  <2>3. refresh' \in RefreshState
    BY <2>1, <2>2 DEF RefreshState
  <2> QED
    BY <1>3, <2>2, <2>3 DEF RefreshSchedules
<1>4. CASE RefreshKeeps
  <2>1. past' \in History
    BY <1>4, PastType DEF RefreshKeeps
  <2>2. local' \subseteq EventRecord
    <3>1. refresh.note \in Nat
      BY DEF RefreshState
    <3>2. \A e \in EventRecord : [e EXCEPT !.note = refresh.note] \in EventRecord
      BY <3>1 DEF EventRecord
    <3> QED
      BY <1>4, <3>2 DEF RefreshKeeps, setLocalEventNotificationId
  <2> QED
    BY <1>4, <2>1, <2>2, RestTypes DEF RefreshKeeps
<1>5. CASE Killed
  <2>1. past' \in History
    <3>1. PICK b \in BOOLEAN : b = (\E f \in {save, refresh, del, push} : f.pc # "idle")
      OBVIOUS
    <3>2. past' = [past EXCEPT !.runs = past.runs + 1, !.cut = @ \/ b]
      BY <1>5, <3>1 DEF Killed
    <3> QED
      BY <1>1, <3>2
  <2> QED
    BY <1>5, <2>1, RestTypes DEF Killed
<1> QED
  BY <1>2, <1>3, <1>4, <1>5

-------------------------------------------------------------------------------
(* Which action changes what *)

LEMMA Frame ==
    ASSUME Next
    PROVE  /\ made' = made \/ PostEvent \/ processEventOperation
           /\ srv' = srv \/ PostEvent \/ processEventOperation
           /\ \/ local' = local
              \/ WriteEvent \/ ResolveEvent \/ SaveEnds \/ deleteEventOffline \/ DeleteEnds
              \/ SwapEventId \/ MergeEvents \/ RefreshKeeps
           /\ queue' = queue \/ EnqueueEvent \/ UnqueueEvent \/ deleteEventOffline \/ EnqueueDelete \/ FinishPush
           /\ \/ push' = push
              \/ EnqueueEvent \/ EnqueueDelete \/ TriggerPush \/ processEventOperation
              \/ SwapEventId \/ FinishPush \/ Killed
           /\ full' = full \/ fullSync \/ PullEvents \/ MergeEvents \/ Killed
           /\ \/ ed' = ed
              \/ Type \/ triggerAutoSave \/ handleBack \/ loadEvent \/ scheduleReminder
              \/ EnqueueEvent \/ PostEvent \/ UnqueueEvent \/ SaveEnds \/ DeleteEnds \/ Killed
           /\ wants' = wants \/ triggerAutoSave \/ handleBack \/ SaveEnds \/ SaveFails \/ Killed
           /\ \/ save' = save
              \/ (\E w \in wants : withSaveLock(w)) \/ scheduleReminder \/ WriteEvent
              \/ EnqueueEvent \/ PostEvent \/ ResolveEvent \/ UnqueueEvent \/ PushAwaited
              \/ SaveEnds \/ SaveFails \/ Killed
           /\ \/ del' = del
              \/ confirmDelete \/ DeleteFromList \/ deleteEventOffline \/ EnqueueDelete
              \/ DeleteEnds \/ Killed
           /\ refresh' = refresh \/ refreshRecurringReminders \/ RefreshSchedules \/ RefreshKeeps \/ Killed
           /\ os' = os \/ scheduleReminder \/ confirmDelete \/ RefreshSchedules
           /\ notes' = notes \/ scheduleReminder \/ RefreshSchedules
<1>1. CASE Type
  <2>1. UNCHANGED <<srv, made, local, queue, push, full, wants, save, del, refresh, os, notes>>
    BY <1>1 DEF Type
  <2> QED
    BY <1>1, <2>1
<1>2. CASE triggerAutoSave
  <2>1. UNCHANGED <<srv, made, local, queue, push, full, save, del, refresh, os, notes>>
    BY <1>2 DEF triggerAutoSave
  <2> QED
    BY <1>2, <2>1
<1>3. CASE handleBack
  <2>1. UNCHANGED <<srv, made, local, queue, push, full, save, del, refresh, os, notes>>
    BY <1>3 DEF handleBack
  <2> QED
    BY <1>3, <2>1
<1>4. CASE loadEvent
  <2>1. UNCHANGED <<srv, made, local, queue, push, full, wants, save, del, refresh, os, notes>>
    BY <1>4 DEF loadEvent
  <2> QED
    BY <1>4, <2>1
<1>5. CASE \E w \in wants : withSaveLock(w)
  <2>1. UNCHANGED <<srv, made, local, queue, push, full, ed, wants, del, refresh, os, notes>>
    BY <1>5 DEF withSaveLock
  <2> QED
    BY <1>5, <2>1
<1>6. CASE scheduleReminder
  <2>1. UNCHANGED <<srv, made, local, queue, push, full, wants, del, refresh>>
    BY <1>6 DEF scheduleReminder
  <2> QED
    BY <1>6, <2>1
<1>7. CASE WriteEvent
  <2>1. UNCHANGED <<srv, made, queue, push, full, ed, wants, del, refresh, os, notes>>
    BY <1>7 DEF WriteEvent
  <2> QED
    BY <1>7, <2>1
<1>8. CASE EnqueueEvent
  <2>1. UNCHANGED <<srv, made, local, full, wants, del, refresh, os, notes>>
    BY <1>8 DEF EnqueueEvent
  <2> QED
    BY <1>8, <2>1
<1>9. CASE PostEvent
  <2>1. UNCHANGED <<local, queue, push, full, wants, del, refresh, os, notes>>
    BY <1>9 DEF PostEvent
  <2> QED
    BY <1>9, <2>1
<1>10. CASE ResolveEvent
  <2>1. UNCHANGED <<srv, made, queue, push, full, ed, wants, del, refresh, os, notes>>
    BY <1>10 DEF ResolveEvent
  <2> QED
    BY <1>10, <2>1
<1>11. CASE UnqueueEvent
  <2>1. UNCHANGED <<srv, made, local, push, full, wants, del, refresh, os, notes>>
    BY <1>11 DEF UnqueueEvent
  <2> QED
    BY <1>11, <2>1
<1>12. CASE PushAwaited
  <2>1. UNCHANGED <<srv, made, local, queue, push, full, ed, wants, del, refresh, os, notes>>
    BY <1>12 DEF PushAwaited
  <2> QED
    BY <1>12, <2>1
<1>13. CASE SaveEnds
  <2>1. UNCHANGED <<srv, made, queue, push, full, del, refresh, os, notes>>
    BY <1>13 DEF SaveEnds
  <2> QED
    BY <1>13, <2>1
<1>14. CASE SaveFails
  <2>1. UNCHANGED <<srv, made, local, queue, push, full, ed, del, refresh, os, notes>>
    BY <1>14 DEF SaveFails
  <2> QED
    BY <1>14, <2>1
<1>15. CASE confirmDelete
  <2>1. UNCHANGED <<srv, made, local, queue, push, full, ed, wants, save, refresh, notes>>
    BY <1>15 DEF confirmDelete
  <2> QED
    BY <1>15, <2>1
<1>16. CASE DeleteFromList
  <2>1. UNCHANGED <<srv, made, local, queue, push, full, ed, wants, save, refresh, os, notes>>
    BY <1>16 DEF DeleteFromList
  <2> QED
    BY <1>16, <2>1
<1>17. CASE deleteEventOffline
  <2>1. UNCHANGED <<srv, made, push, full, ed, wants, save, refresh, os, notes>>
    BY <1>17 DEF deleteEventOffline
  <2> QED
    BY <1>17, <2>1
<1>18. CASE EnqueueDelete
  <2>1. UNCHANGED <<srv, made, local, full, ed, wants, save, refresh, os, notes>>
    BY <1>18 DEF EnqueueDelete
  <2> QED
    BY <1>18, <2>1
<1>19. CASE DeleteEnds
  <2>1. UNCHANGED <<srv, made, queue, push, full, wants, save, refresh, os, notes>>
    BY <1>19 DEF DeleteEnds
  <2> QED
    BY <1>19, <2>1
<1>20. CASE TriggerPush
  <2>1. UNCHANGED <<srv, made, local, queue, full, ed, wants, save, del, refresh, os, notes>>
    BY <1>20 DEF TriggerPush
  <2> QED
    BY <1>20, <2>1
<1>21. CASE processEventOperation
  <2>1. UNCHANGED <<local, queue, full, ed, wants, save, del, refresh, os, notes>>
    BY <1>21 DEF processEventOperation
  <2> QED
    BY <1>21, <2>1
<1>22. CASE SwapEventId
  <2>1. UNCHANGED <<srv, made, queue, full, ed, wants, save, del, refresh, os, notes>>
    BY <1>22 DEF SwapEventId
  <2> QED
    BY <1>22, <2>1
<1>23. CASE FinishPush
  <2>1. UNCHANGED <<srv, made, local, full, ed, wants, save, del, refresh, os, notes>>
    BY <1>23 DEF FinishPush
  <2> QED
    BY <1>23, <2>1
<1>24. CASE fullSync
  <2>1. UNCHANGED <<srv, made, local, queue, push, ed, wants, save, del, refresh, os, notes>>
    BY <1>24 DEF fullSync
  <2> QED
    BY <1>24, <2>1
<1>25. CASE PullEvents
  <2>1. UNCHANGED <<srv, made, local, queue, push, ed, wants, save, del, refresh, os, notes>>
    BY <1>25 DEF PullEvents
  <2> QED
    BY <1>25, <2>1
<1>26. CASE MergeEvents
  <2>1. UNCHANGED <<srv, made, queue, push, ed, wants, save, del, refresh, os, notes>>
    BY <1>26 DEF MergeEvents
  <2> QED
    BY <1>26, <2>1
<1>27. CASE refreshRecurringReminders
  <2>1. UNCHANGED <<srv, made, local, queue, push, full, ed, wants, save, del, os, notes>>
    BY <1>27 DEF refreshRecurringReminders
  <2> QED
    BY <1>27, <2>1
<1>28. CASE RefreshSchedules
  <2>1. UNCHANGED <<srv, made, local, queue, push, full, ed, wants, save, del>>
    BY <1>28 DEF RefreshSchedules
  <2> QED
    BY <1>28, <2>1
<1>29. CASE RefreshKeeps
  <2>1. UNCHANGED <<srv, made, queue, push, full, ed, wants, save, del, os, notes>>
    BY <1>29 DEF RefreshKeeps
  <2> QED
    BY <1>29, <2>1
<1>30. CASE Killed
  <2>1. UNCHANGED <<srv, made, local, queue, os, notes>>
    BY <1>30 DEF Killed
  <2> QED
    BY <1>30, <2>1
<1> QED
  BY <1>1, <1>2, <1>3, <1>4, <1>5, <1>6, <1>7, <1>8, <1>9, <1>10, <1>11, <1>12, <1>13, <1>14, <1>15, <1>16, <1>17, <1>18, <1>19, <1>20, <1>21, <1>22, <1>23, <1>24, <1>25, <1>26, <1>27, <1>28, <1>29, <1>30
     DEF Next, SaveStep, Deleting, PushStep

\* What the history has noted stays noted.
LEMMA PastGrows ==
    ASSUME past \in History, Next
    PROVE  \A h \in {"lost", "raced", "stale", "dropped", "astray", "cut"} : past[h] => past'[h]
<1> DEFINE H == {"lost", "raced", "stale", "dropped", "astray", "cut"}
<1>1. \A event \in H : Did(event) => \A h \in H : past[h] => past'[h]
  BY DEF Did, History
<1>2. \A event \in H : \A cond : Excused(event, cond) => \A h \in H : past[h] => past'[h]
  BY <1>1 DEF Excused
<1>3. CASE UNCHANGED past
  BY <1>3
<1>4. CASE loadEvent
  BY <1>2, <1>4 DEF loadEvent
<1>5. CASE WriteEvent
  BY <1>2, <1>5 DEF WriteEvent
<1>6. CASE EnqueueEvent
  BY <1>2, <1>6 DEF EnqueueEvent
<1>7. CASE PostEvent
  BY <1>1, <1>7 DEF PostEvent
<1>8. CASE ResolveEvent \/ UnqueueEvent
  BY <1>2, <1>8 DEF ResolveEvent, UnqueueEvent
<1>9. CASE SaveEnds \/ SaveFails
  BY <1>1, <1>2, <1>9 DEF SaveEnds, SaveFails
<1>10. CASE confirmDelete \/ deleteEventOffline \/ EnqueueDelete
  BY <1>2, <1>10 DEF confirmDelete, deleteEventOffline, EnqueueDelete
<1>11. CASE processEventOperation
  <2>1. PICK q : past' = past \/ past' = [past EXCEPT !.lost = TRUE, !.dropped = @ \/ q.retries = MAX_RETRIES]
          \/ Excused("raced", save.pc \in {"post", "resolve", "unqueue"})
          \/ Excused("dropped", q.retries = MAX_RETRIES)
    BY <1>11 DEF processEventOperation, ItemFailed
  <2>2. CASE past' = [past EXCEPT !.lost = TRUE, !.dropped = @ \/ q.retries = MAX_RETRIES]
    BY <2>2 DEF History
  <2> QED
    BY <1>2, <2>1, <2>2
<1>12. CASE MergeEvents \/ RefreshKeeps
  BY <1>2, <1>12 DEF MergeEvents, RefreshKeeps
<1>13. CASE SwapEventId \/ fullSync \/ refreshRecurringReminders \/ Killed
  BY <1>13 DEF SwapEventId, fullSync, refreshRecurringReminders, Killed, History
<1>14. CASE Type \/ triggerAutoSave \/ handleBack \/ (\E w \in wants : withSaveLock(w)) \/ scheduleReminder
            \/ PushAwaited \/ DeleteFromList \/ DeleteEnds \/ TriggerPush \/ FinishPush \/ PullEvents
            \/ RefreshSchedules
  <2>1. UNCHANGED past
    BY <1>14 DEF Type, triggerAutoSave, handleBack, withSaveLock, scheduleReminder, PushAwaited,
                 DeleteFromList, DeleteEnds, TriggerPush, FinishPush, PullEvents, RefreshSchedules
  <2> QED
    BY <2>1
<1> QED
  BY <1>4, <1>5, <1>6, <1>7, <1>8, <1>9, <1>10, <1>11, <1>12, <1>13, <1>14
     DEF Next, SaveStep, Deleting, PushStep

-------------------------------------------------------------------------------
(* Ids, items and the save that holds the lock *)

RowsGiven(S) == Unique(S) /\ \A r \in S : 1 <= r.id /\ r.id <= made
InPush       == push.todo \cup push.failed
Creates(Q)   == {q \in Q : q.operation = "create"}

\* Ids are given once, events of the device have the temp id, and so do creates.
IdsGiven ==
    /\ \A e \in local : (e.isLocal <=> e.id = Temp) /\ e.id <= made
    /\ RowsGiven(srv) /\ RowsGiven(full.seen)
    /\ ed.id <= made \/ ed.id = NoId
    /\ \A q \in Creates(queue) \cup Creates(InPush) : q.id = Temp

\* One item per id; what a push is swapping is a create it still has.
PushShape ==
    /\ Unique(queue) /\ Unique(InPush)
    /\ \A q \in push.todo, f \in push.failed : q.id # f.id
    /\ push.pc = "idle" => InPush = {}
    /\ push.pc = "swap" =>
        /\ push.item \in push.todo /\ push.item.operation = "create"
        /\ 1 <= push.reply /\ push.reply <= made

\* The save that makes the event.
Making == save.new /\ save.pc \in {"enqueue", "post", "resolve", "unqueue"}

SaveShape ==
    /\ save.pc # "idle" => save.by \in wants /\ save.note = ed.ref
    /\ save.pc \in {"schedule", "again"} => save.by = "auto"
    /\ save.pc \in {"post", "resolve", "unqueue"} => save.new
    /\ save.pc \in {"resolve", "unqueue"} =>
        /\ 1 <= save.reply /\ save.reply <= made
        /\ push.pc = "swap" => save.reply # push.reply
    /\ Making => ~ed.created
    /\ save.pc = "enqueue" => (save.isLocal <=> SavedId = Temp)

NoCreates == Creates(queue) = {} /\ Creates(InPush) = {}

Nothing == made = 0 /\ local = {} /\ NoCreates

\* Before the editor knows its event there is none, but for the one that is
\* being made and the one of a screen that was killed.
Stage ==
    /\ ~ed.created => ed.id = NoId
    /\ ~ed.created =>
        \/ ~ed.open /\ ~ed.timer /\ wants = {}
        \/ save.pc \in {"idle", "schedule", "write"} /\ Nothing
        \/ Making
    /\ Making /\ save.pc = "enqueue" => made = 0 /\ NoCreates

Shape == TypeOK /\ IdsGiven /\ PushShape /\ SaveShape /\ Stage

LEMMA ShapeInit == Init => Shape
<1> SUFFICES ASSUME Init PROVE Shape
  OBVIOUS
<1>1. TypeOK
  BY TypesInit
<1>2. /\ made = 0 /\ local = {} /\ srv = {} /\ queue = {} /\ full.seen = {} /\ push.pc = "idle"
      /\ InPush = {} /\ ed.id = NoId /\ ~ed.created /\ save.pc = "idle"
  BY DEF Init, IdleFull, IdlePush, IdleSave, Closed, InPush
<1>4. \A q \in push.todo, f \in push.failed : q.id # f.id
  BY DEF Init, IdlePush
<1>3. NoCreates
  BY <1>2 DEF NoCreates, Creates
<1> QED
  BY <1>1, <1>2, <1>3, <1>4 DEF Shape, IdsGiven, RowsGiven, Unique, PushShape, SaveShape, Stage, Making,
     Nothing, Creates

LEMMA TypesStep ==
    ASSUME TypeOK, IdsGiven, Next
    PROVE  TypeOK'
<1>1. Unique(full.seen)
  BY DEF IdsGiven, RowsGiven
<1> QED
  BY <1>1, EditorTypes, SaveTypes, DeleteTypes, PushTypes, PullTypes, RefreshTypes DEF Next, PushStep

LEMMA MadeGrows ==
    ASSUME TypeOK, Next
    PROVE  made \in Nat /\ made' \in Nat /\ made <= made'
<1>1. made' = made \/ made' = made + 1
  BY Frame DEF PostEvent, processEventOperation
<1> QED
  BY <1>1, NaturalBounds DEF TypeOK

\* The item of an answered operation leaves the push.
LEMMA ItemLeaves ==
    ASSUME TypeOK, NEW q \in push.todo, ItemDone(q)
    PROVE  /\ push'.pc = "next" /\ push'.todo = push.todo \ {q} /\ push'.failed = push.failed
           /\ InPush' \subseteq InPush
  BY DEF TypeOK, PushState, ItemDone, InPush

\* What one operation of the push can do.
OperationDone(q) ==
    \/ /\ q.operation = "create" /\ made' = made + 1 /\ srv' = srv \cup {[id |-> made + 1, at |-> q.at]}
       /\ \/ /\ push' = [push EXCEPT !.pc = "swap", !.item = q, !.reply = made + 1]
             /\ Excused("raced", save.pc \in {"post", "resolve", "unqueue"})
          \/ /\ push' = [push EXCEPT !.todo = @ \ {q}, !.failed = ItemKept(q)]
             /\ past'.lost
    \/ /\ made' = made /\ IdsOf(srv') \subseteq IdsOf(srv) /\ (Unique(srv) => Unique(srv'))
       /\ \/ push' = [push EXCEPT !.pc = "next", !.todo = @ \ {q}]
          \/ push' = [push EXCEPT !.pc = "next", !.todo = @ \ {q}, !.failed = ItemKept(q)]

LEMMA OperationFacts ==
    ASSUME TypeOK, processEventOperation
    PROVE  \E q \in push.todo : OperationDone(q)
<1>1. PICK q \in push.todo :
       \/ /\ q.operation = "create" /\ made < MaxIds
          /\ made' = made + 1 /\ srv' = srv \cup {[id |-> made + 1, at |-> q.at]}
          /\ \/ push' = [push EXCEPT !.pc = "swap", !.item = q, !.reply = made + 1]
                /\ Excused("raced", save.pc \in {"post", "resolve", "unqueue"})
             \/ push' = [push EXCEPT !.todo = @ \ {q}, !.failed = ItemKept(q)]
                /\ past' = [past EXCEPT !.lost = TRUE, !.dropped = @ \/ q.retries = MAX_RETRIES]
       \/ /\ q.operation = "update"
          /\ srv' = {IF r.id = q.id THEN [r EXCEPT !.at = q.at] ELSE r : r \in srv}
          /\ ItemDone(q) /\ UNCHANGED made
       \/ srv' = {r \in srv : r.id # q.id} /\ ItemDone(q) /\ UNCHANGED made
       \/ ItemFailed(q) /\ UNCHANGED <<srv, made>>
  BY DEF processEventOperation
<1>2. CASE q.operation = "create" /\ made' = made + 1 /\ srv' = srv \cup {[id |-> made + 1, at |-> q.at]}
           /\ push' = [push EXCEPT !.todo = @ \ {q}, !.failed = ItemKept(q)]
           /\ past' = [past EXCEPT !.lost = TRUE, !.dropped = @ \/ q.retries = MAX_RETRIES]
  <2>1. past'.lost
    BY <1>2 DEF TypeOK, History
  <2> QED
    BY <1>2, <2>1 DEF OperationDone
<1>3. CASE q.operation = "create" /\ made' = made + 1 /\ srv' = srv \cup {[id |-> made + 1, at |-> q.at]}
           /\ push' = [push EXCEPT !.pc = "swap", !.item = q, !.reply = made + 1]
           /\ Excused("raced", save.pc \in {"post", "resolve", "unqueue"})
  BY <1>3 DEF OperationDone
<1>4. CASE srv' = {IF r.id = q.id THEN [r EXCEPT !.at = q.at] ELSE r : r \in srv}
           /\ ItemDone(q) /\ UNCHANGED made
  <2>1. \A r \in srv : [r EXCEPT !.at = q.at].id = r.id
    BY DEF TypeOK, Row
  <2>2. \A s \in srv' : \E r \in srv : s.id = r.id /\ s = IF r.id = q.id THEN [r EXCEPT !.at = q.at] ELSE r
    BY <1>4, <2>1
  <2>3. IdsOf(srv') \subseteq IdsOf(srv) /\ (Unique(srv) => Unique(srv'))
    BY <2>2 DEF IdsOf, Unique
  <2> QED
    BY <1>4, <2>3 DEF OperationDone, ItemDone
<1>5. CASE srv' = {r \in srv : r.id # q.id} /\ ItemDone(q) /\ UNCHANGED made
  <2>1. IdsOf(srv') \subseteq IdsOf(srv) /\ (Unique(srv) => Unique(srv'))
    BY <1>5 DEF IdsOf, Unique
  <2> QED
    BY <1>5, <2>1 DEF OperationDone, ItemDone
<1>6. CASE ItemFailed(q) /\ UNCHANGED <<srv, made>>
  BY <1>6 DEF OperationDone, ItemFailed
<1> QED
  BY <1>1, <1>2, <1>3, <1>4, <1>5, <1>6

-------------------------------------------------------------------------------
(* What the actions do to the device's events *)

\* The same event, with its id.
Like(e, d) == e.id = d.id /\ (e.isLocal <=> d.isLocal)

Rewritten(i, at) == {IF d.id = i THEN [d EXCEPT !.updated_at = at] ELSE d : d \in local}

LEMMA ContentSet ==
    ASSUME local \subseteq EventRecord, NEW i \in Nat, NEW at \in Nat
    PROVE  /\ \A e \in Rewritten(i, at) : \E d \in local : Like(e, d) /\ e.note = d.note
           /\ \A d \in local : \E e \in Rewritten(i, at) : Like(e, d) /\ e.note = d.note
           /\ Unique(local) => Unique(Rewritten(i, at))
<1> DEFINE new(d) == [d EXCEPT !.updated_at = at]
<1>1. \A d \in EventRecord : Like(new(d), d) /\ new(d).note = d.note
  BY DEF EventRecord, Like
<1>2. \A d \in local : Like(d, d)
  BY DEF Like
<1>3. Rewritten(i, at) = {IF d.id = i THEN new(d) ELSE d : d \in local}
  BY DEF Rewritten
<1> HIDE DEF new
<1>4. \A e \in Rewritten(i, at) : \E d \in local : Like(e, d) /\ e.note = d.note /\ e = IF d.id = i THEN new(d) ELSE d
  BY <1>1, <1>2, <1>3
<1>5. \A d \in local : \E e \in Rewritten(i, at) : Like(e, d) /\ e.note = d.note
  BY <1>1, <1>2, <1>3
<1>6. Unique(local) => Unique(Rewritten(i, at))
  BY <1>4 DEF Unique, Like
<1> QED
  BY <1>4, <1>5, <1>6

Hidden(i) == {IF d.id = i THEN [d EXCEPT !.pendingDelete = TRUE] ELSE d : d \in local}

LEMMA HiddenSet ==
    ASSUME local \subseteq EventRecord, NEW i \in Nat
    PROVE  /\ \A e \in Hidden(i) : \E d \in local : Like(e, d) /\ e.note = d.note
           /\ \A d \in local : \E e \in Hidden(i) : Like(e, d) /\ e.note = d.note
           /\ Unique(local) => Unique(Hidden(i))
<1> DEFINE new(d) == [d EXCEPT !.pendingDelete = TRUE]
<1>1. \A d \in EventRecord : Like(new(d), d) /\ new(d).note = d.note
  BY DEF EventRecord, Like
<1>2. \A d \in local : Like(d, d)
  BY DEF Like
<1>3. Hidden(i) = {IF d.id = i THEN new(d) ELSE d : d \in local}
  BY DEF Hidden
<1> HIDE DEF new
<1>4. \A e \in Hidden(i) : \E d \in local : Like(e, d) /\ e.note = d.note /\ e = IF d.id = i THEN new(d) ELSE d
  BY <1>1, <1>2, <1>3
<1>5. \A d \in local : \E e \in Hidden(i) : Like(e, d) /\ e.note = d.note
  BY <1>1, <1>2, <1>3
<1>6. Unique(local) => Unique(Hidden(i))
  BY <1>4 DEF Unique, Like
<1> QED
  BY <1>4, <1>5, <1>6

LEMMA NoteSet ==
    ASSUME local \subseteq EventRecord, NEW i \in Nat, NEW n \in Nat
    PROVE  LET L == setLocalEventNotificationId(i, n)
           IN  /\ \A e \in L : \E d \in local : Like(e, d) /\ e.note = IF d.id = i THEN n ELSE d.note
               /\ \A d \in local : \E e \in L : Like(e, d) /\ e.note = IF d.id = i THEN n ELSE d.note
               /\ Unique(local) => Unique(L)
<1> DEFINE L == setLocalEventNotificationId(i, n)
           new(d) == [d EXCEPT !.note = n]
<1>1. \A d \in EventRecord : Like(new(d), d) /\ new(d).note = n
  BY DEF EventRecord, Like
<1>2. \A d \in local : Like(d, d)
  BY DEF Like
<1>3. L = {IF d.id = i THEN new(d) ELSE d : d \in local}
  BY DEF setLocalEventNotificationId
<1> HIDE DEF L, new
<1>4. \A e \in L : \E d \in local : /\ Like(e, d) /\ e.note = IF d.id = i THEN n ELSE d.note
                                    /\ e = IF d.id = i THEN new(d) ELSE d
  BY <1>1, <1>2, <1>3
<1>5. \A d \in local : \E e \in L : Like(e, d) /\ e.note = IF d.id = i THEN n ELSE d.note
  BY <1>1, <1>2, <1>3
<1>6. Unique(local) => Unique(L)
  BY <1>4 DEF Unique, Like
<1> QED
  BY <1>4, <1>5, <1>6 DEF L

LEMMA WriteFacts ==
    ASSUME TypeOK, WriteEvent
    PROVE  \/ /\ ~ed.created
              /\ \E f \in EventRecord : /\ f.id = Temp /\ f.isLocal /\ f.note = 0
                                        /\ local' = {d \in local : d.id # Temp} \cup {f}
           \/ /\ ed.created
              /\ \A e \in local' : \E d \in local : Like(e, d) /\ e.note = d.note
              /\ \A d \in local : \E e \in local' : Like(e, d) /\ e.note = d.note
              /\ Unique(local) => Unique(local')
<1>1. ed.draft \in Nat /\ ed.id \in Nat /\ local \subseteq EventRecord /\ Temp = 0
  BY DEF TypeOK, EditorState, Temp
<1>2. CASE isNew
  <2>1. \E f \in EventRecord : f.id = Temp /\ f.isLocal /\ f.note = 0 /\ f = Event(Temp, ed.draft, TRUE, 0)
    BY <1>1 DEF Event, EventRecord
  <2>2. local' = (local \ WithId(local, Event(Temp, ed.draft, TRUE, 0).id)) \cup {Event(Temp, ed.draft, TRUE, 0)}
    BY <1>2 DEF WriteEvent, upsertLocalEvent
  <2>3. \A f : f.id = Temp => local \ WithId(local, f.id) = {d \in local : d.id # Temp}
    BY DEF WithId
  <2> QED
    BY <1>2, <2>1, <2>2, <2>3 DEF isNew
<1>3. CASE ~isNew
  <2>1. local' = Rewritten(ed.id, ed.draft)
    BY <1>3 DEF WriteEvent, Rewritten
  <2>2. /\ \A e \in local' : \E d \in local : Like(e, d) /\ e.note = d.note
        /\ \A d \in local : \E e \in local' : Like(e, d) /\ e.note = d.note
        /\ Unique(local) => Unique(local')
    <3>1. ed.id \in Nat /\ ed.draft \in Nat /\ local \subseteq EventRecord
      BY <1>1
    <3> QED
      BY <2>1, <3>1, ContentSet
  <2> QED
    BY <1>3, <2>2 DEF isNew
<1> QED
  BY <1>2, <1>3

LEMMA ResolveFacts ==
    ASSUME TypeOK, ResolveEvent
    PROVE  \/ local' = local /\ \A e \in local : e.id # Temp
           \/ \E f \in EventRecord : /\ f.id = save.reply /\ ~f.isLocal /\ f.note = 0
                                     /\ local' = {d \in local : d.id # Temp} \cup {f}
<1>1. save.reply \in Nat /\ save.at \in Nat
  BY DEF TypeOK, SaveState
<1>2. \E f \in EventRecord : f.id = save.reply /\ ~f.isLocal /\ f.note = 0 /\ f = Event(save.reply, save.at, FALSE, 0)
  BY <1>1 DEF Event, EventRecord
<1>3. \/ local' = local /\ WithId(local, Temp) = {}
      \/ local' = (local \ WithId(local, Temp)) \cup {Event(save.reply, save.at, FALSE, 0)}
  BY DEF ResolveEvent
<1>4. local \ WithId(local, Temp) = {d \in local : d.id # Temp}
  BY DEF WithId
<1> QED
  BY <1>2, <1>3, <1>4 DEF WithId

LEMMA SwapFacts ==
    ASSUME TypeOK, SwapEventId
    PROVE  /\ \A e \in local' : \E d \in local :
                  /\ e.note = d.note
                  /\ IF d.id = push.item.id THEN e.id = push.reply /\ ~e.isLocal ELSE Like(e, d)
           /\ \A d \in local : \E e \in local' :
                  /\ e.note = d.note
                  /\ IF d.id = push.item.id THEN e.id = push.reply /\ ~e.isLocal ELSE Like(e, d)
           /\ Unique(local) /\ push.reply \notin IdsOf(local) => Unique(local')
<1> DEFINE new(d) == [d EXCEPT !.id = push.reply, !.isLocal = FALSE]
<1>1. push.reply \in Nat /\ local \subseteq EventRecord
  BY DEF TypeOK, PushState
<1>2. \A d \in EventRecord : new(d).id = push.reply /\ ~new(d).isLocal /\ new(d).note = d.note
  BY <1>1 DEF EventRecord
<1>3. local' = {IF d.id = push.item.id THEN new(d) ELSE d : d \in local}
  BY DEF SwapEventId
<1> HIDE DEF new
<1>4. \A e \in local' : \E d \in local :
          /\ e.note = d.note /\ e = IF d.id = push.item.id THEN new(d) ELSE d
          /\ IF d.id = push.item.id THEN e.id = push.reply /\ ~e.isLocal ELSE Like(e, d)
  BY <1>1, <1>2, <1>3 DEF Like
<1>5. \A d \in local : \E e \in local' :
          /\ e.note = d.note
          /\ IF d.id = push.item.id THEN e.id = push.reply /\ ~e.isLocal ELSE Like(e, d)
  BY <1>1, <1>2, <1>3 DEF Like
<1>6. ASSUME Unique(local), push.reply \notin IdsOf(local) PROVE Unique(local')
  <2>1. \A d \in local : d.id # push.reply
    BY <1>6 DEF IdsOf
  <2> QED
    BY <1>4, <1>6, <2>1 DEF Unique, Like
<1> QED
  BY <1>4, <1>5, <1>6

LEMMA HideFacts ==
    ASSUME TypeOK, deleteEventOffline
    PROVE  \/ /\ \E e \in local : e.id = del.id /\ e.isLocal
              /\ local' = {d \in local : d.id # del.id}
           \/ /\ \A e \in local' : \E d \in local : Like(e, d) /\ e.note = d.note
              /\ \A d \in local : \E e \in local' : Like(e, d) /\ e.note = d.note
              /\ Unique(local) => Unique(local')
<1>1. local \subseteq EventRecord /\ del.id \in Nat
  BY DEF TypeOK, DeleteState
<1>2. CASE \E e \in WithId(local, del.id) : e.isLocal
  <2>1. local' = {d \in local : d.id # del.id}
    BY <1>2 DEF deleteEventOffline
  <2> QED
    BY <1>2, <2>1 DEF WithId
<1>3. CASE ~(\E e \in WithId(local, del.id) : e.isLocal)
  <2>1. local' = Hidden(del.id)
    BY <1>3 DEF deleteEventOffline, Hidden
  <2>2. /\ \A e \in local' : \E d \in local : Like(e, d) /\ e.note = d.note
        /\ \A d \in local : \E e \in local' : Like(e, d) /\ e.note = d.note
        /\ Unique(local) => Unique(local')
    BY <1>1, <2>1, HiddenSet
  <2> QED
    BY <2>2
<1> QED
  BY <1>2, <1>3

LEMMA MergeEventsFacts ==
    ASSUME TypeOK, Unique(full.seen), MergeEvents
    PROVE  /\ Unique(local')
           /\ \A e \in local' : e \in local \/ \E r \in full.seen :
                  e.id = r.id /\ ~e.isLocal /\ ~e.pendingDelete /\ e.note = adoptLocalFields(r) /\ e.updated_at = r.at
<1>1. local' \in mergeRecords(Pulled, local, full.complete, full.at)
  BY DEF MergeEvents, Pulled
<1> QED
  BY <1>1, MergeFacts DEF TypeOK, FullState

-------------------------------------------------------------------------------
(* The ids *)

\* An event of the device that may be there after the step.
Placed(e) == (e.isLocal <=> e.id = Temp) /\ e.id <= made'

LEMMA LocalIdsStep ==
    ASSUME Shape, TypeOK', Next
    PROVE  \A e \in local' : Placed(e)
<1>1. /\ local \subseteq EventRecord /\ made \in Nat /\ made' \in Nat /\ made <= made' /\ Temp = 0
      /\ TypeOK
  BY MadeGrows DEF Shape, TypeOK, Temp
<1>2. \A e \in local : Placed(e)
  <2>1. \A e \in local : (e.isLocal <=> e.id = Temp) /\ e.id <= made /\ e.id \in Nat
    BY <1>1 DEF Shape, IdsGiven, EventRecord
  <2> QED
    BY <1>1, <2>1 DEF Placed
<1>3. \A i \in Nat : \A e : 1 <= i /\ i <= made /\ e.id = i /\ ~e.isLocal => Placed(e)
  BY <1>1 DEF Placed
<1>4. \A e : \A d \in local : Like(e, d) => Placed(e)
  BY <1>2 DEF Placed, Like
<1>5. CASE WriteEvent
  <2>1. \A f : f.id = Temp /\ f.isLocal => Placed(f)
    BY <1>1 DEF Placed
  <2> QED
    BY <1>1, <1>2, <1>4, <1>5, <2>1, WriteFacts
<1>6. CASE ResolveEvent
  <2>1. 1 <= save.reply /\ save.reply <= made /\ save.reply \in Nat
    BY <1>6 DEF ResolveEvent, Shape, SaveShape, TypeOK, SaveState
  <2> QED
    BY <1>1, <1>2, <1>3, <1>6, <2>1, ResolveFacts
<1>7. CASE SaveEnds
  <2>1. local' = local \/ local' = setLocalEventNotificationId(ed.id, save.note)
    BY <1>7 DEF SaveEnds
  <2>2. ed.id \in Nat /\ save.note \in Nat
    BY <1>1 DEF TypeOK, EditorState, SaveState
  <2> QED
    BY <1>1, <1>2, <1>4, <2>1, <2>2, NoteSet
<1>8. CASE RefreshKeeps
  <2>1. local' = setLocalEventNotificationId(refresh.id, refresh.note)
    BY <1>8 DEF RefreshKeeps
  <2>2. refresh.id \in Nat /\ refresh.note \in Nat
    BY <1>1 DEF TypeOK, RefreshState
  <2> QED
    BY <1>1, <1>4, <2>1, <2>2, NoteSet
<1>9. CASE deleteEventOffline
  BY <1>1, <1>2, <1>4, <1>9, HideFacts
<1>10. CASE DeleteEnds
  <2>1. local' \subseteq local
    BY <1>10 DEF DeleteEnds
  <2> QED
    BY <1>2, <2>1
<1>11. CASE SwapEventId
  <2>1. 1 <= push.reply /\ push.reply <= made /\ push.reply \in Nat
    BY <1>11 DEF SwapEventId, Shape, PushShape, TypeOK, PushState
  <2> QED
    BY <1>1, <1>3, <1>4, <1>11, <2>1, SwapFacts
<1>12. CASE MergeEvents
  <2>1. full.seen \subseteq Row /\ Unique(full.seen) /\ \A r \in full.seen : 1 <= r.id /\ r.id <= made /\ r.id \in Nat
    BY DEF Shape, TypeOK, FullState, IdsGiven, RowsGiven, Row
  <2> QED
    BY <1>1, <1>2, <1>3, <1>12, <2>1, MergeEventsFacts
<1>13. CASE local' = local
  BY <1>2, <1>13
<1> QED
  BY <1>5, <1>6, <1>7, <1>8, <1>9, <1>10, <1>11, <1>12, <1>13, Frame

LEMMA RowsStep ==
    ASSUME Shape, TypeOK', Next
    PROVE  RowsGiven(srv)' /\ RowsGiven(full.seen)'
<1>1. /\ srv \subseteq Row /\ made \in Nat /\ made' \in Nat /\ made <= made'
      /\ RowsGiven(srv) /\ RowsGiven(full.seen) /\ full.seen \subseteq Row
  BY MadeGrows DEF Shape, TypeOK, IdsGiven, FullState
<1>2. ASSUME NEW at, made' = made + 1, srv' = srv \cup {[id |-> made + 1, at |-> at]}
      PROVE  RowsGiven(srv)'
  <2>1. [id |-> made + 1, at |-> at].id = made + 1 /\ \A r \in srv : r.id \in Nat
    BY <1>1 DEF Row
  <2> QED
    BY <1>1, <1>2, <2>1 DEF RowsGiven, Unique
<1>3. ASSUME made' = made, IdsOf(srv') \subseteq IdsOf(srv), Unique(srv')
      PROVE  RowsGiven(srv)'
  <2>1. \A s \in srv' : \E r \in srv : r.id = s.id
    BY <1>3 DEF IdsOf
  <2> QED
    BY <1>1, <1>3, <2>1 DEF RowsGiven
<1>4. RowsGiven(srv)'
  <2>1. CASE processEventOperation
    <3>1. PICK q \in push.todo : OperationDone(q)
      BY <2>1, OperationFacts DEF Shape
    <3>2. CASE made' = made + 1 /\ srv' = srv \cup {[id |-> made + 1, at |-> q.at]}
      BY <1>2, <3>2
    <3>3. CASE made' = made /\ IdsOf(srv') \subseteq IdsOf(srv) /\ (Unique(srv) => Unique(srv'))
      BY <1>1, <1>3, <3>3 DEF RowsGiven
    <3> QED
      BY <3>1, <3>2, <3>3 DEF OperationDone
  <2>2. CASE PostEvent
    <3>1. \/ made' = made + 1 /\ srv' = srv \cup {[id |-> made + 1, at |-> save.at]}
          \/ made' = made /\ srv' = srv
      BY <2>2 DEF PostEvent
    <3> QED
      BY <1>1, <1>2, <3>1 DEF RowsGiven
  <2>3. CASE srv' = srv
    <3>1. \A r \in srv : r.id \in Nat
      BY <1>1 DEF Row
    <3> QED
      BY <1>1, <2>3, <3>1 DEF RowsGiven
  <2> QED
    BY <2>1, <2>2, <2>3, Frame
<1>5. RowsGiven(full.seen)'
  <2>1. full'.seen = full.seen \/ full'.seen = {} \/ full'.seen \subseteq srv
    <3>1. \/ full' = full \/ full' = [IdleFull EXCEPT !.pc = "pull", !.at = now] \/ full' = IdleFull
          \/ full' = [full EXCEPT !.pc = "merge", !.seen = srv, !.complete = TRUE]
          \/ \E part \in SUBSET srv : full' = [full EXCEPT !.pc = "merge", !.seen = part]
      BY Frame DEF fullSync, PullEvents, MergeEvents, Killed
    <3>2. full \in FullState
      BY DEF Shape, TypeOK
    <3>3. /\ IdleFull.seen = {} /\ [IdleFull EXCEPT !.pc = "pull", !.at = now].seen = {}
          /\ [full EXCEPT !.pc = "merge", !.seen = srv, !.complete = TRUE].seen = srv
          /\ \A part \in SUBSET srv : [full EXCEPT !.pc = "merge", !.seen = part].seen = part
      BY <3>2 DEF IdleFull, FullState
    <3>4. ASSUME NEW part \in SUBSET srv, full' = [full EXCEPT !.pc = "merge", !.seen = part]
          PROVE  full'.seen \subseteq srv
      BY <3>3, <3>4
    <3> QED
      BY <3>1, <3>3, <3>4
  <2>2. \A S \in SUBSET Row : RowsGiven(S) => Unique(S) /\ \A r \in S : 1 <= r.id /\ r.id <= made'
    BY <1>1 DEF RowsGiven, Row
  <2> QED
    BY <1>1, <2>1, <2>2 DEF RowsGiven, Unique
<1> QED
  BY <1>4, <1>5

LEMMA EditorIdStep ==
    ASSUME Shape, TypeOK', Next
    PROVE  ed'.id <= made' \/ ed'.id = NoId
<1>1. /\ ed \in EditorState /\ made \in Nat /\ made' \in Nat /\ made <= made' /\ local \subseteq EventRecord
      /\ ed.id <= made \/ ed.id = NoId
      /\ \A e \in local : e.id <= made
  BY MadeGrows DEF Shape, TypeOK, IdsGiven
<1>2. ed.id <= made' \/ ed.id = NoId
  BY <1>1 DEF EditorState
<1>3. \A i \in Nat : [ed EXCEPT !.id = i, !.created = TRUE].id = i
  BY <1>1 DEF EditorState
<1>4. CASE Type \/ triggerAutoSave \/ handleBack
  <2>1. /\ \A d : [ed EXCEPT !.draft = d, !.timer = TRUE].id = ed.id
        /\ [ed EXCEPT !.timer = FALSE].id = ed.id
        /\ [ed EXCEPT !.timer = FALSE, !.open = FALSE].id = ed.id
    BY <1>1 DEF EditorState
  <2> QED
    BY <1>2, <1>4, <2>1 DEF Type, triggerAutoSave, handleBack
<1>5. CASE loadEvent
  <2>1. PICK e \in local : \E n : ed' = [Closed EXCEPT !.open = TRUE, !.id = e.id, !.created = TRUE, !.ref = n]
    BY <1>5 DEF loadEvent
  <2>2. ed'.id = e.id
    BY <2>1 DEF Closed
  <2>3. e.id \in Nat /\ e.id <= made
    BY <1>1 DEF EventRecord
  <2> QED
    BY <1>1, <2>2, <2>3
<1>6. CASE scheduleReminder \/ SaveEnds \/ DeleteEnds
  <2>1. /\ \A n : [ed EXCEPT !.ref = n].id = ed.id /\ [ed EXCEPT !.saved = n].id = ed.id
        /\ [ed EXCEPT !.open = FALSE].id = ed.id
    BY <1>1 DEF EditorState
  <2> QED
    BY <1>2, <1>6, <2>1 DEF scheduleReminder, SaveEnds, DeleteEnds
<1>7. CASE EnqueueEvent \/ PostEvent
  <2>1. ed' = ed \/ ed' = [ed EXCEPT !.id = Temp, !.created = TRUE]
    BY <1>7 DEF EnqueueEvent, PostEvent, Named
  <2>2. Temp = 0 /\ Temp \in Nat
    BY DEF Temp
  <2>3. ed' = ed \/ ed'.id = 0
    BY <1>3, <2>1, <2>2
  <2> QED
    BY <1>1, <1>2, <2>3
<1>8. CASE UnqueueEvent
  <2>1. ed' = [ed EXCEPT !.id = save.reply, !.created = TRUE]
    BY <1>8 DEF UnqueueEvent, Named
  <2>2. save.reply \in Nat /\ save.reply <= made
    BY <1>8 DEF UnqueueEvent, Shape, SaveShape, TypeOK, SaveState
  <2> QED
    BY <1>1, <1>3, <2>1, <2>2
<1>9. CASE Killed
  BY <1>9 DEF Killed, Closed
<1>10. CASE ed' = ed
  BY <1>2, <1>10
<1> QED
  BY <1>4, <1>5, <1>6, <1>7, <1>8, <1>9, <1>10, Frame

-------------------------------------------------------------------------------
(* The queue and the push *)

LEMMA PushChange ==
    ASSUME TypeOK, Next
    PROVE  \/ push' = push
           \/ push.pc = "idle" /\ push'.pc = "next" /\ push'.todo = queue' /\ push'.failed = {}
           \/ processEventOperation
           \/ SwapEventId /\ ItemDone(push.item)
           \/ FinishPush /\ push' = IdlePush
           \/ Killed /\ push' = IdlePush
<1>1. \A Q : [IdlePush EXCEPT !.pc = "next", !.todo = Q].pc = "next"
             /\ [IdlePush EXCEPT !.pc = "next", !.todo = Q].todo = Q
             /\ [IdlePush EXCEPT !.pc = "next", !.todo = Q].failed = {}
  BY DEF IdlePush
<1>2. CASE EnqueueEvent \/ EnqueueDelete
  BY <1>1, <1>2 DEF EnqueueEvent, EnqueueDelete, processSyncQueue
<1>3. CASE TriggerPush
  BY <1>1, <1>3 DEF TriggerPush, processSyncQueue
<1>4. CASE SwapEventId
  BY <1>4 DEF SwapEventId
<1>5. CASE FinishPush
  BY <1>5 DEF FinishPush
<1>6. CASE Killed
  BY <1>6 DEF Killed
<1> QED
  BY <1>2, <1>3, <1>4, <1>5, <1>6, Frame

\* What is queued after a step was queued, or failed in the push, or is the
\* item of a save or a delete; a new create is an event's with a temp id.
LEMMA QueueStep ==
    ASSUME Shape, TypeOK', Next
    PROVE  /\ Unique(queue')
           /\ \A q \in Creates(queue') : q.id = Temp
           /\ \A q \in Creates(queue') : \/ \E p \in Creates(queue) \cup Creates(InPush) : TRUE
                                         \/ EnqueueEvent /\ save.isLocal
<1>1. /\ TypeOK /\ queue \subseteq ItemRecord /\ Unique(queue) /\ Unique(InPush)
      /\ ed \in EditorState /\ save \in SaveState /\ del \in DeleteState
      /\ \A q \in Creates(queue) \cup Creates(InPush) : q.id = Temp
      /\ save.pc = "enqueue" /\ save.isLocal => SavedId = Temp
  BY DEF Shape, TypeOK, IdsGiven, PushShape, SaveShape
<1>2. CASE EnqueueEvent
  <2>0. save.pc = "enqueue"
    BY <1>2 DEF EnqueueEvent
  <2>1. /\ SavedItem \in ItemRecord /\ queue' = enqueueOperation(SavedItem)
        /\ SavedItem.operation = "create" => SavedItem.id = Temp /\ save.isLocal
    BY <1>1, <1>2, <2>0, SavedFacts
  <2>2. /\ Unique(queue')
        /\ \A q \in queue' : q = SavedItem \/ \E p \in queue : p.id = q.id /\ (q.operation = "create" => p.operation = "create")
    BY <1>1, <2>1, EnqueueFacts
  <2> QED
    BY <1>1, <1>2, <2>1, <2>2 DEF Creates
<1>3. CASE EnqueueDelete
  <2> DEFINE item == Item(del.id, "delete", 0)
  <2>1. item \in ItemRecord /\ item.operation = "delete" /\ queue' = enqueueOperation(item)
    BY <1>1, <1>3, ItemType DEF EnqueueDelete, DeleteState
  <2> HIDE DEF item
  <2>2. /\ Unique(queue')
        /\ \A q \in queue' : q = item \/ \E p \in queue : p.id = q.id /\ (q.operation = "create" => p.operation = "create")
    BY <1>1, <2>1, EnqueueFacts
  <2> QED
    BY <1>1, <2>1, <2>2 DEF Creates
<1>4. CASE FinishPush
  <2>1. queue' = push.failed
    BY <1>4 DEF FinishPush
  <2> QED
    BY <1>1, <2>1 DEF Unique, Creates, InPush
<1>5. CASE UnqueueEvent \/ deleteEventOffline \/ queue' = queue
  <2>1. queue' \subseteq queue
    BY <1>5 DEF UnqueueEvent, sentUnqueued, unqueued, deleteEventOffline
  <2> QED
    BY <1>1, <2>1 DEF Unique, Creates
<1> QED
  BY <1>2, <1>3, <1>4, <1>5, Frame

\* One operation of the push, in terms of its items.
LEMMA OperationItems ==
    ASSUME Shape, processEventOperation, NEW q \in push.todo, OperationDone(q)
    PROVE  /\ Unique(InPush') /\ push.pc = "next"
           /\ \A p \in push'.todo, f \in push'.failed : p.id # f.id
           /\ \A p \in InPush' : p \in InPush \/ (p.id = q.id /\ p.operation = q.operation)
           /\ \/ push'.pc = "next"
              \/ push'.pc = "swap" /\ push'.item = q /\ push'.todo = push.todo /\ push'.reply = made + 1
                 /\ made' = made + 1 /\ q.operation = "create" /\ InPush' = InPush
<1>1. /\ push \in PushState /\ q \in ItemRecord /\ push.pc = "next" /\ Unique(InPush) /\ made + 1 \in Nat
      /\ \A p \in push.todo, f \in push.failed : p.id # f.id
  BY NaturalBounds DEF Shape, TypeOK, PushState, PushShape, processEventOperation
<1>2. /\ ItemKept(q) \subseteq ItemRecord
      /\ \A p \in ItemKept(q) : p \in push.failed \/ (p.id = q.id /\ p.operation = q.operation)
      /\ \A a, b \in ItemKept(q) \ push.failed : a = b
  <2>1. \A a, b \in ItemKept(q) \ push.failed : a = b
    BY DEF ItemKept
  <2> QED
    BY <1>1, <2>1, ItemKeptType
<1>3. CASE push' = [push EXCEPT !.pc = "swap", !.item = q, !.reply = made + 1]
           /\ q.operation = "create" /\ made' = made + 1
  <2>1. \A n \in Nat : LET p == [push EXCEPT !.pc = "swap", !.item = q, !.reply = n]
                       IN  /\ p.pc = "swap" /\ p.item = q /\ p.reply = n
                           /\ p.todo = push.todo /\ p.failed = push.failed
    BY <1>1 DEF PushState
  <2>2. /\ push'.pc = "swap" /\ push'.item = q /\ push'.todo = push.todo /\ push'.reply = made + 1
        /\ push'.failed = push.failed
    BY <1>1, <1>3, <2>1
  <2> QED
    BY <1>1, <1>3, <2>2 DEF InPush
<1>4. ASSUME NEW F, F = push.failed \/ F = ItemKept(q),
             push'.pc = "next", push'.todo = push.todo \ {q}, push'.failed = F
      PROVE  /\ Unique(InPush')
             /\ \A p \in push'.todo, f \in push'.failed : p.id # f.id
             /\ \A p \in InPush' : p \in InPush \/ (p.id = q.id /\ p.operation = q.operation)
  <2>1. InPush' = (push.todo \ {q}) \cup F /\ q \in InPush
    BY <1>4 DEF InPush
  <2>2. \A p \in F : p \in push.failed \/ (p.id = q.id /\ p.operation = q.operation)
    BY <1>2, <1>4
  <2>3. \A a, b \in F \ push.failed : a = b
    BY <1>2, <1>4
  <2>4. \A p \in push.todo : p # q => p.id # q.id
    BY <1>1 DEF Unique, InPush
  <2>5. \A p \in push'.todo, f \in push'.failed : p.id # f.id
    BY <1>1, <1>4, <2>2, <2>4
  <2>6. Unique(push'.todo) /\ Unique(push'.failed)
    BY <1>1, <1>4, <2>2, <2>3 DEF Unique, InPush
  <2> QED
    BY <1>4, <2>1, <2>2, <2>5, <2>6 DEF Unique, InPush
<1>5. ASSUME NEW F, F = push.failed \/ F = ItemKept(q),
             \/ push' = [push EXCEPT !.todo = @ \ {q}, !.failed = F]
             \/ push' = [push EXCEPT !.pc = "next", !.todo = @ \ {q}, !.failed = F]
      PROVE  push'.pc = "next" /\ push'.todo = push.todo \ {q} /\ push'.failed = F
  BY <1>1, <1>5 DEF PushState
<1>6. push' = [push EXCEPT !.pc = "next", !.todo = @ \ {q}] =>
      push'.pc = "next" /\ push'.todo = push.todo \ {q} /\ push'.failed = push.failed
  BY <1>1 DEF PushState
<1> QED
  BY <1>1, <1>3, <1>4, <1>5, <1>6 DEF OperationDone

LEMMA PushStepShape ==
    ASSUME Shape, TypeOK', Next
    PROVE  /\ PushShape'
           /\ \A q \in Creates(InPush') : q.id = Temp
<1>1. /\ TypeOK /\ Unique(InPush) /\ made \in Nat /\ made' \in Nat /\ made <= made'
      /\ \A p \in push.todo, f \in push.failed : p.id # f.id
      /\ \A q \in Creates(InPush) : q.id = Temp
      /\ push.pc = "idle" => InPush = {}
      /\ push.pc = "swap" =>
            /\ push.item \in push.todo /\ push.item.operation = "create"
            /\ 1 <= push.reply /\ push.reply <= made /\ push.reply \in Nat
  BY MadeGrows DEF Shape, TypeOK, PushState, IdsGiven, PushShape
<1>2. Unique(queue') /\ \A q \in Creates(queue') : q.id = Temp
  BY QueueStep
<1>3. CASE push' = push
  BY <1>1, <1>2, <1>3 DEF PushShape, InPush, Creates
<1>4. CASE push'.pc = "next" /\ push'.todo = queue' /\ push'.failed = {}
  <2>1. InPush' = queue'
    BY <1>4 DEF InPush
  <2> QED
    BY <1>2, <1>4, <2>1 DEF PushShape
<1>5. CASE processEventOperation
  <2>1. PICK q \in push.todo : OperationDone(q)
    BY <1>1, <1>5, OperationFacts
  <2>2. /\ Unique(InPush') /\ push.pc = "next"
        /\ \A p \in push'.todo, f \in push'.failed : p.id # f.id
        /\ \A p \in InPush' : p \in InPush \/ (p.id = q.id /\ p.operation = q.operation)
        /\ \/ push'.pc = "next"
           \/ push'.pc = "swap" /\ push'.item = q /\ push'.todo = push.todo /\ push'.reply = made + 1
              /\ made' = made + 1 /\ q.operation = "create" /\ InPush' = InPush
    BY <1>5, <2>1, OperationItems
  <2>3. \A p \in Creates(InPush') : p.id = Temp
    BY <1>1, <2>2 DEF Creates, InPush
  <2>4. push'.pc = "swap" => /\ push'.item \in push'.todo /\ push'.item.operation = "create"
                             /\ 1 <= push'.reply /\ push'.reply <= made'
    BY <1>1, <2>2
  <2> QED
    BY <1>2, <2>2, <2>3, <2>4 DEF PushShape
<1>6. CASE SwapEventId /\ ItemDone(push.item)
  <2>1. /\ push'.pc = "next" /\ InPush' \subseteq InPush
        /\ push'.todo \subseteq push.todo /\ push'.failed = push.failed
    BY <1>1, <1>6, ItemLeaves DEF SwapEventId
  <2> QED
    BY <1>1, <1>2, <2>1 DEF PushShape, Unique, Creates
<1>7. CASE push' = IdlePush
  <2>1. push'.pc = "idle" /\ InPush' = {} /\ push'.todo = {}
    BY <1>7 DEF IdlePush, InPush
  <2> QED
    BY <1>2, <2>1 DEF PushShape, Unique, Creates
<1> QED
  BY <1>1, <1>3, <1>4, <1>5, <1>6, <1>7, PushChange

LEMMA IdsStep ==
    ASSUME Shape, TypeOK', Next
    PROVE  IdsGiven'
<1>1. \A e \in local' : Placed(e)
  BY LocalIdsStep
<1>2. RowsGiven(srv)' /\ RowsGiven(full.seen)'
  BY RowsStep
<1>3. ed'.id <= made' \/ ed'.id = NoId
  BY EditorIdStep
<1>4. \A q \in Creates(queue') \cup Creates(InPush') : q.id = Temp
  BY QueueStep, PushStepShape
<1> QED
  BY <1>1, <1>2, <1>3, <1>4 DEF IdsGiven, Placed, Creates

-------------------------------------------------------------------------------
(* The save *)

\* The save goes on with another step.
SaveMoves == save'.by = save.by /\ save'.note = save.note /\ (save'.new <=> save.new)

LEMMA SaveChange ==
    ASSUME TypeOK, Next
    PROVE  \/ save' = save /\ ~scheduleReminder /\ ~EnqueueEvent
           \/ /\ \E w \in wants : withSaveLock(w) /\ save'.by = w /\ (save'.pc = "schedule" => w = "auto")
              /\ save.pc = "idle" /\ save'.pc \in {"schedule", "write"} /\ ~save'.new /\ save'.note = ed.ref
           \/ /\ scheduleReminder /\ save.pc \in {"schedule", "again"} /\ save'.by = save.by /\ (save'.new <=> save.new) /\ save'.note = ed'.ref
              /\ save'.pc = IF save.pc = "schedule" THEN "write" ELSE "keep"
           \/ /\ WriteEvent /\ save.pc = "write" /\ save'.by = save.by /\ save'.note = save.note /\ (save'.new <=> ~ed.created)
              /\ save'.pc \in {"enqueue", "keep"} /\ (save'.new => save'.pc = "enqueue")
           \/ /\ EnqueueEvent /\ save.pc = "enqueue" /\ SaveMoves /\ save'.pc \in {"post", "again", "keep", "pushing"}
              /\ save'.pc = "post" => save.new
              /\ save'.pc = "again" => save.by = "auto"
              /\ save.new => save'.pc = "post" \/ ed'.created
           \/ /\ PostEvent /\ save.pc = "post" /\ SaveMoves
              /\ \/ save'.pc = "resolve" /\ save'.reply = made + 1 /\ made' = made + 1
                 \/ save'.pc \in {"again", "keep"} /\ (save'.pc = "again" => save.by = "auto") /\ ed'.created
           \/ /\ ResolveEvent /\ save.pc = "resolve" /\ SaveMoves
              /\ save'.pc = "unqueue" /\ save'.reply = save.reply
           \/ /\ UnqueueEvent /\ save.pc = "unqueue" /\ SaveMoves /\ ed'.created
              /\ save'.pc \in {"again", "keep"} /\ (save'.pc = "again" => save.by = "auto")
           \/ PushAwaited /\ save.pc = "pushing" /\ SaveMoves /\ save'.pc = "keep"
           \/ (SaveEnds \/ SaveFails \/ Killed) /\ save'.pc = "idle" /\ ~save'.new
<1>1. save \in SaveState /\ made + 1 \in Nat
  BY NaturalBounds DEF TypeOK
<1>2. /\ \A pc : LET s == [save EXCEPT !.pc = pc]
                 IN  s.pc = pc /\ s.by = save.by /\ s.note = save.note /\ (s.new <=> save.new) /\ s.reply = save.reply
      /\ \A n \in Nat : LET s == [save EXCEPT !.pc = "resolve", !.reply = n]
                        IN  s.pc = "resolve" /\ s.by = save.by /\ s.note = save.note /\ (s.new <=> save.new) /\ s.reply = n
      /\ \A n, pc : LET s == [save EXCEPT !.note = n, !.pc = pc]
                    IN  s.pc = pc /\ s.by = save.by /\ s.note = n /\ (s.new <=> save.new)
  BY <1>1 DEF SaveState
<1> DEFINE Ended == \E pc \in {"again", "keep"} :
                       save' = [save EXCEPT !.pc = pc] /\ (pc = "again" => save.by = "auto") /\ ed'.created
<1>0. ASSUME NEW i, Named(i) PROVE Ended
  BY <1>0 DEF Named, TypeOK, EditorState
<1>3. CASE \E w \in wants : withSaveLock(w)
  <2>1. PICK w \in wants : withSaveLock(w)
    BY <1>3
  <2>2. save.pc = "idle" /\ save' = [IdleSave EXCEPT !.pc = IF w = "auto" THEN "schedule" ELSE "write",
                                                     !.by = w, !.note = ed.ref]
    BY <2>1 DEF withSaveLock
  <2>3. /\ save'.by = w /\ ~save'.new /\ save'.note = ed.ref
        /\ save'.pc = IF w = "auto" THEN "schedule" ELSE "write"
    BY <2>2 DEF IdleSave
  <2> QED
    BY <2>1, <2>2, <2>3
<1>4. CASE scheduleReminder
  <2>1. PICK n \in 0..MaxNotes :
           /\ ed' = [ed EXCEPT !.ref = n]
           /\ save' = [save EXCEPT !.note = n, !.pc = IF @ = "schedule" THEN "write" ELSE "keep"]
    BY <1>4 DEF scheduleReminder
  <2>3. save.pc \in {"schedule", "again"}
    BY <1>4 DEF scheduleReminder
  <2>2. ed'.ref = n
    BY <2>1 DEF TypeOK, EditorState
  <2> QED
    BY <1>2, <1>4, <2>1, <2>2, <2>3
<1>5. CASE WriteEvent
  <2>1. ed \in EditorState /\ save \in SaveState
    BY DEF TypeOK
  <2>2. /\ save.pc = "write" /\ save'.by = save.by /\ save'.note = save.note /\ (save'.new <=> ~ed.created)
        /\ save'.pc \in {"enqueue", "keep"} /\ (save'.new => save'.pc = "enqueue")
    BY <1>5, <2>1, WriteSave
  <2> QED
    BY <1>5, <2>2
<1>6. CASE EnqueueEvent
  <2>1. /\ save.pc = "enqueue"
        /\ \/ save.new /\ save' = [save EXCEPT !.pc = "post"]
           \/ save.new /\ Named(Temp)
           \/ \E pc \in {"keep", "pushing"} : ~save.new /\ save' = [save EXCEPT !.pc = pc]
    BY <1>6 DEF EnqueueEvent
  <2>2. CASE Ended
    BY <1>2, <1>6, <2>1, <2>2 DEF SaveMoves
  <2>3. CASE save.new /\ save' = [save EXCEPT !.pc = "post"]
    BY <1>2, <1>6, <2>1, <2>3 DEF SaveMoves
  <2>4. CASE \E pc \in {"keep", "pushing"} : ~save.new /\ save' = [save EXCEPT !.pc = pc]
    BY <1>2, <1>6, <2>1, <2>4 DEF SaveMoves
  <2> QED
    BY <1>0, <2>1, <2>2, <2>3, <2>4
<1>7. CASE PostEvent
  <2>1. save.pc = "post" /\ ((save' = [save EXCEPT !.pc = "resolve", !.reply = made + 1] /\ made' = made + 1) \/ Named(Temp))
    BY <1>7 DEF PostEvent
  <2>2. CASE save' = [save EXCEPT !.pc = "resolve", !.reply = made + 1] /\ made' = made + 1
    <3>1. PICK n \in Nat : n = made + 1 /\ save' = [save EXCEPT !.pc = "resolve", !.reply = n]
      BY <1>1, <2>2
    <3>2. save'.pc = "resolve" /\ SaveMoves /\ save'.reply = made + 1
      BY <1>2, <3>1 DEF SaveMoves
    <3> QED
      BY <1>7, <2>1, <2>2, <3>2
  <2>3. CASE Ended
    BY <1>2, <1>7, <2>1, <2>3 DEF SaveMoves
  <2> QED
    BY <1>0, <2>1, <2>2, <2>3
<1>8. CASE ResolveEvent
  BY <1>2, <1>8 DEF ResolveEvent, SaveMoves
<1>9. CASE UnqueueEvent
  <2>1. save.pc = "unqueue" /\ Ended
    BY <1>9, <1>0 DEF UnqueueEvent
  <2> QED
    BY <1>2, <1>9, <2>1 DEF SaveMoves
<1>10. CASE PushAwaited
  BY <1>2, <1>10 DEF PushAwaited, SaveMoves
<1>11. CASE SaveEnds \/ SaveFails \/ Killed
  <2>1. save' = IdleSave
    BY <1>11 DEF SaveEnds, SaveFails, Killed
  <2> QED
    BY <1>11, <2>1 DEF IdleSave
<1> QED
  BY <1>3, <1>4, <1>5, <1>6, <1>7, <1>8, <1>9, <1>10, <1>11, Frame

\* What the editor's refs become.
LEMMA EditorChange ==
    ASSUME TypeOK, Next
    PROVE  \/ ed' = ed
           \/ /\ Type \/ triggerAutoSave \/ handleBack \/ SaveEnds \/ DeleteEnds
              /\ ed'.id = ed.id /\ (ed'.created <=> ed.created) /\ ed'.ref = ed.ref
              /\ (ed'.open => ed.open) /\ (ed'.timer => ed.timer \/ Type)
           \/ /\ scheduleReminder /\ save.pc \in {"schedule", "again"} /\ ed'.id = ed.id /\ (ed'.created <=> ed.created)
              /\ (ed'.open <=> ed.open) /\ (ed'.timer <=> ed.timer)
           \/ loadEvent /\ ed'.created /\ wants = {} /\ save' = save
           \/ /\ EnqueueEvent \/ PostEvent \/ UnqueueEvent
              /\ ed'.id = IF UnqueueEvent THEN save.reply ELSE Temp
              /\ ed'.created /\ ed'.ref = ed.ref /\ save'.pc \in {"again", "keep"}
              /\ (ed'.open <=> ed.open) /\ (ed'.timer <=> ed.timer)
           \/ /\ Killed /\ ed'.id = NoId /\ ~ed'.created /\ ~ed'.open /\ ~ed'.timer /\ wants' = {}
              /\ ed'.ref = 0 /\ save'.pc = "idle"
<1>1. ed \in EditorState /\ save \in SaveState
  BY DEF TypeOK
<1>2. CASE Type
  <2>1. \A d : LET e == [ed EXCEPT !.draft = d, !.timer = TRUE]
               IN  e.id = ed.id /\ (e.created <=> ed.created) /\ e.ref = ed.ref /\ (e.open <=> ed.open)
    BY <1>1 DEF EditorState
  <2> QED
    BY <1>2, <2>1 DEF Type
<1>3. CASE triggerAutoSave \/ handleBack
  <2>1. LET e == [ed EXCEPT !.timer = FALSE]
        IN  e.id = ed.id /\ (e.created <=> ed.created) /\ e.ref = ed.ref /\ (e.open <=> ed.open) /\ ~e.timer
    BY <1>1 DEF EditorState
  <2>2. LET e == [ed EXCEPT !.timer = FALSE, !.open = FALSE]
        IN  e.id = ed.id /\ (e.created <=> ed.created) /\ e.ref = ed.ref /\ ~e.open /\ ~e.timer
    BY <1>1 DEF EditorState
  <2> QED
    BY <1>3, <2>1, <2>2 DEF triggerAutoSave, handleBack
<1>4. CASE SaveEnds \/ DeleteEnds
  <2>1. \A d : LET e == [ed EXCEPT !.saved = d]
               IN  e.id = ed.id /\ (e.created <=> ed.created) /\ e.ref = ed.ref /\ (e.open <=> ed.open)
                   /\ (e.timer <=> ed.timer)
    BY <1>1 DEF EditorState
  <2>2. LET e == [ed EXCEPT !.open = FALSE]
        IN  e.id = ed.id /\ (e.created <=> ed.created) /\ e.ref = ed.ref /\ ~e.open /\ (e.timer <=> ed.timer)
    BY <1>1 DEF EditorState
  <2>3. PICK d : ed' = ed \/ ed' = [ed EXCEPT !.saved = d] \/ ed' = [ed EXCEPT !.open = FALSE]
    BY <1>4 DEF SaveEnds, DeleteEnds
  <2>4. \/ ed' = ed
        \/ /\ ed'.id = ed.id /\ (ed'.created <=> ed.created) /\ ed'.ref = ed.ref
           /\ (ed'.open => ed.open) /\ (ed'.timer <=> ed.timer)
    <3>1. CASE ed' = [ed EXCEPT !.saved = d]
      BY <2>1, <3>1
    <3>2. CASE ed' = [ed EXCEPT !.open = FALSE]
      BY <2>2, <3>2
    <3> QED
      BY <2>3, <3>1, <3>2
  <2> QED
    BY <1>4, <2>4
<1>5. CASE scheduleReminder
  <2>1. \A n : LET e == [ed EXCEPT !.ref = n]
               IN  e.id = ed.id /\ (e.created <=> ed.created) /\ (e.open <=> ed.open) /\ (e.timer <=> ed.timer)
    BY <1>1 DEF EditorState
  <2>2. PICK n : ed' = [ed EXCEPT !.ref = n]
    BY <1>5 DEF scheduleReminder
  <2>3. save.pc \in {"schedule", "again"}
    BY <1>5 DEF scheduleReminder
  <2>4. /\ ed'.id = ed.id /\ (ed'.created <=> ed.created)
        /\ (ed'.open <=> ed.open) /\ (ed'.timer <=> ed.timer)
    BY <2>1, <2>2
  <2> QED
    BY <1>5, <2>3, <2>4
<1>6. CASE loadEvent
  <2>1. \A i, n : [Closed EXCEPT !.open = TRUE, !.id = i, !.created = TRUE, !.ref = n].created
    BY DEF Closed
  <2>2. \E i, n : ed' = [Closed EXCEPT !.open = TRUE, !.id = i, !.created = TRUE, !.ref = n]
    BY <1>6 DEF loadEvent
  <2>3. wants = {} /\ save' = save
    BY <1>6 DEF loadEvent
  <2> QED
    BY <1>6, <2>1, <2>2, <2>3
<1>7. ASSUME NEW i, Named(i)
      PROVE  /\ ed'.id = i /\ ed'.created /\ ed'.ref = ed.ref /\ save'.pc \in {"again", "keep"}
             /\ (ed'.open <=> ed.open) /\ (ed'.timer <=> ed.timer)
  BY <1>1, <1>7 DEF Named, EditorState, SaveState
<1>8. CASE EnqueueEvent \/ PostEvent
  <2>1. ed' = ed \/ Named(Temp)
    BY <1>8 DEF EnqueueEvent, PostEvent
  <2>2. ~UnqueueEvent
    BY <1>8 DEF EnqueueEvent, PostEvent, UnqueueEvent
  <2> QED
    BY <1>7, <1>8, <2>1, <2>2
<1>9. CASE UnqueueEvent
  BY <1>7, <1>9 DEF UnqueueEvent
<1>10. CASE Killed
  BY <1>10 DEF Killed, Closed, IdleSave
<1> QED
  BY <1>2, <1>3, <1>4, <1>5, <1>6, <1>8, <1>9, <1>10, Frame

LEMMA WantsChange ==
    ASSUME Next
    PROVE  \/ wants' = wants
           \/ (triggerAutoSave \/ handleBack) /\ wants \subseteq wants'
           \/ save'.pc = "idle" /\ wants' \subseteq wants
<1>1. IdleSave.pc = "idle"
  BY DEF IdleSave
<1>2. CASE triggerAutoSave \/ handleBack
  BY <1>2 DEF triggerAutoSave, handleBack
<1>3. CASE SaveEnds \/ SaveFails \/ Killed
  BY <1>1, <1>3 DEF SaveEnds, SaveFails, Killed
<1> QED
  BY <1>2, <1>3, Frame

\* What the save goes on with was true of the record that it read.
LEMMA ReadStep ==
    ASSUME Shape, TypeOK', Next, save'.pc = "enqueue"
    PROVE  save'.isLocal <=> SavedId' = Temp
<1>1. /\ save \in SaveState /\ ed \in EditorState /\ SaveShape /\ Temp = 0
      /\ \A e \in local : e.isLocal <=> e.id = Temp
  BY DEF Shape, TypeOK, IdsGiven, Temp
<1>2. CASE WriteEvent
  <2>1. ed' = ed
    BY <1>2 DEF WriteEvent
  <2>2. (save'.new <=> isNew) /\ (save'.isLocal <=> isNew \/ \E e \in WithId(local, ed.id) : e.isLocal)
        /\ (isNew \/ WithId(local, ed.id) # {})
    BY <1>1, <1>2, WriteSave DEF isNew
  <2>3. (\E e \in WithId(local, ed.id) : e.isLocal) <=> ed.id = Temp /\ WithId(local, ed.id) # {}
    BY <1>1 DEF WithId
  <2> QED
    BY <2>1, <2>2, <2>3 DEF SavedId
<1>3. CASE ~WriteEvent
  <2>1. save' = save /\ ~scheduleReminder /\ ~EnqueueEvent
    BY <1>1, <1>3, SaveChange DEF Shape, SaveMoves
  <2>2. wants # {}
    BY <1>1, <2>1 DEF SaveShape
  <2>3. ed'.id = ed.id
    <3>1. ~PostEvent /\ ~UnqueueEvent
      BY <2>1 DEF PostEvent, UnqueueEvent
    <3> QED
      BY <2>1, <2>2, <3>1, EditorChange DEF Shape
  <2> QED
    BY <1>1, <2>1, <2>3 DEF SaveShape, SavedId
<1> QED
  BY <1>2, <1>3

LEMMA SaveShapeStep ==
    ASSUME Shape, TypeOK', Next
    PROVE  SaveShape'
<1>1. /\ TypeOK /\ SaveShape /\ made \in Nat /\ made' \in Nat /\ made <= made'
      /\ save.reply \in Nat /\ push.reply \in Nat
  BY MadeGrows DEF Shape, TypeOK, SaveState, PushState
<1>2. save'.pc # "idle" => save'.by \in wants'
  <2>1. save'.pc # "idle" => wants \subseteq wants'
    BY WantsChange
  <2>2. save'.pc # "idle" => save'.by \in wants
    BY <1>1, SaveChange DEF SaveShape, SaveMoves
  <2> QED
    BY <2>1, <2>2
<1>3. save'.pc # "idle" => save'.note = ed'.ref
  <2>1. save.pc # "idle" => wants # {}
    BY <1>1 DEF SaveShape
  <2>2. \/ save'.pc = "idle"
        \/ scheduleReminder
        \/ ed'.ref = ed.ref
    BY <1>1, <2>1, EditorChange DEF SaveShape
  <2>3. ~scheduleReminder /\ save'.pc # "idle" => save'.note = ed.ref
    BY <1>1, SaveChange DEF SaveShape, SaveMoves
  <2>4. scheduleReminder => save'.note = ed'.ref
    <3> SUFFICES ASSUME scheduleReminder PROVE save'.note = ed'.ref
      OBVIOUS
    <3>1. PICK n, pc : ed' = [ed EXCEPT !.ref = n] /\ save' = [save EXCEPT !.note = n, !.pc = pc]
      BY DEF scheduleReminder
    <3>2. ed'.ref = n
      BY <1>1, <3>1 DEF TypeOK, EditorState
    <3>3. save'.note = n
      BY <1>1, <3>1 DEF TypeOK, SaveState
    <3> QED
      BY <3>2, <3>3
  <2> QED
    BY <2>2, <2>3, <2>4
<1>4. save'.pc \in {"schedule", "again"} => save'.by = "auto"
  BY <1>1, SaveChange DEF SaveShape, SaveMoves
<1>5. save'.pc \in {"post", "resolve", "unqueue"} => save'.new
  BY <1>1, SaveChange DEF SaveShape, SaveMoves
<1>6. ASSUME save'.pc \in {"resolve", "unqueue"}
      PROVE  /\ 1 <= save'.reply /\ save'.reply <= made'
             /\ push'.pc = "swap" => save'.reply # push'.reply
  <2>1. CASE PostEvent /\ save'.reply = made + 1 /\ made' = made + 1
    <3>1. push' = push
      BY <2>1 DEF PostEvent
    <3>2. push.pc = "swap" => push.reply <= made
      BY DEF Shape, PushShape
    <3> QED
      BY <1>1, <2>1, <3>1, <3>2
  <2>2. CASE save'.reply = save.reply /\ save.pc \in {"resolve", "unqueue"}
    <3>1. 1 <= save.reply /\ save.reply <= made /\ (push.pc = "swap" => save.reply # push.reply)
      BY <1>1, <2>2 DEF SaveShape
    <3>2. \/ push' = push
          \/ push'.pc # "swap"
          \/ push'.reply = made + 1
      <4>1. CASE processEventOperation
        <5>1. PICK q \in push.todo : OperationDone(q)
          BY <1>1, <4>1, OperationFacts
        <5> QED
          BY <4>1, <5>1, OperationItems
      <4>2. CASE SwapEventId /\ ItemDone(push.item)
        <5>1. push.item \in push.todo
          BY <4>2 DEF Shape, PushShape, SwapEventId
        <5> QED
          BY <1>1, <4>2, <5>1, ItemLeaves
      <4>3. IdlePush.pc = "idle"
        BY DEF IdlePush
      <4> QED
        BY <1>1, <4>1, <4>2, <4>3, PushChange
    <3> QED
      BY <1>1, <2>2, <3>1, <3>2
  <2> QED
    BY <1>1, <1>6, <2>1, <2>2, SaveChange DEF SaveMoves
<1>7. Making' => ~ed'.created
  <2> SUFFICES ASSUME save'.new, save'.pc \in {"enqueue", "post", "resolve", "unqueue"} PROVE ~ed'.created
    BY DEF Making
  <2>1. ~ed.created /\ save.pc # "idle"
    BY <1>1, SaveChange DEF SaveShape, SaveMoves, Making
  <2>2. wants # {}
    BY <1>1, <2>1 DEF SaveShape
  <2> QED
    BY <1>1, <2>1, <2>2, EditorChange
<1> QED
  BY <1>2, <1>3, <1>4, <1>5, <1>6, <1>7, ReadStep DEF SaveShape

LEMMA NothingStays ==
    ASSUME Shape, TypeOK', Next, made = 0, NoCreates, save.pc # "post", ~EnqueueEvent
    PROVE  made' = 0 /\ NoCreates' /\ (local = {} /\ ~WriteEvent /\ save.pc # "resolve" => local' = {})
<1>1. /\ TypeOK /\ Creates(queue) = {} /\ Creates(InPush) = {} /\ local \subseteq EventRecord
      /\ ed.id \in Nat /\ save.note \in Nat /\ refresh.id \in Nat /\ refresh.note \in Nat
  BY DEF Shape, NoCreates, TypeOK, EditorState, SaveState, RefreshState
<1>2. \A q \in push.todo : q.operation # "create"
  BY <1>1 DEF Creates, InPush
<1>3. made' = 0
  <2>1. ~PostEvent
    BY DEF PostEvent
  <2>2. processEventOperation => made' = made
    BY <1>1, <1>2, OperationFacts DEF OperationDone
  <2> QED
    BY <2>1, <2>2, Frame
<1>4. Creates(queue') = {}
  BY <1>1, QueueStep
<1>5. Creates(InPush') = {}
  <2>1. CASE push' = push
    BY <1>1, <2>1 DEF InPush
  <2>2. CASE push'.todo = queue' /\ push'.failed = {}
    BY <1>4, <2>2 DEF InPush
  <2>3. CASE processEventOperation
    <3>1. PICK q \in push.todo : OperationDone(q)
      BY <1>1, <2>3, OperationFacts
    <3>2. \A p \in InPush' : p \in InPush \/ p.operation = q.operation
      BY <2>3, <3>1, OperationItems
    <3> QED
      BY <1>1, <1>2, <3>2 DEF Creates
  <2>4. CASE SwapEventId /\ ItemDone(push.item)
    <3>1. push.item \in push.todo
      BY <2>4 DEF Shape, PushShape, SwapEventId
    <3>2. InPush' \subseteq InPush
      BY <1>1, <2>4, <3>1, ItemLeaves
    <3> QED
      BY <1>1, <3>2 DEF Creates
  <2>5. CASE push' = IdlePush
    BY <2>5 DEF IdlePush, InPush, Creates
  <2> QED
    BY <1>1, <2>1, <2>2, <2>3, <2>4, <2>5, PushChange
<1>6. ASSUME local = {}, ~WriteEvent, save.pc # "resolve" PROVE local' = {}
  <2>1. CASE SaveEnds
    <3>1. local' = local \/ local' = setLocalEventNotificationId(ed.id, save.note)
      BY <2>1 DEF SaveEnds
    <3> QED
      BY <1>6, <3>1 DEF setLocalEventNotificationId
  <2>2. CASE RefreshKeeps
    BY <1>6, <2>2 DEF RefreshKeeps, setLocalEventNotificationId
  <2>3. CASE deleteEventOffline
    BY <1>6, <2>3 DEF deleteEventOffline
  <2>4. CASE DeleteEnds
    BY <1>6, <2>4 DEF DeleteEnds
  <2>5. CASE SwapEventId
    BY <1>6, <2>5 DEF SwapEventId
  <2>6. CASE MergeEvents
    <3>1. \A r \in full.seen : 1 <= r.id /\ r.id <= 0 /\ r.id \in Nat
      BY <1>1 DEF Shape, IdsGiven, RowsGiven, TypeOK, FullState, Row
    <3>2. full.seen = {}
      BY <3>1
    <3>3. Unique(full.seen)
      BY <3>2 DEF Unique
    <3> QED
      BY <1>1, <1>6, <2>6, <3>2, <3>3, MergeEventsFacts
  <2>7. ~ResolveEvent
    BY <1>6 DEF ResolveEvent
  <2> QED
    BY <1>6, <2>1, <2>2, <2>3, <2>4, <2>5, <2>6, <2>7, Frame
<1> QED
  BY <1>3, <1>4, <1>5, <1>6 DEF NoCreates

LEMMA StageStep ==
    ASSUME Shape, TypeOK', Next
    PROVE  Stage'
<1>1. TypeOK /\ SaveShape /\ Stage
  BY DEF Shape
<1>2. ~ed'.created => ed'.id = NoId
  BY <1>1, EditorChange DEF Stage
<1>3. save.pc # "idle" => wants # {}
  BY <1>1 DEF SaveShape
<1>4. ASSUME ~ed'.created
      PROVE  \/ ~ed'.open /\ ~ed'.timer /\ wants' = {}
             \/ save'.pc \in {"idle", "schedule", "write"} /\ Nothing'
             \/ Making'
  <2>1. Killed \/ ~ed.created
    BY <1>1, <1>4, EditorChange
  <2>2. CASE Killed
    BY <2>2 DEF Killed, Closed
  <2>3. CASE ~ed.created /\ ~ed.open /\ ~ed.timer /\ wants = {}
    <3>1. ~Type /\ ~triggerAutoSave /\ ~handleBack
      BY <2>3 DEF Type, triggerAutoSave, handleBack
    <3>2. wants' = {}
      BY <2>3, <3>1, WantsChange
    <3>3. ~ed'.open /\ ~ed'.timer
      BY <1>1, <1>3, <1>4, <2>3, <3>1, EditorChange
    <3> QED
      BY <3>2, <3>3
  <2>4. CASE ~ed.created /\ save.pc \in {"idle", "schedule", "write"} /\ Nothing
    <3>1. ~EnqueueEvent
      BY <2>4 DEF EnqueueEvent
    <3>2. made' = 0 /\ NoCreates' /\ (~WriteEvent => local' = {})
      BY <2>4, <3>1, NothingStays DEF Nothing
    <3>3. CASE WriteEvent
      <4>1. save.pc = "write" /\ save' # save /\ save'.pc # "idle"
        BY <1>1, <3>3, WriteSave DEF TypeOK
      <4>2. save'.pc = "enqueue" /\ save'.new
        BY <1>1, <2>4, <3>3, <4>1, SaveChange
      <4> QED
        BY <4>2 DEF Making
    <3>4. CASE ~WriteEvent
      <4>1. save'.pc \in {"idle", "schedule", "write"}
        BY <1>1, <2>4, <3>4, SaveChange
      <4> QED
        BY <3>2, <3>4, <4>1 DEF Nothing
    <3> QED
      BY <3>3, <3>4
  <2>5. CASE Making /\ ~Killed
    <3>1. ~SaveEnds /\ ~SaveFails
      BY <2>5 DEF Making, SaveEnds, SaveFails
    <3> QED
      BY <1>1, <1>4, <2>5, <3>1, SaveChange DEF Making, SaveMoves
  <2> QED
    BY <1>1, <2>1, <2>2, <2>3, <2>4, <2>5 DEF Stage
<1>5. ASSUME save'.new, save'.pc = "enqueue" PROVE made' = 0 /\ NoCreates'
  <2>1. CASE save' = save /\ ~EnqueueEvent
    <3>1. made = 0 /\ NoCreates
      BY <1>1, <1>5, <2>1 DEF Stage, Making
    <3> QED
      BY <1>5, <2>1, <3>1, NothingStays
  <2>2. CASE WriteEvent /\ save.pc = "write" /\ ~ed.created
    <3>1. Nothing
      BY <1>1, <1>3, <2>2 DEF Stage, Making
    <3>2. ~EnqueueEvent
      BY <2>2 DEF EnqueueEvent
    <3> QED
      BY <2>2, <3>1, <3>2, NothingStays DEF Nothing
  <2> QED
    BY <1>1, <1>5, <2>1, <2>2, SaveChange
<1> QED
  BY <1>2, <1>4, <1>5 DEF Stage, Making

LEMMA ShapeStep ==
    ASSUME Shape, Next
    PROVE  Shape'
<1>1. TypeOK'
  BY TypesStep DEF Shape
<1> QED
  BY <1>1, IdsStep, PushStepShape, SaveShapeStep, StageStep DEF Shape

-------------------------------------------------------------------------------
(* Made once *)

HasTemp == \E e \in local : e.id = Temp

\* Once the event is made nobody is left to make it again, but for the create
\* that the editor is about to take out of the queue, and for the one that an
\* edit enqueues before the push that made the event has swapped its id: the
\* queue the push writes back does not have it.
Made ==
    /\ ~(Making /\ save.pc \in {"enqueue", "post"})
    /\ save.pc = "unqueue" => ~HasTemp
    /\ save.pc \notin {"resolve", "unqueue"} =>
        /\ push.pc = "idle" => Creates(queue) = {}
        /\ push.pc = "next" => Creates(InPush) = {}
        /\ push.pc = "swap" => Creates(InPush) = {push.item}
        /\ HasTemp => push.pc = "swap"
        /\ save.pc = "enqueue" /\ save.isLocal => push.pc = "swap"

OnceInv == past.lost \/ past.raced \/ past.stale \/ past.cut \/ made = 0 \/ (made = 1 /\ Made)

LEMMA TempStep ==
    ASSUME Shape, TypeOK', Next, HasTemp'
    PROVE  ~SwapEventId /\ ~ResolveEvent /\ (HasTemp \/ (WriteEvent /\ ~ed.created))
<1>1. /\ TypeOK /\ Temp = 0 /\ local \subseteq EventRecord
      /\ ed.id \in Nat /\ save.note \in Nat /\ refresh.id \in Nat /\ refresh.note \in Nat
      /\ full.seen \subseteq Row /\ Unique(full.seen) /\ \A r \in full.seen : 1 <= r.id /\ r.id \in Nat
  BY DEF Shape, TypeOK, Temp, EditorState, SaveState, RefreshState, FullState, IdsGiven, RowsGiven, Row
<1>2. PICK e \in local' : e.id = Temp
  BY DEF HasTemp
<1>3. \A d \in local : Like(e, d) => HasTemp
  BY <1>2 DEF Like, HasTemp
<1>4. e \in local => HasTemp
  BY <1>2 DEF HasTemp
<1>5. ~SwapEventId
  <2> SUFFICES ASSUME SwapEventId PROVE FALSE
    OBVIOUS
  <2>1. /\ push.item \in Creates(InPush) /\ 1 <= push.reply /\ push.reply \in Nat
    BY <1>1 DEF Shape, PushShape, SwapEventId, Creates, InPush, TypeOK, PushState
  <2>2. push.item.id = Temp
    BY <2>1 DEF Shape, IdsGiven
  <2>3. PICK d \in local : IF d.id = push.item.id THEN e.id = push.reply ELSE Like(e, d)
    BY <1>1, SwapFacts
  <2> QED
    BY <1>1, <1>2, <2>1, <2>2, <2>3 DEF Like
<1>6. ~ResolveEvent
  <2> SUFFICES ASSUME ResolveEvent PROVE FALSE
    OBVIOUS
  <2>1. 1 <= save.reply /\ save.reply \in Nat
    BY <1>1 DEF ResolveEvent, Shape, SaveShape, TypeOK, SaveState
  <2> QED
    BY <1>1, <1>2, <2>1, ResolveFacts
<1>7. CASE WriteEvent
  <2>1. CASE ed.created
    <3>1. \E d \in local : Like(e, d)
      BY <1>1, <1>2, <1>7, <2>1, WriteFacts
    <3> QED
      BY <1>3, <1>5, <1>6, <3>1
  <2> QED
    BY <1>5, <1>6, <1>7, <2>1
<1>8. CASE SaveEnds
  <2>1. local' = local \/ local' = setLocalEventNotificationId(ed.id, save.note)
    BY <1>8 DEF SaveEnds
  <2> QED
    BY <1>1, <1>2, <1>3, <1>4, <1>5, <1>6, <2>1, NoteSet
<1>9. CASE RefreshKeeps
  <2>1. local' = setLocalEventNotificationId(refresh.id, refresh.note)
    BY <1>9 DEF RefreshKeeps
  <2> QED
    BY <1>1, <1>2, <1>3, <1>5, <1>6, <2>1, NoteSet
<1>10. CASE deleteEventOffline
  BY <1>1, <1>2, <1>3, <1>4, <1>5, <1>6, <1>10, HideFacts
<1>11. CASE DeleteEnds
  <2>1. local' \subseteq local
    BY <1>11 DEF DeleteEnds
  <2> QED
    BY <1>2, <1>4, <1>5, <1>6, <2>1
<1>12. CASE MergeEvents
  <2>1. e \in local \/ \E r \in full.seen : e.id = r.id
    BY <1>1, <1>2, <1>12, MergeEventsFacts
  <2> QED
    BY <1>1, <1>2, <1>4, <1>5, <1>6, <2>1
<1>13. CASE local' = local
  BY <1>2, <1>4, <1>5, <1>6, <1>13
<1> QED
  BY <1>5, <1>6, <1>7, <1>8, <1>9, <1>10, <1>11, <1>12, <1>13, Frame

\* A kill that nothing excuses found the device at rest.
LEMMA KilledAtRest ==
    ASSUME past \in History, Killed, ~past'.cut
    PROVE  save.pc = "idle" /\ push.pc = "idle" /\ del.pc = "idle" /\ refresh.pc = "idle"
<1>1. past' = [past EXCEPT !.runs = past.runs + 1, !.cut = @ \/ \E f \in {save, refresh, del, push} : f.pc # "idle"]
  BY DEF Killed
<1>2. ~(\E f \in {save, refresh, del, push} : f.pc # "idle")
  BY <1>1 DEF History
<1> QED
  BY <1>2

LEMMA ExcusedHappened ==
    ASSUME past \in History, NEW cond
    PROVE  /\ Excused("raced", cond) /\ ~past'.raced => ~cond
           /\ Excused("astray", cond) /\ ~past'.astray => ~cond
  BY DEF Excused, Did, History

\* A swap that nothing excuses met no save on its way, and no copy.
LEMMA SwapExcused ==
    ASSUME past \in History, SwapEventId
    PROVE  /\ ~past'.stale => ~(save.pc = "enqueue" /\ save.isLocal)
           /\ ~past'.astray => push.reply \notin IdsOf(local)
  BY DEF SwapEventId, History

\* An event is made by the editor's POST or by the push, of a create that is
\* the only one.
LEMMA FirstMade ==
    ASSUME Shape, TypeOK', Next, made = 0, made' = made + 1, ~past'.lost, ~past'.raced
    PROVE  Made'
<1>1. TypeOK /\ past \in History
  BY DEF Shape, TypeOK
<1>2. CASE PostEvent
  <2>1. save' = [save EXCEPT !.pc = "resolve", !.reply = made + 1] \/ Did("lost")
    BY <1>2, <1>1, NaturalBounds DEF PostEvent, TypeOK
  <2>2. ~Did("lost")
    BY <1>1 DEF Did, History
  <2>3. save'.pc = "resolve"
    BY <1>1, <2>1, <2>2 DEF TypeOK, SaveState
  <2> QED
    BY <2>3 DEF Made, Making
<1>3. CASE processEventOperation
  <2>1. PICK q \in push.todo : OperationDone(q)
    BY <1>1, <1>3, OperationFacts
  <2>2. q.operation = "create" /\ Excused("raced", save.pc \in {"post", "resolve", "unqueue"})
        /\ push' = [push EXCEPT !.pc = "swap", !.item = q, !.reply = made + 1]
    BY <2>1, NaturalBounds DEF OperationDone, Shape, TypeOK
  <2>3. save.pc \notin {"post", "resolve", "unqueue"} /\ save' = save
    BY <1>1, <1>3, <2>2, ExcusedHappened DEF processEventOperation
  <2>4. push'.pc = "swap" /\ push'.item = q /\ InPush' = InPush
    <3>1. push'.pc = "swap"
      BY <1>1, <2>2 DEF TypeOK, PushState
    <3> QED
      BY <1>3, <2>1, <3>1, OperationItems
  <2>5. Creates(InPush) = {q}
    <3>1. q \in Creates(InPush)
      BY <2>2 DEF Creates, InPush
    <3>2. \A p \in Creates(InPush) : p.id = Temp /\ p \in InPush
      BY DEF Shape, IdsGiven, Creates
    <3>3. Unique(InPush)
      BY DEF Shape, PushShape
    <3> QED
      BY <3>1, <3>2, <3>3 DEF Unique
  <2>6. ~(Making /\ save.pc = "enqueue")
    BY <2>5 DEF Shape, Stage, NoCreates
  <2> QED
    BY <2>3, <2>4, <2>5, <2>6 DEF Made, Making
<1> QED
  BY <1>2, <1>3, Frame, NaturalBounds DEF Shape, TypeOK

LEMMA NotMadeAgain ==
    ASSUME Shape, TypeOK', Next, made = 1, Made, ~past'.lost, ~past'.raced
    PROVE  made' = made
<1>1. TypeOK /\ past \in History
  BY DEF Shape, TypeOK
<1>2. ~PostEvent
  BY DEF PostEvent, Shape, SaveShape, Made, Making
<1>3. CASE processEventOperation
  <2>1. PICK q \in push.todo : OperationDone(q)
    BY <1>1, <1>3, OperationFacts
  <2>2. CASE q.operation = "create" /\ Excused("raced", save.pc \in {"post", "resolve", "unqueue"})
    <3>1. push.pc = "next" /\ q \in Creates(InPush)
      BY <1>3, <2>2 DEF processEventOperation, Creates, InPush
    <3>2. save.pc \notin {"post", "resolve", "unqueue"}
      BY <1>1, <2>2, ExcusedHappened
    <3> QED
      BY <3>1, <3>2 DEF Made
  <2> QED
    BY <2>1, <2>2 DEF OperationDone
<1> QED
  BY <1>2, <1>3, Frame

LEMMA MadeStays ==
    ASSUME Shape, TypeOK', Next, made = 1, Made, made' = made, ~past'.raced, ~past'.stale, ~past'.cut
    PROVE  Made'
<1>1. TypeOK /\ past \in History /\ SaveShape /\ Stage
  BY DEF Shape, TypeOK
<1>2. ~(WriteEvent /\ ~ed.created)
  <2> SUFFICES ASSUME WriteEvent, ~ed.created PROVE FALSE
    OBVIOUS
  <2>1. save.pc = "write"
    BY DEF WriteEvent
  <2>2. wants # {} /\ ~Making
    BY <1>1, <2>1 DEF SaveShape, Making
  <2> QED
    BY <1>1, <2>2 DEF Stage, Nothing
<1>3. HasTemp' => HasTemp /\ ~SwapEventId /\ ~ResolveEvent
  BY <1>2, TempStep
<1>4. ~(Making' /\ save'.pc \in {"enqueue", "post"})
  BY <1>1, <1>2, SaveChange DEF Made, Making, SaveMoves
<1>5. save'.pc = "unqueue" => ~HasTemp'
  <2>1. save'.pc = "unqueue" => ResolveEvent \/ save.pc = "unqueue"
    BY <1>1, SaveChange
  <2> QED
    BY <1>3, <2>1 DEF Made
<1> DEFINE Rest == /\ push.pc = "idle" => Creates(queue) = {}
                   /\ push.pc = "next" => Creates(InPush) = {}
                   /\ push.pc = "swap" => Creates(InPush) = {push.item}
                   /\ HasTemp => push.pc = "swap"
                   /\ save.pc = "enqueue" /\ save.isLocal => push.pc = "swap"
<1>6. CASE save.pc \in {"resolve", "unqueue"} /\ save'.pc \notin {"resolve", "unqueue"}
  <2>1. save.pc = "unqueue" /\ UnqueueEvent /\ save'.pc # "enqueue"
    <3>1. ~Killed
      BY <1>1, <1>6, KilledAtRest
    <3>2. ~SaveEnds /\ ~SaveFails
      BY <1>6 DEF SaveEnds, SaveFails
    <3> QED
      BY <1>1, <1>6, <3>1, <3>2, SaveChange
  <2>2. /\ queue' = unqueued(Temp) /\ push' = push /\ local' = local
        /\ push.pc = "idle" \/ \A q \in push.todo \cup push.failed \cup {push.item} : q.id # Temp
    <3>1. Excused("raced", \E q \in push.todo \cup push.failed \cup {push.item} : push.pc # "idle" /\ q.id = Temp)
      BY <2>1 DEF UnqueueEvent
    <3>2. ~(\E q \in push.todo \cup push.failed \cup {push.item} : push.pc # "idle" /\ q.id = Temp)
      BY <1>1, <3>1, ExcusedHappened
    <3> QED
      BY <2>1, <3>2 DEF UnqueueEvent, sentUnqueued
  <2>3. \A q \in Creates(queue) \cup Creates(InPush) : q.id = Temp
    BY DEF Shape, IdsGiven
  <2>4. Creates(queue') = {}
    BY <2>2, <2>3 DEF unqueued, Creates
  <2>5. push.pc = "next" => Creates(InPush) = {}
    BY <2>2, <2>3 DEF Creates, InPush
  <2>6. push.pc # "swap"
    BY <2>2, <2>3 DEF Shape, PushShape, Creates, InPush
  <2>7. ~HasTemp'
    BY <2>1, <2>2 DEF Made, HasTemp
  <2>8. InPush' = InPush
    BY <2>2 DEF InPush
  <2> QED
    BY <1>4, <1>5, <2>1, <2>2, <2>4, <2>5, <2>6, <2>7, <2>8 DEF Made, Creates
<1>7. CASE save.pc \notin {"resolve", "unqueue"}
  <2>1. Rest
    BY <1>7 DEF Made
  <2>2. push.pc = "idle" => Creates(queue') = {}
    <3>1. push.pc = "idle" => InPush = {} /\ Creates(queue) = {}
      BY <2>1 DEF Shape, PushShape
    <3>2. EnqueueEvent /\ save.isLocal => push.pc = "swap"
      BY <2>1 DEF EnqueueEvent
    <3> QED
      BY <3>1, <3>2, QueueStep DEF Creates
  <2>3. push'.pc = "idle" => Creates(queue') = {}
    <3>1. CASE FinishPush
      <4>1. push.pc = "next" /\ queue' = push.failed
        BY <3>1 DEF FinishPush
      <4> QED
        BY <2>1, <4>1 DEF Creates, InPush
    <3>2. CASE Killed
      BY <1>1, <2>2, <3>2, KilledAtRest
    <3>3. SwapEventId /\ ItemDone(push.item) => push'.pc = "next"
      BY <1>1, ItemLeaves DEF Shape, PushShape, SwapEventId
    <3>4. processEventOperation => push'.pc # "idle"
      BY <1>1, OperationFacts, OperationItems
    <3> QED
      BY <1>1, <2>2, <3>1, <3>2, <3>3, <3>4, PushChange
  <2>4. ASSUME push'.pc = "next" PROVE Creates(InPush') = {}
    <3>1. CASE push' = push
      BY <2>1, <2>4, <3>1 DEF InPush
    <3>2. CASE push.pc = "idle" /\ push'.todo = queue' /\ push'.failed = {}
      <4>1. InPush' = queue'
        BY <3>2 DEF InPush
      <4> QED
        BY <2>2, <3>2, <4>1
    <3>3. CASE processEventOperation
      <4>1. PICK q \in push.todo : OperationDone(q)
        BY <1>1, <3>3, OperationFacts
      <4>2. push.pc = "next" /\ \A p \in InPush' : p \in InPush \/ p.operation = q.operation
        BY <3>3, <4>1, OperationItems
      <4>3. q.operation # "create"
        BY <2>1, <4>2 DEF Creates, InPush
      <4> QED
        BY <2>1, <4>2, <4>3 DEF Creates
    <3>4. CASE SwapEventId /\ ItemDone(push.item)
      <4>1. push.pc = "swap" /\ push.item \in push.todo /\ \A f \in push.failed : f.id # push.item.id
        BY <3>4 DEF SwapEventId, Shape, PushShape
      <4>2. push'.todo = push.todo \ {push.item} /\ push'.failed = push.failed
        BY <1>1, <3>4, <4>1, ItemLeaves
      <4>3. \A p \in InPush' : p \in InPush /\ p # push.item
        BY <4>1, <4>2 DEF InPush
      <4> QED
        BY <2>1, <4>1, <4>3 DEF Creates
    <3>5. push' # IdlePush
      BY <2>4 DEF IdlePush
    <3> QED
      BY <1>1, <3>1, <3>2, <3>3, <3>4, <3>5, PushChange
  <2>5. ASSUME push'.pc = "swap" PROVE Creates(InPush') = {push'.item}
    <3>1. ~processEventOperation
      <4> SUFFICES ASSUME processEventOperation PROVE FALSE
        OBVIOUS
      <4>1. PICK q \in push.todo : OperationDone(q)
        BY <1>1, OperationFacts
      <4> QED
        BY <2>5, <4>1, OperationItems
    <3>2. push' = push
      <4>1. SwapEventId /\ ItemDone(push.item) => push'.pc = "next"
        BY <1>1, ItemLeaves DEF Shape, PushShape, SwapEventId
      <4>2. push' # IdlePush
        BY <2>5 DEF IdlePush
      <4> QED
        BY <1>1, <2>5, <3>1, <4>1, <4>2, PushChange
    <3> QED
      BY <2>1, <2>5, <3>2 DEF InPush
  <2>6. push.pc = "swap" /\ ~SwapEventId => push'.pc = "swap"
    <3> SUFFICES ASSUME push.pc = "swap", ~SwapEventId PROVE push'.pc = "swap"
      OBVIOUS
    <3>1. ~processEventOperation /\ ~FinishPush /\ ~Killed
      BY <1>1, KilledAtRest DEF processEventOperation, FinishPush
    <3> QED
      BY <1>1, <3>1, PushChange
  <2>7. HasTemp' => push'.pc = "swap"
    BY <1>3, <2>1, <2>6
  <2>8. ASSUME save'.pc = "enqueue", save'.isLocal PROVE push'.pc = "swap"
    <3>1. CASE WriteEvent
      <4>1. ed.created /\ ~SwapEventId
        BY <1>2, <3>1 DEF WriteEvent, SwapEventId, ItemDone, Shape, PushShape, TypeOK, PushState, SaveState
      <4>2. \E e \in local : e.isLocal
        BY <1>1, <2>8, <3>1, <4>1, WriteSave DEF isNew, WithId, TypeOK
      <4>3. HasTemp
        BY <4>2 DEF Shape, IdsGiven, HasTemp
      <4> QED
        BY <2>1, <2>6, <4>1, <4>3
    <3>2. CASE ~WriteEvent
      <4>1. save' = save
        BY <1>1, <2>8, <3>2, SaveChange DEF SaveMoves
      <4>2. ~SwapEventId
        BY <1>1, <2>8, <4>1, SwapExcused
      <4> QED
        BY <2>1, <2>6, <2>8, <4>1, <4>2
    <3> QED
      BY <3>1, <3>2
  <2> QED
    BY <1>4, <1>5, <2>3, <2>4, <2>5, <2>7, <2>8 DEF Made
<1>8. CASE save'.pc \in {"resolve", "unqueue"}
  BY <1>4, <1>5, <1>8 DEF Made
<1> QED
  BY <1>6, <1>7, <1>8

LEMMA OnceStep ==
    ASSUME Shape, TypeOK', OnceInv, Next
    PROVE  OnceInv'
<1> SUFFICES ASSUME ~past'.lost, ~past'.raced, ~past'.stale, ~past'.cut
             PROVE  made' = 0 \/ (made' = 1 /\ Made')
  BY DEF OnceInv
<1>1. ~past.lost /\ ~past.raced /\ ~past.stale /\ ~past.cut
  BY PastGrows DEF Shape, TypeOK
<1>2. made' = made \/ made' = made + 1
  BY Frame DEF PostEvent, processEventOperation
<1>3. CASE made = 0
  <2>1. made' = 0 \/ made' = 1
    BY <1>2, <1>3
  <2>2. CASE made' = 1
    BY <1>3, <2>2, FirstMade
  <2> QED
    BY <2>1, <2>2
<1>4. CASE made = 1 /\ Made
  BY <1>4, NotMadeAgain, MadeStays
<1> QED
  BY <1>1, <1>3, <1>4 DEF OnceInv

\* However the autosave, the save on Back, the POST of the creation and the
\* push of its queued twin follow each other, one event is made on the server,
\* unless an answer was lost, the two overlapped, the write of an edit overlapped
\* the swap of the temp id or the app was killed.
THEOREM EventMadeOnce == Spec => []EventCreatedOnce
<1>1. Init => Shape /\ OnceInv
  BY ShapeInit DEF Init, OnceInv
<1>2. Shape /\ OnceInv /\ [Next]_vars => (Shape /\ OnceInv)'
  <2> SUFFICES ASSUME Shape, OnceInv, [Next]_vars PROVE (Shape /\ OnceInv)'
    OBVIOUS
  <2>1. CASE Next
    <3>1. Shape'
      BY <2>1, ShapeStep
    <3> QED
      BY <2>1, <3>1, OnceStep DEF Shape
  <2>2. CASE UNCHANGED vars
    BY <2>2 DEF vars, Shape, TypeOK, IdsGiven, RowsGiven, PushShape, SaveShape, SavedId, Stage, Nothing, NoCreates,
                Creates, InPush, Making, OnceInv, Made, HasTemp
  <2> QED
    BY <2>1, <2>2
<1>3. OnceInv => EventCreatedOnce
  BY DEF OnceInv, EventCreatedOnce
<1> QED
  BY <1>1, <1>2, <1>3, PTL DEF Spec

-------------------------------------------------------------------------------
(* Known reminders *)

Noted(n) == \E e \in local : e.note = n

\* Numbers of notifications are given once, too.
NotesGiven ==
    /\ \A n \in os : 1 <= n /\ n <= notes
    /\ \A e \in local : e.note <= notes
    /\ ed.ref <= notes /\ refresh.note <= notes

Held == \A n \in os : n = ed.ref \/ Noted(n) \/ (refresh.pc = "keep" /\ n = refresh.note)

\* The editor's event may have been swapped already, or stored by a pull.
Swapping == Editing /\ push.pc = "swap" /\ ed.id = push.reply

\* What the editor holds is in the record, or will be when the autosave ends;
\* and what the record holds is what the editor has.
EditorKnows ==
    /\ ed.ref \in os => Noted(ed.ref) \/ (save.pc # "idle" /\ save.by = "auto")
    /\ Editing => \A e \in local : e.id = ed.id => e.note = ed.ref \/ e.note \notin os
    /\ Making => \A e \in local : e.note = 0
    /\ Swapping => ed.id \in IdsOf(local)

\* The refresh has cancelled what the record still holds.
RefreshKnows ==
    refresh.pc # "idle" =>
        /\ ~Editing
        /\ \A e \in local : e.id = refresh.id =>
               IF refresh.pc = "schedule" THEN e.note = refresh.note ELSE e.note \notin os
        /\ refresh.id # Temp => refresh.id \in IdsOf(local)

\* And so has the editor's delete.
OwnDelete == del.pc # "idle" /\ ~del.list

DeleteKnows ==
    /\ OwnDelete =>
        /\ ed.open /\ ed.id = del.id /\ ~ed.timer /\ wants = {}
        /\ \A e \in local : e.id = del.id => e.note \notin os
    /\ del.list => del.pc \in {"idle", "mark"}

Knows == Unique(local) /\ Held /\ EditorKnows /\ RefreshKnows /\ DeleteKnows

RemindersInv == past.astray \/ past.cut \/ Knows

\* No record loses a reminder of the OS and none gets one.
RecordsKept ==
    /\ Unique(local')
    /\ \A d \in local : d.note \in os => \E e \in local' : e.id = d.id /\ e.note = d.note
    /\ \A e \in local' :
           \/ \E d \in local : e.id = d.id /\ e.note = d.note
           \/ e.note = 0 /\ (refresh.pc = "idle" \/ (e.id # Temp /\ e.id \notin IdsOf(local)))

LEMMA SameKept ==
    ASSUME Unique(local), local' = local
    PROVE  RecordsKept
  BY DEF RecordsKept

\* A step that schedules nothing.
LEMMA Calm ==
    ASSUME NotesGiven, Knows, RecordsKept, os' = os, refresh' = refresh, ed'.ref = ed.ref, Editing' => Editing,
           save.pc # "idle" /\ save.by = "auto" => save'.pc # "idle" /\ save'.by = "auto",
           Making' => Making \/ local = {},
           ed'.id = ed.id \/ Making,
           refresh.pc = "idle" \/ IdsOf(local) \subseteq IdsOf(local'),
           Swapping' => Swapping /\ ed'.id = ed.id /\ IdsOf(local) \subseteq IdsOf(local'),
           OwnDelete' => OwnDelete /\ del'.id = del.id /\ ed'.id = ed.id /\ ed'.open /\ ~ed'.timer /\ wants' = {},
           del'.list => del'.pc \in {"idle", "mark"}
    PROVE  Knows'
<1>1. 0 \notin os
  BY DEF NotesGiven
<1>2. \A n \in os : Noted(n) => Noted(n)'
  BY DEF Noted, RecordsKept
<1>3. Held'
  BY <1>2 DEF Knows, Held
<1>4. /\ ed'.ref \in os' => Noted(ed.ref)' \/ (save'.pc # "idle" /\ save'.by = "auto")
  BY <1>2 DEF Knows, EditorKnows
<1>5. ASSUME NEW e \in local', e.note # 0
      PROVE  \E d \in local : e.id = d.id /\ e.note = d.note
  BY <1>5 DEF RecordsKept
<1>6. ASSUME Editing', NEW e \in local', e.id = ed'.id, e.note \in os'
      PROVE  e.note = ed'.ref
  <2>1. PICK d \in local : e.id = d.id /\ e.note = d.note
    BY <1>1, <1>5, <1>6
  <2> QED
    BY <1>1, <1>6, <2>1 DEF Knows, EditorKnows
<1>7. Making' => \A e \in local' : e.note = 0
  BY <1>5 DEF Knows, EditorKnows
<1>8. Swapping' => ed'.id \in IdsOf(local')
  BY DEF Knows, EditorKnows
<1>9. EditorKnows'
  BY <1>4, <1>6, <1>7, <1>8 DEF EditorKnows, Noted
<1>10. RefreshKnows'
  <2> SUFFICES ASSUME refresh.pc # "idle" PROVE RefreshKnows'
    BY DEF RefreshKnows
  <2>1. /\ ~Editing
        /\ refresh.id # Temp => refresh.id \in IdsOf(local)
        /\ \A e \in local : e.id = refresh.id =>
               IF refresh.pc = "schedule" THEN e.note = refresh.note ELSE e.note \notin os
    BY DEF Knows, RefreshKnows
  <2>2. \A e \in local' : e.id = refresh.id => \E d \in local : e.id = d.id /\ e.note = d.note
    BY <2>1 DEF RecordsKept
  <2> QED
    BY <2>1, <2>2 DEF RefreshKnows
<1>11. DeleteKnows'
  <2>1. ASSUME OwnDelete', NEW e \in local', e.id = del'.id
        PROVE  e.note \notin os'
    BY <1>1, <1>5, <2>1 DEF Knows, DeleteKnows
  <2> QED
    BY <2>1 DEF Knows, DeleteKnows
<1> QED
  BY <1>3, <1>9, <1>10, <1>11 DEF Knows, RecordsKept

\* While a save has the lock nobody refreshes, and the editor deletes nothing.
LEMMA Saving ==
    ASSUME Shape, Knows, save.pc # "idle"
    PROVE  wants # {} /\ Editing /\ save.note = ed.ref /\ refresh.pc = "idle" /\ ~OwnDelete
  BY DEF Shape, SaveShape, Knows, RefreshKnows, DeleteKnows, Editing

\* The actions of the editor that wait for nothing.
LEMMA EditorCalm ==
    ASSUME Shape, NotesGiven, Knows, TypeOK', Type \/ triggerAutoSave \/ handleBack
    PROVE  Knows'
<1>1. /\ local' = local /\ os' = os /\ refresh' = refresh /\ save' = save /\ push' = push /\ del' = del
      /\ ed.open \/ ed.timer
  BY DEF Type, triggerAutoSave, handleBack, Knows, DeleteKnows, OwnDelete
<1>2. ed'.id = ed.id /\ ed'.ref = ed.ref
  BY DEF Type, triggerAutoSave, handleBack, Shape, TypeOK, EditorState
<1>3. ~OwnDelete
  BY DEF Type, triggerAutoSave, handleBack, Knows, DeleteKnows, OwnDelete
<1>4. Editing
  BY <1>1 DEF Editing
<1>5. RecordsKept
  BY <1>1, SameKept DEF Knows
<1>6. (Making' => Making) /\ (OwnDelete' => OwnDelete) /\ (Swapping' => Swapping)
  BY <1>1, <1>2, <1>4 DEF Making, OwnDelete, Swapping
<1>7. del'.list => del'.pc \in {"idle", "mark"}
  BY <1>1 DEF Knows, DeleteKnows
<1> QED
  BY <1>1, <1>2, <1>3, <1>4, <1>5, <1>6, <1>7, Calm

\* The push and the pull, as far as they leave the records alone.
LEMMA ServerCalm ==
    ASSUME Shape, NotesGiven, Knows, TypeOK',
           TriggerPush \/ processEventOperation \/ FinishPush \/ fullSync \/ PullEvents
    PROVE  Knows'
<1>1. /\ local' = local /\ os' = os /\ refresh' = refresh /\ save' = save /\ ed' = ed /\ wants' = wants
      /\ del' = del
  BY DEF TriggerPush, processEventOperation, FinishPush, fullSync, PullEvents
<1>2. ~(push'.pc = "swap" /\ ed'.id = push'.reply) \/ push' = push
  <2>1. CASE TriggerPush
    <3>1. push' = push \/ push' = [IdlePush EXCEPT !.pc = "next", !.todo = queue]
      BY <2>1 DEF TriggerPush, processSyncQueue
    <3> QED
      BY <3>1 DEF IdlePush
  <2>2. CASE processEventOperation
    <3>1. PICK q \in push.todo : OperationDone(q)
      BY <2>2, OperationFacts DEF Shape
    <3>2. push'.pc = "next" \/ (push'.pc = "swap" /\ push'.reply = made + 1 /\ made' = made + 1)
      BY <2>2, <3>1, OperationItems
    <3>3. /\ ed.id <= made \/ ed.id = MaxIds + 1
          /\ ed.id \in Nat /\ made \in Nat /\ MaxIds \in Nat /\ made' <= MaxIds
      BY NaturalBounds DEF Shape, TypeOK, EditorState, IdsGiven, NoId
    <3> QED
      BY <1>1, <3>2, <3>3
  <2>3. CASE FinishPush
    BY <2>3 DEF FinishPush, IdlePush
  <2> QED
    BY <2>1, <2>2, <2>3 DEF fullSync, PullEvents
<1>3. RecordsKept
  BY <1>1, SameKept DEF Knows
<1>4. (Making' => Making) /\ (OwnDelete' => OwnDelete) /\ (Swapping' => Swapping) /\ (Editing' => Editing)
  BY <1>1, <1>2 DEF Making, OwnDelete, Swapping, Editing
<1>5. del'.list => del'.pc \in {"idle", "mark"}
  BY <1>1 DEF Knows, DeleteKnows
<1>6. OwnDelete => ed.open /\ ~ed.timer /\ wants = {}
  BY DEF Knows, DeleteKnows
<1> QED
  BY <1>1, <1>3, <1>4, <1>5, <1>6, Calm

\* The delete, from the editor or from a list, up to its end.
LEMMA DeleteCalm ==
    ASSUME Shape, NotesGiven, Knows, TypeOK', DeleteFromList \/ EnqueueDelete
    PROVE  Knows'
<1>1. /\ local' = local /\ os' = os /\ refresh' = refresh /\ save' = save /\ ed' = ed /\ wants' = wants
  BY DEF DeleteFromList, EnqueueDelete
<1>2. push'.pc = "swap" => push' = push
  <2>1. push' = push \/ push' = [IdlePush EXCEPT !.pc = "next", !.todo = queue']
    BY DEF DeleteFromList, EnqueueDelete, processSyncQueue
  <2> QED
    BY <2>1 DEF IdlePush
<1>3. CASE DeleteFromList
  <2>1. PICK e \in local : del' = [pc |-> "mark", id |-> e.id, list |-> TRUE]
    BY <1>3 DEF DeleteFromList
  <2>2. del'.pc = "mark" /\ del'.list
    BY <2>1
  <2>3. RecordsKept
    BY <1>1, SameKept DEF Knows
  <2>4. (Making' => Making) /\ ~OwnDelete' /\ (Swapping' => Swapping) /\ (Editing' => Editing)
    BY <1>1, <1>2, <2>2 DEF Making, OwnDelete, Swapping, Editing
  <2> QED
    BY <1>1, <2>2, <2>3, <2>4, Calm
<1>4. CASE EnqueueDelete
  <2>1. del.pc = "enqueue" /\ ~del.list
    BY <1>4 DEF EnqueueDelete, Knows, DeleteKnows
  <2>2. del'.id = del.id /\ (del'.list <=> del.list)
    BY <1>4 DEF EnqueueDelete, Shape, TypeOK, DeleteState
  <2>3. OwnDelete /\ ed.open /\ ~ed.timer /\ wants = {}
    BY <2>1 DEF Knows, DeleteKnows, OwnDelete
  <2>4. RecordsKept
    BY <1>1, SameKept DEF Knows
  <2>5. (Making' => Making) /\ (Swapping' => Swapping) /\ (Editing' => Editing)
    BY <1>1, <1>2 DEF Making, Swapping, Editing
  <2> QED
    BY <1>1, <2>1, <2>2, <2>3, <2>4, <2>5, Calm
<1> QED
  BY <1>3, <1>4

\* The record the delete drops has no reminder any more.
LEMMA MarkCalm ==
    ASSUME Shape, NotesGiven, Knows, TypeOK', deleteEventOffline, ~past'.astray
    PROVE  Knows'
<1>1. /\ os' = os /\ refresh' = refresh /\ save' = save /\ ed' = ed /\ wants' = wants /\ push' = push
      /\ del.pc = "mark" /\ TypeOK /\ past \in History
  BY DEF deleteEventOffline, Shape, TypeOK
<1>2. ~del.list /\ refresh.pc = "idle"
  <2>1. ~(del.list \/ refresh.pc # "idle")
    BY <1>1, ExcusedHappened DEF deleteEventOffline
  <2> QED
    BY <2>1
<1>3. /\ ed.open /\ ed.id = del.id /\ ~ed.timer /\ wants = {} /\ OwnDelete
      /\ \A e \in local : e.id = del.id => e.note \notin os
  BY <1>1, <1>2 DEF Knows, DeleteKnows, OwnDelete
<1>4. del'.id = del.id /\ ~del'.list
  BY <1>1, <1>2 DEF deleteEventOffline, TypeOK, DeleteState
<1>5. CASE /\ \E e \in local : e.id = del.id /\ e.isLocal
           /\ local' = {d \in local : d.id # del.id}
  <2>1. RecordsKept
    BY <1>3, <1>5 DEF RecordsKept, Knows, Unique
  <2>2. ed.id = Temp /\ Temp = 0
    BY <1>3, <1>5 DEF Shape, IdsGiven, Temp
  <2>3. ~Swapping'
    BY <1>1, <2>2 DEF Swapping, Shape, PushShape
  <2>4. (Making' => Making) /\ (Editing' => Editing)
    BY <1>1 DEF Making, Editing
  <2> QED
    BY <1>1, <1>2, <1>3, <1>4, <2>1, <2>3, <2>4, Calm
<1>6. CASE /\ \A e \in local' : \E d \in local : Like(e, d) /\ e.note = d.note
           /\ \A d \in local : \E e \in local' : Like(e, d) /\ e.note = d.note
           /\ Unique(local) => Unique(local')
  <2>1. RecordsKept
    BY <1>6 DEF RecordsKept, Knows, Like
  <2>2. IdsOf(local) \subseteq IdsOf(local')
    BY <1>6 DEF Like, IdsOf
  <2>3. (Making' => Making) /\ (Swapping' => Swapping) /\ (Editing' => Editing)
    BY <1>1 DEF Making, Swapping, Editing
  <2> QED
    BY <1>1, <1>2, <1>3, <1>4, <2>1, <2>2, <2>3, Calm
<1> QED
  BY <1>1, <1>5, <1>6, HideFacts

LEMMA DeleteEndCalm ==
    ASSUME Shape, NotesGiven, Knows, TypeOK', DeleteEnds
    PROVE  Knows'
<1>1. /\ os' = os /\ refresh' = refresh /\ save' = save /\ wants' = wants /\ push' = push
      /\ del' = IdleDel /\ del.pc \in {"done", "pushing", "drop"}
      /\ local' = local \/ local' = {e \in local : e.id # del.id}
  BY DEF DeleteEnds
<1>2. /\ ed.open /\ ed.id = del.id /\ ~ed.timer /\ wants = {} /\ OwnDelete
      /\ \A e \in local : e.id = del.id => e.note \notin os
  BY <1>1 DEF Knows, DeleteKnows, OwnDelete
<1>3. ed'.id = ed.id /\ ed'.ref = ed.ref /\ ~ed'.open /\ ~ed'.timer
  BY <1>2 DEF DeleteEnds, Shape, TypeOK, EditorState
<1>4. Editing /\ ~Editing' /\ refresh.pc = "idle"
  BY <1>1, <1>2, <1>3 DEF Editing, Knows, RefreshKnows
<1>5. RecordsKept
  BY <1>1, <1>2 DEF RecordsKept, Knows, Unique
<1>6. (Making' => Making) /\ ~Swapping' /\ ~OwnDelete' /\ del'.pc = "idle"
  BY <1>1, <1>4 DEF Making, Swapping, OwnDelete, IdleDel
<1> QED
  BY <1>1, <1>3, <1>4, <1>5, <1>6, Calm

\* A save between two writes to the device.
LEMMA SaveCalm ==
    ASSUME Shape, NotesGiven, Knows, TypeOK', Next,
           (\E w \in wants : withSaveLock(w)) \/ PushAwaited
    PROVE  Knows'
<1>1. /\ local' = local /\ os' = os /\ refresh' = refresh /\ push' = push /\ del' = del
      /\ ed' = ed /\ wants' = wants /\ TypeOK
  BY DEF withSaveLock, PushAwaited, Shape
<1>2. save.pc # "idle" => save'.pc # "idle" /\ save'.by = save.by
  BY DEF withSaveLock, PushAwaited, Shape, TypeOK, SaveState
<1>3. ~Making'
  BY <1>1 DEF withSaveLock, PushAwaited, Shape, TypeOK, SaveState, IdleSave, Making
<1>4. RecordsKept
  BY <1>1, SameKept DEF Knows
<1>5. (OwnDelete' => OwnDelete) /\ (Swapping' => Swapping) /\ (Editing' => Editing)
  BY <1>1 DEF OwnDelete, Swapping, Editing
<1>6. OwnDelete => ed.open /\ ~ed.timer /\ wants = {}
  BY DEF Knows, DeleteKnows
<1>7. del'.list => del'.pc \in {"idle", "mark"}
  BY <1>1 DEF Knows, DeleteKnows
<1> QED
  BY <1>1, <1>2, <1>3, <1>4, <1>5, <1>6, <1>7, Calm

LEMMA WriteCalm ==
    ASSUME Shape, NotesGiven, Knows, TypeOK', Next, WriteEvent
    PROVE  Knows'
<1>1. /\ os' = os /\ refresh' = refresh /\ push' = push /\ del' = del /\ ed' = ed /\ wants' = wants
      /\ save.pc = "write" /\ TypeOK
  BY DEF WriteEvent, Shape
<1>2. wants # {} /\ Editing /\ refresh.pc = "idle" /\ ~OwnDelete
  BY <1>1, Saving
<1>3. save'.pc # "idle" /\ save'.by = save.by /\ (save'.new <=> ~ed.created)
  BY <1>1, WriteSave DEF TypeOK
<1>4. ~OwnDelete' /\ (Swapping' => Swapping) /\ Editing'
  BY <1>1, <1>2 DEF OwnDelete, Swapping, Editing
<1>5. del'.list => del'.pc \in {"idle", "mark"}
  BY <1>1 DEF Knows, DeleteKnows
<1>6. CASE ~ed.created
  <2>1. local = {} /\ ed.id = NoId
    BY <1>1, <1>2, <1>6 DEF Shape, Stage, Nothing, Making
  <2>2. PICK f \in EventRecord : f.note = 0 /\ local' = {d \in local : d.id # Temp} \cup {f}
    BY <1>1, <1>6, WriteFacts
  <2>3. RecordsKept
    BY <1>2, <2>1, <2>2 DEF RecordsKept, Unique
  <2>4. IdsOf(local) \subseteq IdsOf(local')
    BY <2>1 DEF IdsOf
  <2> QED
    BY <1>1, <1>2, <1>3, <1>4, <1>5, <2>1, <2>3, <2>4, Calm
<1>7. CASE ed.created
  <2>1. /\ \A e \in local' : \E d \in local : Like(e, d) /\ e.note = d.note
        /\ \A d \in local : \E e \in local' : Like(e, d) /\ e.note = d.note
        /\ Unique(local) => Unique(local')
    BY <1>1, <1>7, WriteFacts
  <2>2. RecordsKept
    BY <2>1 DEF RecordsKept, Knows, Like
  <2>3. IdsOf(local) \subseteq IdsOf(local')
    BY <2>1 DEF Like, IdsOf
  <2>4. ~Making'
    BY <1>3, <1>7 DEF Making
  <2> QED
    BY <1>1, <1>2, <1>3, <1>4, <1>5, <2>2, <2>3, <2>4, Calm
<1> QED
  BY <1>6, <1>7

\* The queue, the POST and the queue again; the editor gets the event's id.
LEMMA RequestCalm ==
    ASSUME Shape, NotesGiven, Knows, TypeOK', Next, EnqueueEvent \/ PostEvent \/ UnqueueEvent
    PROVE  Knows'
<1>1. /\ local' = local /\ os' = os /\ refresh' = refresh /\ del' = del /\ wants' = wants
      /\ save.pc \in {"enqueue", "post", "unqueue"} /\ TypeOK
  BY DEF EnqueueEvent, PostEvent, UnqueueEvent, Shape
<1>2. wants # {} /\ Editing /\ refresh.pc = "idle" /\ ~OwnDelete
  BY <1>1, Saving
<1>3. save'.pc # "idle" /\ save'.by = save.by /\ (Making' => Making)
  <2>1. ~SaveEnds /\ ~SaveFails
    BY <1>1 DEF SaveEnds, SaveFails
  <2>2. ~Killed \/ (Killed /\ wants' = {})
    BY DEF Killed
  <2> QED
    BY <1>1, <1>2, <2>1, <2>2, SaveChange DEF SaveMoves, Making
<1>4. ed'.ref = ed.ref
  BY <1>1 DEF EnqueueEvent, PostEvent, UnqueueEvent, Named, TypeOK, EditorState
<1>5. ed' = ed \/ (Making /\ ed'.id = IF UnqueueEvent THEN save.reply ELSE Temp)
  <2>1. CASE EnqueueEvent
    <3>1. ed' = ed \/ (save.new /\ Named(Temp))
      BY <2>1 DEF EnqueueEvent
    <3> QED
      BY <1>1, <2>1, <3>1 DEF Named, TypeOK, EditorState, Making, EnqueueEvent, UnqueueEvent
  <2>2. CASE PostEvent
    <3>1. ed' = ed \/ Named(Temp)
      BY <2>2 DEF PostEvent
    <3>2. Making
      BY <2>2 DEF PostEvent, Making, Shape, SaveShape
    <3> QED
      BY <1>1, <2>2, <3>1, <3>2 DEF Named, TypeOK, EditorState, PostEvent, UnqueueEvent
  <2>3. CASE UnqueueEvent
    <3>1. Named(save.reply) /\ Making
      BY <2>3 DEF UnqueueEvent, Making, Shape, SaveShape
    <3> QED
      BY <1>1, <2>3, <3>1 DEF Named, TypeOK, EditorState
  <2> QED
    BY <2>1, <2>2, <2>3
<1>6. push'.pc = "swap" => push' = push
  <2>1. push' = push \/ push' = [IdlePush EXCEPT !.pc = "next", !.todo = queue']
    BY DEF EnqueueEvent, PostEvent, UnqueueEvent, processSyncQueue
  <2> QED
    BY <2>1 DEF IdlePush
<1>7. Swapping' => Swapping /\ ed'.id = ed.id
  <2>1. CASE ed' = ed
    BY <1>1, <1>6, <2>1 DEF Swapping, Editing
  <2>2. CASE Making /\ ed'.id = IF UnqueueEvent THEN save.reply ELSE Temp
    <3>1. UnqueueEvent /\ push.pc = "swap" => save.reply # push.reply
      BY DEF UnqueueEvent, Shape, SaveShape
    <3>2. push.pc = "swap" => push.reply # Temp
      BY DEF Shape, PushShape, Temp
    <3> QED
      BY <1>6, <2>2, <3>1, <3>2 DEF Swapping
  <2> QED
    BY <1>5, <2>1, <2>2
<1>8. ~OwnDelete' /\ (del'.list => del'.pc \in {"idle", "mark"})
  BY <1>1, <1>2 DEF OwnDelete, Knows, DeleteKnows
<1>9. RecordsKept
  BY <1>1, SameKept DEF Knows
<1> QED
  BY <1>1, <1>2, <1>3, <1>4, <1>5, <1>7, <1>8, <1>9, Calm

\* The answer of the POST: no event has a reminder yet.
LEMMA ResolveCalm ==
    ASSUME Shape, NotesGiven, Knows, TypeOK', Next, ResolveEvent, ~past'.astray
    PROVE  Knows'
<1>1. /\ os' = os /\ refresh' = refresh /\ push' = push /\ del' = del /\ ed' = ed /\ wants' = wants
      /\ save.pc = "resolve" /\ TypeOK /\ past \in History
  BY DEF ResolveEvent, Shape, TypeOK
<1>2. wants # {} /\ Editing /\ refresh.pc = "idle" /\ ~OwnDelete
  BY <1>1, Saving
<1>3. Making /\ ed.id = NoId /\ 0 \notin os /\ \A e \in local : e.note = 0
  BY <1>1 DEF Making, Shape, SaveShape, Stage, Knows, EditorKnows, NotesGiven
<1>4. save'.pc # "idle" /\ save'.by = save.by
  BY <1>1 DEF ResolveEvent, TypeOK, SaveState
<1>5. save.reply \notin IdsOf(local)
  BY <1>1, ExcusedHappened DEF ResolveEvent
<1>6. RecordsKept
  <2>1. CASE local' = local
    BY <2>1, SameKept DEF Knows
  <2>2. ASSUME NEW f \in EventRecord, f.id = save.reply, f.note = 0, local' = {d \in local : d.id # Temp} \cup {f}
        PROVE  RecordsKept
    <3>1. \A d \in local : d.id # f.id
      BY <1>5, <2>2 DEF IdsOf
    <3> QED
      BY <1>2, <1>3, <2>2, <3>1 DEF RecordsKept, Unique, Knows
  <2> QED
    BY <1>1, <2>1, <2>2, ResolveFacts
<1>7. ~Swapping'
  <2>1. push.pc = "swap" => push.reply # NoId
    <3>1. push.pc = "swap" => push.reply <= made
      BY DEF Shape, PushShape
    <3>2. push.reply \in Nat /\ made \in Nat /\ made <= MaxIds /\ MaxIds \in Nat
      BY <1>1, NaturalBounds DEF TypeOK, PushState
    <3> QED
      BY <3>1, <3>2 DEF NoId
  <2> QED
    BY <1>1, <1>3, <2>1 DEF Swapping
<1>8. ~OwnDelete' /\ (del'.list => del'.pc \in {"idle", "mark"}) /\ Editing'
  BY <1>1, <1>2 DEF OwnDelete, Knows, DeleteKnows, Editing
<1> QED
  BY <1>1, <1>2, <1>3, <1>4, <1>6, <1>7, <1>8, Calm

\* The save ends; the autosave writes the editor's reminder into the record.
LEMMA SaveEndKnown ==
    ASSUME Shape, NotesGiven, Knows, TypeOK', Next, SaveEnds, ~past'.astray
    PROVE  Knows'
<1>1. /\ os' = os /\ refresh' = refresh /\ push' = push /\ del' = del /\ save' = IdleSave
      /\ ed' = [ed EXCEPT !.saved = save.at] /\ wants' = wants \ {save.by}
      /\ save.pc = "keep" /\ TypeOK /\ past \in History /\ local \subseteq EventRecord
  BY DEF SaveEnds, Shape, TypeOK
<1>2. wants # {} /\ Editing /\ save.note = ed.ref /\ refresh.pc = "idle" /\ ~OwnDelete
  BY <1>1, Saving
<1>3. ed'.id = ed.id /\ ed'.ref = ed.ref /\ (ed'.open <=> ed.open) /\ (ed'.timer <=> ed.timer)
  BY <1>1 DEF TypeOK, EditorState
<1>4. (Editing' => Editing) /\ ~OwnDelete' /\ ~Making' /\ save'.pc = "idle"
      /\ (del'.list => del'.pc \in {"idle", "mark"})
  BY <1>1, <1>2, <1>3 DEF Editing, OwnDelete, Making, IdleSave, Knows, DeleteKnows
<1>5. Swapping' => Swapping
  BY <1>1, <1>3, <1>4 DEF Swapping
<1>6. CASE save.by # "auto"
  <2>1. local' = local
    BY <1>6 DEF SaveEnds
  <2>2. RecordsKept
    BY <2>1, SameKept DEF Knows
  <2> QED
    BY <1>1, <1>2, <1>3, <1>4, <1>5, <1>6, <2>1, <2>2, Calm
<1>7. CASE save.by = "auto"
  <2>1. ed.id \in Nat /\ ed.ref \in Nat /\ local' = setLocalEventNotificationId(ed.id, ed.ref)
    BY <1>1, <1>2, <1>7 DEF SaveEnds, TypeOK, EditorState
  <2>2. /\ \A e \in local' : \E d \in local : Like(e, d) /\ e.note = IF d.id = ed.id THEN ed.ref ELSE d.note
        /\ \A d \in local : \E e \in local' : Like(e, d) /\ e.note = IF d.id = ed.id THEN ed.ref ELSE d.note
        /\ Unique(local')
    <3>1. Unique(local)
      BY DEF Knows
    <3>2. LET L == setLocalEventNotificationId(ed.id, ed.ref)
          IN  /\ \A e \in L : \E d \in local : Like(e, d) /\ e.note = IF d.id = ed.id THEN ed.ref ELSE d.note
              /\ \A d \in local : \E e \in L : Like(e, d) /\ e.note = IF d.id = ed.id THEN ed.ref ELSE d.note
              /\ Unique(local) => Unique(L)
      BY <1>1, <2>1, NoteSet
    <3> QED
      BY <2>1, <3>1, <3>2
  <2>3. ed.ref # 0 => \E d \in local : d.id = ed.id
    <3>1. ~(save.by = "auto" /\ save.note # 0 /\ WithId(local, ed.id) = {})
      BY <1>1, ExcusedHappened DEF SaveEnds
    <3> QED
      BY <1>2, <1>7, <3>1 DEF WithId
  <2>4. 0 \notin os
    BY DEF NotesGiven
  <2>5. Held'
    BY <1>1, <1>2, <1>3, <2>2 DEF Held, Noted, Knows, EditorKnows
  <2>6. ed.ref \in os => Noted(ed.ref)'
    BY <1>3, <2>2, <2>3, <2>4 DEF Noted
  <2>7. \A e \in local' : e.id = ed.id => e.note = ed.ref
    BY <2>2 DEF Like
  <2>8. IdsOf(local) \subseteq IdsOf(local')
    BY <2>2 DEF Like, IdsOf
  <2>9. EditorKnows'
    <3>1. Swapping' => ed'.id \in IdsOf(local')
      BY <1>3, <1>5, <2>8 DEF Knows, EditorKnows
    <3>2. ed'.ref \in os' => Noted(ed.ref)'
      BY <1>1, <1>3, <2>6 DEF Noted
    <3> QED
      BY <1>3, <1>4, <2>7, <3>1, <3>2 DEF EditorKnows
  <2>10. RefreshKnows' /\ DeleteKnows'
    BY <1>1, <1>2, <1>4 DEF RefreshKnows, DeleteKnows
  <2> QED
    BY <2>2, <2>5, <2>9, <2>10 DEF Knows
<1> QED
  BY <1>6, <1>7

\* A new reminder for the editor, which the autosave will record.
LEMMA ScheduleKnown ==
    ASSUME Shape, NotesGiven, Knows, TypeOK', Next, scheduleReminder
    PROVE  Knows'
<1>1. /\ local' = local /\ refresh' = refresh /\ push' = push /\ del' = del /\ wants' = wants
      /\ save.pc \in {"schedule", "again"} /\ save.by = "auto" /\ TypeOK /\ notes \in Nat
      /\ local \subseteq EventRecord /\ ed.ref \in Nat /\ os \subseteq Nat
  BY DEF scheduleReminder, Shape, SaveShape, TypeOK, EditorState
<1>2. wants # {} /\ Editing /\ refresh.pc = "idle" /\ ~OwnDelete
  BY <1>1, Saving
<1>3. PICK n \in 0..MaxNotes :
          /\ Schedule(ed.ref, n) /\ ed' = [ed EXCEPT !.ref = n]
          /\ save' = [save EXCEPT !.note = n, !.pc = IF @ = "schedule" THEN "write" ELSE "keep"]
  BY DEF scheduleReminder
<1>4. /\ os' = (os \ {ed.ref}) \cup ({n} \ {0}) /\ n \in Nat
      /\ n = 0 \/ n = notes + 1
  BY <1>1, <1>3, ScheduleFacts
<1>5. /\ ed'.ref = n /\ ed'.id = ed.id /\ (ed'.open <=> ed.open) /\ (ed'.timer <=> ed.timer)
      /\ save'.pc \in {"write", "keep"} /\ save'.by = "auto"
  BY <1>1, <1>3 DEF TypeOK, EditorState, SaveState
<1>6. Editing' /\ ~OwnDelete' /\ ~Making' /\ (del'.list => del'.pc \in {"idle", "mark"})
  BY <1>1, <1>2, <1>5 DEF Editing, OwnDelete, Making, Knows, DeleteKnows
<1>7. Held'
  BY <1>1, <1>2, <1>4, <1>5 DEF Held, Noted, Knows
<1>8. EditorKnows'
  <2>1. \A e \in local : e.id = ed.id => e.note = n \/ e.note \notin os'
    <3>1. \A e \in local : e.note \in Nat /\ e.note <= notes
      BY <1>1 DEF NotesGiven, EventRecord
    <3>2. \A e \in local : e.id = ed.id => e.note = ed.ref \/ e.note \notin os
      BY <1>2 DEF Knows, EditorKnows
    <3> QED
      BY <1>1, <1>4, <3>1, <3>2
  <2>2. Swapping' => ed'.id \in IdsOf(local')
    BY <1>1, <1>2, <1>5 DEF Swapping, Knows, EditorKnows
  <2> QED
    BY <1>1, <1>5, <1>6, <2>1, <2>2 DEF EditorKnows
<1> QED
  BY <1>1, <1>2, <1>6, <1>7, <1>8 DEF Knows, RefreshKnows, DeleteKnows

\* The screen opens at an event and takes the reminder of its record.
LEMMA LoadKnown ==
    ASSUME Shape, NotesGiven, Knows, TypeOK', Next, loadEvent, ~past'.astray
    PROVE  Knows'
<1>1. /\ local' = local /\ os' = os /\ refresh' = refresh /\ push' = push /\ del' = del /\ wants' = wants
      /\ save' = save /\ wants = {} /\ del.pc = "idle" /\ past \in History
  BY DEF loadEvent, Shape, TypeOK
<1>2. PICK e \in local : \E n \in IF e.isLocal THEN {0} ELSE {e.note, 0} :
          /\ ed' = [Closed EXCEPT !.open = TRUE, !.id = e.id, !.created = TRUE, !.ref = n]
          /\ Excused("astray", n # e.note \/ refresh.pc # "idle")
  BY DEF loadEvent
<1>3. PICK n \in IF e.isLocal THEN {0} ELSE {e.note, 0} :
          /\ ed' = [Closed EXCEPT !.open = TRUE, !.id = e.id, !.created = TRUE, !.ref = n]
          /\ Excused("astray", n # e.note \/ refresh.pc # "idle")
  BY <1>2
<1>4. n = e.note /\ refresh.pc = "idle"
  <2>1. ~(n # e.note \/ refresh.pc # "idle")
    BY <1>1, <1>3, ExcusedHappened
  <2> QED
    BY <2>1
<1>5. ed'.id = e.id /\ ed'.ref = e.note
  BY <1>3, <1>4 DEF Closed
<1>6. save.pc = "idle"
  BY <1>1 DEF Shape, SaveShape
<1>7. Held'
  BY <1>1, <1>4, <1>6 DEF Held, Noted, Knows, EditorKnows
<1>8. EditorKnows'
  <2>1. \A d \in local : d.id = e.id => d.note = e.note
    BY DEF Knows, Unique
  <2>2. ~Making'
    BY <1>1, <1>6 DEF Making
  <2> QED
    BY <1>1, <1>5, <2>1, <2>2 DEF EditorKnows, Noted, Swapping, IdsOf
<1> QED
  BY <1>1, <1>4, <1>7, <1>8 DEF Knows, RefreshKnows, DeleteKnows, OwnDelete

\* The editor's delete cancels what the editor and its record hold.
LEMMA ConfirmKnown ==
    ASSUME Shape, NotesGiven, Knows, TypeOK', Next, confirmDelete, ~past'.astray
    PROVE  Knows'
<1>1. /\ local' = local /\ os' = os \ {ed.ref} /\ refresh' = refresh /\ push' = push /\ ed' = ed
      /\ save' = save /\ wants' = wants /\ ed.open /\ past \in History
      /\ del' = [pc |-> "mark", id |-> ed.id, list |-> FALSE]
  BY DEF confirmDelete, cancelReminder, Shape, TypeOK
<1>2. wants = {} /\ ~ed.timer
  <2>1. ~(wants # {} \/ ed.timer)
    BY <1>1, ExcusedHappened DEF confirmDelete
  <2> QED
    BY <2>1
<1>3. Editing /\ refresh.pc = "idle" /\ del'.id = ed.id /\ ~del'.list
  BY <1>1 DEF Editing, Knows, RefreshKnows
<1>4. Held'
  BY <1>1 DEF Held, Noted, Knows
<1>5. EditorKnows'
  <2>1. (Making' => Making) /\ (Swapping' => Swapping)
    BY <1>1 DEF Making, Swapping, Editing
  <2>2. ed.ref \notin os'
    BY <1>1
  <2>3. \A e \in local : e.id = ed.id => e.note = ed.ref \/ e.note \notin os'
    BY <1>1, <1>3 DEF Knows, EditorKnows
  <2> QED
    BY <1>1, <2>1, <2>2, <2>3 DEF EditorKnows, Knows
<1>6. \A e \in local : e.id = ed.id => e.note \notin os'
  BY <1>1, <1>3 DEF Knows, EditorKnows
<1>7. RefreshKnows' /\ DeleteKnows'
  BY <1>1, <1>2, <1>3, <1>6 DEF RefreshKnows, DeleteKnows
<1> QED
  BY <1>1, <1>4, <1>5, <1>7 DEF Knows

\* The push gives the event of the device its id, which no other record has.
LEMMA SwapKnown ==
    ASSUME Shape, NotesGiven, Knows, TypeOK', Next, SwapEventId, ~past'.astray
    PROVE  Knows'
<1>1. /\ os' = os /\ refresh' = refresh /\ del' = del /\ ed' = ed /\ wants' = wants /\ save' = save
      /\ push.pc = "swap" /\ TypeOK /\ past \in History /\ ItemDone(push.item)
  BY DEF SwapEventId, Shape, TypeOK
<1>2. /\ push.item.id = Temp /\ push.reply # Temp /\ push.item \in push.todo
  <2>1. push.item \in Creates(InPush) /\ push.item \in push.todo /\ 1 <= push.reply
    BY <1>1 DEF Shape, PushShape, Creates, InPush
  <2> QED
    BY <2>1 DEF Shape, IdsGiven, Temp
<1>3. push.reply \notin IdsOf(local)
  BY <1>1, SwapExcused
<1>4. /\ \A e \in local' : \E d \in local :
             /\ e.note = d.note
             /\ IF d.id = Temp THEN e.id = push.reply ELSE e.id = d.id
      /\ \A d \in local : \E e \in local' :
             /\ e.note = d.note
             /\ IF d.id = Temp THEN e.id = push.reply ELSE e.id = d.id
      /\ Unique(local')
  BY <1>1, <1>2, <1>3, SwapFacts DEF Like, Knows
<1>5. push'.pc = "next"
  BY <1>1, <1>2, ItemLeaves
<1>6. \A m : Noted(m) => \E e \in local' : e.note = m
  BY <1>4 DEF Noted
<1>7. Held'
  BY <1>1, <1>6 DEF Held, Noted, Knows
<1>8. Editing => ed.id # push.reply
  BY <1>1, <1>3 DEF Knows, EditorKnows, Swapping
<1>9. (Editing' <=> Editing) /\ (Making' <=> Making) /\ ~Swapping'
  BY <1>1, <1>5 DEF Editing, Making, Swapping
<1>10. EditorKnows'
  <2>1. Editing => \A e \in local' : e.id = ed.id => e.note = ed.ref \/ e.note \notin os
    BY <1>4, <1>8 DEF Knows, EditorKnows
  <2>2. Making => \A e \in local' : e.note = 0
    BY <1>4 DEF Knows, EditorKnows
  <2>3. ed.ref \in os => (\E e \in local' : e.note = ed.ref) \/ (save.pc # "idle" /\ save.by = "auto")
    BY <1>6 DEF Knows, EditorKnows
  <2> QED
    BY <1>1, <1>9, <2>1, <2>2, <2>3 DEF EditorKnows, Noted
<1>11. RefreshKnows'
  <2> SUFFICES ASSUME refresh.pc # "idle" PROVE RefreshKnows'
    BY <1>1 DEF RefreshKnows
  <2>1. /\ ~Editing
        /\ refresh.id # Temp => refresh.id \in IdsOf(local)
        /\ \A e \in local : e.id = refresh.id =>
               IF refresh.pc = "schedule" THEN e.note = refresh.note ELSE e.note \notin os
    BY DEF Knows, RefreshKnows
  <2>2. refresh.id # push.reply
    BY <1>2, <1>3, <2>1
  <2>3. \A e \in local' : e.id = refresh.id => \E d \in local : e.id = d.id /\ e.note = d.note
    BY <1>4, <2>2
  <2>4. refresh.id # Temp => refresh.id \in IdsOf(local')
    BY <1>4, <2>1 DEF IdsOf
  <2> QED
    BY <1>1, <1>9, <2>1, <2>3, <2>4 DEF RefreshKnows
<1>12. DeleteKnows'
  <2>1. OwnDelete => Editing /\ ed.id = del.id
    BY DEF Knows, DeleteKnows, Editing
  <2>2. OwnDelete => \A e \in local' : e.id = del.id => e.note \notin os
    BY <1>4, <1>8, <2>1 DEF Knows, DeleteKnows
  <2> QED
    BY <1>1, <2>2 DEF DeleteKnows, Knows, OwnDelete
<1> QED
  BY <1>4, <1>7, <1>10, <1>11, <1>12 DEF Knows

\* A pull that drops no event keeps its reminder.
LEMMA MergeKnown ==
    ASSUME Shape, NotesGiven, Knows, TypeOK', Next, MergeEvents, ~past'.astray
    PROVE  Knows'
<1>1. /\ os' = os /\ refresh' = refresh /\ push' = push /\ del' = del /\ ed' = ed /\ wants' = wants
      /\ save' = save /\ TypeOK /\ past \in History /\ local \subseteq EventRecord
  BY DEF MergeEvents, Shape, TypeOK
<1>2. IdsOf(local) \subseteq IdsOf(local')
  BY <1>1, ExcusedHappened DEF MergeEvents
<1>3. \A r \in full.seen : 1 <= r.id
  BY DEF Shape, IdsGiven, RowsGiven
<1>4. /\ Unique(local')
      /\ \A e \in local' : e \in local \/ \E r \in full.seen : e.id = r.id /\ e.note = adoptLocalFields(r)
  BY <1>1, MergeEventsFacts DEF Shape, IdsGiven, RowsGiven
<1>5. \A r \in full.seen :
          \/ r.id \notin IdsOf(local) /\ adoptLocalFields(r) = 0
          \/ \E d \in local : d.id = r.id /\ adoptLocalFields(r) = d.note
  BY <1>1, AdoptedType DEF IdsOf, WithId
<1>6. \A e \in local' :
          \/ \E d \in local : e.id = d.id /\ e.note = d.note
          \/ e.note = 0 /\ e.id # Temp /\ e.id \notin IdsOf(local)
  BY <1>3, <1>4, <1>5 DEF Temp
<1>7. \A d \in local : \E e \in local' : e.id = d.id /\ e.note = d.note
  <2> TAKE d \in local
  <2>1. PICK e \in local' : e.id = d.id
    BY <1>2 DEF IdsOf
  <2>2. \A c \in local : c.id = d.id => c = d
    BY DEF Knows, Unique
  <2> QED
    BY <1>6, <2>1, <2>2 DEF IdsOf
<1>8. RecordsKept
  BY <1>4, <1>6, <1>7 DEF RecordsKept
<1>9. (Making' => Making) /\ (OwnDelete' => OwnDelete) /\ (Swapping' => Swapping) /\ (Editing' => Editing)
  BY <1>1 DEF Making, OwnDelete, Swapping, Editing
<1>10. del'.list => del'.pc \in {"idle", "mark"}
  BY <1>1 DEF Knows, DeleteKnows
<1>11. OwnDelete => ed.open /\ ~ed.timer /\ wants = {}
  BY DEF Knows, DeleteKnows
<1> QED
  BY <1>1, <1>2, <1>8, <1>9, <1>10, <1>11, Calm

\* The refresh, at one event.
LEMMA RefreshBegins ==
    ASSUME Shape, NotesGiven, Knows, TypeOK', Next, refreshRecurringReminders, ~past'.astray
    PROVE  Knows'
<1>1. /\ local' = local /\ os' = os /\ push' = push /\ del' = del /\ ed' = ed /\ wants' = wants
      /\ save' = save /\ refresh.pc = "idle" /\ past \in History
  BY DEF refreshRecurringReminders, Shape, TypeOK
<1>2. ~Editing
  BY <1>1 DEF refreshRecurringReminders, History
<1>3. PICK e \in local : refresh' = [pc |-> "schedule", id |-> e.id, note |-> e.note]
  BY DEF refreshRecurringReminders
<1>4. refresh'.pc = "schedule" /\ refresh'.id = e.id /\ refresh'.note = e.note
  BY <1>3
<1>5. (Editing' <=> Editing) /\ (Making' <=> Making) /\ (Swapping' => Swapping)
  BY <1>1 DEF Editing, Making, Swapping
<1>6. Held'
  BY <1>1 DEF Held, Noted, Knows
<1>7. EditorKnows'
  BY <1>1, <1>5 DEF EditorKnows, Noted, Knows
<1>8. RefreshKnows'
  <2>1. \A d \in local : d.id = e.id => d.note = e.note
    BY DEF Knows, Unique
  <2> QED
    BY <1>1, <1>2, <1>4, <1>5, <2>1 DEF RefreshKnows, IdsOf
<1>9. DeleteKnows'
  BY <1>1 DEF DeleteKnows, OwnDelete, Knows
<1> QED
  BY <1>1, <1>6, <1>7, <1>8, <1>9 DEF Knows

LEMMA RefreshKnown ==
    ASSUME Shape, NotesGiven, Knows, TypeOK', Next, RefreshSchedules
    PROVE  Knows'
<1>1. /\ local' = local /\ push' = push /\ del' = del /\ ed' = ed /\ wants' = wants
      /\ save' = save /\ refresh.pc = "schedule" /\ TypeOK /\ notes \in Nat /\ os \subseteq Nat
      /\ refresh.note \in Nat /\ ed.ref \in Nat
  BY DEF RefreshSchedules, Shape, TypeOK, RefreshState, EditorState
<1>2. /\ ~Editing /\ ~OwnDelete
      /\ refresh.id # Temp => refresh.id \in IdsOf(local)
      /\ \A e \in local : e.id = refresh.id => e.note = refresh.note
  BY <1>1 DEF Knows, RefreshKnows, DeleteKnows, Editing
<1>3. PICK n \in 1..MaxNotes :
          Schedule(refresh.note, n) /\ refresh' = [refresh EXCEPT !.pc = "keep", !.note = n]
  BY DEF RefreshSchedules
<1>4. os' = (os \ {refresh.note}) \cup {n} /\ n = notes + 1
  <2>1. n # 0
    BY NaturalBounds
  <2> QED
    BY <1>1, <1>3, <2>1, ScheduleFacts
<1>5. refresh'.pc = "keep" /\ refresh'.note = n /\ refresh'.id = refresh.id
  BY <1>1, <1>3 DEF TypeOK, RefreshState
<1>6. refresh.note # n /\ ed.ref # n
  BY <1>1, <1>4 DEF NotesGiven
<1>7. (Editing' <=> Editing) /\ (Making' <=> Making) /\ (OwnDelete' <=> OwnDelete) /\ (Swapping' => Swapping)
  BY <1>1 DEF Editing, Making, Swapping, OwnDelete
<1>8. Held'
  BY <1>1, <1>4, <1>5 DEF Held, Noted, Knows
<1>9. EditorKnows'
  <2>1. ed.ref \in os' => ed.ref \in os
    BY <1>4, <1>6
  <2> QED
    BY <1>1, <1>2, <1>7, <2>1 DEF EditorKnows, Noted, Knows, Swapping
<1>10. RefreshKnows'
  <2>1. refresh.note \notin os'
    BY <1>4, <1>6
  <2> QED
    BY <1>1, <1>2, <1>5, <1>7, <2>1 DEF RefreshKnows
<1>11. DeleteKnows'
  BY <1>1, <1>2, <1>7 DEF DeleteKnows, Knows
<1> QED
  BY <1>1, <1>8, <1>9, <1>10, <1>11 DEF Knows

LEMMA RefreshEnds ==
    ASSUME Shape, NotesGiven, Knows, TypeOK', Next, RefreshKeeps, ~past'.astray
    PROVE  Knows'
<1>1. /\ os' = os /\ push' = push /\ del' = del /\ ed' = ed /\ wants' = wants /\ save' = save
      /\ refresh.pc = "keep" /\ refresh' = IdleRefresh /\ TypeOK /\ past \in History
      /\ local \subseteq EventRecord /\ refresh.id \in Nat /\ refresh.note \in Nat
      /\ local' = setLocalEventNotificationId(refresh.id, refresh.note)
  BY DEF RefreshKeeps, Shape, TypeOK, RefreshState
<1>2. /\ ~Editing /\ ~OwnDelete
      /\ \A e \in local : e.id = refresh.id => e.note \notin os
  BY <1>1 DEF Knows, RefreshKnows, DeleteKnows, Editing
<1>3. \E d \in local : d.id = refresh.id
  <2>1. ~(Editing \/ WithId(local, refresh.id) = {})
    BY <1>1, ExcusedHappened DEF RefreshKeeps
  <2> QED
    BY <2>1 DEF WithId
<1>4. /\ \A d \in local : \E e \in local' : Like(e, d) /\ e.note = IF d.id = refresh.id THEN refresh.note ELSE d.note
      /\ Unique(local')
  <2>1. Unique(local)
    BY DEF Knows
  <2>2. LET L == setLocalEventNotificationId(refresh.id, refresh.note)
        IN  /\ \A e \in L : \E d \in local : Like(e, d) /\ e.note = IF d.id = refresh.id THEN refresh.note ELSE d.note
            /\ \A d \in local : \E e \in L : Like(e, d) /\ e.note = IF d.id = refresh.id THEN refresh.note ELSE d.note
            /\ Unique(local) => Unique(L)
    BY <1>1, NoteSet
  <2> QED
    BY <1>1, <2>1, <2>2
<1>5. \A n \in os : Noted(n) => \E e \in local' : e.note = n
  BY <1>2, <1>4 DEF Noted
<1>6. \E e \in local' : e.note = refresh.note
  BY <1>3, <1>4
<1>7. (Editing' <=> Editing) /\ ~Making' /\ (OwnDelete' <=> OwnDelete) /\ ~Swapping'
  <2>1. save.pc = "idle"
    BY <1>1, <1>2 DEF Shape, SaveShape, Editing
  <2> QED
    BY <1>1, <1>2, <2>1 DEF Editing, Making, Swapping, OwnDelete
<1>8. Held'
  BY <1>1, <1>5, <1>6 DEF Held, Noted, Knows
<1>9. EditorKnows'
  <2>1. ed.ref \in os => (\E e \in local' : e.note = ed.ref) \/ (save.pc # "idle" /\ save.by = "auto")
    BY <1>5 DEF Knows, EditorKnows
  <2> QED
    BY <1>1, <1>2, <1>7, <2>1 DEF EditorKnows, Noted
<1>10. RefreshKnows' /\ DeleteKnows'
  BY <1>1, <1>2, <1>7 DEF RefreshKnows, IdleRefresh, DeleteKnows, Knows
<1> QED
  BY <1>1, <1>4, <1>8, <1>9, <1>10 DEF Knows

\* The app is killed at rest: the records hold every reminder.
LEMMA KilledKnown ==
    ASSUME Shape, NotesGiven, Knows, TypeOK', Next, Killed, ~past'.cut
    PROVE  Knows'
<1>1. /\ local' = local /\ os' = os /\ push' = IdlePush /\ del' = IdleDel /\ refresh' = IdleRefresh
      /\ save' = IdleSave /\ ed' = Closed /\ wants' = {} /\ past \in History
  BY DEF Killed, Shape, TypeOK
<1>2. save.pc = "idle" /\ refresh.pc = "idle"
  BY <1>1, KilledAtRest
<1>3. ~Editing' /\ ~Making' /\ ~OwnDelete' /\ ~Swapping' /\ refresh'.pc = "idle" /\ ed'.ref = 0
      /\ ~del'.list
  BY <1>1 DEF Editing, Making, OwnDelete, Swapping, IdleRefresh, Closed, IdleSave, IdleDel
<1>4. 0 \notin os
  BY DEF NotesGiven
<1>5. Held'
  BY <1>1, <1>2 DEF Held, Noted, Knows, EditorKnows
<1> QED
  BY <1>1, <1>3, <1>4, <1>5 DEF Knows, EditorKnows, RefreshKnows, DeleteKnows

LEMMA KnowsStep ==
    ASSUME Shape, NotesGiven, Knows, TypeOK', Next, ~past'.astray, ~past'.cut
    PROVE  Knows'
<1>1. ~SaveFails
  BY DEF SaveFails, Did, Shape, TypeOK, History
<1> QED
  BY <1>1, EditorCalm, ServerCalm, DeleteCalm, MarkCalm, DeleteEndCalm, SaveCalm, WriteCalm, RequestCalm,
     ResolveCalm, SaveEndKnown, ScheduleKnown, LoadKnown, ConfirmKnown, SwapKnown, MergeKnown,
     RefreshBegins, RefreshKnown, RefreshEnds, KilledKnown
  DEF Next, SaveStep, Deleting, PushStep

\* A record's number after a step is one it had before, none, or the one that
\* the editor or the refresh holds.
LEMMA NotesStep ==
    ASSUME Shape, NotesGiven, TypeOK', Next
    PROVE  NotesGiven'
<1>1. /\ TypeOK /\ local \subseteq EventRecord /\ notes \in Nat /\ os \subseteq Nat
      /\ ed.ref \in Nat /\ ed.id \in Nat /\ save.note \in Nat /\ refresh.id \in Nat /\ refresh.note \in Nat
      /\ \A e \in local : e.note \in Nat
  BY DEF Shape, TypeOK, EditorState, SaveState, RefreshState, EventRecord
<1> DEFINE Given(m) == m = 0 \/ m = ed.ref \/ m = refresh.note \/ Noted(m)
<1>2. \A m : Given(m) => m \in Nat /\ m <= notes
  BY <1>1 DEF NotesGiven, Noted
<1>3. \A e \in local' : Given(e.note)
  <2>1. \A e : \A d \in local : e.note = d.note => Given(e.note)
    BY DEF Noted
  <2>2. ASSUME NEW i \in Nat, NEW n \in Nat, Given(n), local' = setLocalEventNotificationId(i, n)
        PROVE  \A e \in local' : Given(e.note)
    <3>1. LET L == setLocalEventNotificationId(i, n)
          IN  \A e \in L : \E d \in local : Like(e, d) /\ e.note = IF d.id = i THEN n ELSE d.note
      BY <1>1, NoteSet
    <3> QED
      BY <2>1, <2>2, <3>1
  <2> HIDE DEF Given
  <2>3. \A e : e.note = 0 \/ (\E d \in local : e.note = d.note) => Given(e.note)
    BY <2>1 DEF Given
  <2>4. CASE WriteEvent
    BY <1>1, <2>3, <2>4, WriteFacts
  <2>5. CASE ResolveEvent
    BY <1>1, <2>3, <2>5, ResolveFacts
  <2>6. CASE SaveEnds
    <3>1. save.note = ed.ref
      BY <2>6 DEF SaveEnds, Shape, SaveShape
    <3>2. local' = local \/ local' = setLocalEventNotificationId(ed.id, ed.ref)
      BY <2>6, <3>1 DEF SaveEnds
    <3>3. Given(ed.ref)
      BY DEF Given
    <3> QED
      BY <1>1, <2>2, <2>3, <3>2, <3>3
  <2>7. CASE RefreshKeeps
    <3>1. local' = setLocalEventNotificationId(refresh.id, refresh.note) /\ Given(refresh.note)
      BY <2>7 DEF RefreshKeeps, Given
    <3> QED
      BY <1>1, <2>2, <3>1
  <2>8. CASE deleteEventOffline
    BY <1>1, <2>3, <2>8, HideFacts
  <2>9. CASE DeleteEnds
    <3>1. local' \subseteq local
      BY <2>9 DEF DeleteEnds
    <3> QED
      BY <2>3, <3>1
  <2>10. CASE SwapEventId
    BY <1>1, <2>3, <2>10, SwapFacts
  <2>11. CASE MergeEvents
    <3>1. \A e \in local' : e \in local \/ \E r \in full.seen : e.note = adoptLocalFields(r)
      BY <1>1, <2>11, MergeEventsFacts DEF Shape, IdsGiven, RowsGiven
    <3>2. \A r : adoptLocalFields(r) = 0 \/ \E d \in local : adoptLocalFields(r) = d.note
      BY <1>1, AdoptedType
    <3> QED
      BY <2>3, <3>1, <3>2
  <2>12. CASE local' = local
    BY <2>3, <2>12
  <2> QED
    BY <2>4, <2>5, <2>6, <2>7, <2>8, <2>9, <2>10, <2>11, <2>12, Frame
<1>4. CASE scheduleReminder
  <2>1. PICK n \in 0..MaxNotes : Schedule(ed.ref, n) /\ ed' = [ed EXCEPT !.ref = n]
    BY <1>4 DEF scheduleReminder
  <2>2. /\ os' = (os \ {ed.ref}) \cup ({n} \ {0}) /\ n \in Nat /\ notes' \in Nat
        /\ (n = 0 /\ notes' = notes) \/ (n = notes + 1 /\ notes' = n)
    BY <1>1, <2>1, ScheduleFacts
  <2>3. ed'.ref = n /\ local' = local /\ refresh' = refresh
    BY <1>1, <1>4, <2>1 DEF TypeOK, EditorState, scheduleReminder
  <2> QED
    BY <1>1, <2>2, <2>3 DEF NotesGiven
<1>5. CASE RefreshSchedules
  <2>1. PICK n \in 1..MaxNotes : Schedule(refresh.note, n) /\ refresh' = [refresh EXCEPT !.pc = "keep", !.note = n]
    BY <1>5 DEF RefreshSchedules
  <2>2. n # 0
    BY NaturalBounds
  <2>3. os' = (os \ {refresh.note}) \cup {n} /\ n = notes + 1 /\ notes' = n
    BY <1>1, <2>1, <2>2, ScheduleFacts
  <2>4. refresh'.note = n /\ local' = local /\ ed' = ed
    BY <1>1, <1>5, <2>1 DEF TypeOK, RefreshState, RefreshSchedules
  <2> QED
    BY <1>1, <2>3, <2>4 DEF NotesGiven
<1>6. CASE ~scheduleReminder /\ ~RefreshSchedules
  <2>1. notes' = notes /\ os' \subseteq os
    BY <1>6, Frame DEF confirmDelete, cancelReminder
  <2>2. Given(ed'.ref)
    <3>1. CASE loadEvent
      <4>1. PICK e \in local : \E n \in {e.note, 0} :
                ed' = [Closed EXCEPT !.open = TRUE, !.id = e.id, !.created = TRUE, !.ref = n]
        BY <3>1 DEF loadEvent
      <4>2. ed'.ref = e.note \/ ed'.ref = 0
        BY <4>1 DEF Closed
      <4> QED
        BY <4>2 DEF Noted
    <3>2. ed'.ref = ed.ref \/ ed'.ref = 0 \/ loadEvent
      BY <1>1, <1>6, EditorChange
    <3> QED
      BY <3>1, <3>2
  <2>3. Given(refresh'.note)
    <3>1. CASE refreshRecurringReminders
      <4>1. PICK e \in local : refresh' = [pc |-> "schedule", id |-> e.id, note |-> e.note]
        BY <3>1 DEF refreshRecurringReminders
      <4> QED
        BY <4>1 DEF Noted
    <3>2. refresh' = refresh \/ refresh' = IdleRefresh \/ refreshRecurringReminders
      BY <1>6, Frame DEF RefreshKeeps, Killed
    <3> QED
      BY <3>1, <3>2 DEF IdleRefresh
  <2> QED
    BY <1>1, <1>2, <1>3, <2>1, <2>2, <2>3 DEF NotesGiven
<1> QED
  BY <1>4, <1>5, <1>6

\* Every reminder the OS holds is known to the event or to the editor: none is
\* orphaned by a reschedule, an id swap, a pull, a delete or the refresh, unless
\* it changed hands while somebody held its old number or the app was killed.
THEOREM RemindersKnown == Spec => []ReminderIsKnown
<1>1. Init => Shape /\ NotesGiven /\ RemindersInv
  <2> SUFFICES ASSUME Init PROVE Shape /\ NotesGiven /\ RemindersInv
    OBVIOUS
  <2>1. /\ local = {} /\ os = {} /\ notes = 0 /\ save.pc = "idle" /\ del.pc = "idle" /\ ~del.list
        /\ refresh.pc = "idle" /\ refresh.note = 0 /\ push.pc = "idle" /\ ed.ref = 0
    BY DEF Init, IdleSave, IdleDel, IdleRefresh, IdlePush, Closed
  <2>2. ~Making /\ ~Swapping /\ ~OwnDelete
    BY <2>1 DEF Making, Swapping, OwnDelete
  <2> QED
    BY <2>1, <2>2, ShapeInit DEF NotesGiven, RemindersInv, Knows, Unique, Held, EditorKnows, RefreshKnows, DeleteKnows
<1>2. Shape /\ NotesGiven /\ RemindersInv /\ [Next]_vars => (Shape /\ NotesGiven /\ RemindersInv)'
  <2> SUFFICES ASSUME Shape, NotesGiven, RemindersInv, [Next]_vars PROVE (Shape /\ NotesGiven /\ RemindersInv)'
    OBVIOUS
  <2>1. CASE Next
    <3>1. Shape' /\ TypeOK' /\ past \in History
      BY <2>1, ShapeStep DEF Shape, TypeOK
    <3>2. NotesGiven'
      BY <2>1, <3>1, NotesStep
    <3>3. (past.astray => past'.astray) /\ (past.cut => past'.cut)
      BY <2>1, <3>1, PastGrows
    <3>4. RemindersInv'
      BY <2>1, <3>1, <3>3, KnowsStep DEF RemindersInv
    <3> QED
      BY <3>1, <3>2, <3>4
  <2>2. CASE UNCHANGED vars
    BY <2>2 DEF vars, Shape, TypeOK, IdsGiven, RowsGiven, PushShape, SaveShape, SavedId, Stage, Nothing, NoCreates,
                Creates, InPush, Making, NotesGiven, RemindersInv, Knows, Held, Noted, EditorKnows, Editing,
                Swapping, RefreshKnows, DeleteKnows, OwnDelete
  <2> QED
    BY <2>1, <2>2
<1>3. RemindersInv => ReminderIsKnown
  <2> SUFFICES ASSUME Knows, Quiet PROVE os \subseteq ({ed.ref} \cup {e.note : e \in local})
    BY DEF RemindersInv, ReminderIsKnown
  <2>1. \A n \in os : n = ed.ref \/ Noted(n)
    BY DEF Knows, Held, Quiet
  <2> QED
    BY <2>1 DEF Noted
<1> QED
  BY <1>1, <1>2, <1>3, PTL DEF Spec

-------------------------------------------------------------------------------
(* What a step does to edits: in the records, on the server and in the items *)

\* The same edit of a record: nobody else brings a deleted one back.
SameEdit(e, d) == e.updated_at = d.updated_at /\ (d.pendingDelete => e.pendingDelete)

LEMMA ContentEdits ==
    ASSUME local \subseteq EventRecord, NEW i \in Nat, NEW at \in Nat
    PROVE  \A e \in Rewritten(i, at) :
               (e.id = i /\ e.updated_at = at) \/ \E d \in local : e.id = d.id /\ SameEdit(e, d)
<1> DEFINE new(d) == [d EXCEPT !.updated_at = at]
<1>1. \A d \in EventRecord : new(d).id = d.id /\ new(d).updated_at = at
  BY DEF EventRecord
<1>2. Rewritten(i, at) = {IF d.id = i THEN new(d) ELSE d : d \in local}
  BY DEF Rewritten
<1> HIDE DEF new
<1> QED
  BY <1>1, <1>2 DEF SameEdit

LEMMA HiddenEdits ==
    ASSUME local \subseteq EventRecord, NEW i \in Nat
    PROVE  \A e \in Hidden(i) : \E d \in local : e.id = d.id /\ SameEdit(e, d)
<1> DEFINE new(d) == [d EXCEPT !.pendingDelete = TRUE]
<1>1. \A d \in EventRecord : new(d).id = d.id /\ new(d).updated_at = d.updated_at /\ new(d).pendingDelete
  BY DEF EventRecord
<1>2. Hidden(i) = {IF d.id = i THEN new(d) ELSE d : d \in local}
  BY DEF Hidden
<1> HIDE DEF new
<1> QED
  BY <1>1, <1>2 DEF SameEdit

LEMMA NoteEdits ==
    ASSUME local \subseteq EventRecord, NEW i \in Nat, NEW n \in Nat
    PROVE  \A e \in setLocalEventNotificationId(i, n) : \E d \in local : e.id = d.id /\ SameEdit(e, d)
<1> DEFINE new(d) == [d EXCEPT !.note = n]
<1>1. \A d \in EventRecord : /\ new(d).id = d.id /\ new(d).updated_at = d.updated_at
                             /\ new(d).pendingDelete = d.pendingDelete
  BY DEF EventRecord
<1>2. setLocalEventNotificationId(i, n) = {IF d.id = i THEN new(d) ELSE d : d \in local}
  BY DEF setLocalEventNotificationId
<1> HIDE DEF new
<1> QED
  BY <1>1, <1>2 DEF SameEdit

\* Where a record of the device comes from.
LEMMA RecordStep ==
    ASSUME Shape, TypeOK', Next, NEW e \in local'
    PROVE  \/ \E d \in local : e.id = d.id /\ SameEdit(e, d)
           \/ WriteEvent /\ e.updated_at = ed.draft /\ IF ed.created THEN e.id = ed.id ELSE e.id = Temp
           \/ ResolveEvent /\ e.id = save.reply /\ e.updated_at = save.at
           \/ SwapEventId /\ e.id = push.reply /\ \E d \in local : d.id = push.item.id /\ SameEdit(e, d)
           \/ MergeEvents /\ \E r \in full.seen : e.id = r.id /\ e.updated_at = r.at
<1>1. /\ TypeOK /\ local \subseteq EventRecord
      /\ ed.id \in Nat /\ ed.draft \in Nat /\ ed.ref \in Nat /\ save.note \in Nat /\ save.reply \in Nat /\ save.at \in Nat
      /\ refresh.id \in Nat /\ refresh.note \in Nat /\ push.reply \in Nat /\ del.id \in Nat
  BY DEF Shape, TypeOK, EditorState, SaveState, RefreshState, PushState, DeleteState
<1>2. \A d \in local : SameEdit(d, d)
  BY DEF SameEdit
<1>3. CASE WriteEvent
  <2>1. CASE isNew
    <3>1. local' = (local \ WithId(local, Event(Temp, ed.draft, TRUE, 0).id)) \cup {Event(Temp, ed.draft, TRUE, 0)}
      BY <1>3, <2>1 DEF WriteEvent, upsertLocalEvent
    <3>2. Event(Temp, ed.draft, TRUE, 0).id = Temp /\ Event(Temp, ed.draft, TRUE, 0).updated_at = ed.draft
      BY DEF Event
    <3>3. e \in local \/ (e.id = Temp /\ e.updated_at = ed.draft)
      BY <3>1, <3>2
    <3> QED
      BY <1>2, <1>3, <2>1, <3>3 DEF isNew
  <2>2. CASE ~isNew
    <3>1. local' = Rewritten(ed.id, ed.draft)
      BY <1>3, <2>2 DEF WriteEvent, Rewritten
    <3> QED
      BY <1>1, <1>3, <2>2, <3>1, ContentEdits DEF isNew
  <2> QED
    BY <2>1, <2>2
<1>4. CASE ResolveEvent
  <2>1. local' = local \/ local' = (local \ WithId(local, Temp)) \cup {Event(save.reply, save.at, FALSE, 0)}
    BY <1>4 DEF ResolveEvent
  <2>2. Event(save.reply, save.at, FALSE, 0).id = save.reply /\ Event(save.reply, save.at, FALSE, 0).updated_at = save.at
    BY DEF Event
  <2>3. e \in local \/ (e.id = save.reply /\ e.updated_at = save.at)
    BY <2>1, <2>2
  <2> QED
    BY <1>2, <1>4, <2>3
<1>5. CASE SaveEnds
  <2>1. local' = local \/ local' = setLocalEventNotificationId(ed.id, save.note)
    BY <1>5 DEF SaveEnds
  <2> QED
    BY <1>1, <1>2, <2>1, NoteEdits
<1>6. CASE RefreshKeeps
  <2>1. local' = setLocalEventNotificationId(refresh.id, refresh.note)
    BY <1>6 DEF RefreshKeeps
  <2> QED
    BY <1>1, <2>1, NoteEdits
<1>7. CASE deleteEventOffline
  <2>1. local' \subseteq local \/ local' = Hidden(del.id)
    BY <1>7 DEF deleteEventOffline, Hidden
  <2> QED
    BY <1>1, <1>2, <2>1, HiddenEdits
<1>8. CASE DeleteEnds
  <2>1. local' \subseteq local
    BY <1>8 DEF DeleteEnds
  <2> QED
    BY <1>2, <2>1
<1>9. CASE SwapEventId
  <2> DEFINE new(d) == [d EXCEPT !.id = push.reply, !.isLocal = FALSE]
  <2>1. \A d \in EventRecord : /\ new(d).id = push.reply /\ new(d).updated_at = d.updated_at
                               /\ new(d).pendingDelete = d.pendingDelete
    BY <1>1 DEF EventRecord
  <2>2. local' = {IF d.id = push.item.id THEN new(d) ELSE d : d \in local}
    BY <1>9 DEF SwapEventId
  <2> HIDE DEF new
  <2> QED
    BY <1>1, <1>9, <2>1, <2>2 DEF SameEdit
<1>10. CASE MergeEvents
  <2>1. e \in local \/ \E r \in full.seen : e.id = r.id /\ e.updated_at = r.at
    BY <1>1, <1>10, MergeEventsFacts DEF Shape, IdsGiven, RowsGiven
  <2> QED
    BY <1>2, <1>10, <2>1
<1>11. CASE local' = local
  BY <1>2, <1>11
<1> QED
  BY <1>3, <1>4, <1>5, <1>6, <1>7, <1>8, <1>9, <1>10, <1>11, Frame

\* The same operation, whatever became of its retries.
Alike(p, q) == p.id = q.id /\ p.operation = q.operation /\ p.at = q.at

FewRetries == \A q \in queue \cup InPush : q.retries <= MAX_RETRIES

Retried == /\ \A p \in InPush : \E k \in InPush' : Alike(k, p)
           /\ \A k \in InPush' : \E p \in InPush : Alike(k, p)

\* What the push does with the item q: it sends the create, whose reply comes
\* or is lost; it has sent another one; or it failed.
Sent(q) ==
    /\ q.operation = "create" /\ made' = made + 1 /\ srv' = srv \cup {[id |-> made + 1, at |-> q.at]}
    /\ \/ push'.pc = "swap" /\ push'.item = q /\ push'.reply = made + 1 /\ InPush' = InPush
       \/ push'.pc = "next" /\ Retried

Changed(q) ==
    /\ q.operation \in {"update", "delete"} /\ (\E r \in srv : r.id = q.id)
    /\ \A s \in srv' : \E r \in srv : r.id = s.id /\
                           IF s.id = q.id THEN q.operation = "update" /\ s.at = q.at ELSE s.at = r.at
    /\ made' = made /\ push'.pc = "next" /\ InPush' = InPush \ {q}

Failed == made' = made /\ srv' = srv /\ push'.pc = "next" /\ Retried

LEMMA RetryFacts ==
    ASSUME push \in PushState, NEW q \in push.todo, q.retries # MAX_RETRIES, FewRetries,
           push'.todo = push.todo \ {q}, push'.failed = ItemKept(q)
    PROVE  Retried /\ \A k \in InPush' : k.retries <= MAX_RETRIES
<1> DEFINE new == [q EXCEPT !.retries = @ + 1]
<1>1. q \in ItemRecord /\ q.retries \in Nat /\ MAX_RETRIES \in Nat /\ q.retries <= MAX_RETRIES
  BY NaturalBounds DEF PushState, ItemRecord, FewRetries, InPush
<1>2. ItemKept(q) = push.failed \cup {new}
  BY <1>1 DEF ItemKept
<1>3. Alike(new, q) /\ new.retries = q.retries + 1
  BY <1>1 DEF ItemRecord, Alike
<1> HIDE DEF new
<1>4. InPush' = (push.todo \ {q}) \cup push.failed \cup {new}
  BY <1>2 DEF InPush
<1>5. \A p \in InPush : p # q => p \in InPush'
  BY <1>4 DEF InPush
<1>6. \A p : Alike(p, p)
  BY DEF Alike
<1>7. \A k \in InPush' : k \in InPush \/ k = new
  BY <1>4 DEF InPush
<1>8. q \in InPush /\ new \in InPush'
  BY <1>4 DEF InPush
<1>9. Retried
  BY <1>3, <1>5, <1>6, <1>7, <1>8 DEF Retried
<1>10. \A k \in InPush' : k.retries <= MAX_RETRIES
  BY <1>1, <1>3, <1>7 DEF FewRetries
<1> QED
  BY <1>9, <1>10

LEMMA OperationStep ==
    ASSUME Shape, processEventOperation, FewRetries, ~past'.dropped
    PROVE  /\ \E q \in push.todo : Sent(q) \/ Changed(q) \/ Failed
           /\ \A k \in InPush' : k.retries <= MAX_RETRIES
<1>1. /\ push \in PushState /\ srv \subseteq Row /\ past \in History /\ made \in Nat
      /\ \A p \in push.todo, f \in push.failed : p.id # f.id
  BY NaturalBounds DEF Shape, TypeOK, PushShape
<1>2. PICK q \in push.todo :
       \/ /\ q.operation = "create" /\ made' = made + 1 /\ srv' = srv \cup {[id |-> made + 1, at |-> q.at]}
          /\ \/ push' = [push EXCEPT !.pc = "swap", !.item = q, !.reply = made + 1]
             \/ push' = [push EXCEPT !.todo = @ \ {q}, !.failed = ItemKept(q)]
                /\ past' = [past EXCEPT !.lost = TRUE, !.dropped = @ \/ q.retries = MAX_RETRIES]
       \/ /\ q.operation = "update" /\ \E r \in srv : r.id = q.id
          /\ srv' = {IF r.id = q.id THEN [r EXCEPT !.at = q.at] ELSE r : r \in srv}
          /\ ItemDone(q) /\ UNCHANGED made
       \/ /\ q.operation = "delete" /\ \E r \in srv : r.id = q.id
          /\ srv' = {r \in srv : r.id # q.id} /\ ItemDone(q) /\ UNCHANGED made
       \/ ItemFailed(q) /\ UNCHANGED <<srv, made>>
  BY DEF processEventOperation
<1>3. push.pc = "next" /\ q \in ItemRecord /\ \A k \in InPush : k.retries <= MAX_RETRIES
  BY <1>1 DEF processEventOperation, PushState, FewRetries
<1>4. ASSUME q.retries # MAX_RETRIES, push'.todo = push.todo \ {q}, push'.failed = ItemKept(q)
      PROVE  Retried /\ \A k \in InPush' : k.retries <= MAX_RETRIES
  BY <1>1, <1>4, RetryFacts
<1>5. ASSUME push'.todo = push.todo \ {q}, push'.failed = push.failed
      PROVE  InPush' = InPush \ {q}
  <2>1. q \notin push.failed
    BY <1>1
  <2> QED
    BY <1>5, <2>1 DEF InPush
<1>6. CASE /\ q.operation = "create" /\ made' = made + 1 /\ srv' = srv \cup {[id |-> made + 1, at |-> q.at]}
           /\ push' = [push EXCEPT !.pc = "swap", !.item = q, !.reply = made + 1]
  <2>1. \A n \in Nat : LET p == [push EXCEPT !.pc = "swap", !.item = q, !.reply = n]
                       IN  /\ p.pc = "swap" /\ p.item = q /\ p.reply = n
                           /\ p.todo = push.todo /\ p.failed = push.failed
    BY <1>1 DEF PushState
  <2>2. /\ push'.pc = "swap" /\ push'.item = q /\ push'.reply = made + 1
        /\ push'.todo = push.todo /\ push'.failed = push.failed
    BY <1>1, <1>6, <2>1
  <2> QED
    BY <1>3, <1>6, <2>2 DEF Sent, InPush
<1>7. CASE /\ q.operation = "create" /\ made' = made + 1 /\ srv' = srv \cup {[id |-> made + 1, at |-> q.at]}
           /\ push' = [push EXCEPT !.todo = @ \ {q}, !.failed = ItemKept(q)]
           /\ past' = [past EXCEPT !.lost = TRUE, !.dropped = @ \/ q.retries = MAX_RETRIES]
  <2>1. push'.pc = "next" /\ push'.todo = push.todo \ {q} /\ push'.failed = ItemKept(q)
    BY <1>1, <1>3, <1>7 DEF PushState
  <2>2. q.retries # MAX_RETRIES
    BY <1>1, <1>7 DEF History
  <2> QED
    BY <1>4, <1>7, <2>1, <2>2 DEF Sent
<1>8. CASE /\ q.operation = "update" /\ \E r \in srv : r.id = q.id
           /\ srv' = {IF r.id = q.id THEN [r EXCEPT !.at = q.at] ELSE r : r \in srv}
           /\ ItemDone(q) /\ UNCHANGED made
  <2>1. \A r \in srv : [r EXCEPT !.at = q.at].id = r.id /\ [r EXCEPT !.at = q.at].at = q.at
    BY <1>1 DEF Row
  <2>2. \A s \in srv' : \E r \in srv : r.id = s.id /\ IF s.id = q.id THEN s.at = q.at ELSE s.at = r.at
    BY <1>8, <2>1
  <2>3. push'.pc = "next" /\ InPush' = InPush \ {q}
    BY <1>1, <1>5, <1>8 DEF ItemDone, PushState
  <2> QED
    BY <1>3, <1>8, <2>2, <2>3 DEF Changed
<1>9. CASE /\ q.operation = "delete" /\ \E r \in srv : r.id = q.id
           /\ srv' = {r \in srv : r.id # q.id} /\ ItemDone(q) /\ UNCHANGED made
  <2>1. push'.pc = "next" /\ InPush' = InPush \ {q}
    BY <1>1, <1>5, <1>9 DEF ItemDone, PushState
  <2> QED
    BY <1>3, <1>9, <2>1 DEF Changed
<1>10. CASE ItemFailed(q) /\ UNCHANGED <<srv, made>>
  <2>1. push'.pc = "next" /\ push'.todo = push.todo \ {q} /\ push'.failed = ItemKept(q)
    BY <1>1, <1>10 DEF ItemFailed, PushState
  <2>2. q.retries # MAX_RETRIES
    BY <1>1, <1>10 DEF ItemFailed, Excused, Did, History
  <2> QED
    BY <1>4, <1>10, <2>1, <2>2 DEF Failed
<1> QED
  BY <1>2, <1>6, <1>7, <1>8, <1>9, <1>10

-------------------------------------------------------------------------------
(* What is still to be sent *)

Items == IF push.pc = "idle" THEN queue ELSE InPush

SameItems == /\ \A p \in Items : \E k \in Items' : Alike(k, p)
             /\ \A k \in Items' : \E p \in Items : Alike(k, p)

LEMMA NotDropped ==
    ASSUME past \in History, NEW cond, Excused("dropped", cond), ~past'.dropped
    PROVE  ~cond
  BY DEF Excused, Did, History

\* What becomes of the item that waits for the same record.
EnqueuedFor(q, item) ==
    /\ q.id = item.id /\ q.at = item.at
    /\ \/ q = item /\ WithId(queue, item.id) = {}
       \/ \E p \in queue : /\ p.id = item.id /\ q.retries = p.retries
                           /\ q.operation = IF item.operation = "delete" THEN "delete" ELSE p.operation

LEMMA EnqueueMore ==
    ASSUME queue \subseteq ItemRecord, NEW item \in ItemRecord
    PROVE  /\ \A q \in enqueueOperation(item) : q \in queue \/ EnqueuedFor(q, item)
           /\ \A p \in queue : p.id # item.id => p \in enqueueOperation(item)
           /\ WithId(queue, item.id) = {} => item \in enqueueOperation(item)
           /\ \A p \in queue : p.id = item.id /\ ~(item.operation = "delete" /\ p.operation = "create") =>
                  \E q \in enqueueOperation(item) :
                      /\ q.id = item.id /\ q.at = item.at
                      /\ q.operation = IF item.operation = "delete" THEN "delete" ELSE p.operation
<1> DEFINE old == WithId(queue, item.id)
           kept == {p \in old : ~(item.operation = "delete" /\ p.operation = "create")}
           new(o) == [o EXCEPT !.operation = IF item.operation = "delete" THEN "delete" ELSE @, !.at = item.at]
<1>1. \A o \in old : o.id = item.id /\ o \in queue /\ o \in ItemRecord
  BY DEF WithId
<1>2. \A o \in ItemRecord : /\ new(o).id = o.id /\ new(o).at = item.at /\ new(o).retries = o.retries
                            /\ new(o).operation = IF item.operation = "delete" THEN "delete" ELSE o.operation
  BY DEF ItemRecord
<1>3. enqueueOperation(item) = IF old = {} THEN queue \cup {item} ELSE (queue \ old) \cup {new(o) : o \in kept}
  BY DEF enqueueOperation
<1> HIDE DEF new
<1>4. CASE old = {}
  <2>1. enqueueOperation(item) = queue \cup {item} /\ \A q \in queue : q.id # item.id
    BY <1>3, <1>4 DEF WithId
  <2> QED
    BY <1>4, <2>1 DEF EnqueuedFor
<1>5. CASE old # {}
  <2>1. enqueueOperation(item) = (queue \ old) \cup {new(o) : o \in kept}
    BY <1>3, <1>5
  <2>2. \A o \in kept : EnqueuedFor(new(o), item)
    BY <1>1, <1>2 DEF EnqueuedFor
  <2>3. \A p \in queue : p.id # item.id => p \in enqueueOperation(item)
    BY <2>1 DEF WithId
  <2>4. \A p \in queue : p.id = item.id /\ ~(item.operation = "delete" /\ p.operation = "create") => p \in kept
    BY DEF WithId
  <2>5. \A q \in enqueueOperation(item) : q \in queue \/ EnqueuedFor(q, item)
    BY <2>1, <2>2
  <2> QED
    BY <1>1, <1>2, <1>5, <2>1, <2>3, <2>4, <2>5
<1> QED
  BY <1>4, <1>5

DeleteItem == Item(del.id, "delete", 0)

LEMMA DeleteFacts ==
    ASSUME del \in DeleteState
    PROVE  /\ DeleteItem \in ItemRecord /\ DeleteItem.id = del.id /\ DeleteItem.at = 0
           /\ DeleteItem.operation = "delete" /\ DeleteItem.retries = 0
  BY DEF DeleteItem, Item, ItemRecord, DeleteState

LEMMA SavedMore ==
    ASSUME ed \in EditorState, save \in SaveState
    PROVE  /\ SavedItem \in ItemRecord /\ SavedItem.id = SavedId /\ SavedItem.at = save.at /\ SavedItem.retries = 0
           /\ SavedItem.operation = IF save.isLocal THEN "create" ELSE "update"
<1>1. SavedId \in Nat /\ save.at \in Nat
  BY DEF SavedId, EditorState, SaveState, Temp
<1> QED
  BY <1>1 DEF SavedItem, Item, ItemRecord

\* An operation that is not lost is enqueued while no push runs.
LEMMA EnqueueItems ==
    ASSUME Shape, Next, ~past'.dropped
    PROVE  /\ EnqueueEvent => /\ push.pc = "idle" /\ Items = queue /\ Items' = queue'
                              /\ queue' = enqueueOperation(SavedItem)
           /\ EnqueueDelete => /\ push.pc = "idle" /\ Items = queue /\ Items' = queue'
                               /\ queue' = enqueueOperation(DeleteItem)
<1>1. TypeOK /\ past \in History /\ ed \in EditorState /\ save \in SaveState
  BY DEF Shape, TypeOK
<1>2. push.pc = "idle" => Items = queue /\ Items' = queue'
  <2> SUFFICES ASSUME push.pc = "idle" PROVE Items' = queue'
    BY DEF Items
  <2>1. \/ push' = push
        \/ push'.pc = "next" /\ push'.todo = queue' /\ push'.failed = {}
        \/ push' = IdlePush
    BY <1>1, PushChange DEF processEventOperation, SwapEventId
  <2> QED
    BY <2>1 DEF Items, InPush, IdlePush
<1>3. EnqueueEvent => push.pc = "idle" /\ queue' = enqueueOperation(SavedItem)
  BY <1>1, NotDropped, SavedFacts DEF EnqueueEvent
<1>4. EnqueueDelete => push.pc = "idle" /\ queue' = enqueueOperation(DeleteItem)
  BY <1>1, NotDropped DEF EnqueueDelete, DeleteItem
<1> QED
  BY <1>2, <1>3, <1>4

\* An item leaves what is to be sent when it was carried, when its create was
\* sent by the editor, or when the event goes before it was ever sent.
LEMMA ItemsStep ==
    ASSUME Shape, Shape', Next, FewRetries, ~past'.dropped, ~past'.cut
    PROVE  /\ SwapEventId => Items = InPush /\ Items' = Items \ {push.item}
           /\ UnqueueEvent \/ deleteEventOffline =>
                  \/ Items' = Items
                  \/ Items' = {q \in Items : q.id # Temp} /\ (UnqueueEvent \/ (HasTemp /\ ~HasTemp'))
           /\ processEventOperation =>
                  Items = InPush /\ (SameItems \/ \E q \in push.todo : Changed(q) /\ Items' = Items \ {q})
           /\ \/ EnqueueEvent \/ EnqueueDelete \/ SwapEventId \/ UnqueueEvent \/ deleteEventOffline
              \/ processEventOperation \/ SameItems
<1>1. /\ TypeOK /\ past \in History /\ push \in PushState
      /\ \A q \in push.todo, f \in push.failed : q.id # f.id
      /\ push.pc = "swap" => push.item \in push.todo
  BY DEF Shape, TypeOK, PushShape
<1>2. \A q : Alike(q, q)
  BY DEF Alike
<1>3. Items' = Items => SameItems
  BY <1>2 DEF SameItems
<1>4. ASSUME SwapEventId PROVE Items = InPush /\ Items' = Items \ {push.item}
  <2>1. push.pc = "swap" /\ push.item \in push.todo /\ ItemDone(push.item)
    BY <1>1, <1>4 DEF SwapEventId
  <2>2. push'.pc = "next" /\ push'.todo = push.todo \ {push.item} /\ push'.failed = push.failed
    BY <1>1, <2>1, ItemLeaves
  <2>3. push.item \notin push.failed
    BY <1>1, <2>1
  <2> QED
    BY <2>1, <2>2, <2>3 DEF Items, InPush
<1>5. ASSUME UnqueueEvent PROVE Items' = Items \/ Items' = {q \in Items : q.id # Temp}
  <2>1. push' = push /\ queue' = {q \in queue : q.id # Temp}
    BY <1>5 DEF UnqueueEvent, sentUnqueued, unqueued
  <2> QED
    BY <2>1 DEF Items, InPush
<1>6. ASSUME deleteEventOffline
      PROVE  Items' = Items \/ (Items' = {q \in Items : q.id # Temp} /\ HasTemp /\ ~HasTemp')
  <2>1. CASE \E e \in WithId(local, del.id) : e.isLocal
    <3>1. push' = push /\ queue' = {q \in queue : q.id # del.id} /\ local' = {e \in local : e.id # del.id}
      BY <1>6, <2>1 DEF deleteEventOffline, unqueued
    <3>2. HasTemp /\ del.id = Temp
      BY <2>1 DEF Shape, IdsGiven, WithId, HasTemp
    <3> QED
      BY <3>1, <3>2 DEF Items, InPush, HasTemp
  <2>2. CASE ~\E e \in WithId(local, del.id) : e.isLocal
    <3>1. push' = push /\ queue' = queue
      BY <1>6, <2>2 DEF deleteEventOffline
    <3> QED
      BY <3>1 DEF Items, InPush
  <2> QED
    BY <2>1, <2>2
<1>7. ASSUME processEventOperation
      PROVE  Items = InPush /\ (SameItems \/ \E q \in push.todo : Changed(q) /\ Items' = Items \ {q})
  <2>1. push.pc = "next"
    BY <1>7 DEF processEventOperation
  <2>2. PICK q \in push.todo : Sent(q) \/ Changed(q) \/ Failed
    BY <1>7, OperationStep
  <2>3. push'.pc \in {"next", "swap"}
    BY <2>2 DEF Sent, Changed, Failed
  <2>4. Items = InPush /\ Items' = InPush'
    BY <2>1, <2>3 DEF Items
  <2>5. Retried => SameItems
    BY <2>4 DEF Retried, SameItems
  <2>6. CASE Sent(q) \/ Failed
    BY <1>3, <2>4, <2>5, <2>6 DEF Sent, Failed
  <2>7. CASE Changed(q)
    BY <2>4, <2>7 DEF Changed
  <2> QED
    BY <2>2, <2>4, <2>6, <2>7
<1>8. CASE FinishPush
  <2>1. push.pc = "next" /\ push.todo = {} /\ queue' = push.failed /\ push' = IdlePush
    BY <1>8 DEF FinishPush
  <2>2. Items = queue' /\ Items' = queue'
    BY <2>1 DEF Items, InPush, IdlePush
  <2> QED
    BY <1>3, <1>4, <1>5, <1>6, <1>7, <2>2
<1>9. CASE queue' = queue /\ ~processEventOperation /\ ~SwapEventId /\ ~FinishPush
  <2>1. Killed => push.pc = "idle"
    BY <1>1, KilledAtRest
  <2>2. \/ push' = push
        \/ push.pc = "idle" /\ push'.pc = "next" /\ push'.todo = queue' /\ push'.failed = {}
        \/ push.pc = "idle" /\ push' = IdlePush
    BY <1>1, <1>9, <2>1, PushChange
  <2>3. ASSUME push' = push PROVE Items' = Items
    BY <1>9, <2>3 DEF Items, InPush
  <2>4. ASSUME push.pc = "idle" /\ push'.pc = "next" /\ push'.todo = queue' /\ push'.failed = {}
        PROVE  Items' = Items
    BY <1>9, <2>4 DEF Items, InPush
  <2>5. ASSUME push.pc = "idle" /\ push' = IdlePush PROVE Items' = Items
    BY <1>9, <2>5 DEF Items, IdlePush
  <2>6. Items' = Items
    BY <2>2, <2>3, <2>4, <2>5
  <2> QED
    BY <1>3, <1>4, <1>5, <1>6, <1>7, <2>6
<1>10. CASE EnqueueEvent \/ EnqueueDelete \/ SwapEventId \/ UnqueueEvent \/ deleteEventOffline \/ processEventOperation
  BY <1>4, <1>5, <1>6, <1>7, <1>10
<1> QED
  BY <1>8, <1>9, <1>10, Frame

\* Where an item comes from.
LEMMA ItemSource ==
    ASSUME Shape, Shape', Next, FewRetries, ~past'.dropped, ~past'.cut, NEW q \in queue' \cup InPush'
    PROVE  /\ q.retries <= MAX_RETRIES
           /\ \/ \E p \in queue \cup InPush : p.id = q.id /\ p.at = q.at
              \/ EnqueueEvent /\ q.id = SavedId /\ q.at = save.at
              \/ EnqueueDelete /\ q.id = del.id /\ q.at = 0
<1> DEFINE Known(x) == /\ x.retries <= MAX_RETRIES
                       /\ \/ \E p \in queue \cup InPush : p.id = x.id /\ p.at = x.at
                          \/ EnqueueEvent /\ x.id = SavedId /\ x.at = save.at
                          \/ EnqueueDelete /\ x.id = del.id /\ x.at = 0
<1>1. /\ TypeOK /\ past \in History /\ push \in PushState /\ queue \subseteq ItemRecord
      /\ ed \in EditorState /\ save \in SaveState /\ del \in DeleteState /\ MAX_RETRIES \in Nat
  BY NaturalBounds DEF Shape, TypeOK
<1>2. \A x \in queue \cup InPush : Known(x)
  BY DEF FewRetries
<1>3. \A x \in queue' : Known(x)
  <2>1. CASE EnqueueEvent
    <3>1. queue' = enqueueOperation(SavedItem)
      BY <2>1, EnqueueItems
    <3>2. SavedItem \in ItemRecord /\ SavedItem.id = SavedId /\ SavedItem.at = save.at /\ SavedItem.retries = 0
      BY <1>1, SavedMore
    <3>3. \A x \in queue' : x \in queue \/ EnqueuedFor(x, SavedItem)
      BY <1>1, <3>1, <3>2, EnqueueMore
    <3> QED
      BY <1>1, <1>2, <2>1, <3>2, <3>3 DEF EnqueuedFor, FewRetries
  <2>2. CASE EnqueueDelete
    <3>1. queue' = enqueueOperation(DeleteItem)
      BY <2>2, EnqueueItems
    <3>2. /\ DeleteItem \in ItemRecord /\ DeleteItem.id = del.id /\ DeleteItem.at = 0 /\ DeleteItem.retries = 0
      BY <1>1, DeleteFacts
    <3>3. \A x \in queue' : x \in queue \/ EnqueuedFor(x, DeleteItem)
      BY <1>1, <3>1, <3>2, EnqueueMore
    <3> QED
      BY <1>1, <1>2, <2>2, <3>2, <3>3 DEF EnqueuedFor, FewRetries
  <2>3. CASE queue' \subseteq queue \cup InPush
    BY <1>2, <2>3
  <2>4. UnqueueEvent \/ deleteEventOffline \/ FinishPush => queue' \subseteq queue \cup InPush
    BY DEF UnqueueEvent, sentUnqueued, unqueued, deleteEventOffline, FinishPush, InPush
  <2> QED
    BY <2>1, <2>2, <2>3, <2>4, Frame
<1>4. CASE q \in queue'
  BY <1>3, <1>4
<1>5. CASE q \in InPush'
  <2>1. CASE push' = push
    BY <1>2, <1>5, <2>1 DEF InPush
  <2>2. CASE push'.todo = queue' /\ push'.failed = {}
    BY <1>3, <1>5, <2>2 DEF InPush
  <2>3. CASE processEventOperation
    <3>1. PICK o \in push.todo : Sent(o) \/ Changed(o) \/ Failed
      BY <2>3, OperationStep
    <3>2. \A k \in InPush' : k.retries <= MAX_RETRIES
      BY <2>3, OperationStep
    <3>3. \E p \in InPush : Alike(q, p)
      <4>1. InPush' \subseteq InPush \/ Retried
        BY <3>1 DEF Sent, Changed, Failed
      <4> QED
        BY <1>5, <4>1 DEF Retried, Alike
    <3> QED
      BY <1>5, <3>2, <3>3 DEF Alike
  <2>4. CASE SwapEventId /\ ItemDone(push.item)
    <3>1. push.item \in push.todo
      BY <2>4 DEF Shape, PushShape, SwapEventId
    <3> QED
      BY <1>1, <1>2, <1>5, <2>4, <3>1, ItemLeaves
  <2>5. CASE push' = IdlePush
    BY <1>5, <2>5 DEF InPush, IdlePush
  <2> QED
    BY <1>1, <2>1, <2>2, <2>3, <2>4, <2>5, PushChange
<1> QED
  BY <1>4, <1>5

-------------------------------------------------------------------------------
(* Times *)

LEMMA NowStep ==
    ASSUME Next
    PROVE  now' = now \/ (Type /\ now' = now + 1)
<1>1. Type \/ triggerAutoSave \/ handleBack \/ loadEvent => now' = now \/ (Type /\ now' = now + 1)
  BY DEF Type, triggerAutoSave, handleBack, loadEvent
<1>2. (\E w \in wants : withSaveLock(w)) \/ WriteEvent \/ scheduleReminder \/ EnqueueEvent \/ PostEvent => now' = now
  BY DEF withSaveLock, WriteEvent, scheduleReminder, EnqueueEvent, PostEvent
<1>3. ResolveEvent \/ UnqueueEvent \/ PushAwaited \/ SaveEnds \/ SaveFails => now' = now
  BY DEF ResolveEvent, UnqueueEvent, PushAwaited, SaveEnds, SaveFails
<1>4. confirmDelete \/ DeleteFromList \/ deleteEventOffline \/ EnqueueDelete \/ DeleteEnds => now' = now
  BY DEF confirmDelete, DeleteFromList, deleteEventOffline, EnqueueDelete, DeleteEnds
<1>5. TriggerPush \/ processEventOperation \/ SwapEventId \/ FinishPush => now' = now
  BY DEF TriggerPush, processEventOperation, SwapEventId, FinishPush
<1>6. fullSync \/ PullEvents \/ MergeEvents => now' = now
  BY DEF fullSync, PullEvents, MergeEvents
<1>7. refreshRecurringReminders \/ RefreshSchedules \/ RefreshKeeps \/ Killed => now' = now
  BY DEF refreshRecurringReminders, RefreshSchedules, RefreshKeeps, Killed
<1> QED
  BY <1>1, <1>2, <1>3, <1>4, <1>5, <1>6, <1>7 DEF Next, SaveStep, Deleting, PushStep

LEMMA DraftStep ==
    ASSUME TypeOK, Next
    PROVE  \/ ed'.draft = ed.draft /\ ed'.saved = ed.saved /\ now' = now
           \/ Type /\ ed'.draft = now + 1 /\ now' = now + 1
           \/ SaveEnds /\ ed'.draft = ed.draft /\ ed'.saved = save.at /\ now' = now
           \/ ((loadEvent /\ wants = {}) \/ (Killed /\ wants' = {})) /\ ed'.draft = 0 /\ ed'.saved = 0 /\ now' = now
<1>1. ed \in EditorState /\ now + 1 \in Nat
  BY DEF TypeOK
<1>2. CASE Type
  <2>1. \A n \in Nat : LET d == [ed EXCEPT !.draft = n, !.timer = TRUE] IN d.draft = n
    BY <1>1 DEF EditorState
  <2> QED
    BY <1>1, <1>2, <2>1 DEF Type
<1>3. CASE SaveEnds
  <2>1. now' = now
    BY <1>3 DEF SaveEnds
  <2> QED
    BY <1>1, <1>3, <2>1 DEF SaveEnds, EditorState
<1>4. CASE loadEvent
  <2>1. now' = now /\ wants = {}
    BY <1>4 DEF loadEvent
  <2>2. PICK i, n : ed' = [Closed EXCEPT !.open = TRUE, !.id = i, !.created = TRUE, !.ref = n]
    BY <1>4 DEF loadEvent
  <2>3. ed'.draft = 0 /\ ed'.saved = 0
    BY <2>2 DEF Closed
  <2> QED
    BY <1>4, <2>1, <2>3
<1>5. CASE Killed
  BY <1>5 DEF Killed, Closed
<1>6. CASE triggerAutoSave \/ handleBack \/ DeleteEnds
  BY <1>1, <1>6 DEF triggerAutoSave, handleBack, DeleteEnds, EditorState
<1>7. CASE scheduleReminder
  <2>1. PICK n : ed' = [ed EXCEPT !.ref = n]
    BY <1>7 DEF scheduleReminder
  <2>2. now' = now
    BY <1>7 DEF scheduleReminder
  <2> QED
    BY <1>1, <2>1, <2>2 DEF EditorState
<1>8. CASE EnqueueEvent \/ PostEvent \/ UnqueueEvent
  <2>1. ed' = ed \/ \E i : ed' = [ed EXCEPT !.id = i, !.created = TRUE]
    BY <1>8 DEF EnqueueEvent, PostEvent, UnqueueEvent, Named
  <2>2. now' = now
    BY <1>8 DEF EnqueueEvent, PostEvent, UnqueueEvent
  <2> QED
    BY <1>1, <2>1, <2>2 DEF EditorState
<1>9. CASE ed' = ed /\ ~Type
  BY <1>9, NowStep
<1> QED
  BY <1>2, <1>3, <1>4, <1>5, <1>6, <1>7, <1>8, <1>9, Frame

\* The time a save works with.
LEMMA SaveAtStep ==
    ASSUME TypeOK, Next, save'.pc \in {"enqueue", "post", "resolve"}
    PROVE  \/ WriteEvent /\ save.pc = "write" /\ save'.at = ed.draft
           \/ save.pc \in {"enqueue", "post", "resolve"} /\ save'.at = save.at
<1>1. save \in SaveState
  BY DEF TypeOK
<1>2. CASE WriteEvent
  BY <1>1, <1>2, WriteSave DEF TypeOK
<1>3. CASE EnqueueEvent
  <2>1. save.pc = "enqueue" /\ \E pc : save' = [save EXCEPT !.pc = pc]
    BY <1>3 DEF EnqueueEvent, Named
  <2> QED
    BY <1>1, <2>1 DEF SaveState
<1>4. CASE PostEvent
  <2>1. save.pc = "post"
    BY <1>4 DEF PostEvent
  <2>2. (\E pc : save' = [save EXCEPT !.pc = pc]) \/ \E n : save' = [save EXCEPT !.pc = "resolve", !.reply = n]
    BY <1>4 DEF PostEvent, Named
  <2> QED
    BY <1>1, <2>1, <2>2 DEF SaveState
<1>5. CASE save' = save
  BY <1>5
<1> QED
  BY <1>2, <1>3, <1>4, <1>5, SaveChange

LEMMA SeenStep ==
    ASSUME TypeOK, Next, NEW f \in full'.seen
    PROVE  f \in full.seen \/ (f \in srv /\ srv' = srv)
<1>1. full \in FullState
  BY DEF TypeOK
<1>2. CASE PullEvents
  <2>1. \A S : [full EXCEPT !.pc = "merge", !.seen = S].seen = S /\ [full EXCEPT !.pc = "merge", !.seen = S, !.complete = TRUE].seen = S
    BY <1>1 DEF FullState
  <2>2. full'.seen \subseteq srv /\ srv' = srv
    BY <1>2, <2>1 DEF PullEvents
  <2> QED
    BY <2>2
<1>3. CASE fullSync
  <2>1. full' = [IdleFull EXCEPT !.pc = "pull", !.at = now]
    BY <1>3 DEF fullSync
  <2> QED
    BY <2>1 DEF IdleFull
<1>4. CASE MergeEvents \/ Killed
  BY <1>4 DEF MergeEvents, Killed, IdleFull
<1> QED
  BY <1>2, <1>3, <1>4, Frame

LEMMA RowStep ==
    ASSUME Shape, Shape', Next, FewRetries, ~past'.dropped, NEW s \in srv'
    PROVE  \/ \E r \in srv : r.id = s.id /\ r.at = s.at
           \/ /\ s.id = made + 1 /\ made' = made + 1
              /\ \/ PostEvent /\ s.at = save.at
                 \/ processEventOperation /\ \E q \in push.todo : Sent(q) /\ s.at = q.at
           \/ /\ processEventOperation
              /\ \E q \in push.todo : Changed(q) /\ q.operation = "update" /\ s.id = q.id /\ s.at = q.at
              /\ \E r \in srv : r.id = s.id
<1>1. CASE s \in srv
  BY <1>1
<1>2. CASE PostEvent /\ s \notin srv
  <2>1. s = [id |-> made + 1, at |-> save.at] /\ made' = made + 1
    BY <1>2 DEF PostEvent
  <2> QED
    BY <1>2, <2>1
<1>3. CASE processEventOperation /\ s \notin srv
  <2>1. PICK q \in push.todo : Sent(q) \/ Changed(q) \/ Failed
    BY <1>3, OperationStep
  <2>2. CASE Sent(q)
    <3>1. s = [id |-> made + 1, at |-> q.at] /\ made' = made + 1
      BY <1>3, <2>2 DEF Sent
    <3> QED
      BY <1>3, <2>2, <3>1
  <2>3. CASE Changed(q)
    <3>1. PICK r \in srv : r.id = s.id /\ IF s.id = q.id THEN q.operation = "update" /\ s.at = q.at ELSE s.at = r.at
      BY <2>3 DEF Changed
    <3> QED
      BY <1>3, <2>3, <3>1
  <2> QED
    BY <1>3, <2>1, <2>2, <2>3 DEF Failed
<1> QED
  BY <1>1, <1>2, <1>3, Frame

NoneAfter(t) ==
    /\ \A r \in srv \cup full.seen : r.at <= t
    /\ \A e \in local : e.updated_at <= t
    /\ \A q \in queue \cup InPush : q.at <= t

NoneLater(t) ==
    /\ \A r \in srv' \cup full'.seen : r.at <= t
    /\ \A e \in local' : e.updated_at <= t
    /\ \A q \in queue' \cup InPush' : q.at <= t

\* Nothing is newer than t if nothing newer is written.
LEMMA TimesStep ==
    ASSUME Shape, Shape', Next, FewRetries, ~past'.dropped, ~past'.cut, NEW t \in Nat, NoneAfter(t),
           save.pc \in {"enqueue", "post", "resolve"} => save.at <= t, WriteEvent => ed.draft <= t
    PROVE  NoneLater(t)
<1>1. TypeOK /\ TypeOK'
  BY DEF Shape
<1>2. /\ EnqueueEvent => save.pc = "enqueue"
      /\ PostEvent => save.pc = "post"
      /\ ResolveEvent => save.pc = "resolve"
  BY DEF EnqueueEvent, PostEvent, ResolveEvent
<1>3. \A s \in srv' : s.at <= t
  <2> SUFFICES ASSUME NEW s \in srv' PROVE s.at <= t
    OBVIOUS
  <2>1. \A q \in push.todo : q.at <= t
    BY DEF NoneAfter, InPush
  <2> QED
    BY <1>2, <2>1, RowStep DEF NoneAfter
<1>4. \A f \in full'.seen : f.at <= t
  BY <1>1, SeenStep DEF NoneAfter
<1>5. \A e \in local' : e.updated_at <= t
  <2> SUFFICES ASSUME NEW e \in local' PROVE e.updated_at <= t
    OBVIOUS
  <2> QED
    BY <1>1, <1>2, RecordStep DEF NoneAfter, SameEdit
<1>6. \A q \in queue' \cup InPush' : q.at <= t
  <2> SUFFICES ASSUME NEW q \in queue' \cup InPush' PROVE q.at <= t
    OBVIOUS
  <2> QED
    BY <1>2, ItemSource DEF NoneAfter
<1> QED
  BY <1>3, <1>4, <1>5, <1>6 DEF NoneLater

-------------------------------------------------------------------------------
(* Every edit the device shows is carried *)

\* Nothing is newer than the newest edit, than the form, or than what is saved.
Latest ==
    /\ NoneAfter(now) /\ ed.draft <= now
    /\ ed.draft # 0 => NoneAfter(ed.draft)
    /\ wants # {} => ed.draft # 0
    /\ ed.draft = 0 => ed.saved = 0
    /\ save.pc \in {"enqueue", "post", "resolve"} => NoneAfter(save.at) /\ save.at <= ed.draft

IdsKnown ==
    /\ \A q \in queue \cup InPush : q.id <= made
    /\ ed.created => ed.id <= made
    /\ del.pc # "idle" => del.id <= made

\* Before the first save nothing of the event is under way.
Fresh == ~ed.created /\ Editing /\ ~Making => queue = {} /\ push.pc = "idle" /\ del.pc = "idle"

\* A delete of the temp id: it is answered 404 until it is dropped.
Poisoned == \E q \in Items : q.id = Temp /\ q.operation # "create"

TempGone ==
    /\ Poisoned => ~HasTemp
    /\ del.pc = "enqueue" /\ del.id = Temp => ~HasTemp
    /\ save.pc = "unqueue" => ~HasTemp

\* No item, pull or reply is older than the row it is about.
ServerForward ==
    /\ \A q \in Items, r \in srv : q.id = r.id /\ q.operation = "update" => r.at <= q.at
    /\ \A f \in full.seen, r \in srv : f.id = r.id => f.at <= r.at
    /\ push.pc = "swap" => \A r \in srv : r.id = push.reply => push.item.at <= r.at
    /\ save.pc = "resolve" => \A r \in srv : r.id = save.reply => save.at <= r.at

\* An edit of an event with a temp id is in a create, or about to be.
NewCovered(t) ==
    \/ save.pc = "enqueue" /\ (save.new \/ ed.id = Temp) /\ t <= save.at
    \/ \E q \in Creates(Items) : t <= q.at

\* An edit is on the server, in an item or about to be in one.
OldCovered(i, t) ==
    \/ \A r \in srv : r.id = i => t <= r.at
    \/ save.pc = "enqueue" /\ ~save.new /\ t <= save.at /\ ed.id = i
    \/ \E q \in Items : q.id = i /\ (q.operation = "delete" \/ t <= q.at)

Covered == \A e \in local : ~e.pendingDelete =>
    IF e.id = Temp THEN NewCovered(e.updated_at) ELSE OldCovered(e.id, e.updated_at)

Following == FewRetries /\ Latest /\ IdsKnown /\ Fresh /\ TempGone /\ ServerForward /\ Covered

CarriedInv == past.stale \/ past.dropped \/ past.cut \/ Following

LEMMA LatestStep ==
    ASSUME Shape, Shape', Next, Following, ~past'.dropped, ~past'.cut
    PROVE  Latest'
<1>1. /\ TypeOK /\ TypeOK' /\ now \in Nat /\ now' \in Nat /\ ed.draft \in Nat /\ ed'.draft \in Nat
      /\ save.at \in Nat /\ save'.at \in Nat /\ FewRetries /\ Latest
  BY DEF Shape, TypeOK, EditorState, SaveState, Following
<1>2. now <= now'
  BY <1>1, NowStep
<1>3. save.pc # "idle" => wants # {}
  BY DEF Shape, SaveShape
<1>4. WriteEvent => ed.draft # 0
  BY <1>1, <1>3 DEF WriteEvent, Latest
<1>5. \A t \in Nat : /\ NoneAfter(t) /\ (save.pc \in {"enqueue", "post", "resolve"} => save.at <= t)
                     /\ (WriteEvent => ed.draft <= t)
                     => NoneLater(t)
  BY <1>1, TimesStep
<1>6. WriteEvent => save.pc = "write"
  BY DEF WriteEvent
<1>7. NoneLater(now')
  <2>1. PICK t \in Nat : t = now
    BY <1>1
  <2>2. NoneLater(t)
    <3>1. NoneAfter(t) /\ ed.draft <= t
      BY <1>1, <2>1 DEF Latest
    <3>2. save.pc \in {"enqueue", "post", "resolve"} => save.at <= t
      BY <1>1, <3>1 DEF Latest
    <3> QED
      BY <1>5, <3>1, <3>2
  <2>3. PICK u \in Nat : u = now'
    BY <1>1
  <2>4. NoneLater(u)
    <3>1. /\ srv' \subseteq Row /\ full'.seen \subseteq Row /\ local' \subseteq EventRecord
          /\ queue' \cup InPush' \subseteq ItemRecord
      BY <1>1 DEF TypeOK, FullState, PushState, InPush
    <3> QED
      BY <1>2, <2>1, <2>2, <2>3, <3>1 DEF NoneLater, Row, EventRecord, ItemRecord
  <2> QED
    BY <2>3, <2>4
<1>8. ed'.draft <= now'
  BY <1>1, <1>2, DraftStep DEF Latest
<1>9. ed'.draft # 0 => NoneLater(ed'.draft)
  <2> SUFFICES ASSUME ed'.draft # 0 PROVE NoneLater(ed'.draft)
    OBVIOUS
  <2>1. CASE ed'.draft = now'
    BY <1>7, <2>1
  <2>2. CASE ed'.draft = ed.draft
    <3>1. PICK t \in Nat : t = ed.draft
      BY <1>1
    <3>2. NoneAfter(t) /\ (save.pc \in {"enqueue", "post", "resolve"} => save.at <= t)
      BY <1>1, <2>2, <3>1 DEF Latest
    <3>3. NoneLater(t)
      BY <1>1, <1>5, <3>1, <3>2
    <3> QED
      BY <2>2, <3>1, <3>3
  <2> QED
    BY <1>1, <2>1, <2>2, DraftStep
<1>10. wants' # {} => ed'.draft # 0
  <2>1. triggerAutoSave => wants' = wants \/ ed.draft # 0
    BY <1>1 DEF triggerAutoSave, Latest
  <2>2. handleBack => ed.draft # 0
    BY DEF handleBack
  <2>3. wants' \subseteq wants \/ ed.draft # 0
    BY <2>1, <2>2, Frame DEF SaveEnds, SaveFails, Killed
  <2>4. ed.draft # 0 => ed'.draft # 0 \/ loadEvent \/ (Killed /\ wants' = {})
    BY <1>1, DraftStep
  <2>5. loadEvent => wants' = {}
    BY DEF loadEvent
  <2> QED
    BY <1>1, <2>3, <2>4, <2>5 DEF Latest
<1>11. ed'.draft = 0 => ed'.saved = 0
  <2>1. SaveEnds => ed.draft # 0
    BY <1>1, <1>3 DEF SaveEnds, Latest
  <2> QED
    BY <1>1, <2>1, DraftStep DEF Latest
<1>12. save'.pc \in {"enqueue", "post", "resolve"} => NoneLater(save'.at) /\ save'.at <= ed'.draft
  <2> SUFFICES ASSUME save'.pc \in {"enqueue", "post", "resolve"}
               PROVE  NoneLater(save'.at) /\ save'.at <= ed'.draft
    OBVIOUS
  <2>1. \/ WriteEvent /\ save.pc = "write" /\ save'.at = ed.draft
        \/ save.pc \in {"enqueue", "post", "resolve"} /\ save'.at = save.at
    BY <1>1, SaveAtStep
  <2>2. PICK t \in Nat : t = save'.at
    BY <1>1
  <2>3. t <= ed.draft /\ NoneAfter(t)
    BY <1>1, <1>4, <2>1, <2>2 DEF Latest
  <2>4. NoneLater(t)
    BY <1>1, <1>5, <1>6, <2>1, <2>2, <2>3
  <2>5. ed.draft <= ed'.draft
    <3>1. ~loadEvent
      BY <1>3, <2>1 DEF loadEvent
    <3>2. ~Killed
      BY DEF Killed, IdleSave
    <3> QED
      BY <1>1, <3>1, <3>2, DraftStep DEF Latest
  <2> QED
    BY <1>1, <2>2, <2>3, <2>4, <2>5
<1> QED
  BY <1>7, <1>8, <1>9, <1>10, <1>11, <1>12 DEF Latest, NoneAfter, NoneLater

LEMMA DeleteIdStep ==
    ASSUME TypeOK, Next, del'.pc # "idle"
    PROVE  \/ del'.id = del.id /\ del.pc # "idle" /\ (del'.pc = "enqueue" => del.pc = "enqueue" \/ deleteEventOffline)
           \/ confirmDelete /\ del'.id = ed.id /\ ed.id # NoId /\ del'.pc = "mark"
           \/ DeleteFromList /\ del'.pc = "mark" /\ ~ed.open /\ \E e \in local : del'.id = e.id
<1>1. del \in DeleteState
  BY DEF TypeOK
<1>2. CASE confirmDelete
  BY <1>2 DEF confirmDelete
<1>3. CASE DeleteFromList
  <2>1. PICK e \in local : del' = [pc |-> "mark", id |-> e.id, list |-> TRUE]
    BY <1>3 DEF DeleteFromList
  <2>2. del'.id = e.id /\ del'.pc = "mark" /\ ~ed.open
    BY <1>3, <2>1 DEF DeleteFromList
  <2> QED
    BY <1>3, <2>2
<1>4. CASE deleteEventOffline
  BY <1>1, <1>4 DEF deleteEventOffline, DeleteState
<1>5. CASE EnqueueDelete
  BY <1>1, <1>5 DEF EnqueueDelete, DeleteState
<1>6. CASE DeleteEnds \/ Killed
  BY <1>6 DEF DeleteEnds, Killed, IdleDel
<1>7. CASE del' = del
  BY <1>7
<1> QED
  BY <1>2, <1>3, <1>4, <1>5, <1>6, <1>7, Frame

LEMMA IdsKnownStep ==
    ASSUME Shape, Shape', Next, Following, ~past'.dropped, ~past'.cut
    PROVE  IdsKnown'
<1>1. /\ TypeOK /\ FewRetries /\ IdsKnown /\ made \in Nat /\ made' \in Nat /\ made <= made'
      /\ ed.id \in Nat /\ ed'.id \in Nat /\ del'.id \in Nat /\ del.id \in Nat /\ del \in DeleteState
  BY MadeGrows DEF Shape, TypeOK, Following, EditorState, DeleteState
<1>2. EnqueueEvent => SavedId <= made
  <2>1. EnqueueEvent /\ ~save.new => ed.created
    BY DEF EnqueueEvent, Shape, SaveShape, Stage, Making
  <2> QED
    BY <1>1, <2>1 DEF SavedId, Temp, IdsKnown
<1>3. EnqueueDelete => del.id <= made
  BY <1>1 DEF EnqueueDelete, IdsKnown
<1>4. \A q \in queue' \cup InPush' : q.id <= made'
  <2> SUFFICES ASSUME NEW q \in queue' \cup InPush' PROVE q.id <= made'
    OBVIOUS
  <2>1. q.id <= made
    BY <1>1, <1>2, <1>3, ItemSource DEF IdsKnown
  <2>2. q.id \in Nat
    BY DEF Shape, TypeOK, PushState, InPush, ItemRecord
  <2> QED
    BY <1>1, <2>1, <2>2
<1>5. ed'.created => ed'.id <= made'
  <2>1. CASE loadEvent
    <3>1. PICK e \in local :
              \E n : ed' = [Closed EXCEPT !.open = TRUE, !.id = e.id, !.created = TRUE, !.ref = n]
      BY <2>1 DEF loadEvent
    <3>2. ed'.id = e.id /\ e.id <= made /\ e.id \in Nat
      BY <3>1 DEF Closed, Shape, IdsGiven, TypeOK, EventRecord
    <3> QED
      BY <1>1, <3>2
  <2>2. UnqueueEvent => save.reply <= made /\ save.reply \in Nat
    BY DEF UnqueueEvent, Shape, SaveShape, TypeOK, SaveState
  <2>3. CASE ~loadEvent
    BY <1>1, <2>2, <2>3, EditorChange DEF IdsKnown, Temp
  <2> QED
    BY <2>1, <2>3
<1>6. del'.pc # "idle" => del'.id <= made'
  <2> SUFFICES ASSUME del'.pc # "idle" PROVE del'.id <= made'
    OBVIOUS
  <2>1. \A e \in local : e.id <= made
    BY DEF Shape, IdsGiven
  <2>2. ed.id # NoId => ed.id <= made
    BY DEF Shape, IdsGiven
  <2>3. del'.id <= made
    BY <1>1, <2>1, <2>2, DeleteIdStep DEF IdsKnown
  <2> QED
    BY <1>1, <2>3
<1> QED
  BY <1>4, <1>5, <1>6 DEF IdsKnown

LEMMA FreshStep ==
    ASSUME Shape, Shape', Next, Following
    PROVE  Fresh'
<1>1. TypeOK /\ Fresh /\ Stage /\ SaveShape
  BY DEF Shape, Following
<1> SUFFICES ASSUME ~ed'.created, Editing', ~Making' PROVE queue' = {} /\ push'.pc = "idle" /\ del'.pc = "idle"
  BY DEF Fresh
<1>2. ~Killed
  BY DEF Killed, Closed, Editing
<1>3. ~ed.created
  BY <1>1, <1>2, EditorChange
<1>4. Editing
  <2>1. ed'.open => ed.open
    BY <1>1, <1>2, EditorChange
  <2>2. ed'.timer => ed.timer \/ ed.open
    BY <1>1, <1>2, EditorChange DEF Type
  <2>3. wants' # {} => Editing
    BY Frame, <1>2 DEF triggerAutoSave, handleBack, SaveEnds, SaveFails, Editing
  <2> QED
    BY <2>1, <2>2, <2>3 DEF Editing
<1>5. ~Making
  <2> SUFFICES ASSUME Making PROVE FALSE
    OBVIOUS
  <2>1. save.new /\ save.pc \in {"enqueue", "post", "resolve", "unqueue"}
    BY DEF Making
  <2> QED
    BY <1>1, <1>2, <2>1, SaveChange DEF Making, SaveMoves, SaveEnds, SaveFails
<1>6. queue = {} /\ push.pc = "idle" /\ del.pc = "idle" /\ ed.id = NoId
  BY <1>1, <1>3, <1>4, <1>5 DEF Fresh, Stage
<1>7. local = {} /\ save.pc \in {"idle", "schedule", "write"}
  BY <1>1, <1>3, <1>4, <1>5 DEF Stage, Editing, Nothing
<1>8. queue' = {}
  BY <1>6, <1>7, Frame DEF EnqueueEvent, UnqueueEvent, deleteEventOffline, EnqueueDelete, FinishPush
<1>9. push'.pc = "idle"
  <2>1. ~TriggerPush
    BY <1>6 DEF TriggerPush
  <2> QED
    BY <1>2, <1>6, <1>7, <2>1, Frame DEF EnqueueEvent, EnqueueDelete, processEventOperation, SwapEventId, FinishPush
<1>10. del'.pc = "idle"
  <2>1. ~confirmDelete /\ ~DeleteFromList
    BY <1>6, <1>7 DEF confirmDelete, DeleteFromList
  <2> QED
    BY <1>2, <1>6, <2>1, Frame DEF deleteEventOffline, EnqueueDelete, DeleteEnds, IdleDel
<1> QED
  BY <1>8, <1>9, <1>10

\* Facts of a state that the next lemmas share.
LEMMA FollowingFacts ==
    ASSUME Shape, Following
    PROVE  /\ TypeOK /\ FewRetries /\ Items \subseteq ItemRecord /\ Unique(Items) /\ Items \subseteq queue \cup InPush
           /\ \A q \in Creates(Items) : q.id = Temp
           /\ \A q \in Items : q.id <= made
           /\ \A e \in local : e.isLocal <=> e.id = Temp
           /\ \A r \in srv : 1 <= r.id /\ r.id <= made
           /\ made \in Nat /\ save.at \in Nat /\ ed.id \in Nat /\ del.id \in Nat /\ save.reply \in Nat
           /\ queue \subseteq ItemRecord /\ ed \in EditorState /\ save \in SaveState /\ del \in DeleteState
           /\ save.pc # "idle" => wants # {} /\ Editing
  BY NaturalBounds
     DEF Shape, Following, TypeOK, PushState, InPush, Items, PushShape, IdsGiven, IdsKnown, Creates, RowsGiven,
         EditorState, SaveState, DeleteState, SaveShape, Editing

\* Only a delete makes an item of the temp id that is not a create.
LEMMA PoisonStep ==
    ASSUME Shape, Shape', Next, Following, ~past'.dropped, ~past'.cut, Poisoned'
    PROVE  Poisoned \/ (EnqueueDelete /\ del.id = Temp)
<1> SUFFICES ASSUME ~Poisoned, ~(EnqueueDelete /\ del.id = Temp) PROVE FALSE
  OBVIOUS
<1>1. /\ FewRetries /\ queue \subseteq ItemRecord /\ ed \in EditorState /\ save \in SaveState /\ del \in DeleteState
      /\ \A e \in local : e.isLocal <=> e.id = Temp
  BY FollowingFacts
<1>2. PICK q \in Items' : q.id = Temp /\ q.operation # "create"
  BY DEF Poisoned
<1>3. \A p \in Items : p.id = Temp => p.operation = "create"
  BY DEF Poisoned
<1>4. ~SameItems
  BY <1>2, <1>3 DEF SameItems, Alike
<1>5. ~(Items' \subseteq Items)
  BY <1>2, <1>3
<1>6. ~EnqueueEvent
  <2> SUFFICES ASSUME EnqueueEvent PROVE FALSE
    OBVIOUS
  <2>1. Items = queue /\ Items' = enqueueOperation(SavedItem)
    BY EnqueueItems
  <2>2. /\ SavedItem \in ItemRecord /\ SavedItem.id = SavedId
        /\ SavedItem.operation = IF save.isLocal THEN "create" ELSE "update"
    BY <1>1, SavedMore
  <2>3. q \in queue \/ EnqueuedFor(q, SavedItem)
    BY <1>1, <1>2, <2>1, <2>2, EnqueueMore
  <2>4. EnqueuedFor(q, SavedItem) /\ SavedId = Temp
    BY <1>2, <1>3, <2>1, <2>2, <2>3 DEF EnqueuedFor
  <2>5. SavedItem.operation = "create"
    BY <2>2, <2>4 DEF EnqueueEvent, Shape, SaveShape
  <2> QED
    BY <1>2, <1>3, <2>1, <2>2, <2>4, <2>5 DEF EnqueuedFor
<1>7. ~EnqueueDelete
  <2> SUFFICES ASSUME EnqueueDelete PROVE FALSE
    OBVIOUS
  <2>1. Items = queue /\ Items' = enqueueOperation(DeleteItem)
    BY EnqueueItems
  <2>2. DeleteItem \in ItemRecord /\ DeleteItem.id = del.id /\ del.id # Temp
    BY <1>1, DeleteFacts
  <2>3. q \in queue \/ EnqueuedFor(q, DeleteItem)
    BY <1>1, <1>2, <2>1, <2>2, EnqueueMore
  <2> QED
    BY <1>2, <1>3, <2>1, <2>2, <2>3 DEF EnqueuedFor
<1> QED
  BY <1>1, <1>4, <1>5, <1>6, <1>7, ItemsStep

LEMMA TempGoneStep ==
    ASSUME Shape, Shape', Next, Following, ~past'.dropped, ~past'.cut
    PROVE  TempGone'
<1>1. TypeOK' /\ TempGone /\ Fresh
  BY DEF Shape, Following
<1> SUFFICES ASSUME HasTemp'
             PROVE  ~Poisoned' /\ ~(del'.pc = "enqueue" /\ del'.id = Temp) /\ save'.pc # "unqueue"
  BY DEF TempGone
<1>2. ~SwapEventId /\ ~ResolveEvent /\ (HasTemp \/ (WriteEvent /\ ~ed.created))
  BY <1>1, TempStep
<1>3. CASE WriteEvent /\ ~ed.created
  <2>1. queue = {} /\ push.pc = "idle" /\ del.pc = "idle"
    <3>1. save.pc = "write" /\ Editing
      BY <1>3, FollowingFacts DEF WriteEvent
    <3> QED
      BY <1>1, <1>3, <3>1 DEF Fresh, Making
  <2>2. queue' = queue /\ push' = push /\ del' = del
    BY <1>3 DEF WriteEvent
  <2>3. save'.pc \in {"enqueue", "keep"}
    BY <1>3, FollowingFacts, WriteSave DEF TypeOK
  <2> QED
    BY <2>1, <2>2, <2>3 DEF Poisoned, Items
<1>4. CASE HasTemp
  <2>1. ~Poisoned /\ ~(del.pc = "enqueue" /\ del.id = Temp) /\ save.pc # "unqueue"
    BY <1>1, <1>4 DEF TempGone
  <2>2. ~Poisoned'
    BY <1>4, <2>1, PoisonStep DEF EnqueueDelete
  <2>3. save'.pc # "unqueue"
    BY <1>2, <2>1, FollowingFacts, SaveChange
  <2>4. ~(del'.pc = "enqueue" /\ del'.id = Temp)
    <3> SUFFICES ASSUME del'.pc = "enqueue", del'.id = Temp PROVE FALSE
      OBVIOUS
    <3>1. deleteEventOffline /\ del.id = Temp
      BY <2>1, FollowingFacts, DeleteIdStep
    <3>2. \E e \in WithId(local, del.id) : e.isLocal
      BY <1>4, <3>1, FollowingFacts DEF HasTemp, WithId
    <3>3. del' = [del EXCEPT !.pc = "done"]
      BY <3>1, <3>2 DEF deleteEventOffline
    <3> QED
      BY <3>3, FollowingFacts DEF DeleteState
  <2> QED
    BY <2>2, <2>3, <2>4
<1> QED
  BY <1>2, <1>3, <1>4

\* Rows go forward.
LEMMA RowsForward ==
    ASSUME Shape, Shape', Next, Following, ~past'.dropped, NEW s \in srv'
    PROVE  \/ \E r \in srv : r.id = s.id /\ r.at <= s.at
           \/ s.id = made + 1 /\ made' = made + 1
<1>1. FewRetries /\ TypeOK
  BY FollowingFacts
<1>2. CASE \E r \in srv : r.id = s.id /\ r.at = s.at
  BY <1>1, <1>2 DEF TypeOK, Row
<1>3. CASE /\ processEventOperation
           /\ \E q \in push.todo : Changed(q) /\ q.operation = "update" /\ s.id = q.id /\ s.at = q.at
           /\ \E r \in srv : r.id = s.id
  <2>1. PICK q \in push.todo : q.operation = "update" /\ s.id = q.id /\ s.at = q.at
    BY <1>3
  <2>2. PICK r \in srv : r.id = s.id
    BY <1>3
  <2>3. q \in Items
    BY <1>3 DEF processEventOperation, Items, InPush
  <2>4. r.at <= q.at
    BY <2>1, <2>2, <2>3 DEF Following, ServerForward
  <2> QED
    BY <2>1, <2>2, <2>4
<1> QED
  BY <1>1, <1>2, <1>3, RowStep

LEMMA ItemsForwardStep ==
    ASSUME Shape, Shape', Next, Following, ~past'.dropped, ~past'.cut,
           NEW k \in Items', NEW s \in srv', k.id = s.id, k.operation = "update"
    PROVE  s.at <= k.at
<1>1. /\ FewRetries /\ queue \subseteq ItemRecord /\ ed \in EditorState /\ save \in SaveState /\ del \in DeleteState
      /\ made \in Nat /\ \A r \in srv : r.id <= made
      /\ Unique(Items) /\ \A q \in Items : q.id <= made
  BY FollowingFacts
<1>2. \A q \in Items, r \in srv : q.id = r.id /\ q.operation = "update" => r.at <= q.at
  BY DEF Following, ServerForward
<1>3. CASE EnqueueEvent
  <2>1. Items = queue /\ Items' = enqueueOperation(SavedItem)
    BY <1>3, EnqueueItems
  <2>2. SavedItem \in ItemRecord /\ SavedItem.at = save.at
    BY <1>1, SavedMore
  <2>3. k \in queue \/ k.at = save.at
    BY <1>1, <2>1, <2>2, EnqueueMore DEF EnqueuedFor
  <2>4. s \in srv
    BY <1>3 DEF EnqueueEvent
  <2>5. s.at <= save.at
    BY <1>3, <2>4 DEF EnqueueEvent, Following, Latest, NoneAfter
  <2> QED
    BY <1>2, <2>1, <2>3, <2>4, <2>5
<1>4. CASE EnqueueDelete
  <2>1. Items = queue /\ Items' = enqueueOperation(DeleteItem)
    BY <1>4, EnqueueItems
  <2>2. DeleteItem \in ItemRecord /\ DeleteItem.operation = "delete"
    BY <1>1, DeleteFacts
  <2>3. k \in queue
    BY <1>1, <2>1, <2>2, EnqueueMore DEF EnqueuedFor
  <2>4. s \in srv
    BY <1>4 DEF EnqueueDelete
  <2> QED
    BY <1>2, <2>1, <2>3, <2>4
<1>5. CASE \E p \in Items, r \in srv : Alike(k, p) /\ r.id = s.id /\ r.at = s.at
  BY <1>2, <1>5 DEF Alike
<1>6. CASE ~EnqueueEvent /\ ~EnqueueDelete
  <2>1. \E p \in Items : Alike(k, p)
    <3>1. SameItems \/ Items' \subseteq Items
      BY <1>1, <1>6, ItemsStep
    <3>2. Alike(k, k)
      BY DEF Alike
    <3> QED
      BY <3>1, <3>2 DEF SameItems
  <2>2. k.id <= made
    BY <1>1, <2>1 DEF Alike
  <2>3. CASE s.id = made + 1
    BY <1>1, <2>2, <2>3
  <2>4. CASE \E r \in srv : r.id = s.id /\ r.at = s.at
    BY <1>5, <2>1, <2>4
  <2>5. CASE processEventOperation /\ \E q \in push.todo : Changed(q) /\ s.id = q.id /\ s.at = q.at
    <3>1. PICK q \in push.todo : Changed(q) /\ s.id = q.id /\ s.at = q.at
      BY <2>5
    <3>2. Items = InPush
      BY <1>1, <2>5, ItemsStep
    <3>3. PICK p \in Items : Alike(k, p)
      BY <2>1
    <3>4. p = q
      BY <1>1, <3>1, <3>2, <3>3 DEF Alike, Unique, InPush
    <3>5. s.at = k.at
      BY <3>1, <3>3, <3>4 DEF Alike
    <3>6. k.at \in Nat
      BY DEF Shape, TypeOK, PushState, Items, InPush, ItemRecord
    <3> QED
      BY <3>5, <3>6
  <2> QED
    BY <1>1, <2>3, <2>4, <2>5, RowStep
<1> QED
  BY <1>3, <1>4, <1>6

LEMMA ServerForwardStep ==
    ASSUME Shape, Shape', Next, Following, ~past'.dropped, ~past'.cut
    PROVE  ServerForward'
<1>1. /\ TypeOK /\ FewRetries /\ ServerForward /\ made \in Nat /\ \A r \in srv : r.id <= made
      /\ srv' \subseteq Row /\ srv \subseteq Row /\ full.seen \subseteq Row /\ full'.seen \subseteq Row
      /\ save.at \in Nat /\ save'.at \in Nat
  BY FollowingFacts DEF Following, Shape, TypeOK, FullState, SaveState
<1>2. \A q \in Items', s \in srv' : q.id = s.id /\ q.operation = "update" => s.at <= q.at
  BY ItemsForwardStep
<1>3. \A f \in full'.seen, s \in srv' : f.id = s.id => f.at <= s.at
  <2> SUFFICES ASSUME NEW f \in full'.seen, NEW s \in srv', f.id = s.id PROVE f.at <= s.at
    OBVIOUS
  <2>1. CASE f \in srv /\ srv' = srv
    <3>1. f = s
      BY <2>1 DEF Shape, IdsGiven, RowsGiven, Unique
    <3> QED
      BY <1>1, <3>1 DEF Row
  <2>2. CASE f \in full.seen
    <3>1. f.id <= made
      BY <2>2 DEF Shape, IdsGiven, RowsGiven
    <3>2. PICK r \in srv : r.id = s.id /\ r.at <= s.at
      BY <1>1, <3>1, RowsForward
    <3>3. f.at <= r.at
      BY <1>1, <2>2, <3>2 DEF ServerForward
    <3> QED
      BY <1>1, <3>2, <3>3 DEF Row
  <2> QED
    BY <1>1, <2>1, <2>2, SeenStep
<1>4. ASSUME push'.pc = "swap", NEW s \in srv', s.id = push'.reply PROVE push'.item.at <= s.at
  <2>1. push'.item.at \in Nat
    BY DEF Shape, TypeOK, PushState, ItemRecord
  <2>2. CASE push' = push
    <3>1. push.reply <= made
      BY <1>4, <2>2 DEF Shape, PushShape
    <3>2. PICK r \in srv : r.id = s.id /\ r.at <= s.at
      BY <1>1, <1>4, <2>2, <3>1, RowsForward
    <3>3. push.item.at <= r.at
      BY <1>1, <1>4, <2>2, <3>2 DEF ServerForward
    <3> QED
      BY <1>1, <2>1, <2>2, <3>2, <3>3 DEF Row
  <2>3. CASE processEventOperation
    <3>1. PICK q \in push.todo : Sent(q)
      BY <1>1, <1>4, <2>3, OperationStep DEF Changed, Failed
    <3>2. push'.item = q /\ push'.reply = made + 1 /\ srv' = srv \cup {[id |-> made + 1, at |-> q.at]}
      BY <1>4, <3>1 DEF Sent
    <3>3. s \notin srv
      BY <1>1, <1>4, <3>2
    <3> QED
      BY <2>1, <3>2, <3>3
  <2>4. push' = push \/ processEventOperation
    <3>1. SwapEventId /\ ItemDone(push.item) => push'.pc = "next"
      BY <1>1, ItemLeaves DEF Shape, PushShape, SwapEventId
    <3>2. push' = IdlePush => push'.pc = "idle"
      BY DEF IdlePush
    <3> QED
      BY <1>1, <1>4, <3>1, <3>2, PushChange
  <2> QED
    BY <2>2, <2>3, <2>4
<1>5. ASSUME save'.pc = "resolve", NEW s \in srv', s.id = save'.reply PROVE save'.at <= s.at
  <2>1. CASE save' = save
    <3>1. save.reply <= made
      BY <1>5, <2>1 DEF Shape, SaveShape
    <3>2. PICK r \in srv : r.id = s.id /\ r.at <= s.at
      BY <1>1, <1>5, <2>1, <3>1, RowsForward
    <3>3. save.at <= r.at
      BY <1>1, <1>5, <2>1, <3>2 DEF ServerForward
    <3> QED
      BY <1>1, <2>1, <3>2, <3>3 DEF Row
  <2>2. CASE PostEvent /\ save'.reply = made + 1 /\ made' = made + 1
    <3>1. save'.at = save.at
      BY <1>1, <1>5, <2>2, SaveAtStep DEF PostEvent
    <3>2. srv' = srv \cup {[id |-> made + 1, at |-> save.at]}
      BY <1>1, <2>2 DEF PostEvent
    <3>3. s \notin srv
      BY <1>1, <1>5, <2>2
    <3> QED
      BY <1>1, <3>1, <3>2, <3>3
  <2> QED
    BY <1>1, <1>5, <2>1, <2>2, SaveChange
<1> QED
  BY <1>2, <1>3, <1>4, <1>5 DEF ServerForward

\* What a save enqueues, and what becomes of the items that wait.
LEMMA SaveEnqueues ==
    ASSUME Shape, Next, Following, ~past'.dropped, EnqueueEvent
    PROVE  /\ \A q \in Items : q.id # SavedId => q \in Items'
           /\ \A q \in Items : q.id = SavedId =>
                  \E k \in Items' : k.id = SavedId /\ k.operation = q.operation /\ k.at = save.at /\ q.at <= k.at
           /\ \E k \in Items' :
                  /\ k.id = SavedId /\ k.at = save.at
                  /\ \/ \E q \in Items : q.id = SavedId /\ k.operation = q.operation
                     \/ k.operation = IF SavedId = Temp THEN "create" ELSE "update"
           /\ (Making' => Making)
<1>1. /\ queue \subseteq ItemRecord /\ ed \in EditorState /\ save \in SaveState
      /\ \A e \in local : e.isLocal <=> e.id = Temp
  BY FollowingFacts
<1>2. Items = queue /\ Items' = enqueueOperation(SavedItem)
  BY EnqueueItems
<1>3. /\ SavedItem \in ItemRecord /\ SavedItem.id = SavedId /\ SavedItem.at = save.at
      /\ SavedItem.operation = IF save.isLocal THEN "create" ELSE "update"
  BY <1>1, SavedMore
<1>4. SavedItem.operation = IF SavedId = Temp THEN "create" ELSE "update"
  BY <1>3 DEF EnqueueEvent, Shape, SaveShape
<1>5. \A q \in queue : q.at <= save.at
  BY DEF EnqueueEvent, Following, Latest, NoneAfter
<1>6. \A q \in queue : q.id # SavedId => q \in Items'
  BY <1>1, <1>2, <1>3, EnqueueMore
<1>7. \A q \in queue : q.id = SavedId =>
          \E k \in Items' : k.id = SavedId /\ k.operation = q.operation /\ k.at = save.at /\ q.at <= k.at
  <2> SUFFICES ASSUME NEW q \in queue, q.id = SavedId
               PROVE  \E k \in Items' : k.id = SavedId /\ k.operation = q.operation /\ k.at = save.at /\ q.at <= k.at
    OBVIOUS
  <2>1. SavedItem.operation # "delete"
    BY <1>4
  <2>2. PICK k \in enqueueOperation(SavedItem) : k.id = SavedId /\ k.at = save.at /\ k.operation = q.operation
    BY <1>1, <1>3, <2>1, EnqueueMore
  <2> QED
    BY <1>2, <1>5, <2>2
<1>8. CASE WithId(queue, SavedId) = {}
  <2>1. SavedItem \in Items'
    BY <1>1, <1>2, <1>3, <1>8, EnqueueMore
  <2>2. Making' => Making
    BY <1>1, SaveChange, FollowingFacts DEF EnqueueEvent, Making, SaveMoves, WriteEvent, PostEvent, ResolveEvent, UnqueueEvent
  <2> QED
    BY <1>2, <1>3, <1>4, <1>6, <1>7, <2>1, <2>2
<1>9. CASE WithId(queue, SavedId) # {}
  <2>1. \E q \in queue : q.id = SavedId
    BY <1>9 DEF WithId
  <2>2. Making' => Making
    BY <1>1, SaveChange, FollowingFacts DEF EnqueueEvent, Making, SaveMoves, WriteEvent, PostEvent, ResolveEvent, UnqueueEvent
  <2> QED
    BY <1>2, <1>6, <1>7, <2>1, <2>2
<1> QED
  BY <1>8, <1>9

\* A save that is about to enqueue stays so, with the same id, till it does.
LEMMA SaveWaits ==
    ASSUME Shape, Next, Following, ~past'.cut, save.pc = "enqueue", ~EnqueueEvent
    PROVE  save' = save /\ ed'.id = ed.id
<1>1. TypeOK /\ past \in History /\ wants # {}
  BY FollowingFacts DEF TypeOK
<1>2. ~Killed /\ ~loadEvent
  BY <1>1, KilledAtRest DEF loadEvent
<1>3. save' = save
  BY <1>1, <1>2, SaveChange DEF SaveEnds, SaveFails, WriteEvent
<1> QED
  BY <1>1, <1>2, <1>3, EditorChange DEF PostEvent, UnqueueEvent

LEMMA NewStaysCovered ==
    ASSUME Shape, Shape', Next, Following, ~past'.dropped, ~past'.cut, HasTemp, HasTemp', NEW t \in Nat, NewCovered(t)
    PROVE  NewCovered(t)'
<1>1. /\ TypeOK' /\ FewRetries /\ TempGone /\ Items \subseteq ItemRecord /\ save.at \in Nat
      /\ \A q \in Creates(Items) : q.id = Temp
  BY FollowingFacts DEF Shape, Following
<1>2. ~Poisoned /\ ~(EnqueueDelete /\ del.id = Temp) /\ ~UnqueueEvent /\ ~SwapEventId
  BY <1>1, TempStep DEF TempGone, EnqueueDelete, UnqueueEvent
<1>3. \A q \in Items : q.id = Temp => q.operation = "create"
  BY <1>2 DEF Poisoned
<1>4. ASSUME EnqueueEvent, SavedId = Temp, t <= save.at PROVE NewCovered(t)'
  <2>1. PICK k \in Items' : /\ k.id = SavedId /\ k.at = save.at
                            /\ \/ \E q \in Items : q.id = SavedId /\ k.operation = q.operation
                               \/ k.operation = IF SavedId = Temp THEN "create" ELSE "update"
    BY <1>4, SaveEnqueues
  <2>2. k.operation = "create"
    BY <1>3, <1>4, <2>1
  <2> QED
    BY <1>4, <2>1, <2>2 DEF NewCovered, Creates
<1>5. CASE save.pc = "enqueue" /\ (save.new \/ ed.id = Temp) /\ t <= save.at
  <2>1. CASE EnqueueEvent
    BY <1>4, <1>5, <2>1 DEF SavedId
  <2>2. CASE ~EnqueueEvent
    BY <1>5, <2>2, SaveWaits DEF NewCovered
  <2> QED
    BY <2>1, <2>2
<1>6. CASE \E q \in Creates(Items) : t <= q.at
  <2>1. PICK q \in Items : q.operation = "create" /\ t <= q.at /\ q.id = Temp
    BY <1>1, <1>6 DEF Creates
  <2>2. q.at \in Nat
    BY <1>1, <2>1 DEF ItemRecord
  <2>3. CASE EnqueueEvent
    <3>1. CASE SavedId = Temp
      <4>1. PICK k \in Items' : k.id = SavedId /\ k.operation = q.operation /\ k.at = save.at /\ q.at <= k.at
        BY <2>1, <2>3, <3>1, SaveEnqueues
      <4>2. t <= save.at
        BY <1>1, <2>1, <2>2, <4>1
      <4> QED
        BY <1>4, <2>3, <3>1, <4>2
    <3>2. CASE SavedId # Temp
      BY <2>1, <2>3, <3>2, SaveEnqueues DEF NewCovered, Creates
    <3> QED
      BY <3>1, <3>2
  <2>4. CASE EnqueueDelete
    <3>1. Items = queue /\ Items' = enqueueOperation(DeleteItem)
      BY <2>4, EnqueueItems
    <3>2. DeleteItem \in ItemRecord /\ DeleteItem.id = del.id /\ queue \subseteq ItemRecord
      BY FollowingFacts, DeleteFacts
    <3>3. q \in Items'
      BY <1>2, <2>1, <2>4, <3>1, <3>2, EnqueueMore
    <3> QED
      BY <2>1, <3>3 DEF NewCovered, Creates
  <2>5. CASE q \in Items'
    BY <2>1, <2>5 DEF NewCovered, Creates
  <2>6. CASE SameItems
    <3>1. PICK k \in Items' : Alike(k, q)
      BY <2>1, <2>6 DEF SameItems
    <3> QED
      BY <2>1, <3>1 DEF NewCovered, Creates, Alike
  <2>7. ASSUME ~EnqueueEvent, ~EnqueueDelete PROVE q \in Items' \/ SameItems
    <3>1. \A o : Changed(o) => o.operation # "create"
      BY DEF Changed
    <3>2. deleteEventOffline => Items' = Items
      BY <1>1, <1>2, ItemsStep
    <3> QED
      BY <1>1, <1>2, <2>1, <2>7, <3>1, <3>2, ItemsStep
  <2> QED
    BY <2>3, <2>4, <2>5, <2>6, <2>7
<1> QED
  BY <1>5, <1>6 DEF NewCovered

LEMMA OldStaysCovered ==
    ASSUME Shape, Shape', Next, Following, ~past'.dropped, ~past'.cut,
           NEW i \in Nat, i # Temp, i <= made, NEW t \in Nat, OldCovered(i, t)
    PROVE  OldCovered(i, t)'
<1>1. /\ TypeOK /\ TypeOK' /\ FewRetries /\ Items \subseteq ItemRecord /\ save.at \in Nat /\ made \in Nat
      /\ srv \subseteq Row /\ srv' \subseteq Row
      /\ \A q \in Creates(Items) : q.id = Temp
  BY FollowingFacts DEF Shape, TypeOK
<1>2. CASE \A r \in srv : r.id = i => t <= r.at
  <2>1. ASSUME NEW s \in srv', s.id = i PROVE t <= s.at
    <3>1. PICK r \in srv : r.id = i /\ r.at <= s.at
      BY <1>1, <2>1, RowsForward
    <3> QED
      BY <1>1, <1>2, <3>1 DEF Row
  <2> QED
    BY <2>1 DEF OldCovered
<1>3. CASE save.pc = "enqueue" /\ ~save.new /\ t <= save.at /\ ed.id = i
  <2>1. CASE EnqueueEvent
    <3>1. PICK k \in Items' : k.id = SavedId /\ k.at = save.at
      BY <2>1, SaveEnqueues
    <3> QED
      BY <1>3, <3>1 DEF OldCovered, SavedId
  <2>2. CASE ~EnqueueEvent
    BY <1>3, <2>2, SaveWaits DEF OldCovered
  <2> QED
    BY <2>1, <2>2
<1>4. CASE \E q \in Items : q.id = i /\ (q.operation = "delete" \/ t <= q.at)
  <2>1. PICK q \in Items : q.id = i /\ (q.operation = "delete" \/ t <= q.at)
    BY <1>4
  <2>2. q.operation # "create" /\ q.at \in Nat
    BY <1>1, <2>1 DEF Creates, ItemRecord
  <2>3. CASE EnqueueEvent
    <3>1. CASE SavedId = i
      <4>1. PICK k \in Items' : k.id = SavedId /\ k.operation = q.operation /\ k.at = save.at /\ q.at <= k.at
        BY <2>1, <2>3, <3>1, SaveEnqueues
      <4>2. t <= q.at => t <= k.at
        BY <1>1, <2>2, <4>1
      <4> QED
        BY <2>1, <3>1, <4>1, <4>2 DEF OldCovered
    <3>2. CASE SavedId # i
      BY <2>1, <2>3, <3>2, SaveEnqueues DEF OldCovered
    <3> QED
      BY <3>1, <3>2
  <2>4. CASE EnqueueDelete
    <3>1. Items = queue /\ Items' = enqueueOperation(DeleteItem)
      BY <2>4, EnqueueItems
    <3>2. /\ DeleteItem \in ItemRecord /\ DeleteItem.id = del.id /\ DeleteItem.operation = "delete"
          /\ queue \subseteq ItemRecord
      BY FollowingFacts, DeleteFacts
    <3>3. CASE del.id = i
      <4>1. PICK k \in enqueueOperation(DeleteItem) : k.id = i /\ k.operation = "delete"
        BY <2>1, <2>2, <3>1, <3>2, <3>3, EnqueueMore
      <4> QED
        BY <3>1, <4>1 DEF OldCovered
    <3>4. CASE del.id # i
      <4>1. q \in Items'
        BY <2>1, <3>1, <3>2, <3>4, EnqueueMore
      <4> QED
        BY <2>1, <4>1 DEF OldCovered
    <3> QED
      BY <3>3, <3>4
  <2>5. CASE q \in Items'
    BY <2>1, <2>5 DEF OldCovered
  <2>6. CASE SameItems
    <3>1. PICK k \in Items' : Alike(k, q)
      BY <2>1, <2>6 DEF SameItems
    <3> QED
      BY <2>1, <3>1 DEF OldCovered, Alike
  <2>7. CASE Changed(q)
    <3>1. \A s \in srv' : s.id = i => q.operation = "update" /\ s.at = q.at
      BY <2>1, <2>7 DEF Changed
    <3> QED
      BY <2>1, <3>1 DEF OldCovered
  <2>8. ASSUME ~EnqueueEvent, ~EnqueueDelete PROVE q \in Items' \/ SameItems \/ Changed(q)
    <3>1. SwapEventId => push.item # q
      BY <2>2 DEF SwapEventId, Shape, PushShape
    <3> QED
      BY <1>1, <2>1, <2>8, <3>1, ItemsStep
  <2> QED
    BY <2>3, <2>4, <2>5, <2>6, <2>7, <2>8
<1> QED
  BY <1>2, <1>3, <1>4 DEF OldCovered

\* What is written is about to be enqueued.
LEMMA WrittenCovered ==
    ASSUME Shape, Shape', Next, Following, WriteEvent, NEW e \in local',
           e.updated_at = ed.draft, IF ed.created THEN e.id = ed.id ELSE e.id = Temp
    PROVE  IF e.id = Temp THEN NewCovered(e.updated_at)' ELSE OldCovered(e.id, e.updated_at)'
<1>1. TypeOK /\ save \in SaveState /\ ed.draft \in Nat
  BY FollowingFacts DEF TypeOK, EditorState
<1>2. ed.created => WithId(local, ed.id) # {}
  BY <1>1, WriteFacts DEF WithId, Like
<1>3. save'.pc = "enqueue" /\ save'.at = ed.draft /\ (save'.new <=> ~ed.created) /\ ed' = ed
  <2>1. ed \in EditorState /\ ed' = ed
    BY <1>1 DEF TypeOK, WriteEvent
  <2> QED
    BY <1>1, <1>2, <2>1, WriteSave DEF isNew
<1>4. CASE e.id = Temp
  BY <1>1, <1>3, <1>4 DEF NewCovered
<1>5. CASE e.id # Temp
  BY <1>1, <1>3, <1>5 DEF OldCovered
<1> QED
  BY <1>4, <1>5

\* The record of a create that was sent has its edit on the server: no edit of
\* it is on its way, or the swap is noted.
LEMMA SwappedCovered ==
    ASSUME Shape, Shape', Next, Following, ~past'.stale, ~past'.dropped, ~past'.cut, SwapEventId,
           HasTemp, NEW i, i = push.reply, NEW t \in Nat, NewCovered(t)
    PROVE  OldCovered(i, t)'
<1>1. /\ TypeOK /\ TypeOK' /\ FewRetries /\ Unique(Items) /\ \A q \in Creates(Items) : q.id = Temp
      /\ srv \subseteq Row /\ ServerForward
  BY FollowingFacts DEF Shape, Following, TypeOK
<1>2. push.pc = "swap" /\ push.item \in push.todo /\ push.item.operation = "create" /\ push.item \in ItemRecord
  BY DEF SwapEventId, Shape, PushShape, TypeOK, PushState
<1>3. Items = InPush /\ Items' = Items \ {push.item}
  BY <1>1, ItemsStep
<1>4. push.item \in Creates(Items)
  BY <1>2, <1>3 DEF InPush, Creates
<1>5. \A q \in Creates(Items) : q = push.item
  BY <1>1, <1>4 DEF Unique, Creates
<1>6. srv' = srv /\ save' = save /\ ed' = ed
  BY DEF SwapEventId
<1>7. CASE \E q \in Creates(Items) : t <= q.at
  <2>1. t <= push.item.at /\ push.item.at \in Nat
    BY <1>2, <1>5, <1>7 DEF ItemRecord
  <2>2. \A r \in srv : r.id = push.reply => push.item.at <= r.at
    BY <1>1, <1>2 DEF ServerForward
  <2>3. \A r \in srv : r.id = push.reply => t <= r.at
    BY <1>1, <2>1, <2>2 DEF Row
  <2> QED
    BY <1>6, <2>3 DEF OldCovered
<1>8. ~(save.pc = "enqueue" /\ (save.new \/ ed.id = Temp))
  BY SwapExcused DEF Shape, TypeOK, SaveShape, SavedId
<1> QED
  BY <1>7, <1>8 DEF NewCovered

LEMMA CoveredStep ==
    ASSUME Shape, Shape', Next, Following, ~past'.stale, ~past'.dropped, ~past'.cut
    PROVE  Covered'
<1> SUFFICES ASSUME NEW e \in local', ~e.pendingDelete
             PROVE  IF e.id = Temp THEN NewCovered(e.updated_at)' ELSE OldCovered(e.id, e.updated_at)'
  BY DEF Covered
<1>1. /\ TypeOK /\ TypeOK' /\ Covered /\ ServerForward /\ made \in Nat
      /\ local \subseteq EventRecord /\ local' \subseteq EventRecord
      /\ \A d \in local : (d.isLocal <=> d.id = Temp) /\ d.id <= made
  BY FollowingFacts DEF Shape, TypeOK, Following, IdsGiven
<1>2. PICK t \in Nat : t = e.updated_at
  BY <1>1 DEF EventRecord
<1>3. PICK i \in Nat : i = e.id
  BY <1>1 DEF EventRecord
<1>4. CASE \E d \in local : e.id = d.id /\ SameEdit(e, d)
  <2>1. PICK d \in local : d.id = i /\ d.updated_at = t /\ ~d.pendingDelete
    BY <1>2, <1>3, <1>4 DEF SameEdit
  <2>2. CASE i = Temp
    <3>1. HasTemp /\ HasTemp' /\ NewCovered(t)
      BY <1>1, <1>3, <2>1, <2>2 DEF HasTemp, Covered
    <3>2. NewCovered(t)'
      BY <3>1, NewStaysCovered
    <3> QED
      BY <1>2, <1>3, <2>2, <3>2 DEF NewCovered
  <2>3. CASE i # Temp
    <3>1. OldCovered(i, t) /\ i <= made
      BY <1>1, <2>1, <2>3 DEF Covered
    <3>2. OldCovered(i, t)'
      BY <2>3, <3>1, OldStaysCovered
    <3> QED
      BY <1>2, <1>3, <2>3, <3>2 DEF OldCovered
  <2> QED
    BY <2>2, <2>3
<1>5. CASE WriteEvent /\ e.updated_at = ed.draft /\ IF ed.created THEN e.id = ed.id ELSE e.id = Temp
  BY <1>5, WrittenCovered
<1>6. CASE ResolveEvent /\ e.id = save.reply /\ e.updated_at = save.at
  <2>1. save.pc = "resolve" /\ srv' = srv
    BY <1>6 DEF ResolveEvent
  <2>2. 1 <= save.reply /\ \A r \in srv : r.id = save.reply => save.at <= r.at
    BY <1>1, <2>1 DEF ServerForward, Shape, SaveShape
  <2>3. e.id # Temp
    BY <1>6, <2>2 DEF Temp
  <2> QED
    BY <1>6, <2>1, <2>2, <2>3 DEF OldCovered
<1>7. CASE SwapEventId /\ e.id = push.reply /\ \E d \in local : d.id = push.item.id /\ SameEdit(e, d)
  <2>1. PICK d \in local : d.id = push.item.id /\ d.updated_at = t /\ ~d.pendingDelete
    BY <1>2, <1>7 DEF SameEdit
  <2>2. push.item.id = Temp /\ 1 <= push.reply
    BY <1>7 DEF SwapEventId, Shape, PushShape, IdsGiven, Creates, InPush
  <2>3. HasTemp /\ NewCovered(t)
    BY <1>1, <2>1, <2>2 DEF HasTemp, Covered
  <2>4. OldCovered(i, t)'
    BY <1>3, <1>7, <2>3, SwappedCovered
  <2>5. e.id # Temp
    BY <1>7, <2>2 DEF Temp
  <2> QED
    BY <1>2, <1>3, <2>4, <2>5 DEF OldCovered
<1>8. CASE MergeEvents /\ \E r \in full.seen : e.id = r.id /\ e.updated_at = r.at
  <2>1. PICK f \in full.seen : e.id = f.id /\ e.updated_at = f.at
    BY <1>8
  <2>2. srv' = srv
    BY <1>8 DEF MergeEvents
  <2>3. \A r \in srv : r.id = f.id => f.at <= r.at
    BY <1>1 DEF ServerForward
  <2>4. e.id # Temp
    BY <2>1 DEF Shape, IdsGiven, RowsGiven, Temp
  <2> QED
    BY <2>1, <2>2, <2>3, <2>4 DEF OldCovered
<1> QED
  BY <1>1, <1>4, <1>5, <1>6, <1>7, <1>8, RecordStep

LEMMA CarriedStep ==
    ASSUME Shape, Shape', CarriedInv, Next
    PROVE  CarriedInv'
<1> SUFFICES ASSUME ~past'.stale, ~past'.dropped, ~past'.cut PROVE Following'
  BY DEF CarriedInv
<1>1. past \in History
  BY DEF Shape, TypeOK
<1>2. Following
  BY <1>1, PastGrows DEF CarriedInv
<1>3. FewRetries
  BY <1>2 DEF Following
<1>4. FewRetries'
  BY <1>3, ItemSource DEF FewRetries
<1> QED
  BY <1>2, <1>4, LatestStep, IdsKnownStep, FreshStep, TempGoneStep, ServerForwardStep, CoveredStep DEF Following

LEMMA ShapeStays ==
    ASSUME Shape, UNCHANGED vars
    PROVE  Shape'
  BY DEF vars, Shape, TypeOK, IdsGiven, RowsGiven, PushShape, SaveShape, SavedId, Stage, Nothing, NoCreates,
         Creates, InPush, Making

LEMMA CarriedStays ==
    ASSUME Shape, CarriedInv, UNCHANGED vars
    PROVE  CarriedInv'
  BY DEF vars, CarriedInv, Following, FewRetries, Latest, NoneAfter, IdsKnown, Fresh, Editing, Making, TempGone,
         Poisoned, Items, InPush, HasTemp, ServerForward, Covered, NewCovered, OldCovered, Creates

\* With nothing queued and nobody at work the server has every edit the device
\* shows, or a newer one, whatever the editor's own POST, the push, its retries,
\* the id swap and the pulls did, unless an item failed once too often or was
\* enqueued while a push ran, the write of an edit overlapped the swap of the
\* temp id, or the app was killed in the middle.
THEOREM EditsCarried == Spec => []EventsCarried
<1>1. Init => Shape /\ CarriedInv
  <2> SUFFICES ASSUME Init PROVE Shape /\ CarriedInv
    OBVIOUS
  <2>1. Shape
    BY ShapeInit
  <2>2. /\ now = 0 /\ srv = {} /\ local = {} /\ queue = {} /\ full.seen = {} /\ push.pc = "idle" /\ InPush = {}
        /\ save.pc = "idle" /\ del.pc = "idle" /\ wants = {} /\ ed.draft = 0 /\ ed.saved = 0 /\ ~ed.created
    BY DEF Init, IdleFull, IdlePush, IdleSave, IdleDel, Closed, InPush
  <2>3. FewRetries /\ Latest /\ IdsKnown /\ Fresh
    BY <2>2 DEF FewRetries, Latest, NoneAfter, IdsKnown, Fresh
  <2>4. TempGone /\ ServerForward /\ Covered
    BY <2>2 DEF TempGone, Poisoned, Items, ServerForward, Covered
  <2> QED
    BY <2>1, <2>3, <2>4 DEF CarriedInv, Following
<1>2. Shape /\ CarriedInv /\ [Next]_vars => Shape' /\ CarriedInv'
  <2> SUFFICES ASSUME Shape, CarriedInv, [Next]_vars PROVE Shape' /\ CarriedInv'
    OBVIOUS
  <2>1. CASE Next
    <3>1. Shape'
      BY <2>1, ShapeStep
    <3> QED
      BY <2>1, <3>1, CarriedStep
  <2>2. CASE UNCHANGED vars
    BY <2>2, ShapeStays, CarriedStays
  <2> QED
    BY <2>1, <2>2
<1>3. Shape /\ CarriedInv => EventsCarried
  <2> SUFFICES ASSUME Shape, Following, Quiet, queue = {}, NEW e \in local, ~e.pendingDelete
               PROVE  ~e.isLocal /\ \A r \in WithId(srv, e.id) : e.updated_at <= r.at
    BY DEF EventsCarried, CarriedInv
  <2>1. push.pc = "idle" /\ save.pc = "idle" /\ Items = {}
    BY DEF Quiet, Items
  <2>2. IF e.id = Temp THEN NewCovered(e.updated_at) ELSE OldCovered(e.id, e.updated_at)
    BY DEF Following, Covered
  <2>3. e.id # Temp /\ OldCovered(e.id, e.updated_at)
    BY <2>1, <2>2 DEF NewCovered, Creates
  <2>4. \A r \in srv : r.id = e.id => e.updated_at <= r.at
    BY <2>1, <2>3 DEF OldCovered
  <2>5. ~e.isLocal
    BY <2>3 DEF Shape, IdsGiven
  <2> QED
    BY <2>4, <2>5 DEF WithId
<1> QED
  BY <1>1, <1>2, <1>3, PTL DEF Spec
=============================================================================
