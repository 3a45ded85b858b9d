-------------------------- MODULE CalendarSyncProofs ---------------------------
(***************************************************************************)
(* The import of the device's calendars, proved for every set of events    *)
(* and every bound: no event gets a second copy, and the sync deletes only *)
(* copies of events that are gone.                                         *)
(***************************************************************************)
EXTENDS CalendarSync, TLAPS

Hashes == [Events -> Nat]
Copy   == [dev : Events, n : Nat, at : Nat]
Act    == [kind : {"create", "update", "delete"}, dev : Events, n : Nat]
Run    == [pc : {"idle", "lock", "device", "copies", "plan", "apply", "ids", "unlock"},
           ids : SUBSET Events, seen : Hashes, known : SUBSET Copy,
           was : Hashes, next : Hashes, todo : SUBSET Act]

Del == [dev : Events, n : Nat]
History == [overlap : BOOLEAN, astray : BOOLEAN, cut : BOOLEAN, left : SUBSET Events,
            removed : SUBSET Events, late : SUBSET Events, deleted : SUBSET Events]

TypeOK ==
    /\ device \in Hashes /\ old \in SUBSET Events /\ chosen \in SUBSET Events
    /\ keys \in [hashes : Hashes, ids : SUBSET Unset, lock : {"free", "held", "stale"}, recent : BOOLEAN]
    /\ copies \in SUBSET Copy
    /\ runs \in [Contexts -> Run]
    /\ count \in [changes : Nat, faults : Nat, made : Nat]
    /\ past \in History
    /\ queue \in SUBSET Del

-------------------------------------------------------------------------------
(* Types *)

LEMMA NoneType == None \in Hashes
BY DEF None, Hashes

LEMMA IdleType == Idle \in Run
BY NoneType DEF Idle, Run

LEMMA KeysType == Keys \in [hashes : Hashes, ids : SUBSET Unset, lock : {"free", "held", "stale"}, recent : BOOLEAN]
BY NoneType DEF Keys

LEMMA InitTypes == Init => TypeOK
<1> SUFFICES ASSUME Init PROVE TypeOK
    OBVIOUS
<1>1. /\ device \in Hashes /\ old \in SUBSET Events /\ chosen \in SUBSET Events /\ copies \in SUBSET Copy
      /\ keys \in [hashes : Hashes, ids : SUBSET Unset, lock : {"free", "held", "stale"}, recent : BOOLEAN]
    BY KeysType DEF Init, Hashes
<1>2. runs \in [Contexts -> Run]
    BY IdleType DEF Init
<1>3. count \in [changes : Nat, faults : Nat, made : Nat]
    BY DEF Init
<1>4. past \in History /\ queue \in SUBSET Del
    BY DEF Init, History
<1> QED
    BY <1>1, <1>2, <1>3, <1>4 DEF TypeOK

\* What the plan holds are actions.
LEMMA PlanType ==
    ASSUME NEW seen, NEW known, known \in SUBSET Copy, NEW hashes, NEW same
    PROVE  planCalendarSync(seen, known, hashes, same) \in SUBSET Act
<1>1. \A kind \in {"create", "update", "delete"}, d \in Events : Action(kind, d, known) \in SUBSET Act
    BY DEF Action, Act, Copy
<1>2. \A d \in Events : {[kind |-> "create", dev |-> d, n |-> 0]} \in SUBSET Act
    BY DEF Act
<1> QED
    BY <1>1, <1>2 DEF planCalendarSync

\* A change of the counts and of a run's fields keeps their types.
LEMMA ChangedType == TypeOK /\ Changed => count' \in [changes : Nat, faults : Nat, made : Nat]
BY DEF TypeOK, Changed

LEMMA FaultType == TypeOK /\ Fault => count' \in [changes : Nat, faults : Nat, made : Nat]
BY DEF TypeOK, Fault

LEMMA UserTypes == TypeOK /\ User => TypeOK'
<1> SUFFICES ASSUME TypeOK, User PROVE TypeOK'
    OBVIOUS
<1>0. Now \in Nat
    BY DEF Now, TypeOK
<1>1. ASSUME NEW e \in Events, EditOnDevice(e) PROVE TypeOK'
    <2>1. device' \in Hashes
        BY <1>0, <1>1 DEF EditOnDevice, TypeOK, Hashes
    <2> QED
        BY <1>1, <2>1, ChangedType DEF EditOnDevice, TypeOK
<1>2. ASSUME NEW e \in Events, RemoveFromDevice(e) PROVE TypeOK'
    <2>1. device' \in Hashes
        BY <1>2 DEF RemoveFromDevice, TypeOK, Hashes
    <2>2. past' \in History
        BY <1>2 DEF RemoveFromDevice, TypeOK, History
    <2> QED
        BY <1>2, <2>1, <2>2, ChangedType DEF RemoveFromDevice, TypeOK
<1>3. ASSUME NEW e \in Events, LeaveWindow(e) PROVE TypeOK'
    BY <1>3, ChangedType DEF LeaveWindow, TypeOK
<1>4. ASSUME NEW ids \in SUBSET Events, setSyncedCalendarIds(ids) PROVE TypeOK'
    BY <1>4, ChangedType DEF setSyncedCalendarIds, TypeOK
<1>5. ASSUME NEW k \in copies, DeleteCopy(k) PROVE TypeOK'
    <2>1. k.dev \in Events
        BY DEF TypeOK, Copy
    <2>2. past' \in History
        BY <1>5, <2>1 DEF DeleteCopy, TypeOK, History
    <2> QED
        BY <1>5, <2>2, ChangedType DEF DeleteCopy, TypeOK
<1>6. ASSUME SwitchUser PROVE TypeOK'
    <2>1. past' \in History
        <3> DEFINE b == past.astray \/ \E c \in Contexts : runs[c].pc # "idle"
        <3>1. b \in BOOLEAN
            BY DEF TypeOK, History
        <3>2. past' = [past EXCEPT !.astray = b, !.removed = {}, !.late = {}]
            BY <1>6 DEF SwitchUser
        <3> HIDE DEF b
        <3> QED
            BY <3>1, <3>2 DEF TypeOK, History
    <2> QED
        BY <1>6, <2>1, ChangedType, KeysType DEF SwitchUser, TypeOK, resetCalendarSyncState
<1> QED
    BY <1>1, <1>2, <1>3, <1>4, <1>5, <1>6 DEF User

\* The plan's hashes, whatever of it has failed.
LEMMA PriorType ==
    ASSUME NEW r \in Run, NEW a \in Act
    PROVE  priorHash(r, a) \in Hashes
BY DEF priorHash, Run, Act, Hashes

\* One field of a run is changed, the others are as they were.
LEMMA PcField ==
    ASSUME NEW r \in Run, NEW pc \in {"idle", "lock", "device", "copies", "plan", "apply", "ids", "unlock"}
    PROVE  LET q == [r EXCEPT !.pc = pc] IN
           /\ q \in Run /\ q.pc = pc
           /\ q.ids = r.ids /\ q.seen = r.seen /\ q.known = r.known
           /\ q.was = r.was /\ q.next = r.next /\ q.todo = r.todo
BY DEF Run

LEMMA TodoFields ==
    ASSUME NEW r \in Run, NEW t \in SUBSET Act
    PROVE  LET q == [r EXCEPT !.todo = t] IN
           /\ q \in Run /\ q.todo = t /\ q.next = r.next
           /\ q.pc = r.pc /\ q.ids = r.ids /\ q.seen = r.seen /\ q.known = r.known /\ q.was = r.was
BY DEF Run

LEMMA GoesType ==
    ASSUME TypeOK, NEW c \in Contexts,
           NEW pc \in {"idle", "lock", "device", "copies", "plan", "apply", "ids", "unlock"}, Goes(c, pc)
    PROVE  /\ runs' \in [Contexts -> Run]
           /\ runs'[c].pc = pc
           /\ runs'[c].ids = runs[c].ids /\ runs'[c].seen = runs[c].seen /\ runs'[c].known = runs[c].known
           /\ runs'[c].was = runs[c].was /\ runs'[c].next = runs[c].next /\ runs'[c].todo = runs[c].todo
           /\ \A d \in Contexts \ {c} : runs'[d] = runs[d]
<1> DEFINE r == [runs[c] EXCEPT !.pc = pc]
<1>1. runs[c] \in Run
    BY DEF TypeOK
<1>2. runs' = [runs EXCEPT ![c] = r]
    BY DEF Goes
<1>3. /\ r \in Run /\ r.pc = pc
      /\ r.ids = runs[c].ids /\ r.seen = runs[c].seen /\ r.known = runs[c].known
      /\ r.was = runs[c].was /\ r.next = runs[c].next /\ r.todo = runs[c].todo
    BY <1>1, PcField
<1> HIDE DEF r
<1> QED
    BY <1>2, <1>3 DEF TypeOK

\* What is done, or has failed, is no longer to do; a plan that succeeds
\* stays, and of what has failed the former hash is kept.
LEMMA AfterType ==
    ASSUME TypeOK, NEW c \in Contexts, NEW a \in runs[c].todo, Done(c, a) \/ Failed(c, a)
    PROVE  /\ runs' \in [Contexts -> Run]
           /\ runs'[c].todo = runs[c].todo \ {a} /\ runs'[c].pc = runs[c].pc /\ runs'[c].ids = runs[c].ids
           /\ runs'[c].known = runs[c].known /\ runs'[c].seen = runs[c].seen /\ runs'[c].was = runs[c].was
           /\ runs'[c].next \in {runs[c].next, priorHash(runs[c], a)}
           /\ \A d \in Contexts \ {c} : runs'[d] = runs[d]
<1> DEFINE t == runs[c].todo \ {a}
           p == priorHash(runs[c], a)
           q == [runs[c] EXCEPT !.todo = t]
           r == [runs[c] EXCEPT !.todo = t, !.next = p]
<1>1. runs[c] \in Run /\ a \in Act /\ t \in SUBSET Act
    BY DEF TypeOK, Run
<1>2. p \in Hashes
    BY <1>1, PriorType
<1>3. runs' = [runs EXCEPT ![c] = q] \/ runs' = [runs EXCEPT ![c] = r]
    BY DEF Done, Failed, TypeOK
<1> HIDE DEF t, p
<1>4. /\ q \in Run /\ q.todo = t /\ q.next = runs[c].next /\ q.pc = runs[c].pc /\ q.ids = runs[c].ids
      /\ q.seen = runs[c].seen /\ q.known = runs[c].known /\ q.was = runs[c].was
    BY <1>1, <1>2, TodoFields
<1>5. /\ r \in Run /\ r.todo = t /\ r.next = p /\ r.pc = runs[c].pc /\ r.ids = runs[c].ids
      /\ r.seen = runs[c].seen /\ r.known = runs[c].known /\ r.was = runs[c].was
    BY <1>1, <1>2 DEF Run
<1> HIDE DEF q, r
<1> SUFFICES ASSUME NEW u \in {q, r}, runs' = [runs EXCEPT ![c] = u]
             PROVE  /\ runs' \in [Contexts -> Run]
                    /\ runs'[c] = u /\ \A d \in Contexts \ {c} : runs'[d] = runs[d]
    BY <1>3, <1>4, <1>5 DEF t, p
<1> QED
    BY <1>4, <1>5 DEF TypeOK

\* The copies after a request that was carried out, and the history.
LEMMA CarryType ==
    ASSUME TypeOK, NEW a \in Act, NEW at \in Nat, Carry(a, at)
    PROVE  /\ copies' \in SUBSET Copy
           /\ past' \in History
           /\ past'.overlap = past.overlap /\ past'.astray = past.astray /\ past'.cut = past.cut
           /\ past'.left = past.left
<1>0. a.kind \in {"create", "update", "delete"} /\ a.dev \in Events /\ a.n \in Nat
    BY DEF Act
<1>1. CASE a.kind = "create"
    <2>1. Create(a, at)
        BY <1>1 DEF Carry
    <2>2. count.made + 1 \in Nat
        BY DEF TypeOK
    <2>3. [dev |-> a.dev, n |-> count.made + 1, at |-> at] \in Copy
        BY <1>0, <2>2 DEF Copy
    <2> QED
        BY <1>0, <2>1, <2>3 DEF Create, TypeOK, History
<1>2. CASE a.kind = "update"
    <2>1. copies' = {IF k.n = a.n THEN [k EXCEPT !.at = at] ELSE k : k \in copies} /\ past' = past
        BY <1>2 DEF Carry
    <2>2. \A k \in copies : [k EXCEPT !.at = at] \in Copy
        BY DEF TypeOK, Copy
    <2> QED
        BY <2>1, <2>2 DEF TypeOK
<1>3. CASE a.kind = "delete"
    <2>1. copies' = {k \in copies : k.n # a.n} /\ past' = [past EXCEPT !.deleted = @ \cup {a.dev}]
        BY <1>3 DEF Carry
    <2> QED
        BY <1>0, <2>1 DEF TypeOK, History
<1> QED
    BY <1>0, <1>1, <1>2, <1>3

\* What is queued is a delete of the plan, and the server is as it was.
LEMMA QueuedFacts ==
    ASSUME NEW c, NEW a, Apply(c, a)
    PROVE  /\ queue' = queue \/ (a.kind = "delete" /\ queue' = queue \cup {[dev |-> a.dev, n |-> a.n]})
           /\ Carry(a, runs[c].seen[a.dev]) \/ UNCHANGED <<copies, past>>
           /\ Done(c, a) \/ Failed(c, a)
           /\ UNCHANGED <<device, old, chosen, keys>>
BY DEF Apply, Queued

LEMMA ApplyTypes == ASSUME TypeOK, NEW c \in Contexts, NEW a \in runs[c].todo, Apply(c, a) PROVE TypeOK'
<1>0. a \in Act /\ a.dev \in Events /\ runs[c] \in Run
    BY DEF TypeOK, Run, Act
<1>1. Done(c, a) \/ Failed(c, a)
    BY QueuedFacts
<1>2. runs' \in [Contexts -> Run]
    BY <1>1, AfterType
<1>3. runs[c].seen[a.dev] \in Nat
    BY <1>0 DEF Run, Hashes
<1>4. count' \in [changes : Nat, faults : Nat, made : Nat]
    <2>1. \A n \in {0, 1} : [count EXCEPT !.made = @ + n] \in [changes : Nat, faults : Nat, made : Nat]
        BY DEF TypeOK
    <2>2. \A n \in {0, 1} : [count EXCEPT !.made = @ + n, !.faults = @ + 1] \in [changes : Nat, faults : Nat, made : Nat]
        <3>1. \A m, f \in Nat : [count EXCEPT !.made = m, !.faults = f] \in [changes : Nat, faults : Nat, made : Nat]
            BY DEF TypeOK
        <3>2. \A n \in {0, 1} : count.made + n \in Nat /\ count.faults + 1 \in Nat
            BY DEF TypeOK
        <3> QED
            BY <3>1, <3>2
    <2>3. \/ \E n \in {0, 1} : count' = [count EXCEPT !.made = @ + n]
          \/ \E n \in {0, 1} : count' = [count EXCEPT !.made = @ + n, !.faults = @ + 1]
          \/ Fault \/ UNCHANGED count
        BY DEF Apply, Queued
    <2> QED
        BY <2>1, <2>2, <2>3, FaultType DEF TypeOK
<1>5. Carry(a, runs[c].seen[a.dev]) \/ UNCHANGED <<copies, past>>
    BY QueuedFacts
<1>6. /\ copies' \in SUBSET Copy
      /\ past' \in History
    BY <1>0, <1>3, <1>5, CarryType DEF TypeOK
<1>7. queue' \in SUBSET Del
    BY <1>0, QueuedFacts DEF TypeOK, Del, Act
<1> QED
    BY <1>2, <1>4, <1>6, <1>7, QueuedFacts DEF TypeOK

LEMMA StepTypes == ASSUME TypeOK, NEW c \in Contexts, Step(c) PROVE TypeOK'
<1>0. runs[c] \in Run
    BY DEF TypeOK
<1>1. CASE TakeLock(c)
    <2> DEFINE b == past.overlap \/ \E d \in Contexts \ {c} : runs[d].pc # "idle"
    <2>1. b \in BOOLEAN /\ past' = [past EXCEPT !.overlap = b]
        BY <1>1 DEF TakeLock, TypeOK, History
    <2> HIDE DEF b
    <2>2. past' \in History
        BY <2>1 DEF TypeOK, History
    <2>3. runs' \in [Contexts -> Run]
        BY <1>1, GoesType DEF TakeLock
    <2> QED
        BY <1>1, <2>2, <2>3 DEF TakeLock, Stays, TypeOK
<1>2. CASE ReadDevice(c)
    <2> DEFINE s == [e \in Events |-> IF e \in runs[c].ids \ old THEN device[e] ELSE 0]
    <2>1. s \in Hashes
        BY DEF TypeOK, Hashes
    <2>2. CASE runs' = [runs EXCEPT ![c].pc = "copies", ![c].seen = s] /\ UNCHANGED count
        <3> HIDE DEF s
        <3>1. runs' \in [Contexts -> Run]
            BY <1>0, <2>1, <2>2 DEF TypeOK, Run
        <3> QED
            BY <1>2, <2>2, <3>1 DEF ReadDevice, Stays, TypeOK
    <2>3. CASE Fault /\ (Goes(c, "copies") \/ Goes(c, "unlock"))
        <3>1. runs' \in [Contexts -> Run]
            BY <2>3, GoesType
        <3> QED
            BY <1>2, <2>3, <3>1, FaultType DEF ReadDevice, Stays, TypeOK
    <2> QED
        BY <1>2, <2>2, <2>3 DEF ReadDevice
<1>3. CASE ReadCopies(c)
    <2>1. CASE runs' = [runs EXCEPT ![c].pc = "plan", ![c].known = copies] /\ UNCHANGED count
        <3>1. runs' \in [Contexts -> Run]
            BY <1>0, <2>1 DEF TypeOK, Run
        <3> QED
            BY <1>3, <2>1, <3>1 DEF ReadCopies, Stays, TypeOK
    <2>2. CASE Fault /\ Goes(c, "unlock")
        <3>1. runs' \in [Contexts -> Run]
            BY <2>2, GoesType
        <3> QED
            BY <1>3, <2>2, <3>1, FaultType DEF ReadCopies, Stays, TypeOK
    <2> QED
        BY <1>3, <2>1, <2>2 DEF ReadCopies, wholeTaken
<1>4. CASE Plan(c)
    <2> DEFINE t == planCalendarSync(runs[c].seen, runs[c].known, keys.hashes,
                        isCalendarSelectionUnchanged(keys.ids, runs[c].ids, keys.hashes))
    <2>1. t \in SUBSET Act
        BY <1>0, PlanType DEF Run
    <2>2. runs' = [runs EXCEPT ![c].pc = "apply", ![c].was = keys.hashes, ![c].next = runs[c].seen, ![c].todo = t]
        BY <1>4 DEF Plan
    <2> HIDE DEF t
    <2>3. runs' \in [Contexts -> Run]
        BY <1>0, <2>1, <2>2 DEF TypeOK, Run
    <2> QED
        BY <1>4, <2>3 DEF Plan, Stays, TypeOK
<1>5. ASSUME NEW a \in runs[c].todo, Apply(c, a) PROVE TypeOK'
    BY <1>5, ApplyTypes
<1>6. CASE SaveHashes(c)
    <2>1. runs' \in [Contexts -> Run]
        BY <1>6, GoesType DEF SaveHashes
    <2>2. keys' \in [hashes : Hashes, ids : SUBSET Unset, lock : {"free", "held", "stale"}, recent : BOOLEAN]
        BY <1>0, <1>6 DEF SaveHashes, TypeOK, Run
    <2> QED
        BY <1>6, <2>1, <2>2 DEF SaveHashes, Stays, TypeOK
<1>7. CASE SaveIds(c)
    <2>1. runs' \in [Contexts -> Run]
        BY <1>7, GoesType DEF SaveIds
    <2>2. keys' \in [hashes : Hashes, ids : SUBSET Unset, lock : {"free", "held", "stale"}, recent : BOOLEAN]
        BY <1>0, <1>7 DEF SaveIds, TypeOK, Run, Unset
    <2> QED
        BY <1>7, <2>1, <2>2 DEF SaveIds, Stays, TypeOK
<1>8. CASE Unlock(c)
    BY <1>8, IdleType DEF Unlock, Stays, TypeOK
<1> QED
    BY <1>1, <1>2, <1>3, <1>4, <1>5, <1>6, <1>7, <1>8 DEF Step

\* The steps of the queue: they take copies and queued deletes away.
LEMMA DeletesFacts ==
    ASSUME TypeOK, NEW q \in queue, CarryDelete(q) \/ DropDelete(q)
    PROVE  /\ past' \in History /\ copies' \subseteq copies /\ queue' \subseteq queue
           /\ past'.overlap = past.overlap /\ past'.astray = past.astray /\ past'.cut = past.cut
           /\ past'.left = past.left /\ past'.deleted \subseteq past.deleted \cup {q.dev}
           /\ Fault \/ UNCHANGED count
           /\ UNCHANGED <<device, old, chosen, keys, runs>>
<1>1. CASE CarryDelete(q)
    <2> DEFINE l == IF device[q.dev] # 0 THEN past.late \cup {q.dev} ELSE past.late
    <2>1. q.dev \in Events /\ l \in SUBSET Events
        BY DEF TypeOK, Del, History
    <2>2. past' = [past EXCEPT !.deleted = @ \cup {q.dev}, !.late = l]
        BY <1>1 DEF CarryDelete, TypeOK, History
    <2> HIDE DEF l
    <2>3. /\ past' \in History
          /\ past'.overlap = past.overlap /\ past'.astray = past.astray /\ past'.cut = past.cut
          /\ past'.left = past.left /\ past'.deleted = past.deleted \cup {q.dev}
        BY <2>1, <2>2 DEF TypeOK, History
    <2> QED
        BY <1>1, <2>3 DEF CarryDelete
<1>2. CASE DropDelete(q)
    BY <1>2 DEF DropDelete, TypeOK
<1> QED
    BY <1>1, <1>2

LEMMA NextTypes == TypeOK /\ [Next]_vars => TypeOK'
<1> SUFFICES ASSUME TypeOK, [Next]_vars PROVE TypeOK'
    OBVIOUS
<1>1. ASSUME NEW c \in Contexts, runCalendarSync(c) PROVE TypeOK'
    <2>1. [Idle EXCEPT !.pc = "lock", !.ids = chosen] \in Run
        BY IdleType DEF TypeOK, Run
    <2> QED
        BY <1>1, <2>1 DEF runCalendarSync, Stays, TypeOK
<1>2. CASE ThrottleEnds
    BY <1>2 DEF ThrottleEnds, Stays, TypeOK
<1>3. CASE LockExpires
    BY <1>3, FaultType DEF LockExpires, Stays, TypeOK
<1>4. CASE Killed
    <2> DEFINE b == past.cut \/ \E c \in Contexts : runs[c].pc = "ids"
    <2>1. b \in BOOLEAN /\ past' = [past EXCEPT !.cut = b]
        BY <1>4 DEF Killed, TypeOK, History
    <2> HIDE DEF b
    <2>2. past' \in History
        BY <2>1 DEF TypeOK, History
    <2> QED
        BY <1>4, <2>2, FaultType, IdleType DEF Killed, Stays, TypeOK
<1>5. CASE UNCHANGED vars
    BY <1>5 DEF vars, TypeOK
<1>6. ASSUME NEW q \in queue, CarryDelete(q) \/ DropDelete(q) PROVE TypeOK'
    BY <1>6, DeletesFacts, FaultType DEF TypeOK
<1> QED
    BY <1>1, <1>2, <1>3, <1>4, <1>5, <1>6, UserTypes, StepTypes DEF Next

-------------------------------------------------------------------------------
(* One copy each.  As long as runs do not overlap and the user does not     *)
(* change during one, a single run is past the lock; what it knows of the   *)
(* account is all there is, and what it is to create is not there.          *)

Working(c) == runs[c].pc \notin {"idle", "lock"}

OneRun == \A c, d \in Contexts : Working(c) /\ Working(d) => c = d

TodoOnly == \A c \in Contexts : runs[c].pc # "apply" => runs[c].todo = {}

Numbered == \A k \in copies : k.n <= count.made

Distinct == \A k, l \in copies : k.n = l.n \/ k.dev = l.dev => k = l

KnownWhole == \A c \in Contexts : runs[c].pc = "plan" =>
    \A k \in copies : \E x \in runs[c].known : x.dev = k.dev /\ x.n = k.n

CreatesFit == \A c \in Contexts : \A a \in runs[c].todo :
    a.kind = "create" => a.n = 0 /\ \A k \in copies : k.dev # a.dev

CopyInv == OneRun /\ TodoOnly /\ Numbered /\ Distinct /\ KnownWhole /\ CreatesFit

\* What excuses the properties stays.
LEMMA ExcusesStay ==
    ASSUME TypeOK, [Next]_vars
    PROVE  /\ past.overlap => past'.overlap
           /\ past.astray => past'.astray
           /\ past.cut => past'.cut
           /\ past.left \subseteq past'.left
           /\ old \subseteq old'
<1>1. CASE User
    <2>1. ASSUME NEW e \in Events, EditOnDevice(e) \/ RemoveFromDevice(e) \/ LeaveWindow(e)
          PROVE  /\ past'.overlap = past.overlap /\ past'.astray = past.astray /\ past'.cut = past.cut
                 /\ past.left \subseteq past'.left /\ old \subseteq old'
        BY <2>1 DEF EditOnDevice, RemoveFromDevice, LeaveWindow, TypeOK, History
    <2>2. ASSUME NEW ids \in SUBSET Events, setSyncedCalendarIds(ids) PROVE past' = past /\ old' = old
        BY <2>2 DEF setSyncedCalendarIds
    <2>3. ASSUME NEW k \in copies, DeleteCopy(k)
          PROVE  /\ past'.overlap = past.overlap /\ past'.astray = past.astray /\ past'.cut = past.cut
                 /\ past'.left = past.left /\ old' = old
        BY <2>3 DEF DeleteCopy, TypeOK, History
    <2>4. ASSUME SwitchUser
          PROVE  /\ past'.overlap = past.overlap /\ (past.astray => past'.astray) /\ past'.cut = past.cut
                 /\ past'.left = past.left /\ old' = old
        <3> DEFINE b == past.astray \/ \E c \in Contexts : runs[c].pc # "idle"
        <3>1. past' = [past EXCEPT !.astray = b, !.removed = {}, !.late = {}] /\ (past.astray => b) /\ b \in BOOLEAN /\ old' = old
            BY <2>4 DEF SwitchUser, TypeOK, History
        <3> HIDE DEF b
        <3> QED
            BY <3>1 DEF TypeOK, History
    <2> QED
        BY <1>1, <2>1, <2>2, <2>3, <2>4 DEF User
<1>2. ASSUME NEW c \in Contexts, runCalendarSync(c)
      PROVE  past' = past /\ old' = old
    BY <1>2 DEF runCalendarSync, Stays
<1>3. ASSUME NEW c \in Contexts, Step(c)
      PROVE  /\ past.overlap => past'.overlap
             /\ past'.astray = past.astray /\ past'.cut = past.cut /\ past'.left = past.left /\ old' = old
    <2>1. CASE TakeLock(c)
        BY <2>1 DEF TakeLock, Stays, TypeOK, History
    <2>2. ASSUME NEW a \in runs[c].todo, Apply(c, a)
          PROVE  /\ past'.overlap = past.overlap /\ past'.astray = past.astray
                 /\ past'.cut = past.cut /\ past'.left = past.left /\ old' = old
        <3>1. a \in Act /\ a.dev \in Events /\ runs[c].seen[a.dev] \in Nat
            BY DEF TypeOK, Run, Act, Hashes
        <3>2. (Carry(a, runs[c].seen[a.dev]) \/ past' = past) /\ old' = old
            BY <2>2, QueuedFacts
        <3> QED
            BY <3>1, <3>2, CarryType
    <2>3. CASE ReadDevice(c) \/ ReadCopies(c) \/ Plan(c) \/ SaveHashes(c) \/ SaveIds(c) \/ Unlock(c)
        BY <2>3 DEF ReadDevice, ReadCopies, Plan, SaveHashes, SaveIds, Unlock, Stays
    <2> QED
        BY <1>3, <2>1, <2>2, <2>3 DEF Step
<1>4. CASE ThrottleEnds \/ LockExpires
    BY <1>4 DEF ThrottleEnds, LockExpires, Stays
<1>5. CASE Killed
    BY <1>5 DEF Killed, Stays, TypeOK, History
<1>6. CASE UNCHANGED vars
    BY <1>6 DEF vars
<1>7. ASSUME NEW q \in queue, CarryDelete(q) \/ DropDelete(q)
      PROVE  /\ past'.overlap = past.overlap /\ past'.astray = past.astray /\ past'.cut = past.cut
             /\ past'.left = past.left /\ old' = old
    BY <1>7, DeletesFacts
<1> QED
    BY <1>1, <1>2, <1>3, <1>4, <1>5, <1>6, <1>7 DEF Next

LEMMA SoundStays == TypeOK /\ [Next]_vars /\ Sound' => Sound
BY ExcusesStay DEF Sound

\* Copies that go disturb nothing.
LEMMA QuietCopies ==
    ASSUME CopyInv, copies' \subseteq copies, runs' = runs, count'.made = count.made
    PROVE  CopyInv'
BY DEF CopyInv, OneRun, Working, TodoOnly, Numbered, Distinct, KnownWhole, CreatesFit

LEMMA MadeStays == TypeOK /\ (Changed \/ Fault) => count'.made = count.made
BY DEF TypeOK, Changed, Fault

\* A run goes on with the copies as they are.
LEMMA GoingOn ==
    ASSUME TypeOK, TypeOK', CopyInv, NEW c \in Contexts, copies' = copies, count'.made = count.made,
           \A d \in Contexts \ {c} : runs'[d] = runs[d],
           Working(c) \/ (\A d \in Contexts \ {c} : ~Working(d)) \/ runs'[c].pc \in {"idle", "lock"},
           runs'[c].todo = {} \/ (runs'[c].pc = "apply" /\ CreatesFit'),
           runs'[c].pc = "plan" => \A k \in copies : \E x \in runs'[c].known : x.dev = k.dev /\ x.n = k.n
    PROVE  CopyInv'
<1>1. OneRun'
    BY DEF CopyInv, OneRun, Working
<1>2. TodoOnly'
    BY DEF CopyInv, TodoOnly
<1>3. Numbered' /\ Distinct'
    BY DEF CopyInv, Numbered, Distinct
<1>4. KnownWhole'
    BY DEF CopyInv, KnownWhole
<1>5. CreatesFit'
    BY DEF CopyInv, CreatesFit
<1> QED
    BY <1>1, <1>2, <1>3, <1>4, <1>5 DEF CopyInv

\* The plan creates what it knows no copy of.
LEMMA PlanCreates ==
    ASSUME NEW seen, NEW known, NEW hashes, NEW same,
           NEW a \in planCalendarSync(seen, known, hashes, same), a.kind = "create"
    PROVE  a.n = 0 /\ \A x \in known : x.dev # a.dev
<1>1. PICK d \in Events :
          \/ a \in Action("update", d, known) \/ a \in Action("delete", d, known)
          \/ Action("update", d, known) = {} /\ a = [kind |-> "create", dev |-> d, n |-> 0]
    BY DEF planCalendarSync
<1>2. a \notin Action("update", d, known) /\ a \notin Action("delete", d, known)
    BY DEF Action
<1>3. Action("update", d, known) = {} => \A x \in known : x.dev # d
    BY DEF Action
<1> QED
    BY <1>1, <1>2, <1>3

LEMMA ApplyCopies == ASSUME TypeOK, TypeOK', CopyInv, NEW c \in Contexts, NEW a \in runs[c].todo, Apply(c, a) PROVE CopyInv'
<1>0. a \in Act /\ runs[c] \in Run /\ a.kind \in {"create", "update", "delete"} /\ a.dev \in Events /\ a.n \in Nat
    BY DEF TypeOK, Run, Act
<1>1. /\ runs'[c].todo = runs[c].todo \ {a} /\ runs'[c].pc = "apply" /\ runs[c].pc = "apply"
      /\ \A d \in Contexts \ {c} : runs'[d] = runs[d]
    BY AfterType, QueuedFacts DEF Apply
<1>2. \A d \in Contexts \ {c} : ~Working(d) /\ runs[d].todo = {} /\ runs'[d].todo = {} /\ runs'[d].pc \in {"idle", "lock"}
    BY <1>1 DEF CopyInv, OneRun, TodoOnly, Working
<1>3. OneRun' /\ TodoOnly' /\ KnownWhole'
    BY <1>1, <1>2 DEF OneRun, TodoOnly, KnownWhole, Working
<1> SUFFICES Numbered' /\ Distinct' /\ CreatesFit'
    BY <1>3 DEF CopyInv
<1>4. CASE copies' = copies /\ (Fault \/ UNCHANGED count)
    <2>1. count'.made = count.made
        BY <1>4, MadeStays
    <2> QED
        BY <1>1, <1>2, <1>4, <2>1 DEF CopyInv, Numbered, Distinct, CreatesFit
<1> DEFINE at == runs[c].seen[a.dev]
           n == IF a.kind = "create" THEN 1 ELSE 0
<1>5. CASE /\ Carry(a, at)
           /\ \/ count' = [count EXCEPT !.made = @ + n]
              \/ count' = [count EXCEPT !.made = @ + n, !.faults = @ + 1]
    <2>1. count'.made = count.made + n /\ count.made \in Nat
        BY <1>5 DEF TypeOK
    <2>2. CASE a.kind = "create"
        <3> DEFINE k0 == [dev |-> a.dev, n |-> count.made + 1, at |-> at]
        <3>1. copies' = copies \cup {k0} /\ k0.dev = a.dev /\ k0.n = count.made + 1 /\ count'.made = count.made + 1
            BY <1>5, <2>1, <2>2 DEF Carry, Create
        <3> HIDE DEF k0
        <3>2. a.n = 0 /\ \A k \in copies : k.dev # a.dev /\ k.n <= count.made /\ k.n \in Nat
            BY <2>2 DEF CopyInv, CreatesFit, Numbered, TypeOK, Copy
        <3>3. Numbered'
            BY <2>1, <3>1, <3>2 DEF Numbered
        <3>4. Distinct'
            BY <2>1, <3>1, <3>2 DEF Distinct, CopyInv
        <3>5. ASSUME NEW b \in runs'[c].todo, b.kind = "create" PROVE b.n = 0 /\ b.dev # a.dev /\ \A k \in copies : k.dev # b.dev
            <4>1. b \in runs[c].todo /\ b # a /\ b.n = 0 /\ \A k \in copies : k.dev # b.dev
                BY <1>1, <3>5 DEF CopyInv, CreatesFit
            <4>2. b \in Act
                BY <1>0, <4>1 DEF Run
            <4> QED
                BY <1>0, <2>2, <3>2, <3>5, <4>1, <4>2 DEF Act
        <3>6. CreatesFit'
            BY <1>1, <1>2, <3>1, <3>5 DEF CreatesFit
        <3> QED
            BY <3>3, <3>4, <3>6
    <2>3. CASE a.kind # "create"
        <3>1. count'.made = count.made
            BY <2>1, <2>3
        <3>2. \A l \in copies' : \E k \in copies : l.dev = k.dev /\ l.n = k.n /\ l = IF a.kind = "update" /\ k.n = a.n THEN [k EXCEPT !.at = at] ELSE k
            <4>1. \A k \in copies : LET q == [k EXCEPT !.at = at] IN q.dev = k.dev /\ q.n = k.n
                BY DEF TypeOK, Copy
            <4>2. CASE a.kind = "update"
                <5>1. copies' = {IF k.n = a.n THEN [k EXCEPT !.at = at] ELSE k : k \in copies}
                    BY <1>5, <4>2 DEF Carry
                <5> SUFFICES ASSUME NEW l \in copies'
                             PROVE  \E k \in copies : l.dev = k.dev /\ l.n = k.n /\ l = IF k.n = a.n THEN [k EXCEPT !.at = at] ELSE k
                    BY <4>2
                <5>2. PICK k \in copies : l = IF k.n = a.n THEN [k EXCEPT !.at = at] ELSE k
                    BY <5>1
                <5>3. l.dev = k.dev /\ l.n = k.n
                    BY <4>1, <5>2
                <5> QED
                    BY <5>2, <5>3
            <4>3. CASE a.kind = "delete"
                BY <1>5, <4>3 DEF Carry
            <4> QED
                BY <1>0, <2>3, <4>2, <4>3
        <3>3. Numbered'
            BY <3>1, <3>2 DEF Numbered, CopyInv
        <3>4. Distinct'
            BY <3>2 DEF Distinct, CopyInv
        <3>5. CreatesFit'
            BY <1>1, <1>2, <3>2 DEF CreatesFit, CopyInv
        <3> QED
            BY <3>3, <3>4, <3>5
    <2> QED
        BY <2>2, <2>3
<1> QED
    BY <1>4, <1>5 DEF Apply, Queued

LEMMA StepCopies == ASSUME TypeOK, TypeOK', Sound, Sound', CopyInv, NEW c \in Contexts, Step(c) PROVE CopyInv'
<1>0. runs[c] \in Run
    BY DEF TypeOK
<1>1. CASE TakeLock(c)
    <2>1. ~past'.overlap
        BY DEF Sound
    <2>2. \A d \in Contexts \ {c} : runs[d].pc = "idle"
        BY <1>1, <2>1 DEF TakeLock, TypeOK, History
    <2>3. /\ runs'[c].pc = "device" /\ runs'[c].todo = {} /\ \A d \in Contexts \ {c} : runs'[d] = runs[d]
        BY <1>1, GoesType DEF TakeLock, CopyInv, TodoOnly
    <2> QED
        BY <1>1, <2>2, <2>3, GoingOn DEF TakeLock, Working
<1>2. CASE ReadDevice(c)
    <2>1. /\ runs'[c].pc \in {"copies", "unlock"} /\ runs'[c].todo = {}
          /\ \A d \in Contexts \ {c} : runs'[d] = runs[d]
        <3>1. runs[c].todo = {}
            BY <1>2 DEF ReadDevice, CopyInv, TodoOnly
        <3>2. CASE Goes(c, "copies") \/ Goes(c, "unlock")
            BY <3>1, <3>2, GoesType
        <3> DEFINE s == [e \in Events |-> IF e \in runs[c].ids \ old THEN device[e] ELSE 0]
        <3>3. CASE runs' = [runs EXCEPT ![c].pc = "copies", ![c].seen = s]
            <4> HIDE DEF s
            <4> QED
                BY <1>0, <3>1, <3>3 DEF TypeOK, Run
        <3> QED
            BY <1>2, <3>2, <3>3 DEF ReadDevice
    <2>2. Working(c)
        BY <1>2 DEF ReadDevice, Working
    <2>3. count'.made = count.made
        BY <1>2, MadeStays DEF ReadDevice
    <2> QED
        BY <1>2, <2>1, <2>2, <2>3, GoingOn DEF ReadDevice
<1>3. CASE ReadCopies(c)
    <2>1. runs[c].todo = {} /\ Working(c)
        BY <1>3 DEF ReadCopies, CopyInv, TodoOnly, Working
    <2>2. count'.made = count.made
        BY <1>3, MadeStays DEF ReadCopies
    <2>3. CASE Goes(c, "unlock")
        BY <1>3, <2>1, <2>2, <2>3, GoesType, GoingOn DEF ReadCopies
    <2>4. CASE runs' = [runs EXCEPT ![c].pc = "plan", ![c].known = copies]
        <3>1. /\ runs'[c].pc = "plan" /\ runs'[c].todo = {} /\ runs'[c].known = copies
              /\ \A d \in Contexts \ {c} : runs'[d] = runs[d]
            BY <1>0, <2>1, <2>4 DEF TypeOK, Run
        <3> QED
            BY <1>3, <2>1, <2>2, <3>1, GoingOn DEF ReadCopies
    <2> QED
        BY <1>3, <2>3, <2>4 DEF ReadCopies, wholeTaken
<1>4. CASE Plan(c)
    <2> DEFINE same == isCalendarSelectionUnchanged(keys.ids, runs[c].ids, keys.hashes)
               t == planCalendarSync(runs[c].seen, runs[c].known, keys.hashes, same)
    <2>1. t \in SUBSET Act
        BY <1>0, PlanType DEF Run
    <2>2. \A a \in t : a.kind = "create" => a.n = 0 /\ \A x \in runs[c].known : x.dev # a.dev
        BY PlanCreates
    <2>3. runs' = [runs EXCEPT ![c].pc = "apply", ![c].was = keys.hashes, ![c].next = runs[c].seen, ![c].todo = t]
        BY <1>4 DEF Plan
    <2> HIDE DEF t
    <2>4. /\ runs'[c].pc = "apply" /\ runs'[c].todo = t /\ \A d \in Contexts \ {c} : runs'[d] = runs[d]
        BY <1>0, <2>1, <2>3 DEF TypeOK, Run
    <2>5. Working(c) /\ runs[c].pc = "plan" /\ copies' = copies /\ count' = count
        BY <1>4 DEF Plan, Working
    <2>6. \A k \in copies : \E x \in runs[c].known : x.dev = k.dev
        BY <2>5 DEF CopyInv, KnownWhole
    <2>7. CreatesFit'
        BY <2>2, <2>4, <2>5, <2>6 DEF CreatesFit, CopyInv
    <2> QED
        BY <2>4, <2>5, <2>7, GoingOn
<1>5. ASSUME NEW a \in runs[c].todo, Apply(c, a) PROVE CopyInv'
    BY <1>5, ApplyCopies
<1>6. CASE SaveHashes(c) \/ SaveIds(c)
    <2>1. /\ runs'[c].pc \in {"ids", "unlock"} /\ runs'[c].todo = {} /\ \A d \in Contexts \ {c} : runs'[d] = runs[d]
        BY <1>6, GoesType DEF SaveHashes, SaveIds, CopyInv, TodoOnly
    <2> QED
        BY <1>6, <2>1, GoingOn DEF SaveHashes, SaveIds, Working
<1>7. CASE Unlock(c)
    <2>1. /\ runs'[c].pc = "idle" /\ runs'[c].todo = {} /\ \A d \in Contexts \ {c} : runs'[d] = runs[d]
        BY <1>7 DEF Unlock, Idle, TypeOK
    <2> QED
        BY <1>7, <2>1, GoingOn DEF Unlock
<1> QED
    BY <1>1, <1>2, <1>3, <1>4, <1>5, <1>6, <1>7 DEF Step

LEMMA NextCopies == TypeOK /\ TypeOK' /\ Sound /\ Sound' /\ CopyInv /\ [Next]_vars => CopyInv'
<1> SUFFICES ASSUME TypeOK, TypeOK', Sound, Sound', CopyInv, [Next]_vars PROVE CopyInv'
    OBVIOUS
<1>1. CASE User
    <2>1. copies' \subseteq copies /\ runs' = runs /\ Changed
        BY <1>1 DEF User, EditOnDevice, RemoveFromDevice, LeaveWindow, setSyncedCalendarIds, DeleteCopy, SwitchUser
    <2> QED
        BY <2>1, QuietCopies, MadeStays
<1>2. ASSUME NEW c \in Contexts, runCalendarSync(c) PROVE CopyInv'
    <2>1. /\ runs'[c].pc = "lock" /\ runs'[c].todo = {} /\ \A d \in Contexts \ {c} : runs'[d] = runs[d]
        BY <1>2, IdleType DEF runCalendarSync, Idle, TypeOK
    <2> QED
        BY <1>2, <2>1, GoingOn DEF runCalendarSync
<1>3. ASSUME NEW c \in Contexts, Step(c) PROVE CopyInv'
    BY <1>3, StepCopies
<1>4. CASE ThrottleEnds \/ LockExpires \/ UNCHANGED vars
    <2>1. copies' = copies /\ runs' = runs /\ (Fault \/ UNCHANGED count)
        BY <1>4 DEF ThrottleEnds, LockExpires, vars
    <2> QED
        BY <2>1, QuietCopies, MadeStays
<1>5. CASE Killed
    <2>1. copies' = copies /\ Fault /\ \A c \in Contexts : runs'[c].pc = "idle" /\ runs'[c].todo = {}
        BY <1>5 DEF Killed, Idle
    <2>2. count'.made = count.made
        BY <2>1, MadeStays
    <2> QED
        BY <2>1, <2>2 DEF CopyInv, OneRun, Working, TodoOnly, Numbered, Distinct, KnownWhole, CreatesFit
<1>6. ASSUME NEW q \in queue, CarryDelete(q) \/ DropDelete(q) PROVE CopyInv'
    BY <1>6, DeletesFacts, QuietCopies, MadeStays
<1> QED
    BY <1>1, <1>2, <1>3, <1>4, <1>5, <1>6 DEF Next

\* A device event has one copy at most: a create whose reply is lost, an
\* incomplete read of the account's events or a kill do not import it twice.
THEOREM CopiedOnce == Spec => []OneCopyEach
<1> DEFINE I == TypeOK /\ (Sound => CopyInv)
<1>1. Init => I
    BY InitTypes DEF Init, Idle, CopyInv, OneRun, Working, TodoOnly, Numbered, Distinct, KnownWhole, CreatesFit
<1>2. I /\ [Next]_vars => I'
    BY NextTypes, NextCopies, SoundStays
<1>3. I => OneCopyEach
    BY DEF OneCopyEach, CopyInv, Distinct
<1> HIDE DEF I
<1> QED
    BY <1>1, <1>2, <1>3, PTL DEF Spec

-------------------------------------------------------------------------------
(* What is deleted is gone.  The hashes are those of the calendars whose    *)
(* ids are stored, unless a run is between the two; so an event with a hash *)
(* that a run does not see, with the same ids, has left its calendar.       *)

Gone == past.left \cup old

Present == \A e \in Events : device[e] = 0 => e \in past.left

SeenFits == \A c \in Contexts : runs[c].pc \in {"copies", "plan", "apply"} =>
    \A e \in Events : runs[c].seen[e] # 0 => e \in runs[c].ids

SeenFresh == \A c \in Contexts : runs[c].pc \in {"lock", "device"} => runs[c].seen = None

UnseenFits == \A c \in Contexts : runs[c].pc \in {"copies", "plan"} =>
    runs[c].seen = None \/ \A e \in runs[c].ids : runs[c].seen[e] = 0 => e \in Gone

NextFits == \A c \in Contexts : runs[c].pc = "apply" =>
    \A e \in Events : (runs[c].next[e] # 0 => e \in runs[c].ids \cup Gone)

DeletesFit == \A c \in Contexts : \A a \in runs[c].todo :
    IF a.kind = "delete" THEN a.dev \in Gone ELSE a.dev \in runs[c].ids

SavedFits == \A c \in Contexts : runs[c].pc = "ids" =>
    \A e \in Events : keys.hashes[e] # 0 => e \in runs[c].ids \cup Gone

HashesFit == (\A c \in Contexts : runs[c].pc # "ids") =>
    \A e \in Events : keys.hashes[e] # 0 => e \in Gone \/ (keys.ids # Unset /\ e \in keys.ids)

\* A delete is queued once its event is gone.
QueueGone == \A q \in queue : q.dev \in Gone

GoneInv == /\ Present /\ QueueGone /\ SeenFresh /\ SeenFits /\ UnseenFits /\ NextFits /\ DeletesFit /\ SavedFits /\ HashesFit
           /\ past.deleted \subseteq Gone

LEMMA GoneGrows == TypeOK /\ [Next]_vars => Gone \subseteq Gone'
BY ExcusesStay DEF Gone

\* A step that leaves the runs and what they save alone: the user's, and time.
LEMMA QuietGone ==
    ASSUME GoneInv, Gone \subseteq Gone', Present', runs' = runs, past'.deleted = past.deleted, queue' = queue,
           \/ keys'.hashes = keys.hashes /\ keys'.ids = keys.ids
           \/ keys' = Keys
    PROVE  GoneInv'
<1>1. QueueGone' /\ SeenFresh' /\ SeenFits' /\ UnseenFits' /\ NextFits' /\ DeletesFit'
    BY DEF GoneInv, QueueGone, SeenFresh, SeenFits, UnseenFits, NextFits, DeletesFit
<1>2. CASE keys'.hashes = keys.hashes /\ keys'.ids = keys.ids
    BY <1>1, <1>2 DEF GoneInv, SavedFits, HashesFit
<1>3. CASE keys' = Keys
    <2>1. \A e \in Events : keys'.hashes[e] = 0
        BY <1>3 DEF Keys, None
    <2> QED
        BY <1>1, <2>1 DEF GoneInv, SavedFits, HashesFit
<1> QED
    BY <1>2, <1>3

\* A run goes on: its own part holds again, and nobody else saves.
LEMMA RunGoesOn ==
    ASSUME GoneInv, Gone \subseteq Gone', UNCHANGED <<device, keys>>, Present', QueueGone', past'.deleted \subseteq Gone',
           NEW c \in Contexts, \A d \in Contexts \ {c} : runs'[d] = runs[d],
           runs[c].pc # "ids", runs'[c].pc # "ids",
           runs'[c].pc \in {"lock", "device"} => runs'[c].seen = None,
           runs'[c].pc \in {"copies", "plan", "apply"} => \A e \in Events : runs'[c].seen[e] # 0 => e \in runs'[c].ids,
           runs'[c].pc \in {"copies", "plan"} =>
               runs'[c].seen = None \/ \A e \in runs'[c].ids : runs'[c].seen[e] = 0 => e \in Gone',
           runs'[c].pc = "apply" => \A e \in Events : runs'[c].next[e] # 0 => e \in runs'[c].ids \cup Gone',
           \A a \in runs'[c].todo : IF a.kind = "delete" THEN a.dev \in Gone' ELSE a.dev \in runs'[c].ids
    PROVE  GoneInv'
<1>1. SeenFresh' /\ SeenFits'
    BY DEF GoneInv, SeenFresh, SeenFits
<1>2. UnseenFits'
    BY DEF GoneInv, UnseenFits
<1>3. NextFits'
    BY DEF GoneInv, NextFits
<1>4. DeletesFit'
    BY DEF GoneInv, DeletesFit
<1>5. SavedFits' /\ HashesFit'
    BY DEF GoneInv, SavedFits, HashesFit
<1> QED
    BY <1>1, <1>2, <1>3, <1>4, <1>5 DEF GoneInv

\* The plan deletes what has a hash and is not seen, of calendars that were
\* chosen before; the rest of it is of events that are seen.
LEMMA PlanDeletes ==
    ASSUME NEW seen, NEW known, NEW hashes, NEW same,
           NEW a \in planCalendarSync(seen, known, hashes, same)
    PROVE  \/ a.kind = "delete" /\ same /\ seen # None
              /\ \E d \in Events : a.dev = d /\ seen[d] = 0 /\ hashes[d] # 0
           \/ a.kind # "delete" /\ \E d \in Events : a.dev = d /\ seen[d] # 0
<1>1. PICK d \in Events :
          \/ seen[d] # 0 /\ (a \in Action("update", d, known) \/ a = [kind |-> "create", dev |-> d, n |-> 0])
          \/ seen[d] = 0 /\ same /\ seen # None /\ hashes[d] # 0 /\ a \in Action("delete", d, known)
    BY DEF planCalendarSync
<1>2. CASE a \in Action("update", d, known) /\ seen[d] # 0
    BY <1>2 DEF Action
<1>3. CASE a = [kind |-> "create", dev |-> d, n |-> 0] /\ seen[d] # 0
    BY <1>3
<1>4. CASE seen[d] = 0 /\ same /\ seen # None /\ hashes[d] # 0 /\ a \in Action("delete", d, known)
    BY <1>4 DEF Action
<1> QED
    BY <1>1, <1>2, <1>3, <1>4

LEMMA PlanGone ==
    ASSUME TypeOK, TypeOK', CopyInv, GoneInv, NEW c \in Contexts, Plan(c)
    PROVE  GoneInv'
<1> DEFINE same == isCalendarSelectionUnchanged(keys.ids, runs[c].ids, keys.hashes)
           t == planCalendarSync(runs[c].seen, runs[c].known, keys.hashes, same)
<1>0. runs[c] \in Run /\ runs[c].pc = "plan" /\ runs[c].ids \in SUBSET Events
    BY DEF TypeOK, Run, Plan
<1>1. t \in SUBSET Act
    BY <1>0, PlanType DEF Run
<1>2. /\ runs' = [runs EXCEPT ![c].pc = "apply", ![c].was = keys.hashes, ![c].next = runs[c].seen, ![c].todo = t]
      /\ UNCHANGED <<device, old, keys, past, queue>>
    BY DEF Plan, Stays
<1>3. \A d \in Contexts : runs[d].pc # "ids"
    BY <1>0 DEF CopyInv, OneRun, Working
<1>4. same /\ keys.ids # Unset => keys.ids = runs[c].ids
    BY DEF isCalendarSelectionUnchanged
<1>5. ASSUME NEW a \in t PROVE IF a.kind = "delete" THEN a.dev \in Gone ELSE a.dev \in runs[c].ids
    <2>1. CASE /\ a.kind = "delete" /\ same /\ runs[c].seen # None
               /\ \E d \in Events : a.dev = d /\ runs[c].seen[d] = 0 /\ keys.hashes[d] # 0
        <3>1. PICK d \in Events : a.dev = d /\ runs[c].seen[d] = 0 /\ keys.hashes[d] # 0
            BY <2>1
        <3>2. d \in Gone \/ (keys.ids # Unset /\ d \in keys.ids)
            BY <1>3, <3>1 DEF GoneInv, HashesFit
        <3>3. d \in runs[c].ids => d \in Gone
            BY <1>0, <2>1, <3>1 DEF GoneInv, UnseenFits
        <3> HIDE DEF same
        <3> QED
            BY <1>4, <2>1, <3>1, <3>2, <3>3
    <2>2. CASE a.kind # "delete" /\ \E d \in Events : a.dev = d /\ runs[c].seen[d] # 0
        BY <1>0, <2>2 DEF GoneInv, SeenFits
    <2> QED
        BY <2>1, <2>2, PlanDeletes
<1>6. \A e \in Events : runs[c].seen[e] # 0 => e \in runs[c].ids
    BY <1>0 DEF GoneInv, SeenFits
<1> HIDE DEF t
<1>7. /\ runs'[c].pc = "apply" /\ runs'[c].todo = t /\ runs'[c].next = runs[c].seen
      /\ runs'[c].seen = runs[c].seen /\ runs'[c].ids = runs[c].ids
      /\ \A d \in Contexts \ {c} : runs'[d] = runs[d]
    BY <1>0, <1>1, <1>2 DEF TypeOK, Run
<1>8. Gone' = Gone /\ Present' /\ QueueGone' /\ past'.deleted \subseteq Gone'
    BY <1>2 DEF Gone, Present, QueueGone, GoneInv
<1> QED
    BY <1>0, <1>2, <1>5, <1>6, <1>7, <1>8, RunGoesOn

LEMMA ApplyGone ==
    ASSUME TypeOK, TypeOK', GoneInv, Gone \subseteq Gone', NEW c \in Contexts, NEW a \in runs[c].todo, Apply(c, a)
    PROVE  GoneInv'
<1>0. a \in Act /\ runs[c] \in Run /\ a.kind \in {"create", "update", "delete"} /\ a.dev \in Events
    BY DEF TypeOK, Run, Act
<1>1. /\ runs'[c].todo = runs[c].todo \ {a} /\ runs'[c].pc = "apply" /\ runs[c].pc = "apply"
      /\ runs'[c].seen = runs[c].seen /\ runs'[c].ids = runs[c].ids
      /\ runs'[c].next \in {runs[c].next, priorHash(runs[c], a)}
      /\ \A d \in Contexts \ {c} : runs'[d] = runs[d]
    BY AfterType, QueuedFacts DEF Apply
<1>2. IF a.kind = "delete" THEN a.dev \in Gone ELSE a.dev \in runs[c].ids
    BY DEF GoneInv, DeletesFit
<1>3. \A e \in Events : runs'[c].next[e] # 0 => e \in runs'[c].ids \cup Gone'
    <2>1. \A e \in Events : runs[c].next[e] # 0 => e \in runs[c].ids \cup Gone
        BY <1>1 DEF GoneInv, NextFits
    <2>2. \A e \in Events : e # a.dev => priorHash(runs[c], a)[e] = runs[c].next[e]
        BY <1>0 DEF priorHash, Run, Hashes
    <2> QED
        BY <1>1, <1>2, <2>1, <2>2
<1>4. past'.deleted \subseteq Gone'
    <2>1. CASE past' = past
        BY <2>1 DEF GoneInv
    <2>2. CASE Carry(a, runs[c].seen[a.dev])
        <3>1. past'.deleted = past.deleted \/ (a.kind = "delete" /\ past'.deleted = past.deleted \cup {a.dev})
            <4>1. CASE a.kind = "create"
                BY <2>2, <4>1 DEF Carry, Create, TypeOK, History
            <4>2. CASE a.kind = "update"
                BY <2>2, <4>2 DEF Carry
            <4>3. CASE a.kind = "delete"
                BY <2>2, <4>3 DEF Carry, TypeOK, History
            <4> QED
                BY <1>0, <4>1, <4>2, <4>3
        <3> QED
            BY <1>2, <3>1 DEF GoneInv
    <2> QED
        BY <2>1, <2>2, QueuedFacts
<1>5. UNCHANGED <<device, keys>> /\ past.left \subseteq past'.left
    <2>1. (Carry(a, runs[c].seen[a.dev]) \/ past' = past) /\ UNCHANGED <<device, keys>>
        BY QueuedFacts
    <2>2. runs[c].seen[a.dev] \in Nat
        BY <1>0 DEF Run, Hashes
    <2> QED
        BY <1>0, <2>1, <2>2, CarryType
<1>6. Present'
    BY <1>5 DEF GoneInv, Present
<1>7. \A e \in Events : runs'[c].seen[e] # 0 => e \in runs'[c].ids
    BY <1>1 DEF GoneInv, SeenFits
<1>8. \A b \in runs'[c].todo : IF b.kind = "delete" THEN b.dev \in Gone' ELSE b.dev \in runs'[c].ids
    BY <1>1 DEF GoneInv, DeletesFit
<1>9. QueueGone'
    BY <1>2, QueuedFacts DEF GoneInv, QueueGone
<1> QED
    BY <1>1, <1>3, <1>4, <1>5, <1>6, <1>7, <1>8, <1>9, RunGoesOn

LEMMA StepGone ==
    ASSUME TypeOK, TypeOK', CopyInv, GoneInv, Gone \subseteq Gone', NEW c \in Contexts, Step(c)
    PROVE  GoneInv'
<1>0. runs[c] \in Run
    BY DEF TypeOK
<1>1. CASE TakeLock(c)
    <2>1. /\ runs'[c].pc = "device" /\ runs'[c].todo = {} /\ runs' = [runs EXCEPT ![c].pc = "device"]
          /\ \A d \in Contexts \ {c} : runs'[d] = runs[d]
        BY <1>1, GoesType DEF TakeLock, CopyInv, TodoOnly, Goes
    <2>2. past'.left = past.left /\ past'.deleted = past.deleted
        BY <1>1 DEF TakeLock, TypeOK, History
    <2>3. keys'.hashes = keys.hashes /\ keys'.ids = keys.ids /\ device' = device /\ queue' = queue
        BY <1>1 DEF TakeLock, Stays, TypeOK
    <2>4. runs[c].pc # "ids"
        BY <1>1 DEF TakeLock
    <2>5. Present' /\ QueueGone' /\ past'.deleted \subseteq Gone'
        BY <2>2, <2>3 DEF GoneInv, Present, QueueGone
    <2>6. SeenFresh' /\ SeenFits' /\ UnseenFits' /\ NextFits' /\ DeletesFit'
        BY <1>1, <2>1, GoesType DEF TakeLock, GoneInv, SeenFresh, SeenFits, UnseenFits, NextFits, DeletesFit
    <2>7. SavedFits' /\ HashesFit'
        BY <2>1, <2>3, <2>4 DEF GoneInv, SavedFits, HashesFit
    <2> QED
        BY <2>5, <2>6, <2>7 DEF GoneInv
<1>2. CASE ReadDevice(c)
    <2> DEFINE s == [e \in Events |-> IF e \in runs[c].ids \ old THEN device[e] ELSE 0]
    <2>0. runs[c].todo = {} /\ runs[c].pc = "device" /\ runs[c].seen = None /\ UNCHANGED <<device, keys, past, old, queue>>
        BY <1>2 DEF ReadDevice, CopyInv, TodoOnly, Stays, GoneInv, SeenFresh
    <2>1. Present' /\ QueueGone' /\ past'.deleted \subseteq Gone' /\ Gone' = Gone
        BY <2>0 DEF GoneInv, Present, QueueGone, Gone
    <2>2. CASE runs' = [runs EXCEPT ![c].pc = "copies", ![c].seen = s]
        <3>1. \A e \in Events : s[e] # 0 => e \in runs[c].ids
            OBVIOUS
        <3>2. \A e \in runs[c].ids : s[e] = 0 => e \in Gone
            BY <1>0 DEF GoneInv, Present, Gone, Run
        <3> HIDE DEF s
        <3>3. /\ runs'[c].pc = "copies" /\ runs'[c].todo = {} /\ runs'[c].seen = s /\ runs'[c].ids = runs[c].ids
              /\ \A d \in Contexts \ {c} : runs'[d] = runs[d]
            BY <1>0, <2>0, <2>2 DEF TypeOK, Run
        <3> QED
            BY <2>0, <2>1, <3>1, <3>2, <3>3, RunGoesOn
    <2>3. CASE Goes(c, "unlock")
        BY <2>0, <2>1, <2>3, GoesType, RunGoesOn
    <2>4. CASE Goes(c, "copies") 
        <3>1. \A e \in Events : runs[c].seen[e] = 0
            BY <2>0 DEF None
        <3> QED
            BY <2>0, <2>1, <2>4, <3>1, GoesType, RunGoesOn
    <2> QED
        BY <1>2, <2>2, <2>3, <2>4 DEF ReadDevice
<1>3. CASE ReadCopies(c)
    <2>1. runs[c].todo = {} /\ runs[c].pc = "copies" /\ UNCHANGED <<device, keys, past, old, queue>>
        BY <1>3 DEF ReadCopies, CopyInv, TodoOnly, Stays
    <2>2. Present' /\ QueueGone' /\ past'.deleted \subseteq Gone' /\ Gone' = Gone
        BY <2>1 DEF GoneInv, Present, QueueGone, Gone
    <2>3. CASE Goes(c, "unlock")
        BY <2>1, <2>2, <2>3, GoesType, RunGoesOn
    <2>4. CASE runs' = [runs EXCEPT ![c].pc = "plan", ![c].known = copies]
        <3>1. /\ runs'[c].pc = "plan" /\ runs'[c].todo = {} /\ runs'[c].seen = runs[c].seen /\ runs'[c].ids = runs[c].ids
              /\ \A d \in Contexts \ {c} : runs'[d] = runs[d]
            BY <1>0, <2>1, <2>4 DEF TypeOK, Run
        <3>2. /\ \A e \in Events : runs[c].seen[e] # 0 => e \in runs[c].ids
              /\ runs[c].seen = None \/ \A e \in runs[c].ids : runs[c].seen[e] = 0 => e \in Gone
            BY <2>1 DEF GoneInv, SeenFits, UnseenFits
        <3> QED
            BY <2>1, <2>2, <3>1, <3>2, RunGoesOn
    <2> QED
        BY <1>3, <2>3, <2>4 DEF ReadCopies, wholeTaken
<1>4. CASE Plan(c)
    BY <1>4, PlanGone
<1>5. ASSUME NEW a \in runs[c].todo, Apply(c, a) PROVE GoneInv'
    BY <1>5, ApplyGone
<1>6. CASE SaveHashes(c) \/ SaveIds(c)
    <2>1. /\ runs'[c].pc \in {"ids", "unlock"} /\ runs'[c].ids = runs[c].ids /\ runs'[c].todo = {} /\ runs[c].todo = {}
          /\ \A d \in Contexts \ {c} : runs'[d] = runs[d]
        BY <1>6, GoesType DEF SaveHashes, SaveIds, CopyInv, TodoOnly
    <2>2. UNCHANGED <<device, past, old, queue>>
        BY <1>6 DEF SaveHashes, SaveIds, Stays
    <2>3. Present' /\ QueueGone' /\ past'.deleted \subseteq Gone' /\ Gone' = Gone
        BY <2>2 DEF GoneInv, Present, QueueGone, Gone
    <2>4. SeenFresh' /\ SeenFits' /\ UnseenFits' /\ NextFits' /\ DeletesFit'
        BY <2>1, <2>3 DEF GoneInv, SeenFresh, SeenFits, UnseenFits, NextFits, DeletesFit
    <2>5. \A d \in Contexts \ {c} : runs[d].pc \in {"idle", "lock"}
        BY <1>6 DEF CopyInv, OneRun, Working, SaveHashes, SaveIds
    <2>6. CASE SaveHashes(c)
        <3>1. keys'.hashes = runs[c].next /\ runs[c].pc = "apply" /\ runs'[c].pc = "ids"
            BY <2>6, GoesType DEF SaveHashes, TypeOK
        <3>2. \A e \in Events : keys'.hashes[e] # 0 => e \in runs'[c].ids \cup Gone'
            BY <2>1, <2>3, <3>1 DEF GoneInv, NextFits
        <3>3. SavedFits' /\ HashesFit'
            BY <2>1, <2>5, <3>1, <3>2 DEF SavedFits, HashesFit
        <3> QED
            BY <2>3, <2>4, <3>3 DEF GoneInv
    <2>7. CASE SaveIds(c)
        <3>1. /\ keys'.hashes = keys.hashes /\ keys'.ids = runs[c].ids /\ runs[c].pc = "ids" /\ runs'[c].pc = "unlock"
            BY <2>7, GoesType DEF SaveIds, TypeOK
        <3>2. runs[c].ids # Unset
            BY <1>0, UnsetApart DEF Unset, Run
        <3>3. \A e \in Events : keys'.hashes[e] # 0 => e \in Gone' \/ (keys'.ids # Unset /\ e \in keys'.ids)
            BY <2>3, <3>1, <3>2 DEF GoneInv, SavedFits
        <3>4. SavedFits' /\ HashesFit'
            BY <2>1, <2>5, <3>1, <3>3 DEF SavedFits, HashesFit
        <3> QED
            BY <2>3, <2>4, <3>4 DEF GoneInv
    <2> QED
        BY <1>6, <2>6, <2>7
<1>7. CASE Unlock(c)
    <2>1. /\ runs'[c].pc = "idle" /\ runs'[c].todo = {} /\ runs[c].pc = "unlock" /\ \A d \in Contexts \ {c} : runs'[d] = runs[d]
        BY <1>7 DEF Unlock, Idle, TypeOK
    <2>2. keys'.hashes = keys.hashes /\ keys'.ids = keys.ids /\ UNCHANGED <<device, past, old, queue>>
        BY <1>7 DEF Unlock, Stays, TypeOK
    <2>3. Present' /\ QueueGone' /\ past'.deleted \subseteq Gone' /\ Gone' = Gone
        BY <2>2 DEF GoneInv, Present, QueueGone, Gone
    <2>4. SeenFresh' /\ SeenFits' /\ UnseenFits' /\ NextFits' /\ DeletesFit'
        BY <2>1, <2>3 DEF GoneInv, SeenFresh, SeenFits, UnseenFits, NextFits, DeletesFit
    <2>5. SavedFits' /\ HashesFit'
        BY <2>1, <2>2, <2>3 DEF GoneInv, SavedFits, HashesFit
    <2> QED
        BY <2>3, <2>4, <2>5 DEF GoneInv
<1> QED
    BY <1>1, <1>2, <1>3, <1>4, <1>5, <1>6, <1>7 DEF Step

LEMMA UserGone ==
    ASSUME TypeOK, GoneInv, Gone \subseteq Gone', User
    PROVE  GoneInv'
<1>1. ASSUME NEW e \in Events, EditOnDevice(e) PROVE GoneInv'
    <2>1. \A d \in Events : device'[d] = 0 => d \in past.left
        BY <1>1 DEF EditOnDevice, GoneInv, Present, Now, TypeOK, Hashes
    <2> QED
        BY <1>1, <2>1, QuietGone DEF EditOnDevice, Present
<1>2. ASSUME NEW e \in Events, RemoveFromDevice(e) PROVE GoneInv'
    <2>1. past'.deleted = past.deleted /\ past'.left = past.left \cup {e}
        BY <1>2 DEF RemoveFromDevice, TypeOK, History
    <2>2. Present'
        BY <1>2, <2>1 DEF RemoveFromDevice, GoneInv, Present, TypeOK, Hashes
    <2> QED
        BY <1>2, <2>1, <2>2, QuietGone DEF RemoveFromDevice
<1>3. ASSUME NEW e \in Events, LeaveWindow(e) PROVE GoneInv'
    BY <1>3, QuietGone DEF LeaveWindow, GoneInv, Present
<1>4. ASSUME NEW ids \in SUBSET Events, setSyncedCalendarIds(ids) PROVE GoneInv'
    BY <1>4, QuietGone DEF setSyncedCalendarIds, GoneInv, Present
<1>5. ASSUME NEW k \in copies, DeleteCopy(k) PROVE GoneInv'
    <2>1. past'.deleted = past.deleted /\ past'.left = past.left
        BY <1>5 DEF DeleteCopy, TypeOK, History
    <2> QED
        BY <1>5, <2>1, QuietGone DEF DeleteCopy, GoneInv, Present
<1>6. ASSUME SwitchUser PROVE GoneInv'
    <2> DEFINE b == past.astray \/ \E c \in Contexts : runs[c].pc # "idle"
    <2>1. past' = [past EXCEPT !.astray = b, !.removed = {}, !.late = {}]
        BY <1>6 DEF SwitchUser
    <2> HIDE DEF b
    <2>2. past'.deleted = past.deleted /\ past'.left = past.left
        BY <2>1 DEF TypeOK, History
    <2> QED
        BY <1>6, <2>2, QuietGone DEF SwitchUser, resetCalendarSyncState, GoneInv, Present
<1> QED
    BY <1>1, <1>2, <1>3, <1>4, <1>5, <1>6 DEF User

LEMMA NextGone ==
    ASSUME TypeOK, TypeOK', CopyInv, GoneInv, [Next]_vars, ~past'.cut
    PROVE  GoneInv'
<1>0. Gone \subseteq Gone'
    BY GoneGrows
<1>1. ASSUME NEW c \in Contexts, runCalendarSync(c) PROVE GoneInv'
    <2>1. /\ runs'[c].pc = "lock" /\ runs'[c].todo = {} /\ runs'[c].seen = None /\ runs[c].pc = "idle"
          /\ \A d \in Contexts \ {c} : runs'[d] = runs[d]
        BY <1>1, IdleType DEF runCalendarSync, Idle, TypeOK
    <2>2. UNCHANGED <<device, keys, past, old, queue>>
        BY <1>1 DEF runCalendarSync, Stays
    <2>3. Present' /\ QueueGone' /\ past'.deleted \subseteq Gone'
        BY <2>2 DEF GoneInv, Present, QueueGone, Gone
    <2> QED
        BY <1>0, <2>1, <2>2, <2>3, RunGoesOn
<1>2. CASE ThrottleEnds \/ LockExpires \/ UNCHANGED vars
    <2>1. keys'.hashes = keys.hashes /\ keys'.ids = keys.ids /\ UNCHANGED <<device, old, runs, past, queue>>
        BY <1>2 DEF ThrottleEnds, LockExpires, Stays, vars, TypeOK
    <2> QED
        BY <1>0, <2>1, QuietGone DEF GoneInv, Present
<1>3. CASE Killed
    <2> DEFINE b == past.cut \/ \E c \in Contexts : runs[c].pc = "ids"
    <2>1. past' = [past EXCEPT !.cut = b]
        BY <1>3 DEF Killed
    <2>2. ~b
        <3> HIDE DEF b
        <3> QED
            BY <2>1 DEF TypeOK, History
    <2>3. \A c \in Contexts : runs[c].pc # "ids"
        BY <2>2
    <2> HIDE DEF b
    <2>4. past'.left = past.left /\ past'.deleted = past.deleted /\ UNCHANGED <<device, old, keys, queue>>
        BY <1>3, <2>1 DEF Killed, Stays, TypeOK, History
    <2>5. \A c \in Contexts : runs'[c].pc = "idle" /\ runs'[c].todo = {}
        BY <1>3 DEF Killed, Idle
    <2>6. Present' /\ QueueGone' /\ past'.deleted \subseteq Gone' /\ Gone' = Gone
        BY <2>4 DEF GoneInv, Present, QueueGone, Gone
    <2>7. SeenFresh' /\ SeenFits' /\ UnseenFits' /\ NextFits' /\ DeletesFit' /\ SavedFits'
        BY <2>5 DEF SeenFresh, SeenFits, UnseenFits, NextFits, DeletesFit, SavedFits
    <2>8. HashesFit'
        BY <2>3, <2>4, <2>6 DEF GoneInv, HashesFit
    <2> QED
        BY <2>6, <2>7, <2>8 DEF GoneInv
<1>4. ASSUME NEW q \in queue, CarryDelete(q) \/ DropDelete(q) PROVE GoneInv'
    <2>1. /\ UNCHANGED <<device, old, keys, runs>> /\ past'.left = past.left /\ queue' \subseteq queue
          /\ past'.deleted \subseteq past.deleted \cup {q.dev}
        BY <1>4, DeletesFacts
    <2>2. Gone' = Gone /\ q.dev \in Gone
        BY <2>1 DEF Gone, GoneInv, QueueGone
    <2>3. Present' /\ QueueGone' /\ past'.deleted \subseteq Gone'
        BY <2>1, <2>2 DEF GoneInv, Present, QueueGone
    <2>4. /\ SeenFresh' /\ SeenFits' /\ UnseenFits' /\ NextFits' /\ DeletesFit'
          /\ SavedFits' /\ HashesFit'
        BY <2>1, <2>2 DEF GoneInv, SeenFresh, SeenFits, UnseenFits, NextFits, DeletesFit, SavedFits, HashesFit
    <2> QED
        BY <2>3, <2>4 DEF GoneInv
<1> QED
    BY <1>0, <1>1, <1>2, <1>3, <1>4, UserGone, StepGone DEF Next

\* The sync deletes the copy of an event only if the event was removed at its
\* source or has left the window; deselecting its calendar deletes nothing.
THEOREM OnlyGoneDeleted == Spec => []DeletedIsGone
<1> DEFINE I == TypeOK /\ (Sound => CopyInv) /\ (Sound /\ ~past.cut => GoneInv)
<1>1. Init => I
    <2>1. Init => TypeOK /\ CopyInv
        BY InitTypes DEF Init, Idle, CopyInv, OneRun, Working, TodoOnly, Numbered, Distinct, KnownWhole, CreatesFit
    <2>2. Init => Present /\ QueueGone /\ SeenFresh /\ SeenFits /\ UnseenFits /\ NextFits /\ DeletesFit /\ SavedFits
        BY DEF Init, Idle, Present, QueueGone, SeenFresh, SeenFits, UnseenFits, NextFits, DeletesFit, SavedFits
    <2>3. Init => HashesFit /\ past.deleted \subseteq Gone
        BY DEF Init, HashesFit, Keys, None, Gone
    <2> QED
        BY <2>1, <2>2, <2>3 DEF GoneInv
<1>2. I /\ [Next]_vars => I'
    <2> SUFFICES ASSUME I, [Next]_vars PROVE I'
        OBVIOUS
    <2>1. TypeOK' /\ (Sound' => CopyInv')
        BY NextTypes, NextCopies, SoundStays
    <2>2. ASSUME Sound', ~past'.cut PROVE GoneInv'
        <3>1. Sound /\ ~past.cut
            BY <2>2, SoundStays, ExcusesStay
        <3> QED
            BY <2>1, <2>2, <3>1, NextGone
    <2> QED
        BY <2>1, <2>2
<1>3. I => DeletedIsGone
    BY DEF DeletedIsGone, GoneInv, Gone
<1> HIDE DEF I
<1> QED
    BY <1>1, <1>2, <1>3, PTL DEF Spec

===============================================================================
