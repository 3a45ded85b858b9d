------------------------------ MODULE LocalStore ------------------------------
(***************************************************************************)
(* One collection of offlineSync.ts on the device: its JSON file, the      *)
(* mirror in memory, the mutex of the notes, the key of AsyncStorage that   *)
(* older versions kept it in, and the wipe of a deleted account.  Other     *)
(* modules read and write a collection in one step: here is what that       *)
(* takes, down to the calls of the file system.                             *)
(***************************************************************************)
EXTENDS Naturals, Sequences, SequencesExt

CONSTANTS
    Actors,    \* calls that can be under way at once
    Items,     \* ids of records
    MaxCalls,  \* bound: calls in all
    MaxKills   \* bound: kills of the app

VARIABLES
    cache,   \* _notesCache: {} before the first read, else {its value}
    file,    \* notes.json: {} when there is none, else {its content}
    legacy,  \* the key of AsyncStorage, in the same way
    writes,  \* the writes the file system has been asked for, in order
    op,      \* each call: where it is, and the array it holds
    lock,    \* withNotesLock: who has it, then who waits
    wipe,    \* clearLocalData: "no", "deleted" or "done"
    count,   \* calls and kills so far
    told,    \* history: what was last reported of each item, "in" or "out"
    past     \* history: what excuses a loss

vars == <<cache, file, legacy, writes, op, lock, wipe, count, told, past>>

\* A file that was cut off while it was written: its text is not JSON.
Torn == {"torn"}
parsed(text) == IF text = {} \/ text = {Torn} THEN {} ELSE CHOOSE s \in text : TRUE

Idle == [pc |-> "idle"]
At(a, pcs) == op[a].pc \in pcs
Reading(a) == At(a, {"info", "get", "legacy", "moving", "drop", "back"})
Goto(a, pc) == op' = [op EXCEPT ![a].pc = pc]
Load(a, pc, s) == op' = [op EXCEPT ![a].pc = pc, ![a].copy = s]

\* What the next reader gets, by way of the cache, the file or the old key.
Stored == IF cache # {} THEN parsed(cache)
          ELSE IF file # {} THEN parsed(file) ELSE parsed(legacy)

Init ==
    /\ cache = {} /\ writes = <<>> /\ lock = <<>> /\ wipe = "no"
    /\ \E s \in SUBSET Items :
           /\ \/ file = {s} /\ legacy = {}
              \/ file = {} /\ legacy = {s} /\ s # {}
           /\ told = [i \in Items |-> IF i \in s THEN "in" ELSE "out"]
    /\ op = [a \in Actors |-> Idle]
    /\ count = [calls |-> 0, kills |-> 0] /\ past = {}

-------------------------------------------------------------------------------
(* Calls: a screen reads; an upsert or merge of notes has the lock; deletes  *)
(* of notes, and everything that writes events, trips or the queue, do not.  *)

Call(a) ==
    /\ op[a] = Idle /\ count.calls < MaxCalls
    /\ count' = [count EXCEPT !.calls = @ + 1]
    /\ \E kind \in {"read", "locked", "free"}, add \in BOOLEAN, i \in Items :
           /\ kind = "read" => add /\ i = CHOOSE j \in Items : TRUE
           /\ op' = [op EXCEPT ![a] = [pc |-> "wait", kind |-> kind, add |-> add, item |-> i, copy |-> {}]]
           /\ lock' = IF kind = "locked" THEN Append(lock, a) ELSE lock
    \* A call during the wipe holds an account's data past it.
    /\ past' = IF wipe = "deleted" THEN past \cup {"held"} ELSE past
    /\ UNCHANGED <<cache, file, legacy, writes, wipe, told>>

\* Mistake: a call goes on without waiting for those before it.
anyOrder(a) == op[a].pc = "wait"

withNotesLock(a) == op[a].pc = "wait" /\ (op[a].kind = "locked" => Head(lock) = a)

\* The array the call has, changed and saved: the cache at once, the file later.
save(a, s) ==
    LET new == IF op[a].add THEN s \cup {op[a].item} ELSE s \ {op[a].item}
    IN  /\ cache' = {new}
        /\ writes' = Append(writes, [by |-> a, what |-> {new}])
        /\ Goto(a, "saving")
        \* A call that reads the file meanwhile will put the old array back.
        /\ past' = IF \E b \in Actors \ {a} : Reading(b) /\ {op[a].kind, op[b].kind} # {"locked"}
                   THEN past \cup {"cold"} ELSE past

ends(a) == op' = [op EXCEPT ![a] = Idle]

\* Whoever ends lets the next one have the lock.
releases(a) == lock' = IF op[a].kind = "locked" THEN Tail(lock) ELSE lock

Go(a) ==
    /\ withNotesLock(a)
    /\ IF cache = {} THEN Goto(a, "info") /\ UNCHANGED <<cache, writes, past>>
       ELSE IF op[a].kind = "read" THEN ends(a) /\ UNCHANGED <<cache, writes, past>>
       ELSE save(a, parsed(cache))
    /\ UNCHANGED <<file, legacy, lock, wipe, count, told>>

(* readJsonFile, a call of the file system or of AsyncStorage at a time *)

Info(a) ==
    /\ At(a, {"info"}) /\ Goto(a, IF file = {} THEN "legacy" ELSE "get")
    /\ UNCHANGED <<cache, file, legacy, writes, lock, wipe, count, told, past>>

Get(a) ==
    /\ At(a, {"get"}) /\ Load(a, "back", parsed(file))
    /\ UNCHANGED <<cache, file, legacy, writes, lock, wipe, count, told, past>>

Legacy(a) ==
    /\ At(a, {"legacy"})
    /\ Load(a, IF legacy = {} THEN "back" ELSE "moving", parsed(legacy))
    /\ writes' = IF legacy = {} THEN writes ELSE Append(writes, [by |-> a, what |-> legacy])
    /\ UNCHANGED <<cache, file, legacy, lock, wipe, count, told, past>>

Drop(a) ==
    /\ At(a, {"drop"}) /\ legacy' = {} /\ Goto(a, "back")
    \* Another call that found no file now finds no key either.
    /\ past' = IF \E b \in Actors \ {a} : At(b, {"legacy"}) THEN past \cup {"cold"} ELSE past
    /\ UNCHANGED <<cache, file, writes, lock, wipe, count, told>>

Back(a) ==
    /\ At(a, {"back"})
    /\ IF op[a].kind = "read"
       THEN cache' = {op[a].copy} /\ ends(a) /\ UNCHANGED <<writes, past>>
       ELSE save(a, op[a].copy)
    /\ UNCHANGED <<file, legacy, lock, wipe, count, told>>

(* The file system: one write after the other *)

\* A write ends and the call that waits for it goes on: it has saved, and lets
\* the next one have the lock, or it has moved the old key into the file.
Land ==
    /\ writes # <<>> /\ (wipe = "deleted" => file # {})   \* its directory is there
    /\ LET a == Head(writes).by
       IN  /\ file' = Head(writes).what /\ writes' = Tail(writes)
           /\ IF At(a, {"moving"}) THEN Goto(a, "drop") /\ UNCHANGED <<lock, told>>
              ELSE /\ ends(a)
                   /\ told' = [told EXCEPT ![op[a].item] = IF op[a].add THEN "in" ELSE "out"]
                   /\ releases(a)
    /\ UNCHANGED <<cache, legacy, wipe, count, past>>

\* A write fails, for the disk is full or its directory is gone.  The array stays
\* in the cache, but the call has thrown; a move has dropped the key all the same.
LandFails ==
    /\ writes # <<>>
    /\ LET a == Head(writes).by
       IN  /\ writes' = Tail(writes)
           /\ IF At(a, {"moving"})
              THEN Load(a, "back", {}) /\ legacy' = {} /\ UNCHANGED lock
              ELSE /\ ends(a) /\ releases(a)
                   /\ UNCHANGED legacy
    /\ past' = past \cup {"failed"}
    /\ UNCHANGED <<cache, file, wipe, count, told>>

(* clearLocalData, when the account has been deleted; a delete that fails is *)
(* ignored.  What is called before it ends may write the old array again.    *)

Delete ==
    /\ wipe = "no" /\ wipe' = "deleted"
    /\ cache # {}   \* the lists have been read before an account is deleted
    /\ told' = [i \in Items |-> "out"]
    /\ \/ file' = {} /\ past' = past \cup {h \in {"held"} : \E a \in Actors : op[a] # Idle}
       \/ file # {} /\ past' = past \cup {"failed"} /\ UNCHANGED file
    /\ UNCHANGED <<cache, legacy, writes, op, lock, count>>

\* Mistake: the mirror outlives the file.
keepsCache == cache' = cache

forgets == cache' = {}

Forget ==
    /\ wipe = "deleted" /\ wipe' = "done"
    /\ forgets
    /\ UNCHANGED <<file, legacy, writes, op, lock, count, told, past>>

\* The app is killed: the writes it has asked for are not made, the first of
\* them may be cut off, and a move that had not dropped the key is made again.
Kill ==
    /\ count.kills < MaxKills /\ count' = [count EXCEPT !.kills = @ + 1]
    /\ \/ UNCHANGED file /\ past' = past \cup {h \in {"half"} : \E a \in Actors : At(a, {"drop"})}
       \/ writes # <<>> /\ file' = {Torn} /\ past' = past \cup {"torn"}
    /\ cache' = {} /\ writes' = <<>> /\ lock' = <<>>
    /\ op' = [a \in Actors |-> Idle]
    /\ wipe' = IF wipe = "deleted" THEN "done" ELSE wipe
    /\ UNCHANGED <<legacy, told>>

Next ==
    \/ \E a \in Actors : Call(a) \/ Go(a) \/ Info(a) \/ Get(a) \/ Legacy(a) \/ Drop(a) \/ Back(a)
    \/ Land \/ LandFails \/ Delete \/ Forget \/ Kill

-------------------------------------------------------------------------------

\* What a call has reported is what the next read returns: a saved record is
\* there, a removed one and those of a deleted account are not.  Excused are a
\* file read for the first time while something is saved, a write that failed or
\* was cut off, an account deleted under a call, and a kill within a move.
StoreKeeps ==
    past = {} /\ wipe # "deleted" =>
        \A i \in Items :
            (\A a \in Actors : ~(At(a, {"saving"}) /\ op[a].item = i))
            => (told[i] = "in" <=> i \in Stored)
===============================================================================
