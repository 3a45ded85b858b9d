-------------------------------- MODULE PagedPull --------------------------------
(***************************************************************************)
(* A pull of a collection by pages (pagedPullCore.ts) from a list the       *)
(* server sorts anew for each page (notes/service.py), while other devices  *)
(* write, pin and delete notes.  What the pull does not return is gone for  *)
(* this device when the pull calls itself complete (syncMergeCore.ts).      *)
(***************************************************************************)
EXTENDS Naturals, FiniteSets

CONSTANTS
    Ids,         \* numbers: ids are compared to break ties
    PageSize,
    MaxPages,    \* MAX_PAGES_PER_PULL, 100 in the code
    MaxWrites,   \* bound: writes of other devices
    Stamps       \* the timestamps notes have at the start

VARIABLES
    rows,   \* the collection: per id [there, pin, at]
    known,  \* the notes this device has, all of them synced
    pull,   \* [pc, page, items]
    past    \* count: writes so far; touched, sunk: ids written, and ids deleted or
            \* unpinned, while the pull is under way; kept: known before the pull

vars == <<rows, known, pull, past>>

None == [there |-> FALSE, pin |-> FALSE, at |-> 0]
There == {i \in Ids : rows[i].there}
Idle == [pc |-> "idle", page |-> 1, items |-> {}]

Init ==
    /\ rows \in [Ids -> {None} \cup [there : {TRUE}, pin : BOOLEAN, at : Stamps]]
    /\ known = There
    /\ pull = Idle
    /\ past = [count |-> 0, touched |-> {}, sunk |-> {}, kept |-> {}]

\* The order of the list: pinned first, then the newest, then by id.
Before(i, j) ==
    LET a == rows[i] b == rows[j]
    IN  IF a.pin # b.pin THEN a.pin
        ELSE IF a.at # b.at THEN a.at > b.at
        ELSE i < j

Rank(i) == Cardinality({j \in There : Before(j, i)})

list(page, size) == {i \in There : Rank(i) >= (page - 1) * size /\ Rank(i) < page * size}

Start ==
    /\ pull.pc = "idle" /\ past.kept = {}
    /\ pull' = [pull EXCEPT !.pc = "reading"]
    /\ past' = [past EXCEPT !.kept = known]
    /\ UNCHANGED <<rows, known>>

\* Mistake: a full page is taken for the last one.
fullIsLast(n) == n <= PageSize

lastPage(n) == n < PageSize

\* A page comes: the end, the ceiling or the next one.
fetchPage ==
    /\ pull.pc = "reading"
    /\ LET batch == list(pull.page, PageSize)
       IN  pull' = [pull EXCEPT !.items = @ \cup batch, !.page = @ + 1,
                                !.pc = IF lastPage(Cardinality(batch)) THEN "complete"
                                       ELSE IF pull.page = MaxPages THEN "part" ELSE "reading"]
    /\ UNCHANGED <<rows, known, past>>

\* The first page's failure ends the pull, a later one leaves a part.
PageFails ==
    /\ pull.pc = "reading"
    /\ pull' = IF pull.page = 1 THEN [pull EXCEPT !.pc = "failed"] ELSE [pull EXCEPT !.pc = "part"]
    /\ UNCHANGED <<rows, known, past>>

\* mergeRecords of synced notes nobody edits on this device.
merge ==
    /\ pull.pc \in {"complete", "part"}
    /\ known' = IF pull.pc = "complete" THEN pull.items ELSE known \cup pull.items
    /\ pull' = [pull EXCEPT !.pc = "merged"]
    /\ UNCHANGED <<rows, past>>

-------------------------------------------------------------------------------
(* The other devices *)

Pulling == pull.pc = "reading"

Written(i, sinks) ==
    past' = [past EXCEPT !.count = @ + 1,
                         !.touched = IF Pulling THEN @ \cup {i} ELSE @,
                         !.sunk = IF Pulling /\ sinks THEN @ \cup {i} ELSE @]

Now == 10 + past.count

\* A note is created, or its text or its pin is written: its stamp is new.
\* A deleted note's id does not come back.
Write(i, pin) ==
    /\ past.count < MaxWrites /\ (i \in There \/ i \notin known \cup past.kept)
    /\ rows' = [rows EXCEPT ![i] = [there |-> TRUE, pin |-> pin, at |-> Now]]
    /\ Written(i, rows[i].pin /\ ~pin)
    /\ UNCHANGED <<known, pull>>

Delete(i) ==
    /\ past.count < MaxWrites /\ i \in There
    /\ rows' = [rows EXCEPT ![i] = None]
    /\ Written(i, TRUE)
    /\ UNCHANGED <<known, pull>>

Next ==
    \/ Start \/ fetchPage \/ PageFails \/ merge
    \/ \E i \in Ids : Delete(i) \/ \E pin \in BOOLEAN : Write(i, pin)

-------------------------------------------------------------------------------

\* A note that is there stays on the device through a pull, whatever page fails
\* and wherever the pull ends, unless it was itself written while the pages were
\* read, or one before it was deleted or unpinned and it moved a place up.
PullKeepsNotes ==
    pull.pc = "merged" =>
        \A i \in past.kept \cap There : i \in known \cup past.touched \/ past.sunk \ {i} # {}
===============================================================================
