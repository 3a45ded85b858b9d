-------------------------------- MODULE Records --------------------------------
(***************************************************************************)
(* One account's rows on the server: a trip, an event, attachments and the  *)
(* notes that claim them (attachments, notes), a push token and the         *)
(* receipts of its reminders, and the erasure of it all                     *)
(* (accounts/service.py).  A request is authenticated first and writes      *)
(* later; each await on the database or on S3 ends a step.                  *)
(***************************************************************************)
EXTENDS Naturals, FiniteSets

CONSTANTS
    Files,     \* attachments of one unit of size each
    MaxTotal,  \* MAX_TOTAL_ATTACHMENT_BYTES, in units
    MaxFaults  \* bound: calls that fail, and restarts

VARIABLES
    user,     \* the users row
    rows,     \* which rows there are: trip, event, push_token, receipt
    files,    \* each attachment: none, asked, signed, stored, claimed, orphan
    used,     \* what used_storage_bytes has told each presign
    pending,  \* requests that are authenticated and have not written
    erase,    \* AccountsService.erase: the next step
    past      \* what excuses a property, and the faults

vars == <<user, rows, files, used, pending, erase, past>>

Claims == {f \in Files : files[f] = "claimed"}

Init ==
    /\ user = TRUE /\ rows = {}
    /\ files = [f \in Files |-> "none"] /\ used = [f \in Files |-> 0]
    /\ pending = {} /\ erase = 0
    /\ past = [faults |-> 0, failed |-> FALSE, late |-> FALSE]

Fault         == past.faults < MaxFaults /\ past' = [past EXCEPT !.faults = @ + 1]
Faulty(event) == past.faults < MaxFaults /\ past' = [past EXCEPT !.faults = @ + 1, ![event] = TRUE]
Excused(event, cond) == past' = [past EXCEPT ![event] = @ \/ cond]

-------------------------------------------------------------------------------
(* AccountsService.erase *)

\* Mistake: the tokens go before the receipts that are found by them.
tokensFirst == <<"objects", "push_token", "receipt", "notes", "event", "trip", "users">>

eraseOrder == <<"objects", "receipt", "notes", "event", "trip", "push_token", "users">>

\* What the erasure in progress, or the one that is done, has behind it.
wiped == {eraseOrder[i] : i \in {j \in 1..7 : j < erase}}

startErase ==
    /\ user /\ erase = 0 /\ erase' = 1
    /\ UNCHANGED <<user, rows, files, used, pending, past>>

\* The receipts have no user: they are found by the tokens.
Wipe(what) ==
    /\ rows' = IF what = "receipt" /\ "push_token" \notin rows THEN rows ELSE rows \ {what}
    /\ files' = [f \in Files |->
           CASE what = "objects" /\ files[f] \in {"stored", "claimed", "orphan"} -> "none"
             [] what = "notes" /\ files[f] = "claimed" -> "orphan"
             [] OTHER -> files[f]]
    /\ user' = (what # "users")

\* A collection that fails is logged and passed over.
EraseStep ==
    /\ erase \in 1..7 /\ erase' = erase + 1
    /\ \/ Wipe(eraseOrder[erase]) /\ UNCHANGED past
       \/ erase < 7 /\ Faulty("failed") /\ UNCHANGED <<user, rows, files>>
    /\ UNCHANGED <<used, pending>>

-------------------------------------------------------------------------------
(* Requests that insert a row *)

Begin(op) ==
    /\ user /\ op \notin pending
    /\ op = "receipt" => "push_token" \in rows
    /\ pending' = pending \cup {op}
    /\ UNCHANGED <<user, rows, files, used, erase, past>>

Write(op) ==
    /\ op \in pending /\ pending' = pending \ {op}
    /\ rows' = rows \cup {op}
    /\ Excused("late", op \in wiped)
    /\ UNCHANGED <<user, files, used, erase>>

-------------------------------------------------------------------------------
(* Attachments *)

Goes(f, state) == files' = [files EXCEPT ![f] = state]

\* used_storage_bytes counts what the notes claim; if it fails, nothing.
AskUpload(f) ==
    /\ user /\ files[f] = "none" /\ Goes(f, "asked")
    /\ \/ used' = [used EXCEPT ![f] = Cardinality(Claims)] /\ UNCHANGED past
       \/ used' = [used EXCEPT ![f] = 0] /\ Fault
    /\ UNCHANGED <<user, rows, pending, erase>>

room(n) == n + 1 <= MaxTotal

presign_upload(f) ==
    /\ files[f] = "asked" /\ Goes(f, IF room(used[f]) THEN "signed" ELSE "none")
    /\ used' = [used EXCEPT ![f] = 0]
    /\ UNCHANGED <<user, rows, pending, erase, past>>

\* S3 takes it from whoever has the URL; an unused URL expires.
Upload(f) ==
    /\ files[f] = "signed"
    /\ \/ Goes(f, "stored") /\ Excused("late", "objects" \in wiped)
       \/ Goes(f, "none") /\ UNCHANGED past
    /\ UNCHANGED <<user, rows, used, pending, erase>>

\* The note that has it is saved, or never is.
SaveNote(f) ==
    /\ files[f] = "stored"
    /\ \/ user /\ Goes(f, "claimed") /\ Excused("late", "notes" \in wiped)
       \/ Goes(f, "orphan") /\ UNCHANGED past
    /\ UNCHANGED <<user, rows, used, pending, erase>>

\* The note goes first, then its objects as far as S3 answers.
DeleteNote(f) ==
    /\ user /\ files[f] = "claimed" /\ Goes(f, "orphan")
    /\ UNCHANGED <<user, rows, used, pending, erase, past>>

delete_attachment(f) ==
    /\ files[f] = "orphan" /\ user /\ Goes(f, "none")
    /\ UNCHANGED <<user, rows, used, pending, erase, past>>

\* A restart between two steps: what is under way ends there.
Restart ==
    /\ Fault
    /\ pending' = {} /\ erase' = IF user THEN 0 ELSE erase
    /\ files' = [f \in Files |-> IF files[f] = "asked" THEN "none" ELSE files[f]]
    /\ used' = [f \in Files |-> 0]
    /\ UNCHANGED <<user, rows>>

Ops == {"trip", "event", "push_token", "receipt"}

Next ==
    \/ startErase \/ EraseStep
    \/ (\E op \in Ops : Begin(op) \/ Write(op))
    \/ \E f \in Files : AskUpload(f) \/ presign_upload(f) \/ Upload(f) \/ SaveNote(f)
                            \/ DeleteNote(f) \/ delete_attachment(f)
    \/ Restart

-------------------------------------------------------------------------------
(* Properties.  `past' tells what excuses them: a collection that failed, a *)
(* request that wrote what was wiped before.                                *)

\* An account that is gone has left nothing, wherever a restart cut an erasure
\* before: the users row goes last, the receipts before their tokens.
ErasedLeavesNothing ==
    ~user => \/ past.failed \/ past.late
             \/ rows = {} /\ \A f \in Files : files[f] \notin {"stored", "claimed", "orphan"}
=============================================================================
