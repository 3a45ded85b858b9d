------------------------------- MODULE Ciphertext -------------------------------
(***************************************************************************)
(* The fields of a note or an event between plain text on the devices and   *)
(* ciphertext on the server: encryptNoteFields and decryptNoteFields        *)
(* (noteCryptoCore.ts, eventCryptoCore.ts) around the pushes and the pulls. *)
(* A device may be without the account's key: in the browser, after a       *)
(* logout, or when the recovery code was skipped.  Body stands for the      *)
(* fields that are sent together (title, content and the names of tags; of  *)
(* an event the title, description and location), file for the filename of  *)
(* an attachment.  A text is what it says and how often it is encrypted.    *)
(***************************************************************************)
EXTENDS Naturals, FiniteSets

CONSTANTS
    Devices,
    None,
    MaxSaves  \* bound: edits and pins on all devices

VARIABLES
    kind,   \* "note" or "event"
    row,    \* the server's record; enc is enc_version = 1
    copy,   \* per device: its record in the local store
    queue,  \* per device: the update that waits, or None
    push,   \* per device: where the push of that update is
    pull,   \* per device: the page that was read, or None
    dek,    \* per device: has it the account's key?
    saves,  \* the last time of a save
    past    \* history: what excuses an unreadable text, see SealHolds

vars == <<kind, row, copy, queue, push, pull, dek, saves, past>>

Text(n)  == [says |-> n, coats |-> 0]
Lost     == Text(MaxSaves + 1)  \* UNDECRYPTABLE_PLACEHOLDER
Idle     == [pc |-> "idle", item |-> None]

-------------------------------------------------------------------------------
(* The ciphers *)

encryptString(t) == [t EXCEPT !.coats = @ + 1]

tryDecrypt(t) == IF t.coats > 0 THEN [t EXCEPT !.coats = @ - 1] ELSE Lost

looksLikeCiphertext(t) == t.coats > 0

\* Mistake: every payload is marked, also one with a pin or a time only.
marksAll(p) == TRUE

hasEncryptableFields(p) == p.body # None \/ p.file # None

\* A payload that is marked already is left alone, and a filename that is ciphertext.
encryptNoteFields(p) ==
    IF p.enc \/ ~hasEncryptableFields(p) THEN p
    ELSE [p EXCEPT !.enc = TRUE,
                   !.body = IF @ = None THEN None ELSE encryptString(@),
                   !.file = IF @ = None \/ looksLikeCiphertext(@) THEN @ ELSE encryptString(@)]

decryptNoteFields(r) ==
    IF ~r.enc THEN r
    ELSE [r EXCEPT !.enc = FALSE, !.body = tryDecrypt(@),
                   !.file = IF looksLikeCiphertext(@) THEN tryDecrypt(@) ELSE @]

encryptNoteForServer(d, p) == IF dek[d] THEN encryptNoteFields(p) ELSE p

decryptNoteFromServer(d, r) == IF dek[d] THEN decryptNoteFields(r) ELSE r

-------------------------------------------------------------------------------

\* A record from before encryption, or one that was encrypted before filenames
\* were; every device has pulled it.
Init ==
    /\ kind \in {"note", "event"} /\ saves = 0 /\ past = {}
    /\ row \in {[body |-> Text(0), file |-> Text(0), enc |-> FALSE, at |-> 0],
                [body |-> encryptString(Text(0)), file |-> Text(0), enc |-> TRUE, at |-> 0]}
    /\ dek \in [Devices -> BOOLEAN]
    /\ copy = [d \in Devices |-> decryptNoteFromServer(d, row)]
    /\ queue = [d \in Devices |-> None] /\ push = [d \in Devices |-> Idle]
    /\ pull = [d \in Devices |-> None]

(* The key *)

\* Login or recoverKeyWithCode.
storeDek(d) ==
    /\ ~dek[d] /\ dek' = [dek EXCEPT ![d] = TRUE]
    /\ UNCHANGED <<kind, row, copy, queue, push, pull, saves, past>>

\* Logout, and a login after which the recovery code is skipped: the local store
\* and the queue stay.
clearDek(d) ==
    /\ dek[d] /\ dek' = [dek EXCEPT ![d] = FALSE]
    /\ UNCHANGED <<kind, row, copy, queue, push, pull, saves, past>>

-------------------------------------------------------------------------------
(* Saves *)

Excuse(why, t, when) == past' = IF when /\ t # None THEN past \cup {<<why, t.says>>} ELSE past

\* The update waits in the queue, in place of one that waits already.
Queued(d, p) == queue' = [queue EXCEPT ![d] = p]

\* The note's editor starts from the local copy, the event's from the server's record.
Opened(d) == IF kind = "note" THEN copy[d] ELSE decryptNoteFromServer(d, row)

\* The editor saves: the body is typed anew, or is what the screen showed (another
\* field was changed).  The names of a note's attachments go with it; the update of
\* an event is the whole local record, with its mark.  A save during a push of the
\* same device is left to NoteSync.
updateNoteOffline(d) ==
    /\ saves < MaxSaves /\ saves' = saves + 1 /\ push[d] = Idle
    /\ \E body \in {Text(saves + 1), Opened(d).body} :
           /\ copy' = [copy EXCEPT ![d] = [@ EXCEPT !.body = body, !.at = saves + 1]]
           /\ Queued(d, [body |-> body, at |-> saves + 1,
                         file |-> IF kind = "note" THEN copy[d].file ELSE None,
                         enc  |-> kind = "event" /\ copy[d].enc])
           /\ Excuse("shown", body, body.coats > 0)
    /\ UNCHANGED <<kind, row, push, pull, dek>>

Unnamed == [body |-> None, file |-> None, enc |-> FALSE, at |-> saves + 1]

\* The list pins a note: an update that names none of the texts.
togglePin(d) ==
    /\ kind = "note" /\ saves < MaxSaves /\ saves' = saves + 1 /\ push[d] = Idle
    /\ copy' = [copy EXCEPT ![d].at = saves + 1] /\ Queued(d, Unnamed)
    /\ UNCHANGED <<kind, row, push, pull, dek, past>>

-------------------------------------------------------------------------------
(* The push *)

At(d, pc) == push[d].pc = pc
Ends(d)   == push' = [push EXCEPT ![d] = Idle]

\* The payload is encrypted before the server is asked; an event's is sent at once.
encrypted(d) ==
    /\ At(d, "idle") /\ queue[d] # None
    /\ push' = [push EXCEPT ![d] = [pc |-> IF kind = "note" THEN "get" ELSE "put",
                                    item |-> encryptNoteForServer(d, queue[d])]]
    /\ Excuse("bare", queue[d].body, queue[d].enc \/ ~dek[d])
    /\ UNCHANGED <<kind, row, copy, queue, pull, dek, saves>>

\* Keeps whichever is newer.
upserted(d, r) == IF r.at > copy[d].at THEN r ELSE copy[d]

\* The server's note is newer and is taken instead; it is sent also when the
\* request for it failed.
compared(d) ==
    /\ At(d, "get")
    /\ \/ /\ push' = [push EXCEPT ![d].pc = "put"] /\ UNCHANGED <<copy, queue>>
       \/ /\ push[d].item.at <= row.at
          /\ copy' = [copy EXCEPT ![d] = upserted(d, decryptNoteFromServer(d, row))]
          /\ Queued(d, None) /\ Ends(d)
    /\ UNCHANGED <<kind, row, pull, dek, saves, past>>

\* exclude_unset: what the update does not name stays, enc_version too.
update(r, p) ==
    [body |-> IF p.body = None THEN r.body ELSE p.body,
     file |-> IF p.file = None THEN r.file ELSE p.file, enc |-> r.enc \/ p.enc, at |-> p.at]

\* The update arrives; its answer may be lost, and then it is sent again.
sent(d) ==
    LET p == push[d].item
    IN  /\ At(d, "put") /\ row' = update(row, p)
        /\ Ends(d) /\ (Queued(d, None) \/ UNCHANGED queue)
        /\ UNCHANGED <<kind, copy, pull, dek, saves, past>>

\* The notes of an event are linked by a request of their own, outside of the
\* queue and stamped by the server.
linkNotes ==
    /\ kind = "event" /\ saves < MaxSaves /\ saves' = saves + 1
    /\ row' = update(row, Unnamed)
    /\ UNCHANGED <<kind, copy, queue, push, pull, dek, past>>

failed(d) ==
    /\ ~At(d, "idle") /\ Ends(d)
    /\ UNCHANGED <<kind, row, copy, queue, pull, dek, saves, past>>

-------------------------------------------------------------------------------
(* The pull *)

getAllPaged(d) ==
    /\ pull[d] = None /\ pull' = [pull EXCEPT ![d] = row]
    /\ UNCHANGED <<kind, row, copy, queue, push, dek, saves, past>>

\* decryptNotesFromServer and mergeRecords: a local record that is newer stays.
merged(d, r) == IF copy[d].at > r.at THEN copy[d] ELSE decryptNoteFromServer(d, r)

mergeRecords(d) ==
    /\ pull[d] # None
    /\ copy' = [copy EXCEPT ![d] = merged(d, pull[d])]
    /\ pull' = [pull EXCEPT ![d] = None]
    /\ UNCHANGED <<kind, row, queue, push, dek, saves, past>>

Next ==
    \E d \in Devices :
        \/ storeDek(d) \/ clearDek(d) \/ updateNoteOffline(d) \/ togglePin(d) \/ linkNotes
        \/ encrypted(d) \/ compared(d) \/ sent(d) \/ failed(d)
        \/ getAllPaged(d) \/ mergeRecords(d)

Spec == Init /\ [][Next]_vars

-------------------------------------------------------------------------------

\* The requests under way.
Busy == {<<d, "push">> : d \in {e \in Devices : push[e] # Idle}} \cup
        {<<d, "pull">> : d \in {e \in Devices : pull[e] # None}}

Was(why, n) == <<why, n>> \in past
BareText    == \E n \in 0..Lost.says : Was("bare", n)

\* A text on the server is encrypted once if the record is marked and not at all
\* if it is not, so that whoever has the key reads it.  Only a text that was sent
\* without the key, or with the mark of a copy that was pulled without it, is bare
\* there, only one that was saved as ciphertext is encrypted again, and a
\* placeholder takes the place of a text only after a bare one.  A filename can
\* always be read.  A device without the key
\* may write, a key may come or go at every await, and a record may be pinned,
\* moved or linked without its text (noteCryptoCore.ts).
SealHolds ==
    /\ row.enc /\ row.body.coats = 0 => Was("bare", row.body.says)
    /\ row.enc /\ row.body.coats > 1 => Was("shown", row.body.says)
    /\ ~row.enc => row.body.coats = 0 /\ row.file.coats = 0
    /\ row.file \in {Text(0), encryptString(Text(0))}
    /\ row.body.says = Lost.says => BareText
    /\ \A d \in Devices :
           /\ copy[d].body = Lost => BareText
           /\ copy[d].body.coats > 0 => copy[d].enc \/ Was("shown", copy[d].body.says)
=============================================================================
