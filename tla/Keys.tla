---------------------------------- MODULE Keys ----------------------------------
(***************************************************************************)
(* The encryption key of one account on its devices (crypto/keySession,    *)
(* e2ee, escrowApi, the migrations): the key is made by the first device   *)
(* and escrowed on the server, wrapped by the password and by a recovery   *)
(* code.  A recovery code stands for the key it was made with.  A step is  *)
(* the code between two awaits; a request may fail, a device may be killed.*)
(***************************************************************************)
EXTENDS Naturals, FiniteSets

CONSTANTS
    Devices,
    Passwords,
    KeyIds,       \* the keys that createEscrow may make, each once
    None,         \* no key, no escrow
    MaxEdits,     \* bound: how often the note is saved
    MaxChanges    \* bound: how often the password is changed or reset

VARIABLES
    password,  \* the account's
    escrow,    \* the user_keys row: the wrapping password, the key in each wrap
    dev,       \* per device: signed in, the flow it is in and what it read, its key
    note,      \* a note on the server: its text and the key it is encrypted with
    made,      \* the keys made so far
    shown,     \* the recovery codes the user was shown
    edits,     \* how often the note was saved
    changes,   \* how often the password was changed
    past       \* history: what went wrong so far, see the properties

vars == <<password, escrow, dev, note, made, shown, edits, changes, past>>

-------------------------------------------------------------------------------
(* Data *)

Escrow == [by : Passwords, key : KeyIds, recovery : KeyIds]
Idle   == [pc |-> "idle", word |-> None, at |-> 0, seen |-> None]
Plain  == [text |-> 0, key |-> None]

Init ==
    /\ password \in Passwords
    /\ escrow = None
    /\ dev = [d \in Devices |-> [in |-> FALSE, dek |-> None, done |-> FALSE, flow |-> Idle]]
    /\ note = Plain
    /\ made = {} /\ shown = {}
    /\ edits = 0 /\ changes = 0
    /\ past = [twice |-> FALSE, unseen |-> FALSE, stale |-> FALSE, raced |-> FALSE]

Flow(d)        == dev[d].flow
Goto(d, flow)  == dev' = [dev EXCEPT ![d].flow = flow]
Took(d, dek)   == dev' = [dev EXCEPT ![d].flow = Idle, ![d].dek = dek]
At(d, pc)      == dev[d].in /\ Flow(d).pc = pc
Note(event)    == past' = [past EXCEPT ![event] = TRUE]

-------------------------------------------------------------------------------
(* Login: bootstrapKeyOnLogin *)

\* The login was accepted and getEscrow has answered.
getEscrow(d) ==
    /\ Flow(d).pc = "idle" /\ (dev[d].in => dev[d].dek = None)
    /\ dev' = [dev EXCEPT ![d].in = TRUE,
                          ![d].flow = [pc |-> "boot", word |-> password, at |-> changes,
                                       seen |-> escrow]]
    /\ UNCHANGED <<password, escrow, note, made, shown, edits, changes, past>>

\* Mistake: a password that does not open the escrow makes a new one.
SetsUpAnew(flow) == IF flow.seen = None THEN TRUE ELSE flow.seen.by # flow.word

SetsUp(flow) == flow.seen = None

\* No escrow: a key is made and stored.  The code is shown once it is.
createEscrow(d) ==
    /\ At(d, "boot") /\ SetsUp(Flow(d))
    /\ \E k \in KeyIds \ made :
           /\ made' = made \cup {k}
           /\ escrow' = [by |-> Flow(d).word, key |-> k, recovery |-> k]
           /\ past' = [past EXCEPT !.twice = @ \/ escrow # Flow(d).seen,
                                   !.stale = @ \/ Flow(d).at # changes]
           /\ Goto(d, [Flow(d) EXCEPT !.pc = "created", !.seen = escrow'])
    /\ UNCHANGED <<password, note, shown, edits, changes>>

storeDek(d) ==
    /\ Flow(d).pc = "created"
    /\ Took(d, Flow(d).seen.key)
    /\ shown' = shown \cup {Flow(d).seen.key}
    /\ UNCHANGED <<password, escrow, note, made, edits, changes, past>>

unlockWithPassword(d) ==
    /\ Flow(d).pc = "boot" /\ ~SetsUp(Flow(d)) /\ Flow(d).seen.by = Flow(d).word
    /\ Took(d, Flow(d).seen.key)
    /\ UNCHANGED <<password, escrow, note, made, shown, edits, changes, past>>

\* The password does not open it: the screen asks for the recovery code, and
\* recoverKeyWithCode reads the escrow again.
recoverKeyWithCode(d) ==
    /\ \/ At(d, "boot") /\ ~SetsUp(Flow(d)) /\ Flow(d).seen.by # Flow(d).word
       \/ At(d, "recover")
    /\ escrow # None /\ escrow.recovery \in shown
    /\ Goto(d, [Flow(d) EXCEPT !.pc = "recover", !.seen = escrow])
    /\ UNCHANGED <<password, escrow, note, made, shown, edits, changes, past>>

\* rewrapWithDek: the wrap by the recovery code stays as it was read.
rewrapWithDek(seen, dek, word) == [seen EXCEPT !.by = word, !.key = dek]

\* The wrap is for the password the flow began with.
Rewrapped(d, dek) ==
    /\ escrow' = rewrapWithDek(Flow(d).seen, dek, Flow(d).word)
    /\ IF Flow(d).at # changes THEN Note("stale") ELSE UNCHANGED past

rewrapForNewPassword(d) ==
    /\ At(d, "recover")
    /\ Rewrapped(d, Flow(d).seen.recovery)
    /\ Took(d, Flow(d).seen.recovery)
    /\ UNCHANGED <<password, note, made, shown, edits, changes>>

-------------------------------------------------------------------------------
(* Password changes *)

\* Mistake: the new wrap is made with the old password.
oldWord(p) == password

newWord(p) == p

changePassword(d) ==
    /\ At(d, "idle") /\ changes < MaxChanges
    /\ \E p \in Passwords \ {password} :
           /\ password' = p
           /\ Goto(d, [pc |-> "changed", word |-> newWord(p), at |-> changes + 1, seen |-> None])
    /\ changes' = changes + 1
    /\ UNCHANGED <<escrow, note, made, shown, edits, past>>

\* getEscrow and loadDek; without either there is nothing to wrap.
rewrapDekForNewPassword(d) ==
    /\ At(d, "changed")
    /\ IF escrow = None \/ dev[d].dek = None
       THEN /\ Goto(d, Idle)
            /\ IF escrow # None THEN Note("stale") ELSE UNCHANGED past
       ELSE Goto(d, [Flow(d) EXCEPT !.pc = "rewrap", !.seen = escrow]) /\ UNCHANGED past
    /\ UNCHANGED <<password, escrow, note, made, shown, edits, changes>>

putEscrow(d) ==
    /\ At(d, "rewrap")
    /\ Rewrapped(d, dev[d].dek)
    /\ Goto(d, Idle)
    /\ UNCHANGED <<password, note, made, shown, edits, changes>>

\* By email, which signs every device out and cannot wrap anything.
resetPassword ==
    /\ changes < MaxChanges
    /\ \E p \in Passwords \ {password} : password' = p
    /\ dev' = [d \in Devices |-> [dev[d] EXCEPT !.in = FALSE]]
    /\ changes' = changes + 1
    /\ Note("stale")
    /\ UNCHANGED <<escrow, note, made, shown, edits>>

-------------------------------------------------------------------------------
(* Notes, their migration, and what cuts a flow short *)

\* encryptNoteForServer; without a key only a plain note is edited.
SaveNote(d) ==
    /\ At(d, "idle") /\ edits < MaxEdits
    /\ dev[d].dek = None => note.key = None
    /\ edits' = edits + 1
    /\ note' = [text |-> edits + 1, key |-> dev[d].dek]
    /\ UNCHANGED <<password, escrow, dev, made, shown, changes, past>>

notesNeedingMigration(n) == n.key = None

\* getAll; a pass with nothing to do is done at once.
migrateNotesToEncrypted(d) ==
    /\ At(d, "idle") /\ dev[d].dek # None /\ ~dev[d].done
    /\ IF notesNeedingMigration(note) THEN Goto(d, [Idle EXCEPT !.pc = "migrate", !.seen = note])
                                      ELSE dev' = [dev EXCEPT ![d].done = TRUE]
    /\ UNCHANGED <<password, escrow, note, made, shown, edits, changes, past>>

\* Mistake: the payload is made of fields that were not read.
emptyPayload(n) == 0

payload(n) == n.text

\* The text that was read goes back encrypted, whatever was saved since.
MigrateNote(d) ==
    /\ At(d, "migrate")
    /\ dev' = [dev EXCEPT ![d].flow = Idle, ![d].done = TRUE]
    /\ note' = [text |-> payload(Flow(d).seen), key |-> dev[d].dek]
    /\ IF note # Flow(d).seen THEN Note("raced") ELSE UNCHANGED past
    /\ UNCHANGED <<password, escrow, made, shown, edits, changes>>

\* A request fails or the app is killed: the flow is over, the keystore stays.
Cut(d) ==
    /\ Flow(d).pc # "idle"
    /\ Goto(d, Idle)
    /\ CASE Flow(d).pc = "created" -> Note("unseen")
         [] Flow(d).pc \in {"changed", "rewrap"} -> Note("stale")
         [] OTHER -> UNCHANGED past
    /\ UNCHANGED <<password, escrow, note, made, shown, edits, changes>>

Logout(d) ==
    /\ At(d, "idle")
    /\ dev' = [dev EXCEPT ![d].in = FALSE, ![d].dek = None]
    /\ UNCHANGED <<password, escrow, note, made, shown, edits, changes, past>>

Next ==
    \/ \E d \in Devices :
           \/ getEscrow(d) \/ createEscrow(d) \/ storeDek(d) \/ unlockWithPassword(d)
           \/ recoverKeyWithCode(d) \/ rewrapForNewPassword(d)
           \/ changePassword(d) \/ rewrapDekForNewPassword(d) \/ putEscrow(d)
           \/ SaveNote(d) \/ migrateNotesToEncrypted(d) \/ MigrateNote(d)
           \/ Cut(d) \/ Logout(d)
    \/ resetPassword

Spec == Init /\ [][Next]_vars

-------------------------------------------------------------------------------
(* Properties.  `past' tells what excuses them:                            *)
(*   twice   a device escrowed its new key after another had done so       *)
(*   unseen  the flow was cut between the escrow and the code's display    *)
(*   stale   a reset, a cut or an overlap left the wrap by an old password  *)
(*   raced   the note was saved between a migration's read and its write   *)

\* The key a note is encrypted with is in the escrow under the recovery code,
\* and the user was shown that code, whatever the order of logins, resets,
\* changes and recoveries on the devices: only two set-ups at once, or a cut
\* before the code's display, can make a note unreadable.
NotesRecoverable ==
    note.key # None =>
        \/ past.twice
        \/ /\ escrow # None /\ escrow.recovery = note.key
           /\ \/ past.unseen \/ note.key \in shown
              \/ \E d \in Devices : Flow(d).pc = "created"

\* The account's password opens the escrow, unless it was reset by email or
\* the change of the password was not followed by its own wrap.
PasswordOpensKey ==
    escrow # None =>
        \/ past.twice \/ past.stale
        \/ escrow.by = password /\ escrow.key = escrow.recovery
        \/ \E d \in Devices : Flow(d).pc \in {"changed", "rewrap"}

\* A migration carries the newest text, unless the note was saved meanwhile.
MigrationKeepsEdits == note.text = edits \/ past.raced
===============================================================================
