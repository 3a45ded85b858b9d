-------------------------------- MODULE OpenNote --------------------------------
(***************************************************************************)
(* A synced note that is opened again (app/editor.tsx): the screen starts   *)
(* from the local copy, asks the server for its copy and takes the newer    *)
(* title, tags and attachments of the two, but not its body.  Saves, pushes *)
(* and uploads of the last visit may still be under way, and other devices  *)
(* edit the note.  What a stored note goes through otherwise is in NoteSync *)
(* and NoteEditor.                                                          *)
(* A copy is [body, meta, at]: the time of the last edit of the body, of    *)
(* the last edit of the rest, and updated_at.                               *)
(***************************************************************************)
EXTENDS Naturals

CONSTANTS
    MaxTime,  \* bound: edits and saves
    MaxOpens  \* bound: visits of the note

VARIABLES
    loc,     \* the local copy
    srv,     \* the server's copy
    op,      \* the queued update, or None
    push,    \* processSyncQueue: [pc, item]
    screen,  \* [pc, body, meta, copy, timer]; copy: the local copy it started from
    get,     \* the request of loadNote: None, Asked, or the copy it answers with
    up,      \* the upload: [pc, body, meta], with the refs of a screen that is gone
    past     \* the clock, the last edits, and what excuses the properties

vars == <<loc, srv, op, push, screen, get, up, past>>

First == [body |-> 0, meta |-> 0, at |-> 0]
None  == [First EXCEPT !.at = MaxTime + 1]
Asked == [First EXCEPT !.at = MaxTime + 2]
Idle  == [pc |-> "no", item |-> None]
Shut  == [pc |-> "closed", body |-> 0, meta |-> 0, copy |-> None, timer |-> FALSE]
NoUp  == [pc |-> "no", body |-> 0, meta |-> 0]

Init ==
    /\ loc = First /\ srv = First /\ op = None /\ push = Idle /\ screen = Shut
    /\ get = None /\ up = NoUp
    /\ past = [now |-> 0, opens |-> 0, body |-> 0, meta |-> 0, here |-> FALSE, other |-> FALSE,
               early |-> FALSE, late |-> FALSE, blind |-> FALSE]

Open == screen.pc # "closed"
Now  == past.now + 1
Tick == past.now < MaxTime

isNewer(a, b) == a.at > b.at

-------------------------------------------------------------------------------
(* Opening *)

\* The first half of loadNote, up to the request.
seed ==
    /\ ~Open /\ past.opens < MaxOpens
    /\ screen' = [pc |-> "loading", body |-> loc.body, meta |-> loc.meta, copy |-> loc, timer |-> FALSE]
    /\ get' = Asked
    /\ past' = [past EXCEPT !.opens = @ + 1]
    /\ UNCHANGED <<loc, srv, op, push, up>>

\* The server answers; a request that fails falls back on the local copy.
Answer ==
    /\ get = Asked
    /\ \/ get' = srv /\ UNCHANGED past
       \/ get' = screen.copy /\ past' = [past EXCEPT !.blind = TRUE]
    /\ UNCHANGED <<loc, srv, op, push, screen, up>>

\* Mistake: the answer of the server is taken, however old.
serversOnly(copy, note) == note

\* serverIsStale
authoritative(copy, note) == IF isNewer(copy, note) THEN copy ELSE note

\* The rest of loadNote; the user may have edited the screen meanwhile.
loadNote ==
    /\ screen.pc = "loading" /\ get \notin {None, Asked}
    /\ screen' = [screen EXCEPT !.pc = "ready", !.meta = authoritative(screen.copy, get).meta]
    /\ get' = None
    /\ past' = [past EXCEPT !.early = @ \/ screen.meta # screen.copy.meta]
    /\ UNCHANGED <<loc, srv, op, push, up>>

-------------------------------------------------------------------------------
(* Editing and saving *)

EditBody ==
    /\ Open /\ Tick
    /\ screen' = [screen EXCEPT !.body = Now, !.timer = TRUE]
    /\ past' = [past EXCEPT !.now = Now, !.here = TRUE, !.body = Now]
    /\ UNCHANGED <<loc, srv, op, push, get, up>>

\* handleTitleChange, togglePin, removeAttachment
EditMeta ==
    /\ Open /\ Tick
    /\ screen' = [screen EXCEPT !.meta = Now, !.timer = TRUE]
    /\ past' = [past EXCEPT !.now = Now, !.here = TRUE, !.meta = Now]
    /\ UNCHANGED <<loc, srv, op, push, get, up>>

\* persistLocal: every field goes to the local copy and to the queued update.
Write(body, meta) ==
    /\ loc' = [body |-> body, meta |-> meta, at |-> Now]
    /\ op' = loc'

triggerAutoSave ==
    /\ screen.timer /\ Tick
    /\ Write(screen.body, screen.meta)
    /\ screen' = [screen EXCEPT !.timer = FALSE]
    /\ past' = [past EXCEPT !.now = Now]
    /\ UNCHANGED <<srv, push, get, up>>

\* Every way out saves, whether or not anything was edited.
handleBack ==
    /\ Open /\ Tick
    /\ Write(screen.body, screen.meta)
    /\ screen' = Shut /\ get' = None
    /\ up' = IF up.pc = "sending" THEN [pc |-> "left", body |-> screen.body, meta |-> screen.meta] ELSE up
    /\ past' = [past EXCEPT !.now = Now, !.blind = @ \/ screen.pc = "loading"]
    /\ UNCHANGED <<srv, push>>

-------------------------------------------------------------------------------
(* uploadFiles: the attachment joins the refs it was picked with *)

pickAttachment ==
    /\ Open /\ up.pc = "no"
    /\ up' = [up EXCEPT !.pc = "sending"]
    /\ UNCHANGED <<loc, srv, op, push, screen, get, past>>

UploadEnds ==
    /\ up.pc = "sending" /\ Tick
    /\ Write(screen.body, Now)
    /\ screen' = [screen EXCEPT !.meta = Now, !.timer = FALSE]
    /\ up' = NoUp
    /\ past' = [past EXCEPT !.now = Now, !.here = TRUE, !.meta = Now]
    /\ UNCHANGED <<srv, push, get>>

\* The screen is gone; what has happened to the note since is overwritten.
UploadEndsLate ==
    /\ up.pc = "left" /\ Tick
    /\ Write(up.body, Now)
    /\ up' = NoUp
    /\ past' = [past EXCEPT !.now = Now, !.here = TRUE, !.meta = Now,
                            !.late = @ \/ Open \/ <<loc.body, loc.meta>> # <<up.body, up.meta>>]
    /\ UNCHANGED <<srv, push, screen, get>>

UploadFails ==
    /\ up.pc # "no"
    /\ up' = NoUp
    /\ UNCHANGED <<loc, srv, op, push, screen, get, past>>

-------------------------------------------------------------------------------
(* The push, the pull and other devices *)

processSyncQueue ==
    /\ push.pc = "no" /\ op # None
    /\ push' = [pc |-> "compare", item |-> op]
    /\ UNCHANGED <<loc, srv, op, screen, get, up, past>>

\* The server's copy is compared; what is kept here is the newer of the two.
Compare ==
    /\ push.pc = "compare"
    /\ \/ /\ isNewer(push.item, srv)
          /\ push' = [push EXCEPT !.pc = "put"] /\ UNCHANGED loc
       \/ /\ ~isNewer(push.item, srv)
          /\ push' = [push EXCEPT !.pc = "done"]
          /\ loc' = IF isNewer(srv, loc) THEN srv ELSE loc
    /\ UNCHANGED <<srv, op, screen, get, up, past>>

Put ==
    /\ push.pc = "put"
    /\ srv' = push.item
    /\ push' = [push EXCEPT !.pc = "done"]
    /\ UNCHANGED <<loc, op, screen, get, up, past>>

\* The queue becomes what failed: an update queued since is forgotten.
saveSyncQueue(rest) ==
    /\ op' = rest /\ push' = Idle
    /\ past' = [past EXCEPT !.late = @ \/ op # push.item]
    /\ UNCHANGED <<loc, srv, screen, get, up>>

PushEnds  == push.pc = "done" /\ saveSyncQueue(None)
PushFails == push.pc \in {"compare", "put"} /\ saveSyncQueue(push.item)

\* mergeRecords of fullSync keeps the newer copy.
Pull ==
    /\ isNewer(srv, loc)
    /\ loc' = srv
    /\ UNCHANGED <<srv, op, push, screen, get, up, past>>

\* An edit that comes after the answer, or while a push is due, is not seen here.
Other ==
    /\ Tick
    /\ \E f \in {"body", "meta"} :
           /\ srv' = [srv EXCEPT ![f] = Now, !.at = Now]
           /\ past' = [past EXCEPT !.now = Now, ![f] = Now, !.other = TRUE,
                          !.blind = @ \/ (Open /\ get # Asked) \/ op # None \/ push.pc # "no"]
    /\ UNCHANGED <<loc, op, push, screen, get, up>>

Next ==
    \/ seed \/ Answer \/ loadNote \/ EditBody \/ EditMeta \/ triggerAutoSave \/ handleBack
    \/ pickAttachment \/ UploadEnds \/ UploadEndsLate \/ UploadFails
    \/ processSyncQueue \/ Compare \/ Put \/ PushEnds \/ PushFails \/ Pull \/ Other

Spec == Init /\ [][Next]_vars

-------------------------------------------------------------------------------

Settled == op = None /\ push.pc = "no"

\* Opening a note whose push is still under way does not undo it: as long as no
\* other device edits the note, the screen shows the last title and attachments,
\* and they and the last body reach the server.  Not so if the user edits while
\* the note loads, nor after a save that a push or a late upload has lost.
ReopenKeepsEdits ==
    ~past.other /\ ~past.early /\ ~past.late =>
        /\ screen.pc = "ready" => screen.meta = past.meta /\ screen.body = past.body
        /\ ~Open /\ Settled => <<srv.body, srv.meta>> = <<past.body, past.meta>>

\* editor.tsx: "Mirrors fullSync's timestamp-wins merge".  Opening a note,
\* having the server's copy and leaving it unedited keeps what others have written.
OpeningKeepsNewest == ~past.here /\ ~past.blind => srv.body = past.body
===============================================================================
