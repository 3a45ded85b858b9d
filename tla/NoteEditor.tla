------------------------------- MODULE NoteEditor -------------------------------
(***************************************************************************)
(* The note editor's saves (app/editor.tsx): the debounced autosave, the    *)
(* immediate saves of dictation and pictures, and the ways to leave the     *)
(* screen share the refs of one note and a chain of saves.  The body lives  *)
(* in a web view that is asked for it; content is the time of the edit, or  *)
(* Half for a dictation that is still being revealed word by word.          *)
(* What a stored note becomes is in NoteSync.                               *)
(***************************************************************************)
EXTENDS Naturals, FiniteSets

CONSTANTS
    MaxEdits,  \* bound: how often the user types or dictates
    MaxFaults  \* bound: local writes that fail, web views that do not answer

VARIABLES
    ed,      \* the screen and its refs; view: what the user sees; stream: the
             \* dictation that is being revealed, or 0
    saves,   \* the saves queued by enqueuePersist, [k, pc, new, at]
    leave,   \* the way out in progress
    notes,   \* the notes of this screen in the local store, [id, at]
    past     \* counters, and what excuses the property

vars == <<ed, saves, leave, notes, past>>

Half == MaxEdits + 1
Stay == [pc |-> "no", by |-> "none", save |-> 0]

\* A new note, or one that is opened.
Init ==
    /\ \E stored \in BOOLEAN :
           /\ ed = [open |-> TRUE, view |-> 0, content |-> 0, timer |-> FALSE, away |-> FALSE,
                    stream |-> 0, id |-> IF stored THEN 1 ELSE 0, created |-> stored]
           /\ notes = IF stored THEN {[id |-> 1, at |-> 0]} ELSE {}
           /\ past = [made |-> IF stored THEN 1 ELSE 0, edits |-> 0, queued |-> 0, faults |-> 0,
                      failed |-> FALSE, late |-> FALSE, cut |-> FALSE, deleted |-> FALSE]
    /\ saves = {} /\ leave = Stay

Fault == past.faults < MaxFaults /\ past' = [past EXCEPT !.faults = @ + 1, !.failed = TRUE]

enqueuePersist(p) ==
    /\ saves' = saves \cup {[k |-> past.queued + 1, pc |-> "queued", new |-> FALSE, at |-> 0]}
    /\ past' = [p EXCEPT !.queued = @ + 1]

\* What is typed while the screen is on its way out may come too late.
Edited == [past EXCEPT !.edits = @ + 1, !.late = @ \/ leave.pc # "no"]

CanEdit == ed.open /\ leave.by # "delete" /\ past.edits < MaxEdits

Type ==
    /\ CanEdit
    /\ ed' = [ed EXCEPT !.view = past.edits + 1, !.timer = TRUE]
    /\ past' = Edited
    /\ UNCHANGED <<saves, leave, notes>>

\* appendToEditor and the like set the content they know and save at once.
saveImmediately ==
    /\ CanEdit
    /\ ed' = [ed EXCEPT !.view = past.edits + 1, !.content = past.edits + 1, !.timer = FALSE]
    /\ enqueuePersist(Edited)
    /\ UNCHANGED <<leave, notes>>

\* stopRecording: the transcript is known at once and shown over 18 frames.
appendToEditorStreamed ==
    /\ CanEdit /\ ed.stream = 0
    /\ ed' = [ed EXCEPT !.view = Half, !.content = past.edits + 1, !.stream = past.edits + 1]
    /\ past' = Edited
    /\ UNCHANGED <<saves, leave, notes>>

\* handleBodyChange: the web view tells what a frame has made of the body.
handleBodyChange ==
    /\ ed.open /\ ed.stream # 0 /\ <<ed.view, ed.content>> # <<Half, Half>>
    /\ ed' = [ed EXCEPT !.view = Half, !.content = Half, !.timer = ~ed.away]
    /\ UNCHANGED <<saves, leave, notes, past>>

\* The last frame goes to a web view that may be gone, and is saved.
lastFrame ==
    /\ ed.stream # 0
    /\ ed' = [ed EXCEPT !.view = IF ed.open THEN ed.stream ELSE @, !.stream = 0, !.timer = FALSE]
    /\ enqueuePersist([past EXCEPT !.cut = @ \/ ~ed.open \/ leave.pc # "no"])
    /\ UNCHANGED <<leave, notes>>

triggerAutoSave ==
    /\ ed.timer
    /\ ed' = [ed EXCEPT !.timer = FALSE]
    /\ enqueuePersist(past)
    /\ UNCHANGED <<leave, notes>>

-------------------------------------------------------------------------------
(* persistLocal *)

\* Mistake: the saves do not wait for each other.
anyTurn(s) == TRUE

turn(s) == \A t \in saves : t.k >= s.k

\* syncLatestContent: the web view's answer, or none within its time; a closed
\* screen has no web view.  The draft and the branch follow without an await.
syncLatestContent(s) ==
    /\ s.pc = "queued" /\ turn(s)
    /\ \E c \in {ed.view, ed.content} :
           /\ c # ed.view => ~ed.open \/ past.faults < MaxFaults
           /\ ed' = [ed EXCEPT !.content = c]
           /\ past' = IF c = ed.view THEN past ELSE [past EXCEPT !.faults = @ + 1, !.failed = TRUE]
           /\ saves' = (saves \ {s}) \cup {[s EXCEPT !.pc = "write", !.new = ~ed.created, !.at = c]}
    /\ UNCHANGED <<leave, notes>>

updateNoteOffline(i, at) == {IF n.id = i THEN [n EXCEPT !.at = at] ELSE n : n \in notes}

WriteNote(s) ==
    /\ s.pc = "write"
    /\ saves' = saves \ {s}
    /\ \/ /\ s.new
          /\ notes' = notes \cup {[id |-> past.made + 1, at |-> s.at]}
          /\ ed' = [ed EXCEPT !.id = past.made + 1, !.created = TRUE]
          /\ past' = [past EXCEPT !.made = @ + 1]
       \/ /\ ~s.new
          /\ notes' = updateNoteOffline(ed.id, s.at)
          /\ UNCHANGED <<ed, past>>
       \/ Fault /\ UNCHANGED <<ed, notes>>
    /\ UNCHANGED leave

-------------------------------------------------------------------------------
(* The ways out *)

beforeRemove == [leave EXCEPT !.pc = "flush", !.by = "gesture"]

\* The hardware back button and the swipe; ignored while one is under way.
Gesture ==
    /\ ed.open /\ leave.pc = "no"
    /\ leave' = IF ed.away THEN [Stay EXCEPT !.pc = "go"] ELSE beforeRemove
    /\ ed' = [ed EXCEPT !.timer = FALSE]
    /\ UNCHANGED <<saves, notes, past>>

\* The header's button: whatever follows, the guard lets it pass.
handleSaveAndBack ==
    /\ ed.open /\ leave.pc = "no"
    /\ leave' = [Stay EXCEPT !.pc = "flush", !.by = "button"]
    /\ ed' = [ed EXCEPT !.timer = FALSE, !.away = TRUE]
    /\ UNCHANGED <<saves, notes, past>>

\* The latest content, and a save unless there is nothing to keep.
Flush ==
    /\ leave.pc = "flush"
    /\ \E c \in {ed.view, ed.content} :
           /\ c # ed.view => past.faults < MaxFaults
           /\ ed' = [ed EXCEPT !.content = c]
           /\ LET p == IF c = ed.view THEN past ELSE [past EXCEPT !.faults = @ + 1, !.failed = TRUE]
              IN  IF c # 0 \/ (leave.by = "gesture" /\ ed.created)
                  THEN enqueuePersist(p) /\ leave' = [leave EXCEPT !.pc = "wait", !.save = past.queued + 1]
                  ELSE past' = p /\ leave' = [leave EXCEPT !.pc = "go"] /\ UNCHANGED saves
    /\ UNCHANGED notes

\* The save is over, done or failed.
SavedOnExit ==
    /\ leave.pc = "wait" /\ \A s \in saves : s.k # leave.save
    /\ leave' = [leave EXCEPT !.pc = "go"]
    /\ UNCHANGED <<ed, saves, notes, past>>

Leave ==
    /\ leave.pc = "go"
    /\ ed' = [ed EXCEPT !.open = FALSE, !.away = TRUE]
    /\ leave' = Stay
    /\ UNCHANGED <<saves, notes, past>>

\* The dialog covers the screen; saves of before go on beside deleteNoteOffline.
confirmDeleteNote ==
    /\ ed.open /\ ed.created /\ leave.pc = "no"
    /\ \/ notes' = {n \in notes : n.id # ed.id} /\ leave' = [Stay EXCEPT !.pc = "go", !.by = "delete"]
          /\ past' = [past EXCEPT !.deleted = TRUE]
       \/ Fault /\ UNCHANGED <<notes, leave>>
    /\ UNCHANGED <<ed, saves>>

DeleteEnds ==
    /\ leave.pc = "go" /\ leave.by = "delete"
    /\ ed' = [ed EXCEPT !.open = FALSE, !.away = TRUE, !.timer = FALSE]
    /\ leave' = Stay
    /\ UNCHANGED <<saves, notes, past>>

Next ==
    \/ Type \/ saveImmediately \/ triggerAutoSave
    \/ appendToEditorStreamed \/ handleBodyChange \/ lastFrame
    \/ \E s \in saves : syncLatestContent(s) \/ WriteNote(s)
    \/ Gesture \/ handleSaveAndBack \/ Flush \/ SavedOnExit \/ (leave.by # "delete" /\ Leave)
    \/ confirmDeleteNote \/ DeleteEnds

-------------------------------------------------------------------------------

Kept == \E n \in notes : n.at = ed.view

\* However autosaves, immediate saves and the ways out follow each other, the
\* screen makes one note; once it is left and its saves are over, that note
\* has the last edit, or it was deleted and no save has brought it back.  A
\* dictation is kept whole unless the screen is left while it is revealed.
SavedOnce ==
    /\ past.made <= 1
    /\ past.deleted => notes = {}
    /\ ~ed.open /\ saves = {} /\ ~ed.timer /\ ed.stream = 0 =>
           past.deleted \/ past.failed \/ past.late \/ past.cut \/ ed.view = 0 \/ Kept
===============================================================================
