------------------------------ MODULE NoteLinks ------------------------------
(***************************************************************************)
(* The link from a note to the events made on its screen: the event's form  *)
(* or the voice screen hands the new id back through a mailbox in memory    *)
(* (pendingLinkedEvents.ts) or a key of AsyncStorage, writes it to the      *)
(* server by itself, and the note's editor takes it up, saves it and reads  *)
(* it back whenever it has the focus.  A push is one step here.             *)
(***************************************************************************)
EXTENDS Naturals, FiniteSets, FiniteSetsExt, Sequences, SequencesExt

CONSTANTS
    Notes,     \* ids of notes
    Events,    \* ids of events
    MaxTouches \* bound: notes opened, typed in and unlinked from, in all

VARIABLES
    loc, srv,  \* each note on the device and on the server: links, text, updated_at
    queue,     \* the notes with a queued write, and its payload
    scr,       \* the note's editor, {} when there is none
    stack,     \* the screens over it, by their event
    form,      \* the screen that makes each event
    mail,      \* pendingLinkedEvents.ts
    key,       \* AsyncStorage's pendingLinkedEventId
    focus,     \* focus effects that await the key
    reads,     \* replies of the focus effects' GET, under way
    links,     \* linkEventToExistingNote under way
    wish,      \* history: the notes each event was linked to
    typed,     \* history: the last text of each note
    count,     \* touches so far
    past       \* history: what excuses a lost or a stray link

vars == <<loc, srv, queue, scr, stack, form, mail, key, focus, reads, links, wish, typed, count, past>>
onNotes == <<loc, srv, queue>>
handedOver == <<mail, key, focus, reads>>

None == [ids |-> {}, text |-> 0, at |-> 0]
Unused == [pc |-> "no"]
Now == 1 + Max({loc[n].at : n \in Notes} \cup {srv[n].at : n \in Notes})
ed == CHOOSE s \in scr : TRUE
With(s) == scr' = {s}
Excuse(why, when) == past' = past \cup {w \in {why} : when}
Touch == count < MaxTouches /\ count' = count + 1
Form(e, f) == form' = [form EXCEPT ![e] = f]
At(e, pcs) == form[e].pc \in pcs

\* One note is on both sides, the others have not been made yet.
Init ==
    /\ \E old \in Notes : loc = [n \in Notes |-> IF n = old THEN [None EXCEPT !.at = 1] ELSE None]
    /\ srv = loc /\ queue = [n \in Notes |-> None]
    /\ scr = {} /\ stack = <<>> /\ form = [e \in Events |-> Unused]
    /\ mail = {} /\ key = {} /\ focus = 0 /\ reads = {} /\ links = {}
    /\ wish = [e \in Events |-> {}] /\ typed = [n \in Notes |-> 0]
    /\ count = 0 /\ past = {}

-------------------------------------------------------------------------------
(* The note's editor *)

\* loadNote: the newer of the two copies; a new note has neither.
newest(n) == IF loc[n].at > srv[n].at THEN loc[n] ELSE srv[n]

Open(n) ==
    /\ scr = {} /\ stack = <<>> /\ Touch
    /\ With([note |-> n, made |-> loc[n].at > 0, real |-> srv[n].at > 0,
             ids |-> newest(n).ids, text |-> newest(n).text, rest |-> {}])
    /\ focus' = 1 /\ reads' = {}
    \* The PUT of a link hides an edit that is still queued.
    /\ Excuse("overtaken", queue[n].at > 0 /\ srv[n].at > queue[n].at)
    /\ UNCHANGED <<onNotes, stack, form, mail, key, links, wish, typed>>

\* persistLocal: the copy of the device and the queued payload.
persistLocal(s, ids) ==
    LET copy == [ids |-> ids, text |-> s.text, at |-> Now]
    IN  loc' = [loc EXCEPT ![s.note] = copy] /\ queue' = [queue EXCEPT ![s.note] = copy]

\* Typing, and the autosave after it, which may come when a form is open.
AutoSave ==
    /\ scr # {} /\ Touch
    /\ LET s == [ed EXCEPT !.text = count + 1, !.made = TRUE]
       IN  With(s) /\ persistLocal(s, s.ids) /\ typed' = [typed EXCEPT ![s.note] = s.text]
    /\ UNCHANGED <<srv, stack, form, handedOver, links, wish, past>>

\* Every way out saves; a new note only when there is something in it.
Leave ==
    /\ scr # {} /\ stack = <<>> /\ scr' = {}
    /\ IF ed.made \/ ed.ids # {} THEN persistLocal(ed, ed.ids) ELSE UNCHANGED <<loc, queue>>
    \* The focus effect or the unlinking has not answered yet.
    /\ Excuse("hasty", focus > 0 \/ ed.rest # {})
    /\ focus' = 0 /\ reads' = {}
    /\ UNCHANGED <<srv, stack, form, mail, key, links, wish, typed, count>>

\* An event from the list of all events.
linkExistingEvent(e) ==
    /\ scr # {} /\ stack = <<>> /\ At(e, {"no"})
    /\ LET s == [ed EXCEPT !.ids = @ \cup {e}, !.made = TRUE]
       IN  With(s) /\ persistLocal(s, s.ids) /\ wish' = [wish EXCEPT ![e] = {s.note}]
    /\ Form(e, [pc |-> "done"])
    /\ UNCHANGED <<srv, stack, handedOver, links, typed, count, past>>

\* handleRemoveLinkedEvent: first the store, then, after a push, the screen.
Unlink(e) ==
    /\ scr # {} /\ stack = <<>> /\ ed.rest = {} /\ e \in ed.ids /\ Touch
    /\ IF ed.made THEN persistLocal([ed EXCEPT !.text = loc[ed.note].text], ed.ids \ {e})
       ELSE UNCHANGED <<loc, queue>>
    /\ With([ed EXCEPT !.rest = {ed.ids \ {e}}])
    /\ wish' = [wish EXCEPT ![e] = {}]
    \* Its own write to the server is still under way.
    /\ Excuse("unlinked", \E l \in links : l.event = e)
    /\ UNCHANGED <<srv, stack, form, handedOver, links, typed>>

Unlinked ==
    /\ scr # {} /\ ed.rest # {}
    /\ \E ids \in ed.rest :
           /\ With([ed EXCEPT !.ids = ids, !.rest = {}])
           \* Something was taken up or read meanwhile.
           /\ Excuse("unlinked", ~\E e \in Events : ed.ids = ids \cup {e})
    /\ UNCHANGED <<onNotes, stack, form, handedOver, links, wish, typed, count>>

(* The focus effect of the editor *)

\* Mistake: the new ids take the place of the old.
replaced(ids, new) == new

appended(ids, new) == ids \cup new

refreshData ==
    /\ focus > 0 /\ focus' = focus - 1
    /\ LET new == key \cup mail
       IN  IF new # {}
           THEN With([ed EXCEPT !.ids = appended(@, new)]) /\ UNCHANGED reads
           ELSE /\ reads' = IF ed.real THEN reads \cup {srv[ed.note].ids} ELSE reads
                /\ UNCHANGED scr
    /\ mail' = {} /\ key' = {}   \* takePendingLinkedEventIds
    /\ UNCHANGED <<onNotes, stack, form, links, wish, typed, count, past>>

\* What the server had replaces the links of the screen, whatever they are by now.
Reread(ids) ==
    /\ reads' = reads \ {ids} /\ With([ed EXCEPT !.ids = ids])
    /\ Excuse("reread", ids # ed.ids)
    /\ UNCHANGED <<onNotes, stack, form, mail, key, focus, links, wish, typed, count>>

-------------------------------------------------------------------------------
(* The form of an event, and the voice screen *)

\* The note's id as the form gets it: "new", a temporary id or the server's.
param == IF ~ed.made THEN "new" ELSE IF ed.real THEN "real" ELSE "temp"

OpenForm(e) ==
    /\ scr # {} /\ stack = <<>> /\ At(e, {"no"})
    /\ Form(e, [pc |-> "open", voice |-> FALSE, note |-> ed.note, param |-> param, back |-> FALSE])
    /\ stack' = <<e>>
    /\ UNCHANGED <<onNotes, scr, handedOver, links, wish, typed, count, past>>

\* Dictation: the words are transcribed and classified while the user goes on.
Dictate(e) ==
    /\ scr # {} /\ stack = <<>> /\ At(e, {"no"})
    /\ Form(e, [pc |-> "words", voice |-> TRUE, note |-> ed.note, param |-> param, back |-> FALSE])
    /\ UNCHANGED <<onNotes, scr, stack, handedOver, links, wish, typed, count, past>>

\* The voice screen opens over whatever screen is there now.
Classified(e) ==
    /\ At(e, {"words"}) /\ Form(e, [form[e] EXCEPT !.pc = "open"]) /\ stack' = Append(stack, e)
    /\ Excuse("late", stack # <<>> \/ ~\E s \in scr : s.note = form[e].note)
    /\ UNCHANGED <<onNotes, scr, handedOver, links, wish, typed, count>>

\* The user goes on in the form instead.
editManually(e) ==
    /\ At(e, {"open"}) /\ form[e].voice /\ Form(e, [form[e] EXCEPT !.voice = FALSE])
    /\ UNCHANGED <<onNotes, scr, stack, handedOver, links, wish, typed, count, past>>

\* The autosave of the form, also after a gesture has closed it, or the button.
Post(e, back) ==
    /\ At(e, {"open"}) /\ (form[e].voice => back) /\ (back => e \in ToSet(stack))
    /\ Form(e, [form[e] EXCEPT !.pc = "posting", !.back = back])
    /\ UNCHANGED <<onNotes, scr, stack, handedOver, links, wish, typed, count, past>>

\* router.back(): the editor has the focus again when nothing is over it.
closes(e) ==
    /\ stack' = SelectSeq(stack, LAMBDA f : f # e)
    /\ focus' = IF stack = <<e>> /\ scr # {} THEN focus + 1 ELSE focus

\* Back of the header: at once when the event is made, else when it will be.
handleBack(e) ==
    /\ stack # <<>> /\ Last(stack) = e
    /\ IF At(e, {"posting"}) THEN ~form[e].back /\ Form(e, [form[e] EXCEPT !.back = TRUE])
                                  /\ UNCHANGED <<stack, focus>>
       ELSE At(e, {"done"}) /\ closes(e) /\ UNCHANGED form
    /\ UNCHANGED <<onNotes, scr, mail, key, reads, links, wish, typed, count, past>>

\* The gesture closes the screen; its timer and its requests go on.
Gesture(e) ==
    /\ stack # <<>> /\ Last(stack) = e /\ closes(e)
    /\ \/ At(e, {"open"}) /\ Form(e, [pc |-> "done"])   \* nothing to save
       \/ UNCHANGED form
    /\ UNCHANGED <<onNotes, scr, mail, key, reads, links, wish, typed, count, past>>

\* stageEventLinkToNote; a note under a temporary id is not found on the server.
stage(e) ==
    IF form[e].param = "new" /\ ~form[e].voice THEN key' = {e} /\ UNCHANGED <<mail, links>>
    ELSE /\ mail' = {e} /\ UNCHANGED key
         /\ links' = IF form[e].voice \/ form[e].param # "real" THEN links
                     ELSE links \cup {[note |-> form[e].note, event |-> e, read |-> {}]}

\* createEventOffline has answered, with the server's id unless the POST failed.
\* The read of a key is faster than a form is filled in and posted.
Posted(e) ==
    /\ focus = 0 /\ At(e, {"posting"}) /\ stage(e) /\ Form(e, [pc |-> "done"])
    /\ wish' = [wish EXCEPT ![e] = {form[e].note}]
    /\ IF form[e].back THEN closes(e) ELSE UNCHANGED <<stack, focus>>
    /\ \E posted \in BOOLEAN :   \* if not, the link names the temporary id
           past' = past \cup {w \in {"left"} : e \notin ToSet(stack)} \cup {w \in {"offline"} : ~posted}
    /\ UNCHANGED <<onNotes, scr, reads, typed, count>>

-------------------------------------------------------------------------------
(* linkEventToExistingNote: a GET, then a PUT that the server stamps *)

LinkGet(l) ==
    /\ l.read = {} /\ links' = (links \ {l}) \cup {[l EXCEPT !.read = {srv[l.note].ids}]}
    /\ UNCHANGED <<onNotes, scr, stack, form, handedOver, wish, typed, count, past>>

LinkPut(l) ==
    /\ l.read # {} /\ links' = links \ {l}
    /\ \E ids \in l.read :
           /\ srv' = [srv EXCEPT ![l.note].ids = ids \cup {l.event}, ![l.note].at = Now]
           /\ Excuse("overtaken", ids # srv[l.note].ids)
    /\ UNCHANGED <<loc, queue, scr, stack, form, handedOver, wish, typed, count>>

LinkFails(l) ==
    /\ links' = links \ {l}
    /\ UNCHANGED <<onNotes, scr, stack, form, handedOver, wish, typed, count, past>>

(* The sync: a queued note goes to the server, unless the server's is newer *)

Push(n) ==
    /\ queue[n].at > 0 /\ queue' = [queue EXCEPT ![n] = None]
    /\ IF srv[n].at = 0
       THEN srv' = [srv EXCEPT ![n] = [queue[n] EXCEPT !.at = Now]] /\ UNCHANGED <<loc, past>>
       ELSE IF queue[n].at > srv[n].at
       THEN srv' = [srv EXCEPT ![n] = queue[n]] /\ UNCHANGED <<loc, past>>
       \* The PUT of a link has come in between and the edit is dropped.
       ELSE /\ loc' = [loc EXCEPT ![n] = srv[n]] /\ UNCHANGED srv
            /\ Excuse("overtaken", <<queue[n].ids, queue[n].text>> # <<srv[n].ids, srv[n].text>>)
    /\ UNCHANGED <<scr, stack, form, handedOver, links, wish, typed, count>>

Pull(n) ==
    /\ srv[n].at > loc[n].at /\ loc' = [loc EXCEPT ![n] = srv[n]]
    /\ UNCHANGED <<srv, queue, scr, stack, form, handedOver, links, wish, typed, count, past>>

\* The app is killed; the key and the files stay.
Kill ==
    /\ past' = past \cup {"killed"}
    /\ scr' = {} /\ stack' = <<>> /\ mail' = {} /\ focus' = 0 /\ reads' = {} /\ links' = {}
    /\ form' = [e \in Events |-> IF At(e, {"no"}) THEN Unused ELSE [pc |-> "done"]]
    /\ UNCHANGED <<onNotes, key, wish, typed, count>>

Next ==
    \/ \E n \in Notes : Open(n) \/ Push(n) \/ Pull(n)
    \/ AutoSave \/ Leave \/ Unlinked \/ refreshData \/ Kill
    \/ \E ids \in reads : Reread(ids)
    \/ \E e \in Events :
           \/ linkExistingEvent(e) \/ Unlink(e) \/ OpenForm(e) \/ Dictate(e) \/ Classified(e)
           \/ editManually(e) \/ handleBack(e) \/ Gesture(e) \/ Posted(e)
           \/ \E back \in BOOLEAN : Post(e, back)
    \/ \E l \in links : LinkGet(l) \/ LinkPut(l) \/ LinkFails(l)

-------------------------------------------------------------------------------

\* No screen is open, nothing is under way or queued.
Quiet ==
    /\ scr = {} /\ stack = <<>> /\ links = {}
    /\ \A n \in Notes : queue[n].at = 0
    /\ \A e \in Events : At(e, {"no", "done"})

\* When all is quiet every event is linked to the note it was made in or picked
\* for, and to no other, and the notes have their last text, on the server and so
\* on each device.  Excused are an event made after its screen was left, or made
\* offline, a note left before its focus effect ends, a stale reply of that
\* effect, a note written while its link is, an unlink while links change, a kill.
LinksLand ==
    past = {} /\ Quiet =>
        /\ \A e \in Events : {n \in Notes : e \in srv[n].ids} = wish[e]
        /\ \A n \in Notes : srv[n].text = typed[n]
===============================================================================
