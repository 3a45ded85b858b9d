-------------------------------- MODULE Shares --------------------------------
(***************************************************************************)
(* A post shared from another app on its way into a note: the intent of the *)
(* system, the handler that makes a draft of it (ShareIntentHandler.tsx),   *)
(* the one draft staged in memory (pendingShareDraft.ts), the screen that   *)
(* asks for a note (share-target.tsx) and the editor that takes the draft.  *)
(* A list of notes keeps the ids it has read while a push gives the notes   *)
(* new ones.  A text is the set of what has been put into it.               *)
(***************************************************************************)
EXTENDS FiniteSets, Sequences, SequencesExt

CONSTANTS
    Posts, \* what is shared, each once
    Notes, \* the notes of the device, made or not
    First, \* the note that is there from the start
    Deep   \* bound: screens over each other

VARIABLES
    os,     \* the intent of expo-share-intent, {} when there is none
    signed, \* isAuthenticated
    run,    \* the post the handler is busy with
    draft,  \* pendingShareDraft.ts
    stack,  \* the screens over the list of notes
    note,   \* the notes: whether there, under a temporary id, and the text
    list,   \* the notes whose temporary id the list still shows
    wish,   \* history: the note the user chose for a post
    past    \* history: what excuses a lost or a stray text

vars == <<os, signed, run, draft, stack, note, list, wish, past>>

Own == "own"
Excuse(why, when) == past' = past \cup {w \in {why} : when}
Choice(d, what) == wish' = [wish EXCEPT ![d] = what]
There == {k \in Notes : note[k].there}
Temps == {k \in There : note[k].temp}

Target(d) == [kind |-> "target", post |-> d, rows |-> Temps, shows |-> There]
Editor(k, id, pc, shared, body) ==
    [kind |-> "editor", note |-> k, id |-> id, pc |-> pc, shared |-> shared, body |-> body, timer |-> FALSE]

Top == Last(stack)
OnTop(kind) == stack # <<>> /\ Top.kind = kind
pop == stack' = Front(stack)
replace(s) == stack' = Append(Front(stack), s)

Init ==
    /\ os = {} /\ signed \in BOOLEAN /\ run = {} /\ draft = {} /\ stack = <<>>
    /\ note = [k \in Notes |-> [there |-> k = First, temp |-> TRUE, body |-> IF k = First THEN {Own} ELSE {}]]
    /\ list = {First} /\ wish = [d \in Posts |-> "unsent"] /\ past = {}

-------------------------------------------------------------------------------
(* The intent and its handler *)

Share(d) ==
    /\ wish[d] = "unsent" /\ Choice(d, "sent") /\ os' = {d}
    \* The flag is up already, so the effect does not see it, or is busy.
    /\ Excuse("second", os # {} \/ run # {})
    /\ UNCHANGED <<signed, run, draft, stack, note, list>>

SignIn == ~signed /\ signed' = TRUE /\ UNCHANGED <<os, run, draft, stack, note, list, wish, past>>

\* resetOnBackground
Background ==
    /\ os # {} /\ os' = {} /\ Excuse("background", run = {})
    /\ UNCHANGED <<signed, run, draft, stack, note, list, wish>>

Handle ==
    /\ os # {} /\ signed /\ run = {} /\ run' = os
    /\ UNCHANGED <<os, signed, draft, stack, note, list, wish, past>>

\* setPendingShareDraft, and the choice of a note over whatever screen is there.
Staged(d) ==
    /\ d \in run /\ run' = {} /\ os' = {} /\ draft' = {d}
    /\ Len(stack) < Deep /\ stack' = Append(stack, Target(d))
    /\ Excuse("second", \E e \in draft : wish[e] # "none")
    /\ UNCHANGED <<signed, note, list, wish>>

\* Nothing shareable came through.
Empty(d) ==
    /\ d \in run /\ run' = {} /\ os' = {} /\ Choice(d, "none")
    /\ UNCHANGED <<signed, draft, stack, note, list, past>>

-------------------------------------------------------------------------------
(* share-target.tsx *)

cancel ==
    /\ OnTop("target") /\ pop /\ draft' = {} /\ Choice(Top.post, "none")
    /\ UNCHANGED <<os, signed, run, note, list, past>>

\* The gesture leaves the draft where it is.
Swipe ==
    /\ OnTop("target") /\ pop /\ Choice(Top.post, "none")
    /\ UNCHANGED <<os, signed, run, draft, note, list, past>>

\* A new note's editor takes the draft when it is mounted; without one it stays empty.
createNew ==
    /\ OnTop("target") /\ draft' = {} /\ Choice(Top.post, "new")
    /\ replace([Editor(First, "new", IF draft = {} THEN "blank" ELSE "ready", TRUE, draft)
                   EXCEPT !.timer = draft # {}])
    /\ UNCHANGED <<os, signed, run, note, list, past>>

\* loadNote seeds the editor from the local copy that has this id.  Without one
\* the screen of a temporary id stays blank.
loadNote(k, temp, shared) ==
    IF temp = note[k].temp
    THEN Editor(k, "known", "loading", shared, note[k].body)
    ELSE Editor(k, "known", "blank", shared, {})

pickExisting(k) ==
    /\ OnTop("target") /\ k \in Top.shows /\ Choice(Top.post, k)
    /\ replace(loadNote(k, k \in Top.rows, TRUE))
    /\ past' = past \cup {w \in {"rekeyed"} : (k \in Top.rows) # note[k].temp}
                    \* An editor below has this note as it was.
                    \cup {w \in {"below"} : \E s \in ToSet(Front(stack)) : s.kind = "editor" /\ s.note = k}
    /\ UNCHANGED <<os, signed, run, draft, note, list>>

-------------------------------------------------------------------------------
(* The list of notes and the editor *)

Reload == stack = <<>> /\ list' = Temps /\ UNCHANGED <<os, signed, run, draft, stack, note, wish, past>>

OpenCard(k) ==
    /\ stack = <<>> /\ k \in There /\ stack' = <<loadNote(k, k \in list, FALSE)>>
    /\ Excuse("rekeyed", (k \in list) # note[k].temp)
    /\ UNCHANGED <<os, signed, run, draft, note, list, wish>>

\* Mistake: the shared text is set as the body.
overwritten(body, new) == IF new = {} THEN body ELSE new

appended(body, new) == body \cup new

\* The note is loaded and the web view is there: the effect that appends the draft.
Ready(i) ==
    LET s == stack[i]
        new == IF s.shared THEN draft ELSE {}
    IN  /\ s.kind = "editor" /\ s.pc = "loading" /\ draft' = draft \ new
        /\ stack' = [stack EXCEPT ![i].pc = "ready", ![i].body = appended(@, new), ![i].timer = new # {}]
        /\ UNCHANGED <<os, signed, run, note, list, wish, past>>

\* persistLocal: a new note is made, a known one is found through its alias.
persistLocal(s) ==
    IF s.id = "new" /\ s.body = {} THEN {<<s, note>>}
    ELSE {<<[s EXCEPT !.note = k, !.id = "known", !.timer = FALSE],
            [note EXCEPT ![k] = [there |-> TRUE, temp |-> @.temp, body |-> s.body]]>> :
            k \in IF s.id = "new" THEN Notes \ There ELSE {s.note}}

AutoSave(i) ==
    /\ stack[i].kind = "editor" /\ stack[i].timer
    /\ \E saved \in persistLocal(stack[i]) : stack' = [stack EXCEPT ![i] = saved[1]] /\ note' = saved[2]
    /\ UNCHANGED <<os, signed, run, draft, list, wish, past>>

\* Every way out saves what the screen holds.
Leave ==
    /\ OnTop("editor") /\ pop
    /\ \E saved \in persistLocal(Top) : note' = saved[2]
    \* The draft was not taken yet.
    /\ Excuse("hasty", Top.shared /\ Top.pc = "loading")
    /\ UNCHANGED <<os, signed, run, draft, list, wish>>

\* A push gives a note the server's id.
Pushed(k) ==
    /\ k \in Temps /\ note' = [note EXCEPT ![k].temp = FALSE]
    /\ UNCHANGED <<os, signed, run, draft, stack, list, wish, past>>

Kill ==
    /\ os' = {} /\ run' = {} /\ draft' = {} /\ stack' = <<>> /\ list' = Temps
    /\ Excuse("killed", TRUE)
    /\ UNCHANGED <<signed, note, wish>>

Next ==
    \/ SignIn \/ Background \/ Handle \/ cancel \/ Swipe \/ createNew \/ Reload \/ Leave \/ Kill
    \/ \E d \in Posts : Share(d) \/ Staged(d) \/ Empty(d)
    \/ \E k \in Notes : pickExisting(k) \/ OpenCard(k) \/ Pushed(k)
    \/ \E i \in DOMAIN stack : Ready(i) \/ AutoSave(i)

-------------------------------------------------------------------------------

\* Once every screen is left, the user was asked for each post that came, it is in
\* the note chosen for it and in no other, and the notes keep the text they had.
\* Excused are a post shared before the last one was taken, one that waits for a
\* sign-in when the app goes to the background, an editor left before it has
\* loaded, a note picked that is open in an editor below, a card or a row with an
\* id that a push has replaced, a kill.
SharesArrive ==
    past = {} /\ stack = <<>> =>
        /\ Own \in note[First].body
        /\ \A d \in Posts :
               LET in == {k \in Notes : d \in note[k].body}
               IN  CASE wish[d] \in Notes -> in = {wish[d]}
                     [] wish[d] = "new" -> Cardinality(in) = 1
                     [] wish[d] = "sent" -> d \in os \cup run
                     [] OTHER -> in = {}
===============================================================================
