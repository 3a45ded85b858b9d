------------------------------- MODULE Reminders -------------------------------
(***************************************************************************)
(* The server's event reminders: the once-a-minute tick that claims due    *)
(* events, pushes them through Expo and advances repeating ones            *)
(* (backend/reminders/service.py), against other ticks, the user's edits   *)
(* of the events (backend/events/service.py) and the devices' push tokens. *)
(*                                                                         *)
(* A step is one database or Expo call with what follows it up to the next *)
(* one; calls of different ticks and requests interleave.  Times are       *)
(* natural numbers from 1 on and 0 is None; an event with minutes = 0 has  *)
(* no reminder, one with period = 0 does not repeat.  All events belong to *)
(* one user: users share nothing but the batches.  The lists of a tick are *)
(* sets: their order decides nothing but how a batch cuts them, and a      *)
(* batch is any BATCH of the messages.                                     *)
(***************************************************************************)
EXTENDS Naturals, FiniteSets

CONSTANTS
    Events,      \* event ids
    Ticks,       \* invocations of run_tick that may overlap
    Tokens,      \* push tokens of the user's devices
    Schedules,   \* what a user may set an event to
    STUCK,       \* STUCK_CLAIM_MINUTES
    MAX_CLAIM,   \* MAX_CLAIM_PER_TICK
    BATCH,       \* EXPO_BATCH_SIZE
    READY,       \* RECEIPT_READY_AFTER_MINUTES
    GIVE_UP,     \* RECEIPT_GIVE_UP_AFTER_HOURS
    MaxClock,    \* bound: the clock stops here
    MaxEdits,    \* bound: creates, updates, deletes and token changes
    MaxDeaths    \* bound: how many ticks may die half way

\* No reminder is before the beginning of time.
Schedule == {s \in [start : Nat, minutes : Nat, period : Nat, until : Nat] : s.minutes < s.start}

ASSUME SchedulesAreSound == Schedules \subseteq Schedule
ASSUME SomeEvent         == Events # {}
ASSUME LimitsArePositive == {MAX_CLAIM, BATCH} \subseteq Nat \ {0}
ASSUME TimesAreNat       == {STUCK, READY, GIVE_UP, MaxClock, MaxEdits, MaxDeaths} \subseteq Nat

VARIABLES
    clock,    \* now
    ev,       \* the events collection, one row per id
    active,   \* the tokens with active = True
    tick,     \* per invocation of run_tick, where it is and its variables
    edit,     \* the PUT /events/:id between its read and its write
    receipts, \* the push_receipts collection
    used      \* what the bounds have counted

vars == <<clock, ev, active, tick, edit, receipts, used>>

-------------------------------------------------------------------------------
(* Data *)

Fields  == [fire : Nat, status : {"pending", "claimed", "sent"}, claimedAt : Nat]
Row     == [state : {"none", "live", "gone"}, plan : Schedule, send : Fields]
Doc     == [id : Events, plan : Schedule, fire : Nat]
Message == [id : Events, token : Tokens]
Receipt == [id : Events, token : Tokens, at : Nat, checked : BOOLEAN]

NoPlan == [start |-> 1, minutes |-> 0, period |-> 0, until |-> 0]
NoSend == [fire |-> 0, status |-> "sent", claimedAt |-> 0]
NoRow  == [state |-> "none", plan |-> NoPlan, send |-> NoSend]

Live(e) == ev[e].state = "live"

DocOf(e) == [id |-> e, plan |-> ev[e].plan, fire |-> ev[e].send.fire]

\* The scheduler's fields of an event; a time already past is never queued.
compute_reminder_fields(plan, now) ==
    IF plan.minutes = 0 THEN NoSend
    ELSE [fire |-> plan.start - plan.minutes, claimedAt |-> 0,
          status |-> IF plan.start - plan.minutes <= now THEN "sent" ELSE "pending"]

\* The first occurrence of a repeating event at or after the time, 0 if the
\* series has ended by then.
next_occurrence_on_or_after(plan, after) ==
    LET late == IF after > plan.start THEN after - plan.start ELSE 0
        next == plan.start + plan.period * ((late + plan.period - 1) \div plan.period)
    IN  IF plan.until # 0 /\ next > plan.until THEN 0 ELSE next

-------------------------------------------------------------------------------
(* States at rest *)

IdleTick == [pc |-> "idle", now |-> 0, claimed |-> {}, left |-> {}, messages |-> {},
             processed |-> {}, tickets |-> {}]
IdleEdit == [pc |-> "idle", id |-> CHOOSE e \in Events : TRUE, plan |-> NoPlan, send |-> NoSend,
             moved |-> FALSE]

Init ==
    /\ clock = 1
    /\ ev = [e \in Events |-> NoRow]
    /\ active = Tokens
    /\ tick = [t \in Ticks |-> IdleTick]
    /\ edit = IdleEdit
    /\ receipts = {}
    /\ used = [edits |-> 0, deaths |-> 0]

-------------------------------------------------------------------------------
(* run_tick *)

Due(e, now) ==
    /\ Live(e) /\ ev[e].plan.minutes # 0
    /\ ev[e].send.status = "pending" /\ ev[e].send.fire <= now

Claim(fire, now) == [fire |-> fire, status |-> "claimed", claimedAt |-> now]

\* run_tick reads the clock once.
StartTick(t) ==
    /\ tick[t].pc = "idle"
    /\ tick' = [tick EXCEPT ![t] = [IdleTick EXCEPT !.pc = "recover", !.now = clock]]
    /\ UNCHANGED <<clock, ev, active, edit, receipts, used>>

\* Mistake: nothing is recovered.
recoverNothing(t) ==
    /\ tick[t].pc = "recover"
    /\ tick' = [tick EXCEPT ![t].pc = "claim"]
    /\ UNCHANGED <<clock, ev, active, edit, receipts, used>>

\* Claims older than STUCK go back to pending.
recover_stuck_claims(t) ==
    /\ tick[t].pc = "recover"
    /\ ev' = [e \in Events |->
           IF /\ Live(e) /\ ev[e].send.status = "claimed"
              /\ ev[e].send.claimedAt + STUCK < tick[t].now
           THEN [ev[e] EXCEPT !.send.status = "pending", !.send.claimedAt = 0]
           ELSE ev[e]]
    /\ tick' = [tick EXCEPT ![t].pc = "claim"]
    /\ UNCHANGED <<clock, active, edit, receipts, used>>

\* Mistake: the claim does not ask for a pending event.
claimAnyDue(t) ==
    /\ tick[t].pc = "claim"
    /\ Cardinality(tick[t].claimed) < MAX_CLAIM
    /\ \E e \in Events :
           /\ Live(e) /\ ev[e].plan.minutes # 0
           /\ ev[e].send.status # "sent" /\ ev[e].send.fire <= tick[t].now
           /\ ev' = [ev EXCEPT ![e].send = Claim(@.fire, tick[t].now)]
           /\ tick' = [tick EXCEPT ![t].claimed = @ \cup {DocOf(e)}]
    /\ UNCHANGED <<clock, active, edit, receipts, used>>

\* One round of the claim loop: find_one_and_update.
claim_due_reminders(t) ==
    /\ tick[t].pc = "claim"
    /\ Cardinality(tick[t].claimed) < MAX_CLAIM
    /\ \E e \in Events :
           /\ Due(e, tick[t].now)
           /\ ev' = [ev EXCEPT ![e].send = Claim(@.fire, tick[t].now)]
           /\ tick' = [tick EXCEPT ![t].claimed = @ \cup {DocOf(e)}]
    /\ UNCHANGED <<clock, active, edit, receipts, used>>

\* The loop ends when nothing is due any more, or at its limit.
ClaimsDone(t) ==
    /\ tick[t].pc = "claim"
    /\ Cardinality(tick[t].claimed) = MAX_CLAIM \/ \A e \in Events : ~Due(e, tick[t].now)
    /\ tick' = IF tick[t].claimed = {} THEN [tick EXCEPT ![t] = IdleTick]
               ELSE [tick EXCEPT ![t].pc = "build", ![t].left = tick[t].claimed]
    /\ UNCHANGED <<clock, ev, active, edit, receipts, used>>

\* $set of scheduler fields on an event that may be gone by now.
SetSend(e, send) == ev' = IF Live(e) THEN [ev EXCEPT ![e].send = send] ELSE ev

MarkSent(E) == ev' = [e \in Events |-> IF e \in E /\ Live(e) THEN [ev[e] EXCEPT !.send.status = "sent"]
                                       ELSE ev[e]]

\* One round of build_messages: a message per active token, or done at once.
build_messages(t) ==
    /\ tick[t].pc = "build"
    /\ \E doc \in tick[t].left :
           IF active = {}
           THEN /\ MarkSent({doc.id})
                /\ tick' = [tick EXCEPT ![t].left = @ \ {doc}]
           ELSE /\ tick' = [tick EXCEPT ![t].left = @ \ {doc},
                                       ![t].messages = @ \cup {[id |-> doc.id, token |-> d] : d \in active}]
                /\ UNCHANGED ev
    /\ UNCHANGED <<clock, active, edit, receipts, used>>

StartSending(t) ==
    /\ tick[t].pc = "build" /\ tick[t].left = {}
    /\ tick' = [tick EXCEPT ![t].pc = "send"]
    /\ UNCHANGED <<clock, ev, active, edit, receipts, used>>

Batches(t) ==
    {b \in SUBSET tick[t].messages :
        \/ Cardinality(b) = BATCH
        \/ Cardinality(b) < BATCH /\ b = tick[t].messages}

\* send_batch answers: one result per message.
SendAnswered(t) ==
    /\ tick[t].pc = "send" /\ tick[t].messages # {}
    /\ \E batch \in Batches(t) : \E result \in [batch -> {"ok", "unregistered", "error"}] :
           LET Got(r) == {m \in batch : result[m] = r} IN
           /\ active' = active \ {m.token : m \in Got("unregistered")}
           /\ tick' = [tick EXCEPT ![t].messages = @ \ batch,
                                  ![t].processed = @ \cup {m.id : m \in batch},
                                  ![t].tickets = @ \cup Got("ok")]
    /\ UNCHANGED <<clock, ev, edit, receipts, used>>

\* send_batch answers None or no result at all.
SendFailed(t) ==
    /\ tick[t].pc = "send" /\ tick[t].messages # {}
    /\ \E batch \in Batches(t) : tick' = [tick EXCEPT ![t].messages = @ \ batch]
    /\ UNCHANGED <<clock, ev, active, edit, receipts, used>>

\* Mistake: every claimed event counts as sent.
MarkAllSent(t) ==
    /\ tick[t].pc = "send" /\ tick[t].messages = {}
    /\ MarkSent({doc.id : doc \in tick[t].claimed})
    /\ tick' = [tick EXCEPT ![t].pc = "advance", ![t].left = tick[t].claimed]
    /\ UNCHANGED <<clock, active, edit, receipts, used>>

\* The end of send_and_track.
MarkProcessed(t) ==
    /\ tick[t].pc = "send" /\ tick[t].messages = {}
    /\ MarkSent(tick[t].processed)
    /\ tick' = [tick EXCEPT ![t].pc = "advance", ![t].left = tick[t].claimed]
    /\ UNCHANGED <<clock, active, edit, receipts, used>>

Pending(fire) == [fire |-> fire, status |-> "pending", claimedAt |-> 0]

\* Mistake: the lead is forgotten.
advanceToStart(t) ==
    /\ tick[t].pc = "advance"
    /\ \E doc \in tick[t].left :
           /\ LET next == next_occurrence_on_or_after(doc.plan, tick[t].now + 1) IN
              IF doc.plan.period = 0 \/ next = 0 THEN UNCHANGED ev ELSE SetSend(doc.id, Pending(next))
           /\ tick' = [tick EXCEPT ![t].left = @ \ {doc}]
    /\ UNCHANGED <<clock, active, edit, receipts, used>>

\* One round of advance_recurring, on the claimed document, not on the row.
advance_recurring(t) ==
    /\ tick[t].pc = "advance"
    /\ \E doc \in tick[t].left :
           /\ LET next == next_occurrence_on_or_after(doc.plan, tick[t].now + 1) IN
              IF doc.plan.period = 0 \/ next = 0 THEN UNCHANGED ev
              ELSE SetSend(doc.id, Pending(next - doc.plan.minutes))
           /\ tick' = [tick EXCEPT ![t].left = @ \ {doc}]
    /\ UNCHANGED <<clock, active, edit, receipts, used>>

\* The tickets are recorded for resolve_receipts, and the tick ends.
EndTick(t) ==
    /\ tick[t].pc = "advance" /\ tick[t].left = {}
    /\ receipts' = receipts \cup {[id |-> m.id, token |-> m.token, at |-> tick[t].now,
                                   checked |-> FALSE] : m \in tick[t].tickets}
    /\ tick' = [tick EXCEPT ![t] = IdleTick]
    /\ UNCHANGED <<clock, ev, active, edit, used>>

\* The server is restarted, or a call raises, in the middle of a tick.
TickDies(t) ==
    /\ tick[t].pc # "idle"
    /\ used.deaths < MaxDeaths
    /\ used' = [used EXCEPT !.deaths = @ + 1]
    /\ tick' = [tick EXCEPT ![t] = IdleTick]
    /\ UNCHANGED <<clock, ev, active, edit, receipts>>

TickStep(t) ==
    \/ recover_stuck_claims(t) \/ claim_due_reminders(t) \/ ClaimsDone(t) \/ build_messages(t)
    \/ StartSending(t) \/ SendAnswered(t) \/ SendFailed(t) \/ MarkProcessed(t)
    \/ advance_recurring(t) \/ EndTick(t)

-------------------------------------------------------------------------------
(* resolve_receipts *)

\* One receipt: Expo knows it or not; a dead token is switched off; one it
\* never heard of is given up after a day.
resolve_receipts ==
    /\ \E r \in receipts :
           /\ ~r.checked /\ r.at + READY <= clock
           /\ \/ active' = active
              \/ active' = active \ {r.token}
              \/ active' = active /\ r.at + GIVE_UP <= clock
           /\ receipts' = (receipts \ {r}) \cup {[r EXCEPT !.checked = TRUE]}
    /\ UNCHANGED <<clock, ev, tick, edit, used>>

-------------------------------------------------------------------------------
(* The users *)

Request == used.edits < MaxEdits /\ used' = [used EXCEPT !.edits = @ + 1]

create(e) ==
    /\ Request
    /\ ev[e].state = "none"
    /\ \E plan \in Schedules :
           ev' = [ev EXCEPT ![e] = [state |-> "live", plan |-> plan,
                                    send |-> compute_reminder_fields(plan, clock)]]
    /\ UNCHANGED <<clock, active, tick, edit, receipts>>

\* The PUT of a whole event: find_one and what it computes from it.  The
\* scheduler's fields are part of the update when the fire time differs.
update(e) ==
    /\ Request
    /\ edit.pc = "idle"
    /\ Live(e)
    /\ \E plan \in Schedules :
           LET send == compute_reminder_fields(plan, clock) IN
           edit' = [pc |-> "write", id |-> e, plan |-> plan, send |-> send,
                    moved |-> send.fire # ev[e].send.fire]
    /\ UNCHANGED <<clock, ev, active, tick, receipts>>

\* Mistake: a new fire time keeps the old send state.
WriteKeepsStatus ==
    /\ edit.pc = "write"
    /\ ev' = IF ~Live(edit.id) THEN ev
             ELSE [ev EXCEPT ![edit.id].plan = edit.plan,
                             ![edit.id].send.fire = IF edit.moved THEN edit.send.fire ELSE @]
    /\ edit' = IdleEdit
    /\ UNCHANGED <<clock, active, tick, receipts, used>>

\* The update_one of the PUT.
WriteUpdate ==
    /\ edit.pc = "write"
    /\ ev' = IF ~Live(edit.id) THEN ev
             ELSE [ev EXCEPT ![edit.id].plan = edit.plan,
                                ![edit.id].send = IF edit.moved THEN edit.send ELSE @]
    /\ edit' = IdleEdit
    /\ UNCHANGED <<clock, active, tick, receipts, used>>

delete(e) ==
    /\ Request
    /\ Live(e)
    /\ ev' = [ev EXCEPT ![e].state = "gone"]
    /\ UNCHANGED <<clock, active, tick, edit, receipts>>

register_push_token(d) ==
    /\ Request
    /\ active' = active \cup {d}
    /\ UNCHANGED <<clock, ev, tick, edit, receipts>>

unregister_push_token(d) ==
    /\ Request
    /\ active' = active \ {d}
    /\ UNCHANGED <<clock, ev, tick, edit, receipts>>

Pass ==
    /\ clock < MaxClock
    /\ clock' = clock + 1
    /\ UNCHANGED <<ev, active, tick, edit, receipts, used>>

UserStep ==
    \/ \E e \in Events : create(e) \/ update(e) \/ delete(e)
    \/ WriteUpdate
    \/ \E d \in Tokens : register_push_token(d) \/ unregister_push_token(d)

Next ==
    \/ \E t \in Ticks : StartTick(t) \/ TickStep(t) \/ TickDies(t)
    \/ resolve_receipts
    \/ UserStep
    \/ Pass

\* The cron job starts ticks for ever and every call returns (httpx has a
\* timeout of 30 s).  Nothing is assumed of users, receipts or failures.
Fairness ==
    /\ \A t \in Ticks : WF_vars(StartTick(t)) /\ WF_vars(TickStep(t))
    /\ WF_vars(Pass)

Spec == Init /\ [][Next]_vars /\ Fairness

-------------------------------------------------------------------------------
(* Invariants *)

TickState == [pc : {"idle", "recover", "claim", "build", "send", "advance"}, now : Nat,
              claimed : SUBSET Doc, left : SUBSET Doc, messages : SUBSET Message,
              processed : SUBSET Events, tickets : SUBSET Message]
EditState == [pc : {"idle", "write"}, id : Events, plan : Schedule, send : Fields, moved : BOOLEAN]

\* The values the state can have.
TypeOK ==
    /\ clock \in Nat
    /\ ev \in [Events -> Row]
    /\ active \in SUBSET Tokens
    /\ tick \in [Ticks -> TickState]
    /\ edit \in EditState
    /\ receipts \in SUBSET Receipt
    /\ used \in [edits : Nat, deaths : Nat]

ClaimedAt(e, c) == Live(e) /\ ev[e].send.status = "claimed" /\ ev[e].send.claimedAt = c

\* No claim is for ever: whatever fails or dies, an event claimed early enough
\* is marked, advanced or recovered by a later tick.
ClaimsEnd ==
    \A e \in Events, c \in 1..MaxClock :
        c + STUCK < MaxClock => ClaimedAt(e, c) ~> ~ClaimedAt(e, c)

=============================================================================
