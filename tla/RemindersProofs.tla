---------------------------- MODULE RemindersProofs ----------------------------
(***************************************************************************)
(* Reminders, proved for any number of events, ticks and tokens, any plans *)
(* and every bound: its types, who can have one event at once, that what   *)
(* waits is current, what is sent was due, and that nobody is told twice.  *)
(***************************************************************************)
EXTENDS RemindersProps, TLAPS

-------------------------------------------------------------------------------
(* The operators keep the types *)

LEMMA RestTypes ==
    /\ NoPlan \in Schedule /\ NoSend \in Fields /\ NoRow \in Row
    /\ IdleTick \in TickState /\ IdleEdit \in EditState
<1>1. NoPlan \in Schedule /\ NoSend \in Fields
  BY DEF NoPlan, Schedule, NoSend, Fields
<1>2. (CHOOSE e \in Events : TRUE) \in Events
  BY SomeEvent
<1> QED
  BY <1>1, <1>2 DEF NoRow, Row, IdleTick, TickState, IdleEdit, EditState

LEMMA ComputedType ==
    ASSUME NEW plan \in Schedule, NEW now \in Nat
    PROVE  compute_reminder_fields(plan, now) \in Fields
  BY RestTypes DEF compute_reminder_fields, Fields, Schedule

\* The next occurrence is not before the first one, so that the lead before it
\* is a time.
LEMMA NextFires ==
    ASSUME NEW plan \in Schedule, NEW after \in Nat, plan.period # 0,
           next_occurrence_on_or_after(plan, after) # 0
    PROVE  next_occurrence_on_or_after(plan, after) - plan.minutes \in Nat
<1> DEFINE late == IF after > plan.start THEN after - plan.start ELSE 0
           k    == (late + plan.period - 1) \div plan.period
           next == plan.start + plan.period * k
<1>1. /\ plan.start \in Nat /\ plan.minutes \in Nat /\ plan.period \in Nat /\ plan.until \in Nat
      /\ plan.minutes < plan.start
  BY DEF Schedule
<1>2. late + plan.period - 1 \in Nat
  BY <1>1
<1>3. k \in Nat
  BY <1>1, <1>2, SMT
<1>4. plan.period * k \in Nat
  BY <1>1, <1>3
<1>5. next \in Nat /\ next >= plan.start
  <2> HIDE DEF k
  <2> QED  BY <1>1, <1>4
<1>6. next_occurrence_on_or_after(plan, after) \in {0, next}
  <2> HIDE DEF k
  <2> QED  BY DEF next_occurrence_on_or_after, k
<1> QED
  <2> HIDE DEF next
  <2> QED  BY <1>1, <1>5, <1>6

LEMMA DocType ==
    ASSUME TypeOK, NEW e \in Events
    PROVE  DocOf(e) \in Doc
  BY DEF TypeOK, DocOf, Doc, Row, Fields

-------------------------------------------------------------------------------
(* Type correctness *)

LEMMA TypeInit == Init => TypeOK
  BY RestTypes DEF Init, TypeOK

\* The calls of a tick before it sends.
LEMMA TypeClaiming ==
    ASSUME TypeOK, NEW t \in Ticks,
           StartTick(t) \/ recover_stuck_claims(t) \/ claim_due_reminders(t) \/ ClaimsDone(t)
    PROVE  TypeOK'
<1>1. CASE StartTick(t)
  <2>1. [IdleTick EXCEPT !.pc = "recover", !.now = clock] \in TickState
    BY RestTypes DEF TypeOK, TickState
  <2>2. tick' \in [Ticks -> TickState]
    BY <1>1, <2>1 DEF StartTick, TypeOK
  <2> QED
    BY <1>1, <2>2 DEF StartTick, TypeOK
<1>2. CASE recover_stuck_claims(t)
  <2>1. ASSUME NEW e \in Events
        PROVE  [ev[e] EXCEPT !.send.status = "pending", !.send.claimedAt = 0] \in Row
    BY DEF TypeOK, Row, Fields
  <2>2. ev' \in [Events -> Row]
    BY <1>2, <2>1 DEF recover_stuck_claims, TypeOK
  <2>3. tick' \in [Ticks -> TickState]
    BY <1>2 DEF recover_stuck_claims, TypeOK, TickState
  <2> QED
    BY <1>2, <2>2, <2>3 DEF recover_stuck_claims, TypeOK
<1>3. CASE claim_due_reminders(t)
  <2>1. PICK e \in Events :
            /\ ev' = [ev EXCEPT ![e].send = Claim(@.fire, tick[t].now)]
            /\ tick' = [tick EXCEPT ![t].claimed = @ \cup {DocOf(e)}]
    BY <1>3 DEF claim_due_reminders
  <2>2. Claim(ev[e].send.fire, tick[t].now) \in Fields
    BY DEF TypeOK, Row, Fields, TickState, Claim
  <2>3. ev' \in [Events -> Row]
    BY <2>1, <2>2 DEF TypeOK, Row
  <2>4. [tick[t] EXCEPT !.claimed = @ \cup {DocOf(e)}] \in TickState
    BY DocType DEF TypeOK, TickState
  <2>5. tick' \in [Ticks -> TickState]
    BY <2>1, <2>4 DEF TypeOK
  <2> QED
    BY <1>3, <2>3, <2>5 DEF claim_due_reminders, TypeOK
<1>4. CASE ClaimsDone(t)
  <2>1. [tick[t] EXCEPT !.pc = "build", !.left = tick[t].claimed] \in TickState
    BY DEF TypeOK, TickState
  <2>2. tick' \in [Ticks -> TickState]
    BY <1>4, <2>1, RestTypes DEF ClaimsDone, TypeOK
  <2> QED
    BY <1>4, <2>2 DEF ClaimsDone, TypeOK
<1> QED
  BY <1>1, <1>2, <1>3, <1>4

LEMMA MarkType ==
    ASSUME TypeOK, NEW E, MarkSent(E)
    PROVE  ev' \in [Events -> Row]
<1>1. ASSUME NEW e \in Events PROVE [ev[e] EXCEPT !.send.status = "sent"] \in Row
  BY DEF TypeOK, Row, Fields
<1> QED
  BY <1>1 DEF MarkSent, TypeOK

LEMMA TypeBuilding ==
    ASSUME TypeOK, NEW t \in Ticks, build_messages(t) \/ StartSending(t)
    PROVE  TypeOK'
<1>1. CASE build_messages(t)
  <2>1. PICK doc \in tick[t].left :
            IF active = {}
            THEN /\ MarkSent({doc.id})
                 /\ tick' = [tick EXCEPT ![t].left = @ \ {doc}]
            ELSE /\ tick' = [tick EXCEPT ![t].left = @ \ {doc},
                                       ![t].messages = @ \cup {[id |-> doc.id, token |-> d] : d \in active}]
                 /\ UNCHANGED ev
    BY <1>1 DEF build_messages
  <2>2. ev' \in [Events -> Row]
    BY <2>1, MarkType DEF TypeOK
  <2>3. {[id |-> doc.id, token |-> d] : d \in active} \subseteq Message
    BY <2>1 DEF TypeOK, TickState, Doc, Message
  <2>4. tick' \in [Ticks -> TickState]
    BY <2>1, <2>3 DEF TypeOK, TickState
  <2> QED
    BY <1>1, <2>2, <2>4 DEF build_messages, TypeOK
<1>2. CASE StartSending(t)
  <2>1. tick' \in [Ticks -> TickState]
    BY <1>2 DEF StartSending, TypeOK, TickState
  <2> QED
    BY <1>2, <2>1 DEF StartSending, TypeOK
<1> QED
  BY <1>1, <1>2

LEMMA TypeSending ==
    ASSUME TypeOK, NEW t \in Ticks, SendAnswered(t) \/ SendFailed(t) \/ MarkProcessed(t)
    PROVE  TypeOK'
<1>1. CASE SendAnswered(t)
  <2>0. PICK batch \in Batches(t) : \E result \in [batch -> {"ok", "unregistered", "error"}] :
            /\ active' = active \ {m.token : m \in {x \in batch : result[x] = "unregistered"}}
            /\ tick' = [tick EXCEPT ![t].messages = @ \ batch,
                                   ![t].processed = @ \cup {m.id : m \in batch},
                                   ![t].tickets = @ \cup {x \in batch : result[x] = "ok"}]
    BY <1>1 DEF SendAnswered
  <2>1. PICK result \in [batch -> {"ok", "unregistered", "error"}] :
            /\ active' = active \ {m.token : m \in {x \in batch : result[x] = "unregistered"}}
            /\ tick' = [tick EXCEPT ![t].messages = @ \ batch,
                                   ![t].processed = @ \cup {m.id : m \in batch},
                                   ![t].tickets = @ \cup {x \in batch : result[x] = "ok"}]
    BY <2>0
  <2>2. batch \subseteq Message
    BY <2>1 DEF Batches, TypeOK, TickState
  <2>3. {m.id : m \in batch} \subseteq Events /\ {x \in batch : result[x] = "ok"} \subseteq Message
    BY <2>2 DEF Message
  <2>4. [tick[t] EXCEPT !.messages = @ \ batch,
                        !.processed = @ \cup {m.id : m \in batch},
                        !.tickets = @ \cup {x \in batch : result[x] = "ok"}] \in TickState
    BY <2>3 DEF TypeOK, TickState
  <2>5. tick' \in [Ticks -> TickState]
    BY <2>1, <2>4 DEF TypeOK
  <2> QED
    BY <1>1, <2>1, <2>5 DEF SendAnswered, TypeOK
<1>2. CASE SendFailed(t)
  <2>1. tick' \in [Ticks -> TickState]
    BY <1>2 DEF SendFailed, TypeOK, TickState
  <2> QED
    BY <1>2, <2>1 DEF SendFailed, TypeOK
<1>3. CASE MarkProcessed(t)
  <2>1. ev' \in [Events -> Row]
    BY <1>3, MarkType DEF MarkProcessed
  <2>3. [tick[t] EXCEPT !.pc = "advance", !.left = tick[t].claimed] \in TickState
    BY DEF TypeOK, TickState
  <2>2. tick' \in [Ticks -> TickState]
    BY <1>3, <2>3 DEF MarkProcessed, TypeOK
  <2> QED
    BY <1>3, <2>1, <2>2 DEF MarkProcessed, TypeOK
<1> QED
  BY <1>1, <1>2, <1>3

LEMMA TypeAdvancing ==
    ASSUME TypeOK, NEW t \in Ticks, advance_recurring(t) \/ EndTick(t) \/ TickDies(t)
    PROVE  TypeOK'
<1>1. CASE advance_recurring(t)
  <2> DEFINE next(doc) == next_occurrence_on_or_after(doc.plan, tick[t].now + 1)
  <2>1. PICK doc \in tick[t].left :
            /\ IF doc.plan.period = 0 \/ next(doc) = 0 THEN UNCHANGED ev
               ELSE SetSend(doc.id, Pending(next(doc) - doc.plan.minutes))
            /\ tick' = [tick EXCEPT ![t].left = @ \ {doc}]
    BY <1>1 DEF advance_recurring
  <2>2. doc \in Doc /\ tick[t].now + 1 \in Nat
    BY DEF TypeOK, TickState
  <2>5. ev' \in [Events -> Row]
    <3>1. CASE doc.plan.period = 0 \/ next(doc) = 0
      BY <2>1, <3>1 DEF TypeOK
    <3>2. CASE ~(doc.plan.period = 0 \/ next(doc) = 0)
      <4>1. doc.plan \in Schedule /\ doc.id \in Events
        BY <2>2 DEF Doc
      <4>2. next(doc) - doc.plan.minutes \in Nat
        BY <4>1, <2>2, <3>2, NextFires
      <4>3. Pending(next(doc) - doc.plan.minutes) \in Fields
        <5> HIDE DEF next
        <5> QED  BY <4>2 DEF Pending, Fields
      <4>4. SetSend(doc.id, Pending(next(doc) - doc.plan.minutes))
        BY <2>1, <3>2
      <4> HIDE DEF next
      <4> QED
        BY <4>1, <4>3, <4>4 DEF SetSend, TypeOK, Row
    <3> QED
      BY <3>1, <3>2
  <2>6. tick' \in [Ticks -> TickState]
    BY <2>1 DEF TypeOK, TickState
  <2> QED
    BY <1>1, <2>5, <2>6 DEF advance_recurring, TypeOK
<1>2. CASE EndTick(t)
  <2>1. ASSUME NEW m \in tick[t].tickets
        PROVE  [id |-> m.id, token |-> m.token, at |-> tick[t].now, checked |-> FALSE] \in Receipt
    <3>1. m \in Message /\ tick[t].now \in Nat
      BY DEF TypeOK, TickState
    <3> QED
      BY <3>1 DEF Message, Receipt
  <2>2. receipts' \in SUBSET Receipt
    BY <1>2, <2>1 DEF EndTick, TypeOK
  <2>3. tick' \in [Ticks -> TickState]
    BY <1>2, RestTypes DEF EndTick, TypeOK
  <2> QED
    BY <1>2, <2>2, <2>3 DEF EndTick, TypeOK
<1>3. CASE TickDies(t)
  <2>1. tick' \in [Ticks -> TickState]
    BY <1>3, RestTypes DEF TickDies, TypeOK
  <2> QED
    BY <1>3, <2>1 DEF TickDies, TypeOK
<1> QED
  BY <1>1, <1>2, <1>3

LEMMA TypeReceipts ==
    ASSUME TypeOK, resolve_receipts
    PROVE  TypeOK'
<1>1. PICK r \in receipts :
          /\ active' \in SUBSET active
          /\ receipts' = (receipts \ {r}) \cup {[r EXCEPT !.checked = TRUE]}
  BY DEF resolve_receipts
<1>2. [r EXCEPT !.checked = TRUE] \in Receipt
  BY DEF TypeOK, Receipt
<1> QED
  BY <1>1, <1>2 DEF resolve_receipts, TypeOK

LEMMA TypeUsers ==
    ASSUME TypeOK, UserStep
    PROVE  TypeOK'
<1>1. ASSUME NEW e \in Events, create(e) PROVE TypeOK'
  <2>1. PICK plan \in Schedules :
            ev' = [ev EXCEPT ![e] = [state |-> "live", plan |-> plan,
                                     send |-> compute_reminder_fields(plan, clock)]]
    BY <1>1 DEF create
  <2>2. compute_reminder_fields(plan, clock) \in Fields /\ plan \in Schedule
    BY ComputedType, SchedulesAreSound DEF TypeOK
  <2>3. ev' \in [Events -> Row]
    BY <2>1, <2>2 DEF TypeOK, Row
  <2> QED
    BY <1>1, <2>3 DEF create, Request, TypeOK
<1>2. ASSUME NEW e \in Events, update(e) PROVE TypeOK'
  <2>1. PICK plan \in Schedules :
            edit' = [pc |-> "write", id |-> e, plan |-> plan,
                     send |-> compute_reminder_fields(plan, clock),
                     moved |-> compute_reminder_fields(plan, clock).fire # ev[e].send.fire]
    BY <1>2 DEF update
  <2>2. compute_reminder_fields(plan, clock) \in Fields /\ plan \in Schedule
    BY ComputedType, SchedulesAreSound DEF TypeOK
  <2>3. (compute_reminder_fields(plan, clock).fire # ev[e].send.fire) \in BOOLEAN
    OBVIOUS
  <2>4. edit' \in EditState
    BY <2>1, <2>2, <2>3 DEF EditState
  <2> QED
    BY <1>2, <2>4 DEF update, Request, TypeOK
<1>3. CASE WriteUpdate
  <2>1. edit.id \in Events /\ edit.plan \in Schedule /\ edit.send \in Fields
    BY DEF TypeOK, EditState
  <2>2. [ev[edit.id] EXCEPT !.plan = edit.plan,
                            !.send = IF edit.moved THEN edit.send ELSE @] \in Row
    BY <2>1 DEF TypeOK, Row
  <2>3. ev' \in [Events -> Row]
    BY <1>3, <2>1, <2>2 DEF WriteUpdate, TypeOK
  <2> QED
    BY <1>3, <2>3, RestTypes DEF WriteUpdate, TypeOK
<1>4. ASSUME NEW e \in Events, delete(e) PROVE TypeOK'
  <2>1. [ev[e] EXCEPT !.state = "gone"] \in Row
    BY DEF TypeOK, Row
  <2>2. ev' \in [Events -> Row]
    BY <1>4, <2>1 DEF delete, TypeOK
  <2> QED
    BY <1>4, <2>2 DEF delete, Request, TypeOK
<1>5. ASSUME NEW d \in Tokens, register_push_token(d) \/ unregister_push_token(d) PROVE TypeOK'
  BY <1>5 DEF register_push_token, unregister_push_token, Request, TypeOK
<1> QED
  BY <1>1, <1>2, <1>3, <1>4, <1>5 DEF UserStep

LEMMA TypeStep ==
    ASSUME TypeOK, [Next]_vars
    PROVE  TypeOK'
<1>1. ASSUME NEW t \in Ticks, StartTick(t) \/ TickStep(t) \/ TickDies(t) PROVE TypeOK'
  BY <1>1, TypeClaiming, TypeBuilding, TypeSending, TypeAdvancing DEF TickStep
<1>2. CASE resolve_receipts
  BY <1>2, TypeReceipts
<1>3. CASE UserStep
  BY <1>3, TypeUsers
<1>4. CASE Pass
  BY <1>4 DEF Pass, TypeOK
<1>5. CASE UNCHANGED vars
  BY <1>5 DEF vars, TypeOK
<1> QED
  BY <1>1, <1>2, <1>3, <1>4, <1>5 DEF Next

\* Every reachable state of the reminders has the declared types: no fire time
\* is before the beginning of time, and a claim, a message, a ticket and a
\* receipt are of events and tokens there are.
THEOREM TypeCorrect == Spec => []TypeOK
<1>1. Init => TypeOK
  BY TypeInit
<1>2. TypeOK /\ [Next]_vars => TypeOK'
  BY TypeStep
<1> QED
  BY <1>1, <1>2, PTL DEF Spec

-------------------------------------------------------------------------------
(* Who has an event.  OneHolder is not inductive: a second tick can claim an *)
(* event only while it is pending, so what has to be kept is that an event a *)
(* tick has is pending only if its claim was undone under that tick.         *)

\* What a tick has was created.
HeldExist == \A t \in Ticks : \A e \in Holding(t) : ev[e].state # "none"

\* The claim of a held event that is pending was undone.
PendingIsLoose ==
    \A t \in Ticks : \A e \in Holding(t) : ev[e].send.status = "pending" => <<t, e>> \in past.loose

\* A tick that has two copies of an event lost it between them.
TwiceIsLoose ==
    \A t \in Ticks : \A a, b \in Held(t) : a # b /\ a.id = b.id => <<t, a.id>> \in past.loose

HolderInv == TypeOK /\ HeldExist /\ PendingIsLoose /\ TwiceIsLoose /\ OneHolder

Loosened == past'.loose = {p \in past.loose \cup LooseNow : p[2] \in Holding(p[1])'}

LEMMA HoldingEvents ==
    ASSUME TypeOK, NEW t \in Ticks
    PROVE  Held(t) \subseteq Doc /\ Holding(t) \subseteq Events
  BY DEF TypeOK, TickState, Held, Holding, Doc

\* A step that gives no tick an event, and makes a held event pending only if
\* it says so.
LEMMA NothingNew ==
    ASSUME HolderInv, TypeOK', Loosened,
           \A t \in Ticks : Held(t)' \subseteq Held(t),
           \A e \in Events : ev[e].state # "none" => ev'[e].state # "none",
           \A t \in Ticks : \A e \in Holding(t)' :
               ev'[e].send.status = "pending" =>
                   ev[e].send.status = "pending" \/ <<t, e>> \in past.loose \cup LooseNow
    PROVE  HolderInv'
<1>1. \A t \in Ticks : Holding(t)' \subseteq Holding(t)
  BY DEF Holding
<1>2. \A t \in Ticks : \A e \in Holding(t)' :
          <<t, e>> \in past.loose \cup LooseNow => <<t, e>> \in past'.loose
  BY DEF Loosened
<1>3. HeldExist'
  <2> SUFFICES ASSUME NEW t \in Ticks, NEW e \in Holding(t)'
               PROVE  ev'[e].state # "none"
    BY DEF HeldExist
  <2>1. e \in Holding(t) /\ e \in Events
    BY <1>1, HoldingEvents DEF HolderInv
  <2> QED
    BY <2>1 DEF HolderInv, HeldExist
<1>4. PendingIsLoose'
  <2> SUFFICES ASSUME NEW t \in Ticks, NEW e \in Holding(t)', ev'[e].send.status = "pending"
               PROVE  <<t, e>> \in past'.loose
    BY DEF PendingIsLoose
  <2>1. e \in Holding(t)
    BY <1>1
  <2>2. <<t, e>> \in past.loose \cup LooseNow
    BY <2>1 DEF HolderInv, PendingIsLoose
  <2> QED
    BY <1>2, <2>2
<1>5. TwiceIsLoose'
  <2> SUFFICES ASSUME NEW t \in Ticks, NEW a \in Held(t)', NEW b \in Held(t)', a # b, a.id = b.id
               PROVE  <<t, a.id>> \in past'.loose
    BY DEF TwiceIsLoose
  <2>1. <<t, a.id>> \in past.loose /\ a.id \in Holding(t)'
    BY DEF HolderInv, TwiceIsLoose, Holding
  <2> QED
    BY <1>2, <2>1
<1>6. OneHolder'
  <2> SUFFICES ASSUME NEW t1 \in Ticks, NEW t2 \in Ticks, t1 # t2,
                      NEW e \in Holding(t1)' \cap Holding(t2)'
               PROVE  <<t1, e>> \in past'.loose \/ <<t2, e>> \in past'.loose
    BY DEF OneHolder
  <2>1. e \in Holding(t1) \cap Holding(t2)
    BY <1>1
  <2>2. <<t1, e>> \in past.loose \/ <<t2, e>> \in past.loose
    BY <2>1 DEF HolderInv, OneHolder
  <2> QED
    BY <1>2, <2>2
<1> QED
  BY <1>3, <1>4, <1>5, <1>6 DEF HolderInv

\* The claim: the event was pending, so whoever has it has lost it.
LEMMA ClaimKeeps ==
    ASSUME HolderInv, TypeOK', Loosened, NEW k \in Ticks, claim_due_reminders(k)
    PROVE  HolderInv'
<1>1. PICK e \in Events :
          /\ Due(e, tick[k].now)
          /\ ev' = [ev EXCEPT ![e].send = Claim(@.fire, tick[k].now)]
          /\ tick' = [tick EXCEPT ![k].claimed = @ \cup {DocOf(e)}]
  BY DEF claim_due_reminders
<1>2. tick \in [Ticks -> TickState] /\ ev \in [Events -> Row] /\ tick[k].pc = "claim"
  BY DEF HolderInv, TypeOK, claim_due_reminders
<1>3. Live(e) /\ ev[e].send.status = "pending" /\ DocOf(e).id = e
  BY <1>1 DEF Due, DocOf
<1>4. /\ Held(k)' = Held(k) \cup {DocOf(e)}
      /\ \A t \in Ticks \ {k} : Held(t)' = Held(t)
  BY <1>1, <1>2 DEF Held, TickState
<1>5. /\ Holding(k)' = Holding(k) \cup {e}
      /\ \A t \in Ticks \ {k} : Holding(t)' = Holding(t)
  BY <1>3, <1>4 DEF Holding
<1>6. /\ ev'[e].send.status = "claimed" /\ ev'[e].state = "live"
      /\ \A x \in Events \ {e} : ev'[x] = ev[x]
  BY <1>1, <1>2, <1>3 DEF Claim, Live, Row
<1>7. \A t \in Ticks : e \in Holding(t) => <<t, e>> \in past.loose
  BY <1>3 DEF HolderInv, PendingIsLoose
<1>8. \A t \in Ticks : \A x \in Holding(t)' : <<t, x>> \in past.loose => <<t, x>> \in past'.loose
  BY DEF Loosened
<1>9. HeldExist'
  <2> SUFFICES ASSUME NEW t \in Ticks, NEW x \in Holding(t)'
               PROVE  ev'[x].state # "none"
    BY DEF HeldExist
  <2>1. x \in Events /\ (x = e \/ x \in Holding(t))
    BY <1>5, HoldingEvents DEF HolderInv
  <2> QED
    BY <1>6, <2>1 DEF HolderInv, HeldExist
<1>10. PendingIsLoose'
  <2> SUFFICES ASSUME NEW t \in Ticks, NEW x \in Holding(t)', ev'[x].send.status = "pending"
               PROVE  <<t, x>> \in past'.loose
    BY DEF PendingIsLoose
  <2>1. x \in Events /\ x # e /\ x \in Holding(t)
    BY <1>5, <1>6, HoldingEvents DEF HolderInv
  <2>2. <<t, x>> \in past.loose
    BY <1>6, <2>1 DEF HolderInv, PendingIsLoose
  <2> QED
    BY <1>8, <2>2
<1>11. TwiceIsLoose'
  <2> SUFFICES ASSUME NEW t \in Ticks, NEW a \in Held(t)', NEW b \in Held(t)', a # b, a.id = b.id
               PROVE  <<t, a.id>> \in past'.loose
    BY DEF TwiceIsLoose
  <2>1. a.id \in Holding(t)'
    BY DEF Holding
  <2>2. CASE a \in Held(t) /\ b \in Held(t)
    BY <1>8, <2>1, <2>2 DEF HolderInv, TwiceIsLoose
  <2>3. CASE ~(a \in Held(t) /\ b \in Held(t))
    <3>1. t = k /\ a.id = e
      BY <1>3, <1>4, <2>3
    <3>2. a \in Held(k) \/ b \in Held(k)
      BY <1>4, <3>1
    <3>3. e \in Holding(k)
      BY <3>1, <3>2 DEF Holding
    <3> QED
      BY <1>7, <1>8, <2>1, <3>1, <3>3
  <2> QED
    BY <2>2, <2>3
<1>12. OneHolder'
  <2> SUFFICES ASSUME NEW t1 \in Ticks, NEW t2 \in Ticks, t1 # t2,
                      NEW x \in Holding(t1)' \cap Holding(t2)'
               PROVE  <<t1, x>> \in past'.loose \/ <<t2, x>> \in past'.loose
    BY DEF OneHolder
  <2>1. CASE x = e
    <3>1. e \in Holding(t1) \/ e \in Holding(t2)
      BY <1>5, <2>1
    <3> QED
      BY <1>7, <1>8, <2>1, <3>1
  <2>2. CASE x # e
    <3>1. x \in Holding(t1) \cap Holding(t2)
      BY <1>5, <2>2
    <3> QED
      BY <1>8, <3>1 DEF HolderInv, OneHolder
  <2> QED
    BY <2>1, <2>2
<1> QED
  BY <1>9, <1>10, <1>11, <1>12 DEF HolderInv

\* Starting and ending: a tick at rest has nothing.
LEMMA RestKeeps ==
    ASSUME HolderInv, TypeOK', Loosened, NEW k \in Ticks,
           StartTick(k) \/ ClaimsDone(k) \/ StartSending(k) \/ EndTick(k) \/ TickDies(k)
    PROVE  HolderInv'
<1>1. ev' = ev
  BY DEF StartTick, ClaimsDone, StartSending, EndTick, TickDies
<1>2. tick \in [Ticks -> TickState]
  BY DEF HolderInv, TypeOK
<1>3. \A t \in Ticks : Held(t)' \subseteq Held(t)
  <2> SUFFICES ASSUME NEW t \in Ticks PROVE Held(t)' \subseteq Held(t)
    OBVIOUS
  <2>1. CASE t # k
    BY <1>2, <2>1 DEF StartTick, ClaimsDone, StartSending, EndTick, TickDies, Held
  <2>2. CASE t = k
    <3>1. CASE StartTick(k)
      BY <1>2, <2>2, <3>1 DEF StartTick, IdleTick, Held
    <3>2. CASE ClaimsDone(k)
      BY <1>2, <2>2, <3>2 DEF ClaimsDone, IdleTick, TickState, Held
    <3>3. CASE StartSending(k)
      BY <1>2, <2>2, <3>3 DEF StartSending, TickState, Held
    <3>4. CASE EndTick(k) \/ TickDies(k)
      BY <1>2, <2>2, <3>4 DEF EndTick, TickDies, IdleTick, Held
    <3> QED
      BY <3>1, <3>2, <3>3, <3>4
  <2> QED
    BY <2>1, <2>2
<1> QED
  BY <1>1, <1>3, NothingNew

\* What a tick has stays what it has while it builds and sends.
LEMMA SendingKeeps ==
    ASSUME HolderInv, TypeOK', Loosened, NEW k \in Ticks,
           build_messages(k) \/ SendAnswered(k) \/ SendFailed(k) \/ MarkProcessed(k)
    PROVE  HolderInv'
<1>1. tick \in [Ticks -> TickState] /\ ev \in [Events -> Row]
  BY DEF HolderInv, TypeOK
<1>2. \A t \in Ticks : Held(t)' \subseteq Held(t)
  <2> SUFFICES ASSUME NEW t \in Ticks PROVE Held(t)' \subseteq Held(t)
    OBVIOUS
  <2>1. CASE build_messages(k)
    BY <1>1, <2>1 DEF build_messages, TickState, Held
  <2>2. CASE SendAnswered(k) \/ SendFailed(k)
    <3>1. \E M, P, T : tick' = [tick EXCEPT ![k].messages = M, ![k].processed = P, ![k].tickets = T]
      <4>1. CASE SendAnswered(k)
        BY <4>1 DEF SendAnswered
      <4>2. CASE SendFailed(k)
        <5>1. PICK batch : tick' = [tick EXCEPT ![k].messages = @ \ batch]
          BY <4>2 DEF SendFailed
        <5>2. tick' = [tick EXCEPT ![k].messages = tick[k].messages \ batch,
                                   ![k].processed = tick[k].processed,
                                   ![k].tickets = tick[k].tickets]
          BY <1>1, <5>1 DEF TickState
        <5> QED
          BY <5>2
      <4> QED
        BY <2>2, <4>1, <4>2
    <3>2. tick'[t].pc = tick[t].pc /\ tick'[t].claimed = tick[t].claimed /\ tick'[t].left = tick[t].left
      BY <1>1, <3>1 DEF TickState
    <3> QED
      BY <3>2 DEF Held
  <2>3. CASE MarkProcessed(k)
    BY <1>1, <2>3 DEF MarkProcessed, TickState, Held
  <2> QED
    BY <2>1, <2>2, <2>3
<1>3. ASSUME NEW e \in Events
      PROVE  /\ ev'[e].state = ev[e].state
             /\ ev'[e].send.status = "pending" => ev[e].send.status = "pending"
  <2>1. ASSUME NEW E, MarkSent(E)
        PROVE  /\ ev'[e].state = ev[e].state
               /\ ev'[e].send.status = "pending" => ev[e].send.status = "pending"
    BY <1>1, <2>1 DEF MarkSent, Row, Fields
  <2>2. \/ ev' = ev
        \/ \E doc \in tick[k].left : MarkSent({doc.id})
        \/ MarkSent(tick[k].processed)
    BY DEF build_messages, SendAnswered, SendFailed, MarkProcessed
  <2> QED
    BY <2>1, <2>2
<1>4. \A t \in Ticks : \A e \in Holding(t)' : e \in Events
  BY <1>2, HoldingEvents DEF HolderInv, Holding
<1> QED
  BY <1>2, <1>3, <1>4, NothingNew

\* The recovery takes claims away from the ticks that have them.
LEMMA RecoverKeeps ==
    ASSUME HolderInv, TypeOK', Loosened, NEW k \in Ticks, recover_stuck_claims(k)
    PROVE  HolderInv'
<1>1. tick \in [Ticks -> TickState] /\ ev \in [Events -> Row]
  BY DEF HolderInv, TypeOK
<1>2. \A t \in Ticks : Held(t)' = Held(t)
  BY <1>1 DEF recover_stuck_claims, TickState, Held
<1>3. \A e \in Events : ev'[e].state = ev[e].state
  BY <1>1 DEF recover_stuck_claims, Row
<1>4. \A t \in Ticks : \A e \in Holding(t)' : ev'[e].send.status = "pending" => <<t, e>> \in LooseNow
  <2> SUFFICES ASSUME NEW t \in Ticks, NEW e \in Holding(t)', ev'[e].send.status = "pending"
               PROVE  <<t, e>> \in LooseNow
    OBVIOUS
  <2>1. e \in Holding(t) /\ e \in Events
    BY <1>2, HoldingEvents DEF HolderInv, Holding
  <2> QED
    BY <2>1 DEF LooseNow
<1> QED
  BY <1>2, <1>3, <1>4, NothingNew

\* The advance makes an event pending for the ticks that have it still.
LEMMA AdvanceKeeps ==
    ASSUME HolderInv, TypeOK', Loosened, NEW k \in Ticks, advance_recurring(k)
    PROVE  HolderInv'
<1>1. tick \in [Ticks -> TickState] /\ ev \in [Events -> Row] /\ tick[k].pc = "advance"
  BY DEF HolderInv, TypeOK, advance_recurring
<1>2. PICK doc \in tick[k].left :
          /\ ev' = ev \/ \E send : SetSend(doc.id, send)
          /\ tick' = [tick EXCEPT ![k].left = @ \ {doc}]
  BY DEF advance_recurring
<1>3. doc \in Held(k) /\ doc.id \in Holding(k)
  BY <1>1 DEF Held, Holding
<1>4. /\ Held(k)' = Held(k) \ {doc}
      /\ \A t \in Ticks \ {k} : Held(t)' = Held(t)
  BY <1>1, <1>2 DEF Held, TickState
<1>5. \A e \in Events : ev'[e].state = ev[e].state /\ (e # doc.id => ev'[e] = ev[e])
  <2>1. ASSUME NEW send, SetSend(doc.id, send), NEW e \in Events
        PROVE  ev'[e].state = ev[e].state /\ (e # doc.id => ev'[e] = ev[e])
    <3>1. CASE ~Live(doc.id)
      BY <2>1, <3>1 DEF SetSend
    <3>2. CASE Live(doc.id)
      <4>1. ev' = [ev EXCEPT ![doc.id].send = send]
        BY <2>1, <3>2 DEF SetSend
      <4>2. e # doc.id => ev'[e] = ev[e]
        BY <1>1, <4>1
      <4>3. e = doc.id => ev'[e] = [ev[e] EXCEPT !.send = send]
        BY <1>1, <4>1
      <4>4. [ev[e] EXCEPT !.send = send].state = ev[e].state
        BY <1>1 DEF Row
      <4> QED
        BY <4>2, <4>3, <4>4
    <3> QED
      BY <3>1, <3>2
  <2> QED
    BY <1>2, <2>1
<1>6. ASSUME NEW t \in Ticks, NEW e \in Holding(t)', ev'[e].send.status = "pending"
      PROVE  ev[e].send.status = "pending" \/ <<t, e>> \in past.loose \cup LooseNow
  <2>1. e \in Holding(t) /\ e \in Events
    BY <1>4, HoldingEvents DEF HolderInv, Holding
  <2>2. CASE e # doc.id
    BY <1>5, <1>6, <2>1, <2>2
  <2>3. CASE e = doc.id /\ t # k
    <3>1. Doing(k, e)
      BY <1>1, <1>2, <2>3 DEF Doing, TickState
    <3> QED
      BY <1>6, <2>1, <2>3, <3>1 DEF LooseNow
  <2>4. CASE e = doc.id /\ t = k
    <3>1. PICK other \in Held(k)' : other.id = e
      BY <1>6, <2>4 DEF Holding
    <3>2. other \in Held(k) /\ other # doc
      BY <1>4, <3>1
    <3> QED
      BY <1>3, <2>4, <3>1, <3>2 DEF HolderInv, TwiceIsLoose
  <2> QED
    BY <2>2, <2>3, <2>4
<1>7. \A t \in Ticks : Held(t)' \subseteq Held(t)
  BY <1>4
<1> QED
  BY <1>5, <1>6, <1>7, NothingNew

\* The users: a PUT takes the claim away, a new event is nobody's.
LEMMA UsersKeep ==
    ASSUME HolderInv, TypeOK', Loosened, UserStep
    PROVE  HolderInv'
<1>1. tick' = tick /\ \A t \in Ticks : Held(t)' = Held(t) /\ Holding(t)' = Holding(t)
  BY DEF UserStep, create, update, delete, WriteUpdate, register_push_token,
         unregister_push_token, Held, Holding
<1>2. ev \in [Events -> Row] /\ edit \in EditState
  BY DEF HolderInv, TypeOK
<1>3. \A t \in Ticks : \A e \in Holding(t) : e \in Events /\ ev[e].state # "none"
  BY HoldingEvents DEF HolderInv, HeldExist
<1>4. ASSUME NEW e \in Events, create(e) \/ update(e) \/ delete(e)
      PROVE  \A x \in Events : ev[x].state # "none" =>
                 ev'[x].state # "none" /\ ev'[x].send = ev[x].send
  BY <1>2, <1>4 DEF create, update, delete, Row
<1>5. ASSUME NEW d \in Tokens, register_push_token(d) \/ unregister_push_token(d)
      PROVE  ev' = ev
  BY <1>5 DEF register_push_token, unregister_push_token
<1>6. CASE WriteUpdate
  <2>1. \A x \in Events : ev'[x].state = ev[x].state
    <3>1. CASE ~Live(edit.id)
      BY <1>6, <3>1 DEF WriteUpdate
    <3>2. CASE Live(edit.id)
      <4>1. [ev[edit.id] EXCEPT !.plan = edit.plan,
                                !.send = IF edit.moved THEN edit.send ELSE @].state = ev[edit.id].state
        BY <1>2 DEF Row, EditState
      <4> QED
        BY <1>2, <1>6, <3>2, <4>1 DEF WriteUpdate, EditState
    <3> QED
      BY <3>1, <3>2
  <2>2. \A t \in Ticks : \A x \in Holding(t)' : ev'[x].send.status = "pending" => <<t, x>> \in LooseNow
    BY <1>1, <1>3, <1>6 DEF LooseNow
  <2> QED
    BY <1>1, <2>1, <2>2, NothingNew
<1>7. CASE ~WriteUpdate
  <2>1. \A x \in Events : ev[x].state # "none" => ev'[x].state # "none" /\ ev'[x].send = ev[x].send
    BY <1>4, <1>5, <1>7 DEF UserStep
  <2> QED
    BY <1>1, <1>3, <2>1, NothingNew
<1> QED
  BY <1>6, <1>7

LEMMA HolderInit ==
    ASSUME Init, InitPast
    PROVE  HolderInv
<1>1. \A t \in Ticks : Held(t) = {} /\ Holding(t) = {}
  BY DEF Init, IdleTick, Held, Holding
<1> QED
  BY <1>1, TypeInit DEF HolderInv, HeldExist, PendingIsLoose, TwiceIsLoose, OneHolder

LEMMA HolderStep ==
    ASSUME HolderInv, [Next /\ Observe]_pvars
    PROVE  HolderInv'
<1>1. CASE UNCHANGED pvars
  BY <1>1 DEF pvars, vars, HolderInv, TypeOK, HeldExist, PendingIsLoose, TwiceIsLoose, OneHolder,
              Held, Holding, Live
<1>2. CASE Next /\ Observe
  <2>1. TypeOK'
    BY <1>2, TypeStep DEF HolderInv
  <2>2. Loosened
    BY <1>2 DEF Observe, Loosened
  <2>3. ASSUME NEW t \in Ticks, StartTick(t) \/ TickStep(t) \/ TickDies(t)
        PROVE  HolderInv'
    BY <2>1, <2>2, <2>3, RestKeeps, ClaimKeeps, SendingKeeps, RecoverKeeps, AdvanceKeeps DEF TickStep
  <2>4. ASSUME resolve_receipts \/ Pass
        PROVE  HolderInv'
    <3>1. ev' = ev /\ \A t \in Ticks : Held(t)' = Held(t)
      BY <2>4 DEF resolve_receipts, Pass, Held
    <3> QED
      BY <2>1, <2>2, <3>1, NothingNew
  <2>5. CASE UserStep
    BY <2>1, <2>2, <2>5, UsersKeep
  <2> QED
    BY <1>2, <2>3, <2>4, <2>5 DEF Next
<1> QED
  BY <1>1, <1>2

\* However many ticks overlap, whatever dies and whatever the users do, two
\* ticks have one event at once only if its claim was undone under one of them:
\* find_one_and_update on "pending" is all the locking there is.
THEOREM EventsHaveOneHolder == PSpec => []OneHolder
<1>1. Init /\ InitPast => HolderInv
  BY HolderInit
<1>2. HolderInv /\ [Next /\ Observe]_pvars => HolderInv'
  BY HolderStep
<1>3. HolderInv => OneHolder
  BY DEF HolderInv
<1> QED
  BY <1>1, <1>2, <1>3, PTL DEF PSpec, PInit

-------------------------------------------------------------------------------
(* What a step does to a tick. *)

Moves(k, pc, now, claimed, left, messages, processed, tickets) ==
    /\ tick'[k] = [pc |-> pc, now |-> now, claimed |-> claimed, left |-> left,
                   messages |-> messages, processed |-> processed, tickets |-> tickets]
    /\ \A t \in Ticks \ {k} : tick'[t] = tick[t]

Same(k, pc, left) ==
    Moves(k, pc, tick[k].now, tick[k].claimed, left, tick[k].messages, tick[k].processed, tick[k].tickets)

Rests(k) == Moves(k, "idle", 0, {}, {}, {}, {}, {})

\* One batch has been sent, and for P, T answered.
Sends(k, batch, P, T) ==
    Moves(k, "send", tick[k].now, tick[k].claimed, tick[k].left, tick[k].messages \ batch,
          tick[k].processed \cup P, tick[k].tickets \cup T)

LEMMA TickFields ==
    ASSUME TypeOK, NEW k \in Ticks
    PROVE  /\ tick[k] = [pc |-> tick[k].pc, now |-> tick[k].now, claimed |-> tick[k].claimed,
                         left |-> tick[k].left, messages |-> tick[k].messages,
                         processed |-> tick[k].processed, tickets |-> tick[k].tickets]
           /\ StartTick(k) => Moves(k, "recover", clock, {}, {}, {}, {}, {})
           /\ recover_stuck_claims(k) => Same(k, "claim", tick[k].left)
           /\ ClaimsDone(k) => Rests(k) \/ Same(k, "build", tick[k].claimed)
           /\ StartSending(k) => Same(k, "send", tick[k].left)
           /\ MarkProcessed(k) => Same(k, "advance", tick[k].claimed)
           /\ EndTick(k) \/ TickDies(k) => Rests(k)
<1> USE DEF TypeOK, TickState
<1>1. tick[k] = [pc |-> tick[k].pc, now |-> tick[k].now, claimed |-> tick[k].claimed,
                 left |-> tick[k].left, messages |-> tick[k].messages,
                 processed |-> tick[k].processed, tickets |-> tick[k].tickets]
  OBVIOUS
<1>2. StartTick(k) => Moves(k, "recover", clock, {}, {}, {}, {}, {})
  BY DEF StartTick, Moves, IdleTick
<1>3. recover_stuck_claims(k) => Same(k, "claim", tick[k].left)
  BY DEF recover_stuck_claims, Same, Moves
<1>4. ClaimsDone(k) => Rests(k) \/ Same(k, "build", tick[k].claimed)
  <2>1. ClaimsDone(k) /\ tick[k].claimed = {} => Rests(k)
    BY DEF ClaimsDone, Rests, Moves, IdleTick
  <2>2. ClaimsDone(k) /\ tick[k].claimed # {} => Same(k, "build", tick[k].claimed)
    BY DEF ClaimsDone, Same, Moves
  <2> QED
    BY <2>1, <2>2
<1>5. StartSending(k) => Same(k, "send", tick[k].left)
  BY DEF StartSending, Same, Moves
<1>6. MarkProcessed(k) => Same(k, "advance", tick[k].claimed)
  BY DEF MarkProcessed, Same, Moves
<1>7. EndTick(k) \/ TickDies(k) => Rests(k)
  BY DEF EndTick, TickDies, Rests, Moves, IdleTick
<1> QED
  BY <1>1, <1>2, <1>3, <1>4, <1>5, <1>6, <1>7

LEMMA ClaimFields ==
    ASSUME TypeOK, NEW k \in Ticks, claim_due_reminders(k)
    PROVE  \E e \in Events :
               /\ Due(e, tick[k].now) /\ tick[k].pc = "claim" /\ DocOf(e) \in Doc
               /\ ev'[e].plan = ev[e].plan /\ ev'[e].state = ev[e].state
               /\ ev'[e].send = Claim(ev[e].send.fire, tick[k].now)
               /\ \A x \in Events \ {e} : ev'[x] = ev[x]
               /\ Moves(k, "claim", tick[k].now, tick[k].claimed \cup {DocOf(e)}, tick[k].left,
                        tick[k].messages, tick[k].processed, tick[k].tickets)
<1>1. PICK e \in Events :
          /\ Due(e, tick[k].now) /\ tick[k].pc = "claim"
          /\ ev' = [ev EXCEPT ![e].send = Claim(@.fire, tick[k].now)]
          /\ tick' = [tick EXCEPT ![k].claimed = @ \cup {DocOf(e)}]
  BY DEF claim_due_reminders
<1>2. /\ ev'[e].plan = ev[e].plan /\ ev'[e].state = ev[e].state
      /\ ev'[e].send = Claim(ev[e].send.fire, tick[k].now)
      /\ \A x \in Events \ {e} : ev'[x] = ev[x]
  BY <1>1 DEF TypeOK, Row
<1>3. Moves(k, "claim", tick[k].now, tick[k].claimed \cup {DocOf(e)}, tick[k].left,
            tick[k].messages, tick[k].processed, tick[k].tickets)
  BY <1>1 DEF TypeOK, TickState, Moves
<1> QED
  BY <1>1, <1>2, <1>3, DocType

LEMMA BuildFields ==
    ASSUME TypeOK, NEW k \in Ticks, build_messages(k)
    PROVE  \E doc \in tick[k].left :
               /\ tick[k].pc = "build"
               /\ \/ /\ active = {} /\ MarkSent({doc.id})
                     /\ Same(k, "build", tick[k].left \ {doc})
                  \/ /\ active # {} /\ ev' = ev
                     /\ Moves(k, "build", tick[k].now, tick[k].claimed, tick[k].left \ {doc},
                              tick[k].messages \cup {[id |-> doc.id, token |-> d] : d \in active},
                              tick[k].processed, tick[k].tickets)
<1>1. PICK doc \in tick[k].left :
          /\ tick[k].pc = "build"
          /\ IF active = {}
             THEN /\ MarkSent({doc.id})
                  /\ tick' = [tick EXCEPT ![k].left = @ \ {doc}]
             ELSE /\ tick' = [tick EXCEPT ![k].left = @ \ {doc},
                                         ![k].messages = @ \cup {[id |-> doc.id, token |-> d] : d \in active}]
                  /\ UNCHANGED ev
  BY DEF build_messages
<1>2. CASE active = {}
  <2>1. Same(k, "build", tick[k].left \ {doc})
    BY <1>1, <1>2 DEF TypeOK, TickState, Same, Moves
  <2> QED
    BY <1>1, <1>2, <2>1
<1>3. CASE active # {}
  <2>1. Moves(k, "build", tick[k].now, tick[k].claimed, tick[k].left \ {doc},
              tick[k].messages \cup {[id |-> doc.id, token |-> d] : d \in active},
              tick[k].processed, tick[k].tickets)
    BY <1>1, <1>3 DEF TypeOK, TickState, Moves
  <2> QED
    BY <1>1, <1>3, <2>1
<1> QED
  BY <1>2, <1>3

LEMMA SendFields ==
    ASSUME TypeOK, NEW k \in Ticks, SendAnswered(k) \/ SendFailed(k)
    PROVE  \E batch \in SUBSET tick[k].messages :
               /\ tick[k].pc = "send" /\ ev' = ev
               /\ \/ SendFailed(k) /\ Sends(k, batch, {}, {})
                  \/ \E T \in SUBSET batch : SendAnswered(k) /\ Sends(k, batch, {m.id : m \in batch}, T)
<1>1. CASE SendAnswered(k)
  <2>0. PICK batch \in Batches(k) : \E result \in [batch -> {"ok", "unregistered", "error"}] :
            tick' = [tick EXCEPT ![k].messages = @ \ batch,
                                ![k].processed = @ \cup {m.id : m \in batch},
                                ![k].tickets = @ \cup {x \in batch : result[x] = "ok"}]
    BY <1>1 DEF SendAnswered
  <2>1. PICK T \in SUBSET batch :
            tick' = [tick EXCEPT ![k].messages = @ \ batch,
                                ![k].processed = @ \cup {m.id : m \in batch},
                                ![k].tickets = @ \cup T]
    BY <2>0
  <2>2. batch \in SUBSET tick[k].messages
    BY DEF Batches
  <2>3. ev' = ev /\ tick[k].pc = "send"
    BY <1>1 DEF SendAnswered
  <2>4. Sends(k, batch, {m.id : m \in batch}, T)
    BY <2>1, <2>3 DEF TypeOK, TickState, Sends, Moves
  <2> QED
    BY <1>1, <2>2, <2>3, <2>4
<1>2. CASE SendFailed(k)
  <2>1. PICK batch \in Batches(k) : tick' = [tick EXCEPT ![k].messages = @ \ batch]
    BY <1>2 DEF SendFailed
  <2>2. batch \in SUBSET tick[k].messages
    BY DEF Batches
  <2>3. ev' = ev /\ tick[k].pc = "send"
    BY <1>2 DEF SendFailed
  <2>4. Sends(k, batch, {}, {})
    BY <2>1, <2>3 DEF TypeOK, TickState, Sends, Moves
  <2> QED
    BY <1>2, <2>2, <2>3, <2>4
<1> QED
  BY <1>1, <1>2

\* The lead before the next occurrence.
Lead(doc, now) == next_occurrence_on_or_after(doc.plan, now + 1) - doc.plan.minutes

Repeats(doc, now) == doc.plan.period # 0 /\ next_occurrence_on_or_after(doc.plan, now + 1) # 0

LEMMA AdvanceFields ==
    ASSUME TypeOK, NEW k \in Ticks, advance_recurring(k)
    PROVE  \E doc \in tick[k].left :
               /\ tick[k].pc = "advance" /\ doc \in Doc
               /\ Same(k, "advance", tick[k].left \ {doc})
               /\ \A x \in Events \ {doc.id} : ev'[x] = ev[x]
               /\ ev'[doc.id].state = ev[doc.id].state /\ ev'[doc.id].plan = ev[doc.id].plan
               /\ \/ ev'[doc.id].send = ev[doc.id].send
                  \/ /\ Repeats(doc, tick[k].now) /\ Live(doc.id)
                     /\ ev'[doc.id].send = Pending(Lead(doc, tick[k].now))
<1>1. PICK doc \in tick[k].left :
          /\ tick[k].pc = "advance"
          /\ IF ~Repeats(doc, tick[k].now) THEN UNCHANGED ev
             ELSE SetSend(doc.id, Pending(Lead(doc, tick[k].now)))
          /\ tick' = [tick EXCEPT ![k].left = @ \ {doc}]
  BY DEF advance_recurring, Repeats, Lead
<1>2. doc \in Doc /\ doc.id \in Events
  BY DEF TypeOK, TickState, Doc
<1>3. Same(k, "advance", tick[k].left \ {doc})
  BY <1>1 DEF TypeOK, TickState, Same, Moves
<1>4. CASE ev' = ev
  BY <1>1, <1>2, <1>3, <1>4
<1>5. CASE ev' # ev
  <2>1. /\ Repeats(doc, tick[k].now) /\ Live(doc.id)
        /\ ev' = [ev EXCEPT ![doc.id].send = Pending(Lead(doc, tick[k].now))]
    BY <1>1, <1>5 DEF SetSend
  <2>2. /\ ev'[doc.id].send = Pending(Lead(doc, tick[k].now))
        /\ ev'[doc.id].state = ev[doc.id].state /\ ev'[doc.id].plan = ev[doc.id].plan
        /\ \A x \in Events \ {doc.id} : ev'[x] = ev[x]
    BY <1>2, <2>1 DEF TypeOK, Row
  <2> QED
    BY <1>1, <1>2, <1>3, <2>1, <2>2
<1> QED
  BY <1>4, <1>5

LEMMA MarkFields ==
    ASSUME TypeOK, NEW E, MarkSent(E), NEW e \in Events
    PROVE  /\ ev'[e].state = ev[e].state /\ ev'[e].plan = ev[e].plan
           /\ ev'[e].send.fire = ev[e].send.fire
           /\ ev'[e].send.status \in {ev[e].send.status, "sent"}
           /\ ev'[e].send.status # ev[e].send.status => e \in E /\ Live(e)
  BY DEF MarkSent, TypeOK, Row, Fields

LEMMA RecoverFields ==
    ASSUME TypeOK, NEW k \in Ticks, recover_stuck_claims(k), NEW e \in Events
    PROVE  /\ ev'[e].state = ev[e].state /\ ev'[e].plan = ev[e].plan
           /\ ev'[e].send.fire = ev[e].send.fire
           /\ \/ ev'[e].send.status = ev[e].send.status
              \/ ev[e].send.status = "claimed" /\ ev'[e].send.status = "pending"
  BY DEF recover_stuck_claims, TypeOK, Row, Fields

\* The update_one of a PUT.
LEMMA WriteFields ==
    ASSUME TypeOK, WriteUpdate
    PROVE  /\ UNCHANGED tick /\ edit.id \in Events /\ edit.plan \in Schedule /\ edit.send \in Fields
           /\ edit'.pc = "idle" /\ edit.pc = "write"
           /\ \A e \in Events : ev'[e].state = ev[e].state
           /\ \A e \in Events : \/ ev'[e].plan = ev[e].plan /\ ev'[e].send = ev[e].send
                                \/ /\ e = edit.id /\ Live(e) /\ ev'[e].plan = edit.plan
                                   /\ ev'[e].send = IF edit.moved THEN edit.send ELSE ev[e].send
<1>1. /\ UNCHANGED tick /\ edit.id \in Events /\ edit.plan \in Schedule /\ edit.send \in Fields
      /\ edit'.pc = "idle" /\ edit.pc = "write"
  BY DEF WriteUpdate, TypeOK, EditState, IdleEdit
<1>2. ASSUME NEW e \in Events, Live(edit.id), e = edit.id
      PROVE  /\ ev'[e].plan = edit.plan /\ ev'[e].state = ev[e].state
             /\ ev'[e].send = IF edit.moved THEN edit.send ELSE ev[e].send
  <2>1. ev'[e] = [ev[e] EXCEPT !.plan = edit.plan, !.send = IF edit.moved THEN edit.send ELSE @]
    BY <1>2 DEF WriteUpdate, TypeOK
  <2> QED
    BY <2>1 DEF TypeOK, Row
<1>3. ASSUME NEW e \in Events, ~Live(edit.id) \/ e # edit.id
      PROVE  ev'[e] = ev[e]
  BY <1>1, <1>3 DEF WriteUpdate, TypeOK
<1> QED
  BY <1>1, <1>2, <1>3

-------------------------------------------------------------------------------
(* A pending reminder is of the event as it is now *)

LEMMA TimesGrow ==
    ASSUME NEW n \in Nat, NEW p \in Nat, p # 0
    PROVE  n * p \in Nat /\ n <= n * p
<1>1. n * p \in Nat
  BY SMT
<1>2. p >= 1
  OBVIOUS
<1>3. n * p = n + n * (p - 1) /\ n * (p - 1) >= 0
  BY <1>2, SMT
<1> QED
  BY <1>1, <1>3

\* What is looked for is an occurrence.
LEMMA NextOccurs ==
    ASSUME NEW plan \in Schedule, NEW after \in Nat, plan.period # 0,
           next_occurrence_on_or_after(plan, after) # 0
    PROVE  /\ next_occurrence_on_or_after(plan, after) \in Nat
           /\ Occurs(plan, next_occurrence_on_or_after(plan, after))
<1> DEFINE late == IF after > plan.start THEN after - plan.start ELSE 0
           k    == (late + plan.period - 1) \div plan.period
           next == plan.start + plan.period * k
<1>1. plan.start \in Nat /\ plan.period \in Nat
  BY DEF Schedule
<1>2. late + plan.period - 1 \in Nat
  BY <1>1
<1>3. k \in Nat
  BY <1>1, <1>2, SMT
<1>4. k * plan.period \in Nat /\ k <= k * plan.period
  <2> HIDE DEF k
  <2> QED  BY <1>1, <1>3, TimesGrow
<1>5. plan.period * k = k * plan.period
  <2> HIDE DEF k
  <2> QED  BY <1>1, <1>3
<1>6. next_occurrence_on_or_after(plan, after) \in {0, next}
  <2> HIDE DEF k
  <2> QED  BY DEF next_occurrence_on_or_after, k
<1>7. next \in Nat /\ k \in 0..next
  <2> HIDE DEF k
  <2> QED  BY <1>1, <1>3, <1>4, <1>5
<1>8. next_occurrence_on_or_after(plan, after) = next /\ next = plan.start + k * plan.period
  <2> HIDE DEF k
  <2> QED  BY <1>5, <1>6
<1> QED
  <2> HIDE DEF k, next
  <2> QED  BY <1>7, <1>8 DEF Occurs

\* The first occurrence is one.
LEMMA StartOccurs ==
    ASSUME NEW plan \in Schedule
    PROVE  Occurs(plan, plan.start)
<1>1. plan.start \in Nat /\ plan.period \in Nat /\ 0 * plan.period = 0
  BY DEF Schedule
<1>2. 0 \in 0..plan.start /\ plan.start = plan.start + 0 * plan.period
  BY <1>1
<1> QED
  BY <1>2 DEF Occurs

\* A time at the lead before an occurrence is not zero.
LEMMA OccursAfter ==
    ASSUME NEW plan \in Schedule, NEW fire \in Nat, Occurs(plan, fire + plan.minutes)
    PROVE  fire # 0
<1>1. plan.start \in Nat /\ plan.period \in Nat /\ plan.minutes \in Nat /\ plan.minutes < plan.start
  BY DEF Schedule
<1>2. PICK n \in 0..(fire + plan.minutes) : fire + plan.minutes = plan.start + n * plan.period
  BY DEF Occurs
<1>3. n * plan.period \in Nat
  BY <1>1, <1>2, SMT
<1> QED
  BY <1>1, <1>2, <1>3

Waiting(e) == Live(e) /\ ev[e].send.status # "sent"

Current(plan, fire) == plan.minutes # 0 /\ Occurs(plan, fire + plan.minutes)

RowsCurrent == \A e \in Events : Waiting(e) /\ e \notin past.drifted => Current(ev[e].plan, ev[e].send.fire)

Docs(t) == tick[t].claimed \cup tick[t].left

DocsHaveLead == \A t \in Ticks : \A doc \in Docs(t) : doc.plan.minutes # 0

\* What a PUT is about to write it has computed.
EditComputed ==
    edit.pc = "write" =>
        IF edit.plan.minutes = 0 THEN edit.send.fire = 0 /\ edit.send.status = "sent"
        ELSE edit.send.fire = edit.plan.start - edit.plan.minutes

CurrentInv == TypeOK /\ RowsCurrent /\ DocsHaveLead /\ EditComputed

LEMMA ComputedCurrent ==
    ASSUME NEW plan \in Schedule, NEW now \in Nat
    PROVE  LET send == compute_reminder_fields(plan, now) IN
           /\ IF plan.minutes = 0 THEN send.fire = 0 /\ send.status = "sent"
              ELSE send.fire = plan.start - plan.minutes
           /\ plan.minutes # 0 => send.fire # 0 /\ Current(plan, send.fire)
           /\ send.status = "sent" => send.fire <= now
           /\ send.status # "claimed"
<1>1. plan.start \in Nat /\ plan.minutes \in Nat /\ plan.minutes < plan.start
  BY DEF Schedule
<1>2. Occurs(plan, plan.start)
  BY StartOccurs
<1>3. CASE plan.minutes = 0
  BY <1>3 DEF compute_reminder_fields, NoSend
<1>4. CASE plan.minutes # 0
  <2>1. /\ compute_reminder_fields(plan, now).fire = plan.start - plan.minutes
        /\ compute_reminder_fields(plan, now).status = "sent" => plan.start - plan.minutes <= now
        /\ compute_reminder_fields(plan, now).status # "claimed"
    BY <1>1, <1>4 DEF compute_reminder_fields
  <2>2. (plan.start - plan.minutes) + plan.minutes = plan.start /\ plan.start - plan.minutes # 0
    BY <1>1
  <2> QED
    BY <1>2, <1>4, <2>1, <2>2 DEF Current
<1> QED
  BY <1>3, <1>4

\* A step that leaves the plans and times of the rows that wait.
LEMMA CurrentKept ==
    ASSUME CurrentInv, TypeOK', past.drifted \subseteq past'.drifted,
           edit' = edit \/ edit'.pc = "idle",
           \A t \in Ticks : \A doc \in Docs(t)' : doc.plan.minutes # 0,
           \A e \in Events : Waiting(e)' => /\ Waiting(e) /\ ev'[e].plan = ev[e].plan
                                            /\ ev'[e].send.fire = ev[e].send.fire
    PROVE  CurrentInv'
<1>1. RowsCurrent'
  BY DEF CurrentInv, RowsCurrent
<1>2. DocsHaveLead'
  BY DEF DocsHaveLead
<1>3. EditComputed'
  BY DEF CurrentInv, EditComputed
<1> QED
  BY <1>1, <1>2, <1>3 DEF CurrentInv

LEMMA CurrentTick ==
    ASSUME CurrentInv, TypeOK', past'.drifted = past.drifted \cup DriftNow, NEW k \in Ticks,
           StartTick(k) \/ TickStep(k) \/ TickDies(k)
    PROVE  CurrentInv'
<1> USE DEF CurrentInv
<1>1. edit' = edit /\ past.drifted \subseteq past'.drifted
  BY DEF StartTick, TickStep, TickDies, recover_stuck_claims, claim_due_reminders, ClaimsDone,
         build_messages, StartSending, SendAnswered, SendFailed, MarkProcessed, advance_recurring, EndTick
<1>2. ASSUME Docs(k)' \subseteq Docs(k), \A t \in Ticks \ {k} : tick'[t] = tick[t]
      PROVE  \A t \in Ticks : \A doc \in Docs(t)' : doc.plan.minutes # 0
  BY <1>2 DEF DocsHaveLead, Docs
<1>3. CASE StartTick(k) \/ ClaimsDone(k) \/ StartSending(k) \/ EndTick(k) \/ TickDies(k)
  <2>1. ev' = ev
    BY <1>3 DEF StartTick, ClaimsDone, StartSending, EndTick, TickDies
  <2>3. \/ Moves(k, "recover", clock, {}, {}, {}, {}, {}) \/ Rests(k)
        \/ Same(k, "build", tick[k].claimed) \/ Same(k, "send", tick[k].left)
    BY <1>3, TickFields
  <2>2. Docs(k)' \subseteq Docs(k) /\ \A t \in Ticks \ {k} : tick'[t] = tick[t]
    BY <2>3 DEF Same, Rests, Moves, Docs
  <2> QED
    BY <1>1, <1>2, <2>1, <2>2, CurrentKept DEF Waiting, Live
<1>4. CASE recover_stuck_claims(k)
  <2>3. Same(k, "claim", tick[k].left)
    BY <1>4, TickFields
  <2>1. Docs(k)' \subseteq Docs(k) /\ \A t \in Ticks \ {k} : tick'[t] = tick[t]
    BY <2>3 DEF Same, Moves, Docs
  <2>2. \A e \in Events : Waiting(e)' => /\ Waiting(e) /\ ev'[e].plan = ev[e].plan
                                         /\ ev'[e].send.fire = ev[e].send.fire
    BY <1>4, RecoverFields DEF Waiting, Live
  <2> QED
    BY <1>1, <1>2, <2>1, <2>2, CurrentKept
<1>5. CASE claim_due_reminders(k)
  <2>1. PICK e \in Events :
            /\ Due(e, tick[k].now) /\ DocOf(e) \in Doc
            /\ ev'[e].plan = ev[e].plan /\ ev'[e].state = ev[e].state
            /\ ev'[e].send = Claim(ev[e].send.fire, tick[k].now)
            /\ \A x \in Events \ {e} : ev'[x] = ev[x]
            /\ Moves(k, "claim", tick[k].now, tick[k].claimed \cup {DocOf(e)}, tick[k].left,
                     tick[k].messages, tick[k].processed, tick[k].tickets)
    BY <1>5, ClaimFields
  <2>2. \A t \in Ticks : \A doc \in Docs(t)' : doc \in Docs(t) \/ doc = DocOf(e)
    BY <2>1 DEF Moves, Docs
  <2>3. DocOf(e).plan.minutes # 0
    BY <2>1 DEF Due, DocOf
  <2>4. \A x \in Events : Waiting(x)' => /\ Waiting(x) /\ ev'[x].plan = ev[x].plan
                                         /\ ev'[x].send.fire = ev[x].send.fire
    BY <2>1 DEF Waiting, Live, Claim, Due
  <2> QED
    BY <1>1, <2>2, <2>3, <2>4, CurrentKept DEF DocsHaveLead
<1>6. CASE build_messages(k)
  <2>1. PICK doc \in tick[k].left :
            /\ ev' = ev \/ MarkSent({doc.id})
            /\ \E M : Moves(k, "build", tick[k].now, tick[k].claimed, tick[k].left \ {doc}, M,
                            tick[k].processed, tick[k].tickets)
    BY <1>6, BuildFields DEF Same
  <2>2. Docs(k)' \subseteq Docs(k) /\ \A t \in Ticks \ {k} : tick'[t] = tick[t]
    BY <2>1 DEF Moves, Docs
  <2>3. \A e \in Events : Waiting(e)' => /\ Waiting(e) /\ ev'[e].plan = ev[e].plan
                                         /\ ev'[e].send.fire = ev[e].send.fire
    BY <2>1, MarkFields DEF Waiting, Live
  <2> QED
    BY <1>1, <1>2, <2>2, <2>3, CurrentKept
<1>7. CASE SendAnswered(k) \/ SendFailed(k)
  <2>1. ev' = ev /\ \E batch, P, T : Sends(k, batch, P, T)
    BY <1>7, SendFields
  <2>2. Docs(k)' \subseteq Docs(k) /\ \A t \in Ticks \ {k} : tick'[t] = tick[t]
    BY <2>1 DEF Sends, Moves, Docs
  <2> QED
    BY <1>1, <1>2, <2>1, <2>2, CurrentKept DEF Waiting, Live
<1>8. CASE MarkProcessed(k)
  <2>3. Same(k, "advance", tick[k].claimed)
    BY <1>8, TickFields
  <2>1. Docs(k)' \subseteq Docs(k) /\ \A t \in Ticks \ {k} : tick'[t] = tick[t]
    BY <2>3 DEF Same, Moves, Docs
  <2>2. \A e \in Events : Waiting(e)' => /\ Waiting(e) /\ ev'[e].plan = ev[e].plan
                                         /\ ev'[e].send.fire = ev[e].send.fire
    BY <1>8, MarkFields DEF Waiting, Live, MarkProcessed
  <2> QED
    BY <1>1, <1>2, <2>1, <2>2, CurrentKept
<1>9. CASE advance_recurring(k)
  <2>1. PICK doc \in tick[k].left :
            /\ tick[k].pc = "advance" /\ doc \in Doc
            /\ Same(k, "advance", tick[k].left \ {doc})
            /\ \A x \in Events \ {doc.id} : ev'[x] = ev[x]
            /\ ev'[doc.id].state = ev[doc.id].state /\ ev'[doc.id].plan = ev[doc.id].plan
            /\ \/ ev'[doc.id].send = ev[doc.id].send
               \/ /\ Repeats(doc, tick[k].now) /\ Live(doc.id)
                  /\ ev'[doc.id].send = Pending(Lead(doc, tick[k].now))
    BY <1>9, AdvanceFields
  <2>2. Docs(k)' \subseteq Docs(k) /\ \A t \in Ticks \ {k} : tick'[t] = tick[t]
    BY <2>1 DEF Same, Moves, Docs
  <2>3. CASE ev'[doc.id].send = ev[doc.id].send
    <3>1. \A e \in Events : Waiting(e)' => /\ Waiting(e) /\ ev'[e].plan = ev[e].plan
                                           /\ ev'[e].send.fire = ev[e].send.fire
      BY <2>1, <2>3 DEF Waiting, Live
    <3> QED
      BY <1>1, <1>2, <2>2, <3>1, CurrentKept
  <2>4. CASE ev'[doc.id].send # ev[doc.id].send
    <3>1. Repeats(doc, tick[k].now) /\ Live(doc.id) /\ ev'[doc.id].send = Pending(Lead(doc, tick[k].now))
      BY <2>1, <2>4
    <3>2. doc.plan \in Schedule /\ doc.id \in Events /\ tick[k].now + 1 \in Nat /\ doc.plan.minutes \in Nat
      BY <2>1 DEF Doc, TypeOK, TickState, Schedule
    <3>3. /\ next_occurrence_on_or_after(doc.plan, tick[k].now + 1) \in Nat
          /\ Occurs(doc.plan, next_occurrence_on_or_after(doc.plan, tick[k].now + 1))
      BY <3>1, <3>2, NextOccurs DEF Repeats
    <3>4. ev'[doc.id].send.fire + doc.plan.minutes = next_occurrence_on_or_after(doc.plan, tick[k].now + 1)
      <4>1. ev'[doc.id].send.fire = next_occurrence_on_or_after(doc.plan, tick[k].now + 1) - doc.plan.minutes
        BY <3>1 DEF Pending, Lead
      <4> QED
        BY <3>2, <3>3, <4>1
    <3>5. doc.plan # ev[doc.id].plan => doc.id \in DriftNow
      <4>1. doc \in tick[k].left \ tick'[k].left
        BY <2>1 DEF Same, Moves
      <4> QED
        BY <1>9, <2>4, <3>1, <3>2, <4>1 DEF DriftNow
    <3>6. doc.plan.minutes # 0
      BY DEF DocsHaveLead, Docs
    <3>7. RowsCurrent'
      BY <1>1, <2>1, <3>3, <3>4, <3>5, <3>6 DEF RowsCurrent, Current, Waiting, Live
    <3>8. DocsHaveLead' /\ EditComputed'
      BY <1>1, <1>2, <2>2 DEF DocsHaveLead, EditComputed
    <3> QED
      BY <3>7, <3>8
  <2> QED
    BY <2>3, <2>4
<1> QED
  BY <1>3, <1>4, <1>5, <1>6, <1>7, <1>8, <1>9 DEF TickStep

LEMMA CurrentUsers ==
    ASSUME CurrentInv, TypeOK', past'.drifted = past.drifted \cup DriftNow, UserStep
    PROVE  CurrentInv'
<1> USE DEF CurrentInv
<1>1. tick' = tick /\ \A t \in Ticks : \A doc \in Docs(t)' : doc.plan.minutes # 0
  BY DEF UserStep, create, update, delete, WriteUpdate, register_push_token,
         unregister_push_token, Docs, DocsHaveLead
<1>2. past.drifted \subseteq past'.drifted
  OBVIOUS
<1>3. ASSUME NEW e \in Events, create(e) PROVE CurrentInv'
  <2>1. PICK plan \in Schedules :
            ev' = [ev EXCEPT ![e] = [state |-> "live", plan |-> plan,
                                     send |-> compute_reminder_fields(plan, clock)]]
    BY <1>3 DEF create
  <2>2. plan \in Schedule /\ clock \in Nat
    BY SchedulesAreSound DEF TypeOK
  <2>3. /\ ev'[e].plan = plan /\ ev'[e].send = compute_reminder_fields(plan, clock)
        /\ \A x \in Events \ {e} : ev'[x] = ev[x]
    BY <2>1 DEF TypeOK
  <2>4. ev'[e].send.status # "sent" => Current(ev'[e].plan, ev'[e].send.fire)
    BY <2>2, <2>3, ComputedCurrent
  <2>5. RowsCurrent'
    BY <1>2, <2>3, <2>4 DEF RowsCurrent, Waiting, Live
  <2>6. EditComputed' /\ DocsHaveLead'
    BY <1>1, <1>3 DEF create, EditComputed, DocsHaveLead
  <2> QED
    BY <2>5, <2>6
<1>4. ASSUME NEW e \in Events, update(e) PROVE CurrentInv'
  <2>1. PICK plan \in Schedules :
            /\ edit'.plan = plan /\ edit'.send = compute_reminder_fields(plan, clock)
            /\ ev' = ev
    BY <1>4 DEF update
  <2>2. plan \in Schedule /\ clock \in Nat
    BY SchedulesAreSound DEF TypeOK
  <2>3. EditComputed'
    BY <2>1, <2>2, ComputedCurrent DEF EditComputed
  <2>4. RowsCurrent' /\ DocsHaveLead'
    BY <1>1, <1>2, <2>1 DEF RowsCurrent, Waiting, Live, DocsHaveLead
  <2> QED
    BY <2>3, <2>4
<1>5. CASE WriteUpdate
  <2>1. /\ UNCHANGED tick /\ edit.id \in Events /\ edit.plan \in Schedule /\ edit.send \in Fields
        /\ edit'.pc = "idle" /\ edit.pc = "write"
        /\ \A e \in Events : ev'[e].state = ev[e].state
        /\ \A e \in Events : \/ ev'[e].plan = ev[e].plan /\ ev'[e].send = ev[e].send
                             \/ /\ e = edit.id /\ Live(e) /\ ev'[e].plan = edit.plan
                                /\ ev'[e].send = IF edit.moved THEN edit.send ELSE ev[e].send
    BY <1>5, WriteFields
  <2>2. edit.send.status # "sent" => Current(edit.plan, edit.send.fire)
    <3>1. edit.send.status # "sent" =>
              edit.plan.minutes # 0 /\ edit.send.fire = edit.plan.start - edit.plan.minutes
      BY <2>1 DEF EditComputed
    <3>2. (edit.plan.start - edit.plan.minutes) + edit.plan.minutes = edit.plan.start
      BY <2>1 DEF Schedule
    <3> QED
      BY <2>1, <3>1, <3>2, StartOccurs DEF Current
  <2>3. ASSUME NEW e \in Events, Waiting(e)', e \notin past'.drifted
        PROVE  Current(ev'[e].plan, ev'[e].send.fire)
    <3>1. Live(e)
      BY <2>1, <2>3 DEF Waiting, Live
    <3>2. CASE ev'[e].plan = ev[e].plan /\ ev'[e].send = ev[e].send
      BY <1>2, <2>3, <3>1, <3>2 DEF RowsCurrent, Waiting
    <3>3. CASE e = edit.id /\ ev'[e].plan = edit.plan /\ edit.moved /\ ev'[e].send = edit.send
      BY <2>2, <2>3, <3>3 DEF Waiting
    <3>4. CASE e = edit.id /\ ev'[e].plan = edit.plan /\ ~edit.moved /\ ev'[e].send = ev[e].send
      <4>1. edit.send.fire = ev[e].send.fire
        BY <1>5, <2>1, <2>3, <3>4 DEF DriftNow
      <4>2. Current(ev[e].plan, ev[e].send.fire)
        BY <2>3, <3>1, <3>4 DEF RowsCurrent, Waiting
      <4>3. ev[e].send.fire # 0
        BY <4>2, OccursAfter DEF Current, TypeOK, Row, Fields
      <4>4. edit.plan.minutes # 0 /\ edit.send.fire = edit.plan.start - edit.plan.minutes
        BY <2>1, <4>1, <4>3 DEF EditComputed
      <4>5. (edit.plan.start - edit.plan.minutes) + edit.plan.minutes = edit.plan.start
        BY <2>1 DEF Schedule
      <4> QED
        BY <2>1, <3>4, <4>1, <4>4, <4>5, StartOccurs DEF Current
    <3> QED
      BY <2>1, <3>2, <3>3, <3>4
  <2>4. RowsCurrent'
    BY <2>3 DEF RowsCurrent
  <2>5. EditComputed' /\ DocsHaveLead'
    BY <1>1, <2>1 DEF EditComputed, DocsHaveLead
  <2> QED
    BY <2>4, <2>5
<1>6. ASSUME NEW e \in Events, delete(e) PROVE CurrentInv'
  <2>1. \A x \in Events : Waiting(x)' => /\ Waiting(x) /\ ev'[x].plan = ev[x].plan
                                         /\ ev'[x].send.fire = ev[x].send.fire
    BY <1>6 DEF delete, Waiting, Live, TypeOK, Row
  <2> QED
    BY <1>1, <1>2, <1>6, <2>1, CurrentKept DEF delete
<1>7. ASSUME NEW d \in Tokens, register_push_token(d) \/ unregister_push_token(d) PROVE CurrentInv'
  BY <1>1, <1>2, <1>7, CurrentKept DEF register_push_token, unregister_push_token, Waiting, Live
<1> QED
  BY <1>3, <1>4, <1>5, <1>6, <1>7 DEF UserStep

LEMMA CurrentStep ==
    ASSUME CurrentInv, [Next /\ Observe]_pvars
    PROVE  CurrentInv'
<1>1. CASE UNCHANGED pvars
  BY <1>1 DEF pvars, vars, CurrentInv, TypeOK, RowsCurrent, Waiting, Live, DocsHaveLead, Docs, EditComputed
<1>2. CASE Next /\ Observe
  <2>1. TypeOK' /\ past'.drifted = past.drifted \cup DriftNow
    BY <1>2, TypeStep DEF CurrentInv, Observe
  <2>2. ASSUME resolve_receipts \/ Pass
        PROVE  CurrentInv'
    <3>1. UNCHANGED <<ev, tick, edit>>
      BY <2>2 DEF resolve_receipts, Pass
    <3> QED
      BY <2>1, <3>1 DEF CurrentInv, RowsCurrent, Waiting, Live, DocsHaveLead, Docs, EditComputed
  <2> QED
    BY <1>2, <2>1, <2>2, CurrentTick, CurrentUsers DEF Next
<1> QED
  BY <1>1, <1>2

LEMMA CurrentInit ==
    ASSUME PInit
    PROVE  CurrentInv
<1>1. TypeOK
  BY TypeInit DEF PInit
<1> QED
  BY <1>1 DEF PInit, Init, CurrentInv, RowsCurrent, Waiting, Live, NoRow, DocsHaveLead, Docs, IdleTick,
              EditComputed, IdleEdit

\* Whatever edits and ticks overlap, a reminder that waits is at the lead
\* before an occurrence of the event as it is, unless it was written for a plan
\* that was out of date: a tick's advance and a PUT both compute from a copy.
THEOREM WaitingIsCurrent == PSpec => []PendingIsCurrent
<1>1. CurrentInv => PendingIsCurrent
  <2>1. SUFFICES ASSUME CurrentInv, NEW e \in Events, Live(e), ev[e].send.status = "pending",
                        e \notin past.drifted
                 PROVE  Current(ev[e].plan, ev[e].send.fire)
    BY DEF PendingIsCurrent, Current
  <2> QED
    BY <2>1 DEF CurrentInv, RowsCurrent, Waiting
<1> QED
  BY <1>1, CurrentInit, CurrentStep, PTL DEF PSpec

-------------------------------------------------------------------------------
(* What a tick works on: times that are past, and events it has claimed *)

ClaimedIds(t) == {doc.id : doc \in tick[t].claimed}

Shape(t) ==
    /\ tick[t].now <= clock
    /\ \A doc \in tick[t].claimed : doc.fire <= tick[t].now
    /\ tick[t].left \subseteq tick[t].claimed
    /\ \A m \in tick[t].messages : m.id \in ClaimedIds(t)
    /\ tick[t].processed \subseteq ClaimedIds(t)
    /\ tick[t].pc \notin {"send", "advance"} => tick[t].processed = {} /\ tick[t].tickets = {}

TickShape == \A t \in Ticks : Shape(t)

LEMMA ShapeTick ==
    ASSUME TypeOK, TickShape, NEW k \in Ticks, StartTick(k) \/ TickStep(k) \/ TickDies(k)
    PROVE  TickShape'
<1> USE DEF TickShape
<1>1. clock' = clock /\ clock \in Nat /\ tick[k].now \in Nat /\ tick[k].now <= clock
  BY DEF StartTick, TickStep, TickDies, recover_stuck_claims, claim_due_reminders, ClaimsDone,
         build_messages, StartSending, SendAnswered, SendFailed, MarkProcessed, advance_recurring,
         EndTick, TypeOK, TickState, Shape
<1>2. ASSUME \A t \in Ticks \ {k} : tick'[t] = tick[t], Shape(k)'
      PROVE  TickShape'
  BY <1>1, <1>2 DEF Shape, ClaimedIds
<1>3. ASSUME NEW pc \in {"claim", "build", "send", "advance"}, NEW left \in SUBSET tick[k].claimed,
             Same(k, pc, left),
             tick[k].pc \in {"send", "advance"} => pc \in {"send", "advance"}
      PROVE  TickShape'
  BY <1>1, <1>2, <1>3 DEF Same, Moves, Shape, ClaimedIds
<1>4. CASE StartTick(k) \/ ClaimsDone(k) \/ EndTick(k) \/ TickDies(k)
  <2>1. CASE Same(k, "build", tick[k].claimed) /\ tick[k].pc = "claim"
    BY <1>3, <2>1
  <2>2. CASE Moves(k, "recover", clock, {}, {}, {}, {}, {}) \/ Rests(k)
    BY <1>1, <1>2, <2>2 DEF Rests, Moves, Shape, ClaimedIds
  <2>3. ClaimsDone(k) => tick[k].pc = "claim"
    BY DEF ClaimsDone
  <2> QED
    BY <1>4, <2>1, <2>2, <2>3, TickFields
<1>5. CASE recover_stuck_claims(k) \/ StartSending(k) \/ MarkProcessed(k)
  <2>1. CASE Same(k, "claim", tick[k].left) /\ tick[k].pc = "recover"
    BY <1>3, <2>1 DEF Shape
  <2>2. CASE Same(k, "send", tick[k].left) /\ tick[k].pc = "build"
    BY <1>3, <2>2 DEF Shape
  <2>3. CASE Same(k, "advance", tick[k].claimed) /\ tick[k].pc = "send"
    BY <1>3, <2>3 DEF Shape
  <2>4. /\ recover_stuck_claims(k) => tick[k].pc = "recover"
        /\ StartSending(k) => tick[k].pc = "build"
        /\ MarkProcessed(k) => tick[k].pc = "send"
    BY DEF recover_stuck_claims, StartSending, MarkProcessed
  <2> QED
    BY <1>5, <2>1, <2>2, <2>3, <2>4, TickFields
<1>6. CASE claim_due_reminders(k)
  <2>1. PICK e \in Events :
            /\ Due(e, tick[k].now) /\ tick[k].pc = "claim"
            /\ Moves(k, "claim", tick[k].now, tick[k].claimed \cup {DocOf(e)}, tick[k].left,
                     tick[k].messages, tick[k].processed, tick[k].tickets)
    BY <1>6, ClaimFields
  <2>2. DocOf(e).fire <= tick[k].now
    BY <2>1 DEF Due, DocOf
  <2>3. ClaimedIds(k) \subseteq ClaimedIds(k)'
    BY <2>1 DEF Moves, ClaimedIds
  <2> QED
    BY <1>1, <1>2, <2>1, <2>2, <2>3 DEF Moves, Shape
<1>7. CASE build_messages(k)
  <2>1. PICK doc \in tick[k].left :
            /\ tick[k].pc = "build"
            /\ \/ Same(k, "build", tick[k].left \ {doc})
               \/ Moves(k, "build", tick[k].now, tick[k].claimed, tick[k].left \ {doc},
                        tick[k].messages \cup {[id |-> doc.id, token |-> d] : d \in active},
                        tick[k].processed, tick[k].tickets)
    BY <1>7, BuildFields
  <2>2. tick[k].left \ {doc} \in SUBSET tick[k].claimed /\ doc.id \in ClaimedIds(k)
    BY <2>1 DEF Shape, ClaimedIds
  <2>3. CASE Same(k, "build", tick[k].left \ {doc})
    BY <1>3, <2>1, <2>2, <2>3
  <2>4. CASE Moves(k, "build", tick[k].now, tick[k].claimed, tick[k].left \ {doc},
                   tick[k].messages \cup {[id |-> doc.id, token |-> d] : d \in active},
                   tick[k].processed, tick[k].tickets)
    BY <1>1, <1>2, <2>1, <2>2, <2>4 DEF Moves, Shape, ClaimedIds
  <2> QED
    BY <2>1, <2>3, <2>4
<1>8. CASE SendAnswered(k) \/ SendFailed(k)
  <2>1. PICK batch \in SUBSET tick[k].messages : \E P \in {{}, {m.id : m \in batch}} : \E T :
            Sends(k, batch, P, T)
    BY <1>8, SendFields
  <2>2. PICK P \in {{}, {m.id : m \in batch}} : \E T : Sends(k, batch, P, T)
    BY <2>1
  <2>3. PICK T : Sends(k, batch, P, T)
    BY <2>2
  <2>4. P \subseteq ClaimedIds(k)
    BY <2>2 DEF Shape
  <2> QED
    BY <1>1, <1>2, <2>3, <2>4 DEF Sends, Moves, Shape, ClaimedIds
<1>9. CASE advance_recurring(k)
  <2>1. PICK doc \in tick[k].left : tick[k].pc = "advance" /\ Same(k, "advance", tick[k].left \ {doc})
    BY <1>9, AdvanceFields
  <2> QED
    BY <1>3, <2>1 DEF Shape
<1> QED
  BY <1>4, <1>5, <1>6, <1>7, <1>8, <1>9 DEF TickStep

LEMMA ShapeStep ==
    ASSUME TypeOK, TickShape, [Next]_vars
    PROVE  TickShape'
<1>1. CASE UNCHANGED vars \/ resolve_receipts \/ UserStep \/ Pass
  <2>1. tick' = tick /\ clock' \in {clock, clock + 1}
    BY <1>1 DEF vars, resolve_receipts, Pass, UserStep, create, update, delete, WriteUpdate,
                register_push_token, unregister_push_token
  <2>2. \A t \in Ticks : tick[t].now \in Nat /\ clock \in Nat
    BY DEF TypeOK, TickState
  <2> QED
    BY <2>1, <2>2 DEF TickShape, Shape, ClaimedIds
<1> QED
  BY <1>1, ShapeTick DEF Next

LEMMA ShapeInit == Init => TickShape
  BY DEF Init, TickShape, Shape, ClaimedIds, IdleTick

\* What a tick has only shrinks, but for its claims.
LEMMA HeldShrinks ==
    ASSUME TypeOK, TickShape, NEW k \in Ticks,
           \/ StartTick(k) \/ recover_stuck_claims(k) \/ ClaimsDone(k) \/ build_messages(k)
           \/ StartSending(k) \/ SendAnswered(k) \/ SendFailed(k) \/ MarkProcessed(k)
           \/ advance_recurring(k) \/ EndTick(k) \/ TickDies(k)
    PROVE  \A t \in Ticks : Held(t)' \subseteq Held(t)
<1>1. ASSUME NEW pc, NEW left \in SUBSET tick[k].claimed, Same(k, pc, left),
             tick[k].pc = "advance" => pc = "advance" /\ left \subseteq tick[k].left
      PROVE  \A t \in Ticks : Held(t)' \subseteq Held(t)
  BY <1>1 DEF Same, Moves, Held
<1>2. tick[k].left \subseteq tick[k].claimed
  BY DEF TickShape, Shape
<1>3. CASE StartTick(k) \/ EndTick(k) \/ TickDies(k) \/ ClaimsDone(k)
  <2>1. ClaimsDone(k) => tick[k].pc = "claim"
    BY DEF ClaimsDone
  <2>2. CASE Moves(k, "recover", clock, {}, {}, {}, {}, {}) \/ Rests(k)
    BY <2>2 DEF Rests, Moves, Held
  <2>3. CASE Same(k, "build", tick[k].claimed) /\ tick[k].pc = "claim"
    BY <1>1, <2>3
  <2> QED
    BY <1>3, <2>1, <2>2, <2>3, TickFields
<1>4. CASE recover_stuck_claims(k) \/ StartSending(k) \/ MarkProcessed(k)
  <2>1. tick[k].pc # "advance"
    BY <1>4 DEF recover_stuck_claims, StartSending, MarkProcessed
  <2>2. CASE Same(k, "claim", tick[k].left)
    BY <1>1, <1>2, <2>1, <2>2
  <2>3. CASE Same(k, "send", tick[k].left)
    BY <1>1, <1>2, <2>1, <2>3
  <2>4. CASE Same(k, "advance", tick[k].claimed)
    BY <1>1, <1>2, <2>1, <2>4
  <2> QED
    BY <1>4, <2>2, <2>3, <2>4, TickFields
<1>5. CASE build_messages(k)
  <2>1. PICK doc \in tick[k].left :
            /\ tick[k].pc = "build"
            /\ \E M : Moves(k, "build", tick[k].now, tick[k].claimed, tick[k].left \ {doc}, M,
                            tick[k].processed, tick[k].tickets)
    BY <1>5, BuildFields DEF Same
  <2> QED
    BY <2>1 DEF Moves, Held
<1>6. CASE SendAnswered(k) \/ SendFailed(k)
  <2>1. tick[k].pc = "send" /\ \E batch, P, T : Sends(k, batch, P, T)
    BY <1>6, SendFields
  <2> QED
    BY <2>1 DEF Sends, Moves, Held
<1>7. CASE advance_recurring(k)
  <2>1. PICK doc \in tick[k].left : tick[k].pc = "advance" /\ Same(k, "advance", tick[k].left \ {doc})
    BY <1>7, AdvanceFields
  <2> QED
    BY <1>1, <1>2, <2>1
<1> QED
  BY <1>3, <1>4, <1>5, <1>6, <1>7

-------------------------------------------------------------------------------
(* Sent means due and handled *)

\* A PUT that has computed "sent" has seen the time pass.
EditDue ==
    edit.pc = "write" =>
        /\ edit.send.status # "claimed"
        /\ edit.send.status = "sent" => edit.send.fire <= clock

\* An event that does not exist has no reminder.
Fresh == \A e \in Events : ev[e].state = "none" => ev[e].send.fire = 0

\* An event a tick has, and has not lost, is due, and waits only as it was
\* claimed.
HeldAsClaimed ==
    \A t \in Ticks : \A doc \in Held(t) :
        Live(doc.id) /\ <<t, doc.id>> \notin past.loose =>
            /\ ev[doc.id].send.fire <= clock
            /\ ev[doc.id].send.status # "sent" => ev[doc.id].send.fire = doc.fire

ProcessedHandled ==
    \A t \in Ticks : \A doc \in tick[t].claimed :
        doc.id \in tick[t].processed => <<doc.id, doc.fire>> \in past.handled

SentOne(e) ==
    Live(e) /\ ev[e].send.status = "sent" =>
        /\ ev[e].send.fire > clock => e \in past.late
        /\ ev[e].send.fire # 0 => <<e, ev[e].send.fire>> \in past.handled \/ e \in past.late

AllSent == \A e \in Events : SentOne(e)

SentInv == HolderInv /\ TickShape /\ Fresh /\ EditDue /\ HeldAsClaimed /\ ProcessedHandled /\ AllSent

Noted ==
    /\ Loosened
    /\ past'.late = past.late \cup LateNow
    /\ past'.handled = past.handled \cup HandledNow

\* The row of an event is as before, or marked sent.
RowKept(e) ==
    /\ ev'[e].state = ev[e].state
    /\ ev'[e].send.fire = ev[e].send.fire
    /\ ev'[e].send.status \in {ev[e].send.status, "sent"}

Unchanged(e) == RowKept(e) /\ ev'[e].send.status = ev[e].send.status

LEMMA HeldKept ==
    ASSUME SentInv, TypeOK', Noted, clock <= clock',
           \A t \in Ticks : \A doc \in Held(t)' :
               /\ doc \in Held(t)
               /\ Live(doc.id)' /\ <<t, doc.id>> \notin past.loose \cup LooseNow =>
                    \/ RowKept(doc.id)
                    \/ ev'[doc.id].send.status = "sent" /\ ev'[doc.id].send.fire <= clock
    PROVE  HeldAsClaimed'
<1> SUFFICES ASSUME NEW t \in Ticks, NEW doc \in Held(t)', Live(doc.id)',
                    <<t, doc.id>> \notin past'.loose
             PROVE  /\ ev'[doc.id].send.fire <= clock'
                    /\ ev'[doc.id].send.status # "sent" => ev'[doc.id].send.fire = doc.fire
  BY DEF HeldAsClaimed
<1>1. doc.id \in Holding(t)'
  BY DEF Holding
<1>2. <<t, doc.id>> \notin past.loose \cup LooseNow
  BY <1>1 DEF Noted, Loosened
<1>3. doc \in Held(t) /\ doc.id \in Events
  BY HoldingEvents DEF Holding, SentInv, HolderInv
<1>4. clock \in Nat /\ clock' \in Nat /\ ev'[doc.id].send.fire \in Nat
  BY <1>3 DEF SentInv, HolderInv, TypeOK, Row, Fields
<1>5. CASE RowKept(doc.id)
  <2>1. Live(doc.id)
    BY <1>5 DEF RowKept, Live
  <2>2. /\ ev[doc.id].send.fire <= clock
        /\ ev[doc.id].send.status # "sent" => ev[doc.id].send.fire = doc.fire
    BY <1>2, <1>3, <2>1 DEF SentInv, HeldAsClaimed
  <2> QED
    BY <1>4, <1>5, <2>2 DEF RowKept
<1>6. CASE ev'[doc.id].send.status = "sent" /\ ev'[doc.id].send.fire <= clock
  BY <1>4, <1>6
<1> QED
  BY <1>2, <1>5, <1>6

\* A row that stays keeps what was said of it.
LEMMA SentKept ==
    ASSUME SentInv, TypeOK', Noted, clock <= clock', NEW e \in Events, Unchanged(e)
    PROVE  SentOne(e)'
<1>1. clock \in Nat /\ clock' \in Nat /\ ev[e].send.fire \in Nat
  BY DEF SentInv, HolderInv, TypeOK, Row, Fields
<1>2. SentOne(e)
  BY DEF SentInv, AllSent
<1> QED
  BY <1>1, <1>2 DEF SentOne, Unchanged, RowKept, Noted, Live

\* What a tick marks sent it has handled, and has not lost or is late.
LEMMA MarkedRightly ==
    ASSUME SentInv, TypeOK', Noted, clock' = clock, NEW k \in Ticks, MarkProcessed(k) \/ build_messages(k),
           NEW doc \in Held(k), RowKept(doc.id), <<doc.id, doc.fire>> \in past'.handled
    PROVE  SentOne(doc.id)'
<1>1. doc.id \in Events
  BY HoldingEvents DEF Holding, SentInv, HolderInv
<1>2. CASE ev'[doc.id].send.status = ev[doc.id].send.status
  <2>1. clock <= clock'
    BY DEF SentInv, HolderInv, TypeOK
  <2> QED
    BY <1>1, <1>2, <2>1, SentKept DEF Unchanged
<1>3. CASE ~Live(doc.id)
  BY <1>3 DEF SentOne, RowKept, Live
<1>4. CASE /\ ev'[doc.id].send.status # ev[doc.id].send.status /\ Live(doc.id)
           /\ <<k, doc.id>> \in past.loose
  <2>1. ev[doc.id].send.status # "sent" /\ ev'[doc.id].send.status = "sent"
    BY <1>4 DEF RowKept
  <2>2. doc.id \in LateNow
    BY <1>1, <1>4, <2>1 DEF LateNow
  <2> QED
    BY <2>2 DEF Noted, SentOne
<1>5. CASE /\ ev'[doc.id].send.status # ev[doc.id].send.status /\ Live(doc.id)
           /\ <<k, doc.id>> \notin past.loose
  <2>1. ev[doc.id].send.status # "sent" /\ ev'[doc.id].send.fire = ev[doc.id].send.fire
    BY <1>5 DEF RowKept
  <2>2. ev[doc.id].send.fire <= clock /\ ev[doc.id].send.fire = doc.fire
    BY <1>5, <2>1 DEF SentInv, HeldAsClaimed
  <2>3. clock \in Nat /\ doc.fire \in Nat
    BY <1>1, <2>2 DEF SentInv, HolderInv, TypeOK, Row, Fields
  <2> QED
    BY <2>1, <2>2, <2>3 DEF SentOne
<1> QED
  BY <1>2, <1>3, <1>4, <1>5

LEMMA HandledFacts ==
    ASSUME NEW k \in Ticks
    PROVE  /\ active = {} /\ build_messages(k) => Tokenless(k) \subseteq HandledNow
           /\ SendAnswered(k) => AnsweredBy(k) \subseteq HandledNow
<1>1. ASSUME active = {}, build_messages(k)
      PROVE  Tokenless(k) \subseteq HandledNow
  <2>1. Tokenless(k) \in {Tokenless(t) : t \in {s \in Ticks : active = {} /\ build_messages(s)}}
    BY <1>1
  <2> QED
    BY <2>1 DEF HandledNow
<1>2. ASSUME SendAnswered(k)
      PROVE  AnsweredBy(k) \subseteq HandledNow
  <2>1. AnsweredBy(k) \in {AnsweredBy(t) : t \in {s \in Ticks : SendAnswered(s)}}
    BY <1>2
  <2> QED
    BY <2>1 DEF HandledNow
<1> QED
  BY <1>1, <1>2

\* The ticks.
LEMMA SentTick ==
    ASSUME SentInv, TypeOK', Noted, NEW k \in Ticks, StartTick(k) \/ TickStep(k) \/ TickDies(k)
    PROVE  HeldAsClaimed' /\ ProcessedHandled' /\ AllSent'
<1> USE DEF SentInv, HolderInv
<1>1. /\ clock' = clock /\ clock \in Nat /\ clock <= clock'
      /\ past.handled \subseteq past'.handled
  <2>1. clock' = clock
    BY DEF StartTick, TickStep, TickDies, recover_stuck_claims, claim_due_reminders, ClaimsDone,
           build_messages, StartSending, SendAnswered, SendFailed, MarkProcessed, advance_recurring,
           EndTick
  <2>2. clock \in Nat /\ past.handled \subseteq past'.handled
    BY DEF TypeOK, Noted
  <2> QED
    BY <2>1, <2>2
<1>2. \A t \in Ticks : \A doc \in Held(t) : doc.id \in Events /\ doc.id \in Holding(t)
  BY HoldingEvents DEF Holding
<1>3. ASSUME \A e \in Events : Unchanged(e)
      PROVE  AllSent'
  BY <1>1, <1>3, SentKept DEF AllSent
<1>4. ASSUME NEW pc, NEW left, Same(k, pc, left) \/ Rests(k) \/ Moves(k, "recover", clock, {}, {}, {}, {}, {})
      PROVE  ProcessedHandled'
  BY <1>1, <1>4 DEF Same, Rests, Moves, ProcessedHandled
<1>5. CASE StartTick(k) \/ ClaimsDone(k) \/ StartSending(k) \/ EndTick(k) \/ TickDies(k)
  <2>1. ev' = ev
    BY <1>5 DEF StartTick, ClaimsDone, StartSending, EndTick, TickDies
  <2>2. \A e \in Events : Unchanged(e)
    BY <2>1 DEF Unchanged, RowKept
  <2>3. \A t \in Ticks : Held(t)' \subseteq Held(t)
    BY <1>5, HeldShrinks
  <2>4. HeldAsClaimed'
    BY <1>1, <1>2, <2>2, <2>3, HeldKept DEF Unchanged
  <2>5. ProcessedHandled'
    <3>1. \E pc, left : Same(k, pc, left) \/ Rests(k) \/ Moves(k, "recover", clock, {}, {}, {}, {}, {})
      BY <1>5, TickFields
    <3> QED
      BY <1>4, <3>1
  <2> QED
    BY <1>3, <2>2, <2>4, <2>5
<1>6. CASE recover_stuck_claims(k)
  <2>1. \A t \in Ticks : Held(t)' \subseteq Held(t)
    BY <1>6, HeldShrinks
  <2>2. ASSUME NEW t \in Ticks, NEW doc \in Held(t)', <<t, doc.id>> \notin past.loose \cup LooseNow
        PROVE  RowKept(doc.id)
    <3>1. doc.id \in Events /\ doc.id \in Holding(t)
      BY <1>2, <2>1
    <3>2. ev'[doc.id].send.status # "pending"
      BY <1>6, <2>2, <3>1, RecoverFields DEF LooseNow, PendingIsLoose
    <3> QED
      BY <1>6, <3>1, <3>2, RecoverFields DEF RowKept
  <2>3. HeldAsClaimed'
    BY <1>1, <2>1, <2>2, HeldKept
  <2>4. ProcessedHandled'
    BY <1>4, <1>6, TickFields
  <2>5. ASSUME NEW e \in Events PROVE SentOne(e)'
    <3>1. CASE ev'[e].send.status = "pending"
      BY <3>1 DEF SentOne
    <3>2. CASE ev'[e].send.status # "pending"
      <4>1. Unchanged(e)
        BY <1>6, <3>2, RecoverFields DEF Unchanged, RowKept
      <4> QED
        BY <1>1, <4>1, SentKept
    <3> QED
      BY <3>1, <3>2
  <2> QED
    BY <2>3, <2>4, <2>5 DEF AllSent
<1>7. CASE claim_due_reminders(k)
  <2>1. PICK e \in Events :
            /\ Due(e, tick[k].now) /\ tick[k].pc = "claim"
            /\ ev'[e].plan = ev[e].plan /\ ev'[e].state = ev[e].state
            /\ ev'[e].send = Claim(ev[e].send.fire, tick[k].now)
            /\ \A x \in Events \ {e} : ev'[x] = ev[x]
            /\ Moves(k, "claim", tick[k].now, tick[k].claimed \cup {DocOf(e)}, tick[k].left,
                     tick[k].messages, tick[k].processed, tick[k].tickets)
    BY <1>7, ClaimFields
  <2>2. /\ ev'[e].send.fire = ev[e].send.fire /\ ev'[e].send.status = "claimed"
        /\ ev[e].send.status = "pending" /\ ev[e].send.fire <= tick[k].now
        /\ DocOf(e).id = e /\ DocOf(e).fire = ev[e].send.fire
    BY <2>1 DEF Due, DocOf, Claim
  <2>3. ev[e].send.fire <= clock
    <3>1. tick[k].now <= clock /\ tick[k].now \in Nat /\ ev[e].send.fire \in Nat
      BY DEF TickShape, Shape, TypeOK, TickState, Row, Fields
    <3> QED
      BY <1>1, <2>2, <3>1
  <2>4. \A t \in Ticks : \A doc \in Held(t)' : doc \in Held(t) \/ (t = k /\ doc = DocOf(e))
    BY <2>1 DEF Moves, Held
  <2>5. \A x \in Events \ {e} : Unchanged(x)
    BY <2>1 DEF Unchanged, RowKept
  <2>6. HeldAsClaimed'
    <3> SUFFICES ASSUME NEW t \in Ticks, NEW doc \in Held(t)', Live(doc.id)', <<t, doc.id>> \notin past'.loose
                 PROVE  /\ ev'[doc.id].send.fire <= clock
                        /\ ev'[doc.id].send.status # "sent" => ev'[doc.id].send.fire = doc.fire
      BY <1>1 DEF HeldAsClaimed
    <3>1. <<t, doc.id>> \notin past.loose
      BY DEF Noted, Loosened, Holding
    <3>2. CASE doc = DocOf(e)
      BY <2>2, <2>3, <3>2
    <3>3. CASE doc # DocOf(e)
      <4>1. doc \in Held(t) /\ doc.id \in Events /\ doc.id \in Holding(t)
        BY <1>2, <2>4, <3>3
      <4>2. doc.id # e
        BY <2>2, <3>1, <4>1 DEF PendingIsLoose
      <4>3. ev'[doc.id] = ev[doc.id]
        BY <2>1, <4>1, <4>2
      <4> QED
        BY <3>1, <4>1, <4>3 DEF HeldAsClaimed, Live
    <3> QED
      BY <3>2, <3>3
  <2>7. ProcessedHandled'
    <3>1. tick'[k].processed = {} /\ \A t \in Ticks \ {k} : tick'[t] = tick[t]
      BY <2>1 DEF Moves, TickShape, Shape
    <3> QED
      BY <1>1, <3>1 DEF ProcessedHandled
  <2>8. SentOne(e)'
    BY <2>2 DEF SentOne
  <2> QED
    BY <1>1, <2>5, <2>6, <2>7, <2>8, SentKept DEF AllSent
<1>8. CASE build_messages(k)
  <2>1. PICK doc \in tick[k].left :
            /\ tick[k].pc = "build"
            /\ \/ /\ active = {} /\ MarkSent({doc.id})
                  /\ Same(k, "build", tick[k].left \ {doc})
               \/ /\ active # {} /\ ev' = ev
                  /\ Moves(k, "build", tick[k].now, tick[k].claimed, tick[k].left \ {doc},
                           tick[k].messages \cup {[id |-> doc.id, token |-> d] : d \in active},
                           tick[k].processed, tick[k].tickets)
    BY <1>8, BuildFields
  <2>2. doc \in Held(k)
    BY <2>1 DEF TickShape, Shape, Held
  <2>3. \A e \in Events : RowKept(e) /\ (e # doc.id => Unchanged(e))
    <3>1. CASE ev' = ev
      BY <3>1 DEF Unchanged, RowKept
    <3>2. CASE MarkSent({doc.id})
      BY <3>2, MarkFields DEF Unchanged, RowKept
    <3> QED
      BY <2>1, <3>1, <3>2
  <2>4. \A t \in Ticks : Held(t)' \subseteq Held(t)
    BY <1>8, HeldShrinks
  <2>5. HeldAsClaimed'
    BY <1>1, <1>2, <2>3, <2>4, HeldKept
  <2>6. ProcessedHandled'
    BY <1>1, <2>1 DEF Same, Moves, ProcessedHandled
  <2>7. SentOne(doc.id)'
    <3>1. CASE ev' = ev
      BY <1>1, <1>2, <2>2, <3>1, SentKept DEF Unchanged, RowKept
    <3>2. CASE active = {} /\ MarkSent({doc.id})
      <4>1. doc \in tick[k].left \ tick'[k].left
        BY <2>1, <3>2 DEF Same, Moves
      <4>2. <<doc.id, doc.fire>> \in Tokenless(k)
        BY <4>1 DEF Tokenless
      <4>3. <<doc.id, doc.fire>> \in past'.handled
        BY <1>8, <3>2, <4>2, HandledFacts DEF Noted
      <4> QED
        BY <1>1, <1>2, <1>8, <2>2, <2>3, <4>3, MarkedRightly
    <3> QED
      BY <2>1, <3>1, <3>2
  <2> QED
    BY <1>1, <2>3, <2>5, <2>6, <2>7, SentKept DEF AllSent
<1>9. CASE SendAnswered(k) \/ SendFailed(k)
  <2>1. PICK batch \in SUBSET tick[k].messages :
            /\ tick[k].pc = "send" /\ ev' = ev
            /\ \/ SendFailed(k) /\ Sends(k, batch, {}, {})
               \/ \E T \in SUBSET batch : SendAnswered(k) /\ Sends(k, batch, {m.id : m \in batch}, T)
    BY <1>9, SendFields
  <2>2. \A e \in Events : Unchanged(e)
    BY <2>1 DEF Unchanged, RowKept
  <2>3. \A t \in Ticks : Held(t)' \subseteq Held(t)
    BY <1>9, HeldShrinks
  <2>4. HeldAsClaimed'
    BY <1>1, <1>2, <2>2, <2>3, HeldKept DEF Unchanged
  <2>5. ProcessedHandled'
    <3> SUFFICES ASSUME NEW t \in Ticks, NEW doc \in tick'[t].claimed, doc.id \in tick'[t].processed
                 PROVE  <<doc.id, doc.fire>> \in past'.handled
      BY DEF ProcessedHandled
    <3>4. PICK P, T : Sends(k, batch, P, T) /\ (P = {} \/ SendAnswered(k))
      BY <2>1
    <3>1. doc \in tick[t].claimed
      BY <3>4 DEF Sends, Moves
    <3>2. CASE doc.id \in tick[t].processed
      BY <1>1, <3>1, <3>2 DEF ProcessedHandled
    <3>3. CASE doc.id \notin tick[t].processed
      <4>1. t = k /\ SendAnswered(k)
        BY <3>3, <3>4 DEF Sends, Moves
      <4>2. <<doc.id, doc.fire>> \in AnsweredBy(k)
        BY <3>1, <4>1 DEF AnsweredBy
      <4> QED
        BY <4>1, <4>2, HandledFacts DEF Noted
    <3> QED
      BY <3>2, <3>3
  <2> QED
    BY <1>3, <2>2, <2>4, <2>5
<1>10. CASE MarkProcessed(k)
  <2>1. MarkSent(tick[k].processed) /\ tick[k].pc = "send" /\ Same(k, "advance", tick[k].claimed)
    BY <1>10, TickFields DEF MarkProcessed
  <2>2. \A e \in Events : RowKept(e) /\ (e \notin tick[k].processed => Unchanged(e))
    BY <2>1, MarkFields DEF Unchanged, RowKept
  <2>3. \A t \in Ticks : Held(t)' \subseteq Held(t)
    BY <1>10, HeldShrinks
  <2>4. HeldAsClaimed'
    BY <1>1, <1>2, <2>2, <2>3, HeldKept
  <2>5. ProcessedHandled'
    BY <1>4, <2>1
  <2>6. ASSUME NEW e \in Events, e \in tick[k].processed
        PROVE  SentOne(e)'
    <3>1. PICK doc \in tick[k].claimed : doc.id = e
      BY <2>6 DEF TickShape, Shape, ClaimedIds
    <3>2. doc \in Held(k)
      BY <2>1, <3>1 DEF Held
    <3>3. <<doc.id, doc.fire>> \in past'.handled
      BY <1>1, <2>6, <3>1 DEF ProcessedHandled
    <3> QED
      BY <1>1, <1>10, <2>2, <3>1, <3>2, <3>3, MarkedRightly
  <2> QED
    BY <1>1, <2>2, <2>4, <2>5, <2>6, SentKept DEF AllSent
<1>11. CASE advance_recurring(k)
  <2>1. PICK doc \in tick[k].left :
            /\ tick[k].pc = "advance" /\ doc \in Doc
            /\ Same(k, "advance", tick[k].left \ {doc})
            /\ \A x \in Events \ {doc.id} : ev'[x] = ev[x]
            /\ ev'[doc.id].state = ev[doc.id].state
            /\ \/ ev'[doc.id].send = ev[doc.id].send
               \/ ev'[doc.id].send = Pending(Lead(doc, tick[k].now))
    BY <1>11, AdvanceFields
  <2>2. doc.id \in Events /\ doc \in Held(k)
    BY <2>1 DEF Doc, Held
  <2>3. \A t \in Ticks : Held(t)' \subseteq Held(t)
    BY <1>11, HeldShrinks
  <2>4. \A e \in Events \ {doc.id} : Unchanged(e)
    BY <2>1 DEF Unchanged, RowKept
  <2>5. ev'[doc.id].send.status = "pending" \/ Unchanged(doc.id)
    BY <2>1 DEF Unchanged, RowKept, Pending
  <2>6. ASSUME NEW t \in Ticks, NEW d \in Held(t)', <<t, d.id>> \notin past.loose \cup LooseNow
        PROVE  RowKept(d.id)
    <3>1. d \in Held(t) /\ d.id \in Events /\ d.id \in Holding(t)
      BY <1>2, <2>3
    <3>2. CASE d.id # doc.id \/ Unchanged(doc.id)
      BY <2>4, <3>1, <3>2 DEF Unchanged
    <3>3. CASE d.id = doc.id /\ ev'[doc.id].send.status = "pending" /\ t # k
      <4>1. Doing(k, d.id)
        BY <2>1, <3>3 DEF Doing, Same, Moves
      <4>2. <<t, d.id>> \in LooseNow
        BY <1>11, <3>1, <3>3, <4>1 DEF LooseNow
      <4> QED
        BY <2>6, <4>2
    <3>4. CASE d.id = doc.id /\ t = k
      <4>1. d # doc
        BY <2>1, <2>6, <3>4 DEF Same, Moves, Held
      <4>2. <<t, d.id>> \in past.loose
        BY <2>2, <3>1, <3>4, <4>1 DEF TwiceIsLoose
      <4> QED
        BY <2>6, <4>2
    <3> QED
      BY <2>5, <3>2, <3>3, <3>4
  <2>7. HeldAsClaimed'
    BY <1>1, <2>3, <2>6, HeldKept
  <2>8. ProcessedHandled'
    BY <1>4, <2>1
  <2>9. SentOne(doc.id)'
    <3>1. CASE ev'[doc.id].send.status = "pending"
      BY <3>1 DEF SentOne
    <3>2. CASE Unchanged(doc.id)
      BY <1>1, <2>2, <3>2, SentKept
    <3> QED
      BY <2>5, <3>1, <3>2
  <2> QED
    BY <1>1, <2>4, <2>7, <2>8, <2>9, SentKept DEF AllSent
<1> QED
  BY <1>5, <1>6, <1>7, <1>8, <1>9, <1>10, <1>11 DEF TickStep

LEMMA FreshStep ==
    ASSUME TypeOK, Fresh, [Next]_vars
    PROVE  Fresh'
<1> SUFFICES ASSUME NEW e \in Events, ev'[e].state = "none"
             PROVE  ev'[e].send.fire = 0
  BY DEF Fresh
<1>1. ASSUME ev'[e].state = ev[e].state, ev[e].state = "none" => ev'[e].send.fire = ev[e].send.fire
      PROVE  ev'[e].send.fire = 0
  BY <1>1 DEF Fresh
<1>2. ASSUME NEW k \in Ticks, StartTick(k) \/ TickStep(k) \/ TickDies(k)
      PROVE  ev'[e].send.fire = 0
  <2>1. CASE recover_stuck_claims(k)
    BY <1>1, <2>1, RecoverFields
  <2>2. CASE claim_due_reminders(k)
    BY <1>1, <2>2, ClaimFields DEF Due, Live, Claim
  <2>3. CASE build_messages(k) \/ MarkProcessed(k)
    <3>1. ev' = ev \/ \E E : MarkSent(E)
      BY <2>3, BuildFields DEF MarkProcessed
    <3> QED
      BY <1>1, <3>1, MarkFields
  <2>4. CASE advance_recurring(k)
    <3>1. PICK doc \in tick[k].left :
              /\ \A x \in Events \ {doc.id} : ev'[x] = ev[x]
              /\ ev'[doc.id].state = ev[doc.id].state
              /\ ev'[doc.id].send = ev[doc.id].send \/ Live(doc.id)
      BY <2>4, AdvanceFields
    <3> QED
      BY <1>1, <3>1 DEF Live
  <2>5. CASE ev' = ev
    BY <1>1, <2>5
  <2> QED
    BY <1>2, <2>1, <2>2, <2>3, <2>4, <2>5 DEF TickStep, StartTick, ClaimsDone, StartSending, SendAnswered,
       SendFailed, EndTick, TickDies
<1>3. CASE WriteUpdate
  BY <1>1, <1>3, WriteFields DEF Live
<1>4. ASSUME NEW x \in Events, create(x) \/ update(x) \/ delete(x)
      PROVE  ev'[e].send.fire = 0
  <2>1. ev' = ev \/ \E row : row.state # "none" /\ ev' = [ev EXCEPT ![x] = row]
    <3>1. CASE create(x)
      BY <3>1 DEF create
    <3>2. CASE update(x)
      BY <3>2 DEF update
    <3>3. CASE delete(x)
      <4>1. [ev[x] EXCEPT !.state = "gone"].state = "gone"
        BY DEF TypeOK, Row
      <4> QED
        BY <3>3, <4>1 DEF delete
    <3> QED
      BY <1>4, <3>1, <3>2, <3>3
  <2>2. e = x => ev' = ev
    BY <2>1 DEF TypeOK
  <2>3. ev'[e] = ev[e]
    BY <2>1, <2>2 DEF TypeOK
  <2> QED
    BY <1>1, <2>3
<1>5. CASE UNCHANGED ev
  BY <1>1, <1>5
<1> QED
  BY <1>2, <1>3, <1>4, <1>5 DEF Next, UserStep, register_push_token, unregister_push_token,
     resolve_receipts, Pass, vars

LEMMA EditStep ==
    ASSUME TypeOK, TypeOK', EditDue, [Next]_vars
    PROVE  EditDue'
<1>1. clock \in Nat /\ clock' \in {clock, clock + 1}
  <2>1. ASSUME NEW k \in Ticks, StartTick(k) \/ TickStep(k) \/ TickDies(k)
        PROVE  clock' = clock
    BY <2>1 DEF StartTick, TickStep, TickDies, recover_stuck_claims, claim_due_reminders, ClaimsDone,
         build_messages, StartSending, SendAnswered, SendFailed, MarkProcessed, advance_recurring, EndTick
  <2>2. ASSUME UserStep PROVE clock' = clock
    BY <2>2 DEF UserStep, create, update, delete, WriteUpdate, register_push_token, unregister_push_token
  <2> QED
    BY <2>1, <2>2 DEF Next, resolve_receipts, Pass, vars, TypeOK
<1>2. CASE edit' = edit \/ edit'.pc = "idle"
  <2>1. edit.send.fire \in Nat
    BY DEF TypeOK, EditState, Fields
  <2> QED
    BY <1>1, <1>2, <2>1 DEF EditDue
<1>3. ASSUME NEW e \in Events, update(e) PROVE EditDue'
  <2>1. PICK plan \in Schedules : edit'.send = compute_reminder_fields(plan, clock) /\ clock' = clock
    BY <1>3 DEF update
  <2> QED
    BY <1>1, <2>1, SchedulesAreSound, ComputedCurrent DEF EditDue
<1>4. ASSUME NEW k \in Ticks, StartTick(k) \/ TickStep(k) \/ TickDies(k)
      PROVE  edit' = edit
  BY <1>4 DEF StartTick, TickStep, TickDies, recover_stuck_claims, claim_due_reminders, ClaimsDone,
       build_messages, StartSending, SendAnswered, SendFailed, MarkProcessed, advance_recurring, EndTick
<1>5. WriteUpdate => edit'.pc = "idle"
  BY DEF WriteUpdate, IdleEdit
<1> QED
  BY <1>2, <1>3, <1>4, <1>5 DEF Next, UserStep, create, delete, register_push_token,
     unregister_push_token, resolve_receipts, Pass, vars

LEMMA SentUsers ==
    ASSUME SentInv, TypeOK', Noted, UserStep
    PROVE  HeldAsClaimed' /\ ProcessedHandled' /\ AllSent'
<1> USE DEF SentInv, HolderInv
<1>1. /\ clock' = clock /\ clock \in Nat /\ clock <= clock' /\ tick' = tick
      /\ past.handled \subseteq past'.handled
  <2>1. clock' = clock /\ tick' = tick
    BY DEF UserStep, create, update, delete, WriteUpdate, register_push_token, unregister_push_token
  <2>2. clock \in Nat /\ past.handled \subseteq past'.handled
    BY DEF TypeOK, Noted
  <2> QED
    BY <2>1, <2>2
<1>2. \A t \in Ticks : Held(t)' = Held(t)
  BY <1>1 DEF Held
<1>3. \A t \in Ticks : \A doc \in Held(t) :
          doc.id \in Events /\ doc.id \in Holding(t) /\ ev[doc.id].state # "none"
  BY HoldingEvents DEF Holding, HeldExist
<1>4. ProcessedHandled'
  BY <1>1 DEF ProcessedHandled
<1>5. ASSUME NEW e \in Events, ev'[e].send # ev[e].send, ev'[e].send.status = "sent"
      PROVE  <<e, ev'[e].send.fire>> \in past'.handled
  BY <1>5 DEF Noted, HandledNow
<1>6. ASSUME \A e \in Events : Unchanged(e)
      PROVE  HeldAsClaimed' /\ AllSent'
  BY <1>1, <1>2, <1>3, <1>6, HeldKept, SentKept DEF AllSent, Unchanged
<1>7. ASSUME NEW e \in Events, create(e)
      PROVE  HeldAsClaimed' /\ AllSent'
  <2>1. PICK plan \in Schedules :
            /\ ev[e].state = "none"
            /\ ev' = [ev EXCEPT ![e] = [state |-> "live", plan |-> plan,
                                        send |-> compute_reminder_fields(plan, clock)]]
    BY <1>7 DEF create
  <2>2. plan \in Schedule
    BY SchedulesAreSound
  <2>3. /\ ev'[e].send = compute_reminder_fields(plan, clock)
        /\ \A x \in Events \ {e} : ev'[x] = ev[x]
    BY <2>1 DEF TypeOK
  <2>4. \A x \in Events \ {e} : Unchanged(x)
    BY <2>3 DEF Unchanged, RowKept
  <2>5. HeldAsClaimed'
    BY <1>1, <1>2, <1>3, <2>1, <2>4, HeldKept DEF Unchanged
  <2>6. ev'[e].send.status = "sent" => ev'[e].send.fire <= clock
    BY <1>1, <2>2, <2>3, ComputedCurrent
  <2>7. SentOne(e)'
    <3>1. ev'[e].send.fire # 0 => ev'[e].send # ev[e].send
      BY <2>1 DEF Fresh
    <3>2. ev'[e].send.fire \in Nat
      BY DEF TypeOK, Row, Fields
    <3> QED
      BY <1>1, <1>5, <2>6, <3>1, <3>2 DEF SentOne
  <2> QED
    BY <1>1, <2>4, <2>5, <2>7, SentKept DEF AllSent
<1>8. CASE WriteUpdate
  <2>1. /\ edit.pc = "write" /\ edit.send \in Fields
        /\ \A e \in Events : ev'[e].state = ev[e].state
        /\ \A e \in Events : ev'[e].send = ev[e].send \/ ev'[e].send = edit.send
    BY <1>8, WriteFields
  <2>2. ASSUME NEW e \in Events
        PROVE  \/ Unchanged(e)
               \/ ev'[e].send = edit.send /\ ev'[e].send.status = "pending"
               \/ ev'[e].send # ev[e].send /\ ev'[e].send.status = "sent" /\ ev'[e].send.fire <= clock
    <3>1. CASE ev'[e].send = ev[e].send
      BY <2>1, <3>1 DEF Unchanged, RowKept
    <3>2. CASE ev'[e].send # ev[e].send /\ ev'[e].send = edit.send
      BY <2>1, <3>2 DEF EditDue, Fields
    <3> QED
      BY <2>1, <3>1, <3>2
  <2>3. HeldAsClaimed'
    <3>1. ASSUME NEW t \in Ticks, NEW doc \in Held(t)', <<t, doc.id>> \notin past.loose \cup LooseNow
          PROVE  \/ RowKept(doc.id)
                 \/ ev'[doc.id].send.status = "sent" /\ ev'[doc.id].send.fire <= clock
      <4>1. doc.id \in Events /\ doc.id \in Holding(t)
        BY <1>2, <1>3
      <4>2. ev'[doc.id].send.status # "pending"
        BY <1>8, <3>1, <4>1 DEF LooseNow, PendingIsLoose
      <4> QED
        BY <2>2, <4>1, <4>2 DEF Unchanged
    <3> QED
      BY <1>1, <1>2, <3>1, HeldKept
  <2>4. ASSUME NEW e \in Events PROVE SentOne(e)'
    <3>1. CASE Unchanged(e)
      BY <1>1, <3>1, SentKept
    <3>2. CASE ev'[e].send.status = "pending"
      BY <3>2 DEF SentOne
    <3>3. CASE ev'[e].send # ev[e].send /\ ev'[e].send.status = "sent" /\ ev'[e].send.fire <= clock
      <4>1. ev'[e].send.fire \in Nat
        BY DEF TypeOK, Row, Fields
      <4> QED
        BY <1>1, <1>5, <3>3, <4>1 DEF SentOne
    <3> QED
      BY <2>2, <3>1, <3>2, <3>3
  <2> QED
    BY <1>4, <2>3, <2>4 DEF AllSent
<1>9. ASSUME NEW e \in Events, delete(e)
      PROVE  HeldAsClaimed' /\ AllSent'
  <2>1. ev'[e].state = "gone" /\ \A x \in Events \ {e} : ev'[x] = ev[x]
    BY <1>9 DEF delete, TypeOK, Row
  <2>2. \A x \in Events \ {e} : Unchanged(x)
    BY <2>1 DEF Unchanged, RowKept
  <2>3. HeldAsClaimed'
    BY <1>1, <1>2, <1>3, <2>1, <2>2, HeldKept DEF Unchanged, Live
  <2>4. SentOne(e)'
    BY <2>1 DEF SentOne, Live
  <2> QED
    BY <1>1, <2>2, <2>3, <2>4, SentKept DEF AllSent
<1>10. CASE ev' = ev
  BY <1>4, <1>6, <1>10 DEF Unchanged, RowKept
<1> QED
  BY <1>4, <1>7, <1>8, <1>9, <1>10 DEF UserStep, update, register_push_token, unregister_push_token

LEMMA SentStep ==
    ASSUME SentInv, [Next /\ Observe]_pvars
    PROVE  SentInv'
<1>1. CASE UNCHANGED pvars
  BY <1>1, HolderStep DEF pvars, vars, SentInv, TickShape, Shape, ClaimedIds, Fresh, EditDue, HeldAsClaimed,
     ProcessedHandled, AllSent, SentOne, Held, Live
<1>2. CASE Next /\ Observe
  <2>1. HolderInv' /\ TypeOK'
    BY <1>2, HolderStep DEF SentInv, HolderInv
  <2>2. TickShape' /\ Fresh' /\ EditDue'
    BY <1>2, <2>1, ShapeStep, FreshStep, EditStep DEF SentInv, HolderInv
  <2>3. Noted
    BY <1>2 DEF Observe, Noted, Loosened
  <2>4. ASSUME resolve_receipts \/ Pass
        PROVE  HeldAsClaimed' /\ ProcessedHandled' /\ AllSent'
    <3>1. ev' = ev /\ tick' = tick /\ clock' \in {clock, clock + 1} /\ clock \in Nat
      BY <2>4 DEF resolve_receipts, Pass, SentInv, HolderInv, TypeOK
    <3>2. \A e \in Events : Unchanged(e)
      BY <3>1 DEF Unchanged, RowKept
    <3>3. \A t \in Ticks : Held(t)' = Held(t) /\ \A doc \in Held(t) : doc.id \in Events
      BY <3>1, HoldingEvents DEF Held, Holding, SentInv, HolderInv
    <3>4. HeldAsClaimed' /\ AllSent'
      BY <2>1, <2>3, <3>1, <3>2, <3>3, HeldKept, SentKept DEF AllSent, Unchanged
    <3>5. ProcessedHandled'
      BY <2>3, <3>1 DEF ProcessedHandled, SentInv, Noted
    <3> QED
      BY <3>4, <3>5
  <2>5. HeldAsClaimed' /\ ProcessedHandled' /\ AllSent'
    BY <1>2, <2>1, <2>3, <2>4, SentTick, SentUsers DEF Next
  <2> QED
    BY <2>1, <2>2, <2>5 DEF SentInv
<1> QED
  BY <1>1, <1>2

LEMMA SentInit ==
    ASSUME PInit
    PROVE  SentInv
<1>1. HolderInv /\ TickShape
  BY HolderInit, ShapeInit DEF PInit
<1>2. \A t \in Ticks : Held(t) = {} /\ tick[t].claimed = {}
  BY DEF PInit, Init, IdleTick, Held
<1>3. Fresh /\ EditDue /\ AllSent
  BY DEF PInit, Init, NoRow, NoSend, IdleEdit, Fresh, EditDue, AllSent, SentOne, Live
<1> QED
  BY <1>1, <1>2, <1>3 DEF SentInv, HeldAsClaimed, ProcessedHandled

\* A reminder that is marked sent was due, and Expo has answered for the time it
\* has, or no device was there to tell, or it was past when it was set; only a
\* tick that had lost the event marks it otherwise.
THEOREM SentIsRight == PSpec => []SentRightly
<1>1. SentInv => SentRightly
  <2>1. SentInv => SentIsDue
    BY DEF SentInv, AllSent, SentOne, SentIsDue
  <2>2. SentInv => SentWasHandled
    BY DEF SentInv, AllSent, SentOne, SentWasHandled
  <2> QED
    BY <2>1, <2>2 DEF SentRightly
<1> QED
  BY <1>1, SentInit, SentStep, PTL DEF PSpec

-------------------------------------------------------------------------------
(* One ticket each, of events that do not repeat *)

OneShot == \A plan \in Schedules : plan.period = 0

NoneRepeats ==
    /\ \A e \in Events : Live(e) => ev[e].plan.period = 0
    /\ edit.pc = "write" => edit.plan.period = 0
    /\ \A t \in Ticks : \A doc \in Docs(t) : doc.plan.period = 0

\* The event waits to be sent at that time.
Asked(e, fire) == ev[e].send.status = "pending" /\ ev[e].send.fire = fire

Ticketed(m, fire) == <<m, fire>> \in past.ticketed

\* The claim is of the event as it was at that time.
HasClaimed(t, e, fire) == \E doc \in tick[t].claimed : doc.id = e /\ doc.fire = fire

HistoryType == past.ticketed \subseteq Message \X Nat /\ past.twice \subseteq Message \X Nat

\* What has a ticket, or is claimed, is not asked for again.
TicketsArePast ==
    \A m \in Message, f \in Nat : Ticketed(m, f) =>
        f <= clock /\ (m.id \notin past.stuck => ~Asked(m.id, f))
ClaimedNotAsked ==
    \A t \in Ticks, e \in Events, f \in Nat : HasClaimed(t, e, f) /\ e \notin past.stuck => ~Asked(e, f)
ClaimedByOne ==
    \A t, s \in Ticks, e \in Events, f \in Nat :
        HasClaimed(t, e, f) /\ HasClaimed(s, e, f) /\ e \notin past.stuck => t = s

\* Who has claimed what got a ticket is who got it.
TicketIsOwn ==
    \A t \in Ticks, m \in Message, f \in Nat :
        HasClaimed(t, m.id, f) /\ Ticketed(m, f) /\ m.id \notin past.stuck => m \in tick[t].tickets

\* Nobody has claimed the event at that time, no message of it got a ticket.
Untaken(e, fire) ==
    /\ \A m \in Message : m.id = e => ~Ticketed(m, fire)
    /\ \A t \in Ticks : ~HasClaimed(t, e, fire)

\* A PUT that will ask anew asks for a time that nobody has claimed.
EditAsksAnew ==
    edit.pc = "write" =>
        /\ ev[edit.id].state # "none"
        /\ edit.moved /\ edit.send.status = "pending" =>
            /\ Live(edit.id) => ev[edit.id].send.fire # edit.send.fire
            /\ Untaken(edit.id, edit.send.fire)

OnceInv ==
    /\ TypeOK /\ TickShape /\ NoneRepeats /\ HistoryType
    /\ TicketsArePast /\ ClaimedNotAsked /\ ClaimedByOne /\ TicketIsOwn /\ EditAsksAnew
    /\ OneTicketEach

Counted ==
    /\ past'.ticketed = past.ticketed \cup TicketsNow
    /\ past'.twice = past.twice \cup (past.ticketed \cap TicketsNow)
    /\ past'.stuck = past.stuck \cup StuckNow

\* The row asks for nothing that it did not ask for and that anybody has taken.
RowAsksNoMore(e) ==
    /\ edit' = edit /\ ev[e].state # "none" =>
        /\ ev'[e].state # "none"
        /\ Live(e)' => Live(e) /\ ev'[e].send.fire = ev[e].send.fire
    /\ e \notin past'.stuck => \A f \in Nat : Asked(e, f)' => Asked(e, f) \/ Untaken(e, f)

LEMMA FutureUntaken ==
    ASSUME OnceInv, NEW e \in Events, NEW f \in Nat, f > clock
    PROVE  Untaken(e, f)
<1> USE DEF OnceInv
<1>1. clock \in Nat
  BY DEF TypeOK
<1>2. \A m \in Message : ~Ticketed(m, f)
  BY <1>1 DEF TicketsArePast
<1>3. ASSUME NEW t \in Ticks, HasClaimed(t, e, f) PROVE FALSE
  <2>1. PICK doc \in tick[t].claimed : doc.fire = f
    BY <1>3 DEF HasClaimed
  <2>2. doc.fire <= tick[t].now /\ tick[t].now <= clock
    BY DEF TickShape, Shape
  <2>3. tick[t].now \in Nat
    BY DEF TypeOK, TickState
  <2> QED
    BY <1>1, <2>1, <2>2, <2>3
<1> QED
  BY <1>2, <1>3 DEF Untaken

LEMMA OnceKept ==
    ASSUME OnceInv, TypeOK', TickShape', NoneRepeats', Counted, clock <= clock',
           edit' = edit \/ edit'.pc = "idle",
           \A t \in Ticks : tick'[t].tickets \subseteq tick[t].tickets,
           \A t \in Ticks : \A e \in Events, f \in Nat :
               HasClaimed(t, e, f)' => HasClaimed(t, e, f) /\ tick'[t].tickets = tick[t].tickets,
           \A e \in Events : RowAsksNoMore(e)
    PROVE  OnceInv'
<1> USE DEF OnceInv
<1>0. TicketsNow = {}
  <2>1. \A t \in Ticks : TicketsOf(t) = {}
    BY DEF TicketsOf
  <2> QED
    BY <2>1 DEF TicketsNow
<1>1. past'.ticketed = past.ticketed /\ past'.twice = past.twice /\ past.stuck \subseteq past'.stuck
  BY <1>0 DEF Counted
<1>2. HistoryType' /\ OneTicketEach'
  BY <1>1 DEF HistoryType, OneTicketEach
<1>3. \A m \in Message, f \in Nat : Ticketed(m, f)' <=> Ticketed(m, f)
  BY <1>1 DEF Ticketed
<1>4. TicketsArePast'
  <2>1. clock \in Nat /\ clock' \in Nat
    BY DEF TypeOK
  <2> SUFFICES ASSUME NEW m \in Message, NEW f \in Nat, Ticketed(m, f)'
               PROVE  f <= clock' /\ (m.id \notin past'.stuck => ~Asked(m.id, f)')
    BY DEF TicketsArePast
  <2>2. f <= clock /\ (m.id \notin past.stuck => ~Asked(m.id, f)) /\ m.id \in Events
    BY <1>3 DEF TicketsArePast, Message
  <2>3. ~Untaken(m.id, f)
    BY <1>3 DEF Untaken
  <2> QED
    BY <1>1, <2>1, <2>2, <2>3 DEF RowAsksNoMore
<1>5. ClaimedNotAsked'
  <2>1. \A t \in Ticks, e \in Events, f \in Nat : HasClaimed(t, e, f) => ~Untaken(e, f)
    BY DEF Untaken
  <2> QED
    BY <1>1, <2>1 DEF ClaimedNotAsked, RowAsksNoMore
<1>6. ClaimedByOne'
  BY <1>1 DEF ClaimedByOne
<1>7. TicketIsOwn'
  <2> SUFFICES ASSUME NEW t \in Ticks, NEW m \in Message, NEW f \in Nat, HasClaimed(t, m.id, f)',
                      Ticketed(m, f)', m.id \notin past'.stuck
               PROVE  m \in tick'[t].tickets
    BY DEF TicketIsOwn
  <2>1. m.id \in Events /\ m.id \notin past.stuck /\ Ticketed(m, f)
    BY <1>1, <1>3 DEF Message
  <2>2. HasClaimed(t, m.id, f) /\ tick'[t].tickets = tick[t].tickets
    BY <2>1
  <2> QED
    BY <2>1, <2>2 DEF TicketIsOwn
<1>8. EditAsksAnew'
  <2>1. CASE edit'.pc = "idle"
    BY <2>1 DEF EditAsksAnew
  <2>2. CASE edit' = edit /\ edit.pc = "write"
    <3>1. edit.id \in Events /\ edit.send.fire \in Nat
      BY DEF TypeOK, EditState, Fields
    <3>2. ev'[edit.id].state # "none"
      BY <2>2, <3>1 DEF EditAsksAnew, RowAsksNoMore
    <3>3. ASSUME edit.moved, edit.send.status = "pending"
          PROVE  /\ Live(edit.id)' => ev'[edit.id].send.fire # edit.send.fire
                 /\ Untaken(edit.id, edit.send.fire)'
      <4>1. Live(edit.id)' => ev'[edit.id].send.fire # edit.send.fire
        BY <2>2, <3>1, <3>3 DEF EditAsksAnew, RowAsksNoMore, Live
      <4>2. Untaken(edit.id, edit.send.fire)
        BY <2>2, <3>3 DEF EditAsksAnew
      <4>3. \A m \in Message : m.id = edit.id => ~Ticketed(m, edit.send.fire)'
        BY <1>1, <2>2, <4>2 DEF Untaken, Ticketed
      <4>4. \A t \in Ticks : HasClaimed(t, edit.id, edit.send.fire)' => HasClaimed(t, edit.id, edit.send.fire)
        BY <2>2, <3>1 DEF HasClaimed
      <4> QED
        BY <2>2, <4>1, <4>2, <4>3, <4>4 DEF Untaken
    <3> QED
      BY <2>2, <3>2, <3>3 DEF EditAsksAnew, Live
  <2> QED
    BY <2>1, <2>2 DEF TypeOK, EditState
<1> QED
  BY <1>2, <1>4, <1>5, <1>6, <1>7, <1>8

\* Nothing but a claim adds to what a tick works on.
LEMMA DocsShrink ==
    ASSUME TypeOK, NEW k \in Ticks, StartTick(k) \/ TickStep(k) \/ TickDies(k), ~claim_due_reminders(k)
    PROVE  \A t \in Ticks : Docs(t)' \subseteq Docs(t) /\ tick'[t].claimed \subseteq tick[t].claimed
<1>1. CASE StartTick(k) \/ ClaimsDone(k) \/ StartSending(k) \/ EndTick(k) \/ TickDies(k)
           \/ recover_stuck_claims(k) \/ MarkProcessed(k)
  <2>1. \/ Moves(k, "recover", clock, {}, {}, {}, {}, {}) \/ Rests(k)
        \/ \E pc, left : Same(k, pc, left) /\ left \subseteq Docs(k)
    <3>1. tick[k].claimed \subseteq Docs(k) /\ tick[k].left \subseteq Docs(k)
      BY DEF Docs
    <3> QED
      BY <1>1, <3>1, TickFields
  <2>2. ASSUME NEW pc, NEW now, NEW claimed \in SUBSET tick[k].claimed, NEW left \in SUBSET Docs(k),
               NEW M, NEW P, NEW T, Moves(k, pc, now, claimed, left, M, P, T), NEW t \in Ticks
        PROVE  Docs(t)' \subseteq Docs(t) /\ tick'[t].claimed \subseteq tick[t].claimed
    BY <2>2 DEF Moves, Docs
  <2>3. {} \in SUBSET tick[k].claimed /\ {} \in SUBSET Docs(k)
    OBVIOUS
  <2>4. CASE Moves(k, "recover", clock, {}, {}, {}, {}, {})
    BY <2>2, <2>3, <2>4
  <2>5. CASE Rests(k)
    BY <2>2, <2>3, <2>5 DEF Rests
  <2>6. ASSUME NEW pc, NEW left \in SUBSET Docs(k), Same(k, pc, left), NEW t \in Ticks
        PROVE  Docs(t)' \subseteq Docs(t) /\ tick'[t].claimed \subseteq tick[t].claimed
    BY <2>2, <2>6 DEF Same
  <2> QED
    BY <2>1, <2>4, <2>5, <2>6
<1>2. CASE build_messages(k)
  <2>1. PICK doc \in tick[k].left :
            \E M : Moves(k, "build", tick[k].now, tick[k].claimed, tick[k].left \ {doc}, M,
                         tick[k].processed, tick[k].tickets)
    BY <1>2, BuildFields DEF Same
  <2> QED
    BY <2>1 DEF Moves, Docs
<1>3. CASE SendAnswered(k) \/ SendFailed(k)
  <2>1. \E batch, P, T : Sends(k, batch, P, T)
    BY <1>3, SendFields
  <2> QED
    BY <2>1 DEF Sends, Moves, Docs
<1>4. CASE advance_recurring(k)
  <2>1. PICK doc \in tick[k].left : Same(k, "advance", tick[k].left \ {doc})
    BY <1>4, AdvanceFields
  <2> QED
    BY <2>1 DEF Same, Moves, Docs
<1> QED
  BY <1>1, <1>2, <1>3, <1>4 DEF TickStep

LEMMA OneShotStep ==
    ASSUME OneShot, TypeOK, TickShape, NoneRepeats, [Next]_vars
    PROVE  NoneRepeats'
<1>1. ASSUME NEW k \in Ticks, StartTick(k) \/ TickStep(k) \/ TickDies(k)
      PROVE  NoneRepeats'
  <2>1. edit' = edit
    BY <1>1 DEF StartTick, TickStep, TickDies, recover_stuck_claims, claim_due_reminders, ClaimsDone,
       build_messages, StartSending, SendAnswered, SendFailed, MarkProcessed, advance_recurring, EndTick
  <2>2. \A e \in Events : ev'[e].plan = ev[e].plan /\ ev'[e].state = ev[e].state
    <3>1. CASE recover_stuck_claims(k)
      BY <3>1, RecoverFields
    <3>2. CASE claim_due_reminders(k)
      BY <3>2, ClaimFields
    <3>3. CASE build_messages(k) \/ MarkProcessed(k)
      <4>1. ev' = ev \/ \E E : MarkSent(E)
        BY <3>3, BuildFields DEF MarkProcessed
      <4> QED
        BY <4>1, MarkFields
    <3>4. CASE advance_recurring(k)
      BY <3>4, AdvanceFields
    <3>5. CASE ev' = ev
      BY <3>5
    <3> QED
      BY <1>1, <3>1, <3>2, <3>3, <3>4, <3>5 DEF StartTick, TickStep, TickDies, ClaimsDone, StartSending,
         SendAnswered, SendFailed, EndTick
  <2>3. \A t \in Ticks : \A doc \in Docs(t)' : doc.plan.period = 0
    <3>1. CASE claim_due_reminders(k)
      <4>1. PICK e \in Events :
                /\ Due(e, tick[k].now)
                /\ Moves(k, "claim", tick[k].now, tick[k].claimed \cup {DocOf(e)}, tick[k].left,
                         tick[k].messages, tick[k].processed, tick[k].tickets)
        BY <3>1, ClaimFields
      <4>2. \A t \in Ticks : \A doc \in Docs(t)' : doc \in Docs(t) \/ doc = DocOf(e)
        BY <4>1 DEF Moves, Docs
      <4> QED
        BY <4>1, <4>2 DEF NoneRepeats, Due, DocOf
    <3>2. CASE ~claim_due_reminders(k)
      <4>1. \A t \in Ticks : Docs(t)' \subseteq Docs(t)
        BY <1>1, <3>2, DocsShrink
      <4> QED
        BY <4>1 DEF NoneRepeats
    <3> QED
      BY <3>1, <3>2
  <2> QED
    BY <2>1, <2>2, <2>3 DEF NoneRepeats, Live
<1>2. CASE ~\E k \in Ticks : StartTick(k) \/ TickStep(k) \/ TickDies(k)
  <2>1. tick' = tick
    BY <1>2 DEF Next, UserStep, create, update, delete, WriteUpdate, register_push_token,
       unregister_push_token, resolve_receipts, Pass, vars
  <2>2. \A t \in Ticks : \A doc \in Docs(t)' : doc.plan.period = 0
    BY <2>1 DEF NoneRepeats, Docs
  <2>3. ASSUME NEW e \in Events, create(e)
        PROVE  NoneRepeats'
    <3>1. PICK plan \in Schedules :
              ev' = [ev EXCEPT ![e] = [state |-> "live", plan |-> plan,
                                       send |-> compute_reminder_fields(plan, clock)]]
      BY <2>3 DEF create
    <3>2. ev'[e].plan = plan /\ \A x \in Events \ {e} : ev'[x] = ev[x]
      BY <3>1 DEF TypeOK
    <3>3. edit' = edit
      BY <2>3 DEF create
    <3> QED
      BY <2>2, <3>2, <3>3 DEF NoneRepeats, OneShot, Live
  <2>4. ASSUME NEW e \in Events, update(e)
        PROVE  NoneRepeats'
    <3>1. ev' = ev /\ edit'.plan \in Schedules
      BY <2>4 DEF update
    <3> QED
      BY <2>2, <3>1 DEF NoneRepeats, OneShot, Live
  <2>5. ASSUME NEW e \in Events, delete(e)
        PROVE  NoneRepeats'
    <3>1. /\ edit' = edit /\ ev'[e].state = "gone"
          /\ \A x \in Events \ {e} : ev'[x] = ev[x]
      BY <2>5 DEF delete, TypeOK, Row
    <3> QED
      BY <2>2, <3>1 DEF NoneRepeats, Live
  <2>6. CASE WriteUpdate
    BY <2>2, <2>6, WriteFields DEF NoneRepeats, Live
  <2>7. CASE ev' = ev /\ edit' = edit
    BY <2>2, <2>7 DEF NoneRepeats, Live
  <2> QED
    BY <1>2, <2>3, <2>4, <2>5, <2>6, <2>7 DEF Next, UserStep, register_push_token,
       unregister_push_token, resolve_receipts, Pass, vars
<1> QED
  BY <1>1, <1>2

\* A claim asks for the event no more, and is the first of its time.
LEMMA OnceClaim ==
    ASSUME OnceInv, TypeOK', TickShape', NoneRepeats', Counted, NEW k \in Ticks, claim_due_reminders(k)
    PROVE  OnceInv'
<1> USE DEF OnceInv
<1>1. PICK e \in Events :
          /\ Due(e, tick[k].now) /\ DocOf(e) \in Doc /\ tick[k].pc = "claim"
          /\ ev'[e].state = ev[e].state
          /\ ev'[e].send = Claim(ev[e].send.fire, tick[k].now)
          /\ \A x \in Events \ {e} : ev'[x] = ev[x]
          /\ Moves(k, "claim", tick[k].now, tick[k].claimed \cup {DocOf(e)}, tick[k].left,
                   tick[k].messages, tick[k].processed, tick[k].tickets)
  BY ClaimFields
<1> DEFINE fire == ev[e].send.fire
<1>2. fire \in Nat /\ Asked(e, fire) /\ Live(e)
  BY <1>1 DEF Asked, Due, TypeOK, Row, Fields
<1>3. /\ edit' = edit /\ clock' = clock /\ clock \in Nat
      /\ \A t \in Ticks : tick'[t].tickets = tick[t].tickets
  <2>1. edit' = edit /\ clock' = clock /\ clock \in Nat
    BY DEF claim_due_reminders, TypeOK
  <2>2. \A t \in Ticks : tick'[t].tickets = tick[t].tickets
    BY <1>1 DEF Moves
  <2> QED
    BY <2>1, <2>2
<1>4. past'.ticketed = past.ticketed /\ past'.twice = past.twice /\ past.stuck \subseteq past'.stuck
  <2>1. \A t \in Ticks : TicketsOf(t) = {}
    BY <1>3 DEF TicketsOf
  <2> QED
    BY <2>1 DEF TicketsNow, Counted
<1>5. \A m \in Message, f \in Nat : Ticketed(m, f)' <=> Ticketed(m, f)
  BY <1>4 DEF Ticketed
<1>6. \A x \in Events, f \in Nat : ~Asked(e, f)' /\ (Asked(x, f)' => Asked(x, f))
  BY <1>1 DEF Asked, Claim
<1>7. \A t \in Ticks, x \in Events, f \in Nat :
          HasClaimed(t, x, f)' => HasClaimed(t, x, f) \/ (t = k /\ x = e /\ f = fire)
  BY <1>1 DEF HasClaimed, Moves, DocOf
<1>8. e \notin past.stuck => \A t \in Ticks : ~HasClaimed(t, e, fire)
  BY <1>2 DEF ClaimedNotAsked
<1>9. e \notin past.stuck => \A m \in Message : m.id = e => ~Ticketed(m, fire)
  BY <1>2 DEF TicketsArePast
<1>10. HistoryType' /\ OneTicketEach'
  BY <1>4 DEF HistoryType, OneTicketEach
<1>11. TicketsArePast'
  BY <1>3, <1>4, <1>5, <1>6 DEF TicketsArePast, Message
<1>12. ClaimedNotAsked'
  BY <1>4, <1>6, <1>7 DEF ClaimedNotAsked
<1>13. ClaimedByOne'
  BY <1>4, <1>7, <1>8 DEF ClaimedByOne
<1>14. TicketIsOwn'
  BY <1>3, <1>4, <1>5, <1>7, <1>9 DEF TicketIsOwn, Message
<1>15. EditAsksAnew'
  <2>1. edit.id \in Events /\ edit.send.fire \in Nat
    BY DEF TypeOK, EditState, Fields
  <2>2. ev'[edit.id].state = ev[edit.id].state /\ ev'[edit.id].send.fire = ev[edit.id].send.fire
    BY <1>1, <2>1 DEF Claim
  <2>3. Live(edit.id)' => Live(edit.id)
    BY <1>3, <2>2 DEF Live
  <2>4. ASSUME edit.pc = "write", edit.moved, edit.send.status = "pending"
        PROVE  /\ Live(edit.id)' => ev'[edit.id].send.fire # edit.send.fire
               /\ Untaken(edit.id, edit.send.fire)'
    <3>1. Live(edit.id)' => ev'[edit.id].send.fire # edit.send.fire
      BY <2>2, <2>3, <2>4 DEF EditAsksAnew
    <3>2. Untaken(edit.id, edit.send.fire) /\ (Live(edit.id) => ev[edit.id].send.fire # edit.send.fire)
      BY <2>4 DEF EditAsksAnew
    <3>3. \A m \in Message : m.id = edit.id => ~Ticketed(m, edit.send.fire)'
      BY <1>3, <1>4, <3>2 DEF Untaken, Ticketed
    <3>4. \A t \in Ticks : HasClaimed(t, edit.id, edit.send.fire)' =>
              HasClaimed(t, edit.id, edit.send.fire) \/ (edit.id = e /\ edit.send.fire = fire)
      BY <1>3, <1>7, <2>1 DEF HasClaimed
    <3>5. \A t \in Ticks : ~HasClaimed(t, edit.id, edit.send.fire)'
      BY <1>2, <3>2, <3>4 DEF Untaken
    <3> QED
      BY <1>3, <3>1, <3>3, <3>5 DEF Untaken
  <2>5. edit.pc = "write" => ev'[edit.id].state # "none"
    BY <2>2 DEF EditAsksAnew
  <2> QED
    BY <1>3, <2>4, <2>5 DEF EditAsksAnew, Live
<1> QED
  BY <1>10, <1>11, <1>12, <1>13, <1>14, <1>15

\* The tickets of a batch are of what the tick has claimed, and so new.
LEMMA OnceSend ==
    ASSUME OnceInv, TypeOK', TickShape', NoneRepeats', Counted, NEW k \in Ticks, SendAnswered(k)
    PROVE  OnceInv'
<1> USE DEF OnceInv
<1>1. ev' = ev /\ \E batch, P, T : Sends(k, batch, P, T)
  BY SendFields
<1>2. /\ edit' = edit /\ clock' = clock /\ clock \in Nat
      /\ \A t \in Ticks : /\ tick'[t].claimed = tick[t].claimed /\ tick[t].tickets \subseteq tick'[t].tickets
                          /\ t # k => tick'[t].tickets = tick[t].tickets
  <2>1. edit' = edit /\ clock' = clock /\ clock \in Nat
    BY DEF SendAnswered, TypeOK
  <2>2. \A t \in Ticks : /\ tick'[t].claimed = tick[t].claimed /\ tick[t].tickets \subseteq tick'[t].tickets
                         /\ t # k => tick'[t].tickets = tick[t].tickets
    BY <1>1 DEF Sends, Moves
  <2> QED
    BY <2>1, <2>2
<1>3. \A p \in TicketsNow : \E m \in Message, f \in Nat :
          /\ p = <<m, f>> /\ HasClaimed(k, m.id, f)
          /\ m \in tick'[k].tickets \ tick[k].tickets
  <2> SUFFICES ASSUME NEW t \in Ticks, NEW p \in TicketsOf(t)
               PROVE  \E m \in Message, f \in Nat :
                          /\ p = <<m, f>> /\ HasClaimed(k, m.id, f)
                          /\ m \in tick'[k].tickets \ tick[k].tickets
    BY DEF TicketsNow
  <2>1. PICK doc \in tick[t].claimed, m \in tick'[t].tickets \ tick[t].tickets :
            p = <<m, doc.fire>> /\ m.id = doc.id
    BY DEF TicketsOf
  <2>2. t = k
    BY <1>2, <2>1
  <2>3. m \in Message /\ doc.fire \in Nat
    BY <2>1 DEF TypeOK, TickState, Doc
  <2>4. HasClaimed(k, m.id, doc.fire)
    BY <2>1, <2>2 DEF HasClaimed
  <2> QED
    BY <2>1, <2>2, <2>3, <2>4
<1>4. \A m \in Message, f \in Nat :
          Ticketed(m, f)' => \/ Ticketed(m, f)
                             \/ HasClaimed(k, m.id, f) /\ m \in tick'[k].tickets \ tick[k].tickets
  <2> SUFFICES ASSUME NEW m \in Message, NEW f \in Nat, Ticketed(m, f)', ~Ticketed(m, f)
               PROVE  HasClaimed(k, m.id, f) /\ m \in tick'[k].tickets \ tick[k].tickets
    OBVIOUS
  <2>1. <<m, f>> \in TicketsNow
    BY DEF Ticketed, Counted
  <2> QED
    BY <1>3, <2>1
<1>5. past.stuck \subseteq past'.stuck
  BY DEF Counted
<1>6. \A t \in Ticks, e \in Events, f \in Nat : HasClaimed(t, e, f)' <=> HasClaimed(t, e, f)
  BY <1>2 DEF HasClaimed
<1>7. \A e \in Events, f \in Nat : Asked(e, f)' <=> Asked(e, f)
  BY <1>1 DEF Asked
<1>8. HistoryType'
  <2>1. TicketsNow \subseteq Message \X Nat
    BY <1>3
  <2> QED
    BY <2>1 DEF HistoryType, Counted
<1>9. OneTicketEach'
  <2> SUFFICES ASSUME NEW p \in past.ticketed \cap TicketsNow, p[1].id \notin past.stuck
               PROVE  FALSE
    BY <1>5 DEF OneTicketEach, Counted
  <2>1. PICK m \in Message, f \in Nat :
            p = <<m, f>> /\ HasClaimed(k, m.id, f) /\ m \in tick'[k].tickets \ tick[k].tickets
    BY <1>3
  <2>2. Ticketed(m, f) /\ m.id \notin past.stuck
    BY <2>1 DEF Ticketed
  <2> QED
    BY <2>1, <2>2 DEF TicketIsOwn
<1>10. TicketsArePast'
  <2>1. ASSUME NEW m \in Message, NEW f \in Nat, HasClaimed(k, m.id, f)
        PROVE  f <= clock /\ (m.id \notin past.stuck => ~Asked(m.id, f))
    <3>1. m.id \in Events
      BY DEF Message
    <3>2. ~(f > clock)
      BY <2>1, <3>1, FutureUntaken DEF Untaken
    <3> QED
      BY <1>2, <2>1, <3>1, <3>2 DEF ClaimedNotAsked
  <2>2. ASSUME NEW m \in Message, NEW f \in Nat, Ticketed(m, f)'
        PROVE  f <= clock' /\ (m.id \notin past'.stuck => ~Asked(m.id, f)')
    <3>1. m.id \in Events
      BY DEF Message
    <3>2. f <= clock /\ (m.id \notin past.stuck => ~Asked(m.id, f))
      BY <1>4, <2>1, <2>2 DEF TicketsArePast
    <3> QED
      BY <1>2, <1>5, <1>7, <3>1, <3>2
  <2> QED
    BY <2>2 DEF TicketsArePast
<1>11. ClaimedNotAsked'
  BY <1>5, <1>6, <1>7 DEF ClaimedNotAsked
<1>12. ClaimedByOne'
  BY <1>5, <1>6 DEF ClaimedByOne
<1>13. TicketIsOwn'
  <2> SUFFICES ASSUME NEW t \in Ticks, NEW m \in Message, NEW f \in Nat, HasClaimed(t, m.id, f)',
                      Ticketed(m, f)', m.id \notin past'.stuck
               PROVE  m \in tick'[t].tickets
    BY DEF TicketIsOwn
  <2>1. m.id \in Events /\ m.id \notin past.stuck
    BY <1>5 DEF Message
  <2>2. HasClaimed(t, m.id, f)
    BY <1>6, <2>1
  <2>3. CASE Ticketed(m, f)
    BY <1>2, <2>1, <2>2, <2>3 DEF TicketIsOwn
  <2>4. CASE HasClaimed(k, m.id, f) /\ m \in tick'[k].tickets
    BY <2>1, <2>2, <2>4 DEF ClaimedByOne
  <2> QED
    BY <1>4, <2>3, <2>4
<1>14. EditAsksAnew'
  <2>1. edit.id \in Events /\ edit.send.fire \in Nat
    BY DEF TypeOK, EditState, Fields
  <2>2. ASSUME Untaken(edit.id, edit.send.fire)
        PROVE  Untaken(edit.id, edit.send.fire)'
    <3>1. \A t \in Ticks : ~HasClaimed(t, edit.id, edit.send.fire)'
      BY <1>2, <2>2 DEF Untaken, HasClaimed
    <3>2. \A m \in Message : Ticketed(m, edit.send.fire)' =>
              Ticketed(m, edit.send.fire) \/ HasClaimed(k, m.id, edit.send.fire)
      BY <1>2, <1>4, <2>1 DEF Ticketed
    <3>3. \A m \in Message : m.id = edit.id => ~Ticketed(m, edit.send.fire)'
      BY <2>2, <3>2 DEF Untaken
    <3> QED
      BY <1>2, <3>1, <3>3 DEF Untaken
  <2> QED
    BY <1>1, <1>2, <2>2 DEF EditAsksAnew, Live
<1> QED
  BY <1>8, <1>9, <1>10, <1>11, <1>12, <1>13, <1>14

\* The other steps of a tick ask for no event anew: the one that would, the
\* advance of a series, finds none.
LEMMA OnceTick ==
    ASSUME OnceInv, TypeOK', TickShape', NoneRepeats', Counted, NEW k \in Ticks,
           StartTick(k) \/ TickStep(k) \/ TickDies(k)
    PROVE  OnceInv'
<1> USE DEF OnceInv
<1>1. edit' = edit /\ clock' = clock /\ clock \in Nat /\ clock <= clock'
  <2>1. edit' = edit /\ clock' = clock
    BY DEF StartTick, TickStep, TickDies, recover_stuck_claims, claim_due_reminders, ClaimsDone,
         build_messages, StartSending, SendAnswered, SendFailed, MarkProcessed, advance_recurring, EndTick
  <2> QED
    BY <2>1 DEF TypeOK
<1>2. CASE claim_due_reminders(k)
  BY <1>2, OnceClaim
<1>3. CASE SendAnswered(k)
  BY <1>3, OnceSend
<1>4. CASE ~claim_due_reminders(k) /\ ~SendAnswered(k)
  <2>1. \A t \in Ticks : \/ tick'[t].claimed = {} /\ tick'[t].tickets = {}
                         \/ tick'[t].claimed = tick[t].claimed /\ tick'[t].tickets = tick[t].tickets
    <3>1. CASE StartTick(k) \/ ClaimsDone(k) \/ StartSending(k) \/ EndTick(k) \/ TickDies(k)
               \/ recover_stuck_claims(k) \/ MarkProcessed(k)
      <4>1. \/ Moves(k, "recover", clock, {}, {}, {}, {}, {}) \/ Rests(k)
            \/ \E pc, left : Same(k, pc, left)
        BY <3>1, TickFields
      <4>2. CASE \E pc, left : Same(k, pc, left)
        BY <4>2 DEF Same, Moves
      <4> QED
        BY <4>1, <4>2 DEF Rests, Moves
    <3>2. CASE build_messages(k)
      <4>1. \E left, M : Moves(k, "build", tick[k].now, tick[k].claimed, left, M,
                               tick[k].processed, tick[k].tickets)
        BY <3>2, BuildFields DEF Same
      <4> QED
        BY <4>1 DEF Moves
    <3>3. CASE SendFailed(k)
      <4>1. \E batch : Sends(k, batch, {}, {})
        BY <1>4, <3>3, SendFields
      <4> QED
        BY <4>1 DEF Sends, Moves
    <3>4. CASE advance_recurring(k)
      <4>1. \E left : Same(k, "advance", left)
        BY <3>4, AdvanceFields
      <4> QED
        BY <4>1 DEF Same, Moves
    <3> QED
      BY <1>4, <3>1, <3>2, <3>3, <3>4 DEF TickStep
  <2>2. \A t \in Ticks : tick'[t].tickets \subseteq tick[t].tickets
    BY <2>1
  <2>3. \A t \in Ticks : \A e \in Events, f \in Nat :
            HasClaimed(t, e, f)' => HasClaimed(t, e, f) /\ tick'[t].tickets = tick[t].tickets
    BY <2>1 DEF HasClaimed
  <2>4. ASSUME NEW e \in Events, Unchanged(e) \/ RowKept(e)
        PROVE  RowAsksNoMore(e)
    BY <2>4 DEF Unchanged, RowKept, RowAsksNoMore, Live, Asked
  <2>5. ASSUME NEW e \in Events
        PROVE  RowAsksNoMore(e)
    <3>1. CASE recover_stuck_claims(k)
      <4>1. /\ ev'[e].state = ev[e].state /\ ev'[e].send.fire = ev[e].send.fire
            /\ \/ ev'[e].send.status = ev[e].send.status
               \/ ev[e].send.status = "claimed" /\ ev'[e].send.status = "pending"
        BY <3>1, RecoverFields
      <4>2. CASE ev'[e].send.status = ev[e].send.status
        BY <2>4, <4>1, <4>2 DEF RowKept
      <4>3. CASE ev[e].send.status = "claimed" /\ ev'[e].send.status = "pending"
        <5>1. e \in past'.stuck
          BY <3>1, <4>3 DEF StuckNow, Counted
        <5> QED
          BY <4>1, <5>1 DEF RowAsksNoMore, Live
      <4> QED
        BY <4>1, <4>2, <4>3
    <3>2. CASE build_messages(k) \/ MarkProcessed(k)
      <4>1. ev' = ev \/ \E E : MarkSent(E)
        BY <3>2, BuildFields DEF MarkProcessed
      <4>2. RowKept(e)
        BY <4>1, MarkFields DEF RowKept
      <4> QED
        BY <2>4, <4>2
    <3>3. CASE advance_recurring(k)
      <4>1. PICK doc \in tick[k].left :
                /\ \A x \in Events \ {doc.id} : ev'[x] = ev[x]
                /\ ev'[doc.id].state = ev[doc.id].state
                /\ ev'[doc.id].send = ev[doc.id].send \/ Repeats(doc, tick[k].now)
        BY <3>3, AdvanceFields
      <4>2. ~Repeats(doc, tick[k].now)
        BY DEF NoneRepeats, Docs, Repeats
      <4>3. RowKept(e)
        BY <4>1, <4>2 DEF RowKept
      <4> QED
        BY <2>4, <4>3
    <3>4. CASE ev' = ev
      BY <2>4, <3>4 DEF RowKept
    <3> QED
      BY <1>4, <3>1, <3>2, <3>3, <3>4 DEF TickStep, StartTick, ClaimsDone, StartSending, SendFailed, EndTick, TickDies
  <2> QED
    BY <1>1, <2>2, <2>3, <2>5, OnceKept
<1> QED
  BY <1>2, <1>3, <1>4

\* The users ask anew for times ahead only, or for one that nobody has taken.
LEMMA OnceUsers ==
    ASSUME OnceInv, TypeOK', TickShape', NoneRepeats', Counted, UserStep
    PROVE  OnceInv'
<1> USE DEF OnceInv
<1>1. tick' = tick /\ clock' = clock /\ clock \in Nat /\ clock <= clock'
  <2>1. tick' = tick /\ clock' = clock
    BY DEF UserStep, create, update, delete, WriteUpdate, register_push_token, unregister_push_token
  <2> QED
    BY <2>1 DEF TypeOK
<1>2. /\ \A t \in Ticks : tick'[t].tickets \subseteq tick[t].tickets
      /\ \A t \in Ticks : \A e \in Events, f \in Nat :
             HasClaimed(t, e, f)' => HasClaimed(t, e, f) /\ tick'[t].tickets = tick[t].tickets
  BY <1>1 DEF HasClaimed
<1>3. ASSUME NEW e \in Events, ev'[e] = ev[e]
      PROVE  RowAsksNoMore(e)
  BY <1>3 DEF RowAsksNoMore, Live, Asked
<1>4. ASSUME NEW plan \in Schedules, NEW e \in Events, compute_reminder_fields(plan, clock).status = "pending"
      PROVE  /\ compute_reminder_fields(plan, clock).fire \in Nat
             /\ compute_reminder_fields(plan, clock).fire > clock
             /\ Untaken(e, compute_reminder_fields(plan, clock).fire)
  <2>1. plan \in Schedule
    BY SchedulesAreSound
  <2>2. plan.start \in Nat /\ plan.minutes \in Nat /\ plan.minutes < plan.start
    BY <2>1 DEF Schedule
  <2>3. /\ compute_reminder_fields(plan, clock).fire = plan.start - plan.minutes
        /\ ~(plan.start - plan.minutes <= clock)
    BY <1>4, <2>2 DEF compute_reminder_fields, NoSend
  <2>4. plan.start - plan.minutes \in Nat /\ plan.start - plan.minutes > clock
    BY <1>1, <2>2, <2>3
  <2> QED
    BY <2>3, <2>4, FutureUntaken
<1>5. ASSUME NEW e \in Events, create(e)
      PROVE  OnceInv'
  <2>1. PICK plan \in Schedules :
            /\ ev[e].state = "none"
            /\ ev' = [ev EXCEPT ![e] = [state |-> "live", plan |-> plan,
                                        send |-> compute_reminder_fields(plan, clock)]]
    BY <1>5 DEF create
  <2>2. /\ ev'[e].send = compute_reminder_fields(plan, clock)
        /\ \A x \in Events \ {e} : ev'[x] = ev[x]
    BY <2>1 DEF TypeOK
  <2>3. RowAsksNoMore(e)
    BY <1>4, <2>1, <2>2 DEF RowAsksNoMore, Asked
  <2>4. \A x \in Events : RowAsksNoMore(x)
    BY <1>3, <2>2, <2>3
  <2>5. edit' = edit
    BY <1>5 DEF create
  <2> QED
    BY <1>1, <1>2, <2>4, <2>5, OnceKept
<1>6. ASSUME NEW e \in Events, delete(e)
      PROVE  OnceInv'
  <2>1. /\ ev'[e].state = "gone" /\ ev'[e].send = ev[e].send
        /\ \A x \in Events \ {e} : ev'[x] = ev[x]
    BY <1>6 DEF delete, TypeOK, Row
  <2>2. RowAsksNoMore(e)
    BY <2>1 DEF RowAsksNoMore, Asked, Live
  <2>3. \A x \in Events : RowAsksNoMore(x)
    BY <1>3, <2>1, <2>2
  <2>4. edit' = edit
    BY <1>6 DEF delete
  <2> QED
    BY <1>1, <1>2, <2>3, <2>4, OnceKept
<1>7. CASE WriteUpdate
  <2>1. /\ edit'.pc = "idle" /\ edit.pc = "write"
        /\ \A e \in Events : \/ ev'[e].send = ev[e].send
                             \/ e = edit.id /\ ev'[e].send = IF edit.moved THEN edit.send ELSE ev[e].send
    BY <1>7, WriteFields
  <2>2. ASSUME NEW e \in Events, NEW f \in Nat, Asked(e, f)'
        PROVE  Asked(e, f) \/ Untaken(e, f)
    <3>1. CASE ev'[e].send = ev[e].send
      BY <2>2, <3>1 DEF Asked
    <3>2. CASE e = edit.id /\ edit.moved /\ ev'[e].send = edit.send
      BY <2>1, <2>2, <3>2 DEF Asked, EditAsksAnew
    <3> QED
      BY <2>1, <3>1, <3>2
  <2>3. edit' # edit
    BY <2>1
  <2>4. \A e \in Events : RowAsksNoMore(e)
    BY <2>2, <2>3 DEF RowAsksNoMore
  <2> QED
    BY <1>1, <1>2, <2>1, <2>4, OnceKept
<1>8. ASSUME NEW e \in Events, update(e)
      PROVE  OnceInv'
  <2>1. ev' = ev /\ Live(e)
    BY <1>8 DEF update
  <2>2. PICK plan \in Schedules :
            /\ edit'.id = e /\ edit'.send = compute_reminder_fields(plan, clock)
            /\ edit'.moved = (compute_reminder_fields(plan, clock).fire # ev[e].send.fire)
    BY <1>8 DEF update
  <2>3. TicketsNow = {}
    <3>1. \A t \in Ticks : TicketsOf(t) = {}
      BY <1>1 DEF TicketsOf
    <3> QED
      BY <3>1 DEF TicketsNow
  <2>4. past'.ticketed = past.ticketed /\ past'.twice = past.twice /\ past.stuck \subseteq past'.stuck
    BY <2>3 DEF Counted
  <2>5. \A m \in Message, f \in Nat : Ticketed(m, f)' <=> Ticketed(m, f)
    BY <2>4 DEF Ticketed
  <2>6. \A t \in Ticks, x \in Events, f \in Nat : HasClaimed(t, x, f)' <=> HasClaimed(t, x, f)
    BY <1>1 DEF HasClaimed
  <2>7. \A x \in Events, f \in Nat : Asked(x, f)' <=> Asked(x, f)
    BY <2>1 DEF Asked
  <2>8. HistoryType' /\ OneTicketEach'
    BY <2>4 DEF HistoryType, OneTicketEach
  <2>9. TicketsArePast'
    BY <1>1, <2>4, <2>5, <2>7 DEF TicketsArePast, Message
  <2>10. ClaimedNotAsked' /\ ClaimedByOne'
    BY <2>4, <2>6, <2>7 DEF ClaimedNotAsked, ClaimedByOne
  <2>11. TicketIsOwn'
    BY <1>1, <2>4, <2>5, <2>6 DEF TicketIsOwn, Message
  <2>12. EditAsksAnew'
    <3>1. ev'[e].state # "none"
      BY <2>1 DEF Live
    <3>2. ASSUME edit'.moved, edit'.send.status = "pending"
          PROVE  ev'[e].send.fire # edit'.send.fire /\ Untaken(edit.id, edit.send.fire)'
      <4>1. edit'.send.fire \in Nat /\ Untaken(e, edit'.send.fire)
        BY <1>4, <2>2, <3>2
      <4>2. ASSUME NEW m \in Message, m.id = e
            PROVE  ~Ticketed(m, edit.send.fire)'
        BY <2>4, <4>1, <4>2 DEF Untaken, Ticketed
      <4>3. ASSUME NEW t \in Ticks
            PROVE  ~HasClaimed(t, edit.id, edit.send.fire)'
        BY <1>1, <2>2, <4>1 DEF Untaken, HasClaimed
      <4> QED
        BY <2>1, <2>2, <3>2, <4>2, <4>3 DEF Untaken
    <3> QED
      BY <2>2, <3>1, <3>2 DEF EditAsksAnew
  <2> QED
    BY <2>8, <2>9, <2>10, <2>11, <2>12
<1>9. ASSUME NEW d \in Tokens, register_push_token(d) \/ unregister_push_token(d)
      PROVE  OnceInv'
  <2>1. ev' = ev /\ edit' = edit
    BY <1>9 DEF register_push_token, unregister_push_token
  <2> QED
    BY <1>1, <1>2, <1>3, <2>1, OnceKept
<1> QED
  BY <1>5, <1>6, <1>7, <1>8, <1>9 DEF UserStep

LEMMA OnceStep ==
    ASSUME OneShot, OnceInv, [Next /\ Observe]_pvars
    PROVE  OnceInv'
<1>1. CASE UNCHANGED pvars
  BY <1>1 DEF pvars, vars, OnceInv, TypeOK, TickShape, Shape, ClaimedIds, NoneRepeats, Docs, Live,
     HistoryType, TicketsArePast, ClaimedNotAsked, ClaimedByOne, TicketIsOwn, EditAsksAnew, Untaken,
     Ticketed, HasClaimed, Asked, OneTicketEach
<1>2. CASE Next /\ Observe
  <2>1. TypeOK' /\ TickShape' /\ NoneRepeats'
    BY <1>2, TypeStep, ShapeStep, OneShotStep DEF OnceInv
  <2>2. Counted
    BY <1>2 DEF Observe, Counted
  <2>3. ASSUME resolve_receipts \/ Pass
        PROVE  OnceInv'
    <3>1. /\ ev' = ev /\ tick' = tick /\ edit' = edit
          /\ clock' \in {clock, clock + 1} /\ clock \in Nat
      BY <2>3 DEF resolve_receipts, Pass, OnceInv, TypeOK
    <3>2. \A e \in Events : RowAsksNoMore(e)
      BY <3>1 DEF RowAsksNoMore, Live, Asked
    <3>3. \A t \in Ticks : \A e \in Events, f \in Nat : HasClaimed(t, e, f)' => HasClaimed(t, e, f)
      BY <3>1 DEF HasClaimed
    <3>4. clock <= clock'
      BY <3>1
    <3> QED
      BY <2>1, <2>2, <3>1, <3>2, <3>3, <3>4, OnceKept
  <2> QED
    BY <1>2, <2>1, <2>2, <2>3, OnceTick, OnceUsers DEF Next
<1> QED
  BY <1>1, <1>2

LEMMA OnceInit ==
    ASSUME PInit
    PROVE  OnceInv
<1>1. TypeOK /\ TickShape
  BY TypeInit, ShapeInit DEF PInit
<1>2. \A t \in Ticks : tick[t].claimed = {} /\ tick[t].left = {}
  BY DEF PInit, Init, IdleTick
<1>3. past.ticketed = {} /\ past.twice = {}
  BY DEF PInit, InitPast
<1>4. NoneRepeats
  BY <1>2 DEF PInit, Init, NoRow, IdleEdit, NoneRepeats, Docs, Live
<1>5. HistoryType /\ OneTicketEach
  BY <1>3 DEF HistoryType, OneTicketEach
<1>6. TicketsArePast /\ ClaimedNotAsked /\ ClaimedByOne /\ TicketIsOwn
  BY <1>2, <1>3 DEF TicketsArePast, ClaimedNotAsked, ClaimedByOne, TicketIsOwn, Ticketed, HasClaimed
<1>7. EditAsksAnew
  BY DEF PInit, Init, IdleEdit, EditAsksAnew
<1> QED
  BY <1>1, <1>4, <1>5, <1>6, <1>7 DEF OnceInv

\* Where no event repeats, no device is told twice of one fire time of an event
\* that was never recovered as stuck, however ticks, edits and deaths overlap.
\* A series can be announced twice (AdvanceMovesOn).
THEOREM OneTicketOnce ==
    ASSUME OneShot
    PROVE  PSpec => []OneTicketEach
<1>1. OnceInv => OneTicketEach
  BY DEF OnceInv
<1>2. OnceInv /\ [Next /\ Observe]_pvars => OnceInv'
  BY OnceStep
<1> QED
  BY <1>1, <1>2, OnceInit, PTL DEF PSpec

=============================================================================
