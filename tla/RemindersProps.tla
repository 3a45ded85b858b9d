---------------------------- MODULE RemindersProps ----------------------------
(***************************************************************************)
(* What the reminder ticks promise.  The history `past' observes the steps *)
(* of Reminders and never constrains them:                                 *)
(*   loose    <<t, e>> when the claim of e was undone while tick t had it  *)
(*   ticketed <<message, fire>> that got a ticket from Expo                *)
(*   twice    those that got a second one                                  *)
(*   handled  <<e, fire>> that Expo answered, or needed no push            *)
(*   late     events a tick marked sent after their claim was undone       *)
(*   drifted  events whose send fields were written for an outdated plan   *)
(*   stuck    events whose claim was recovered as stuck                    *)
(***************************************************************************)
EXTENDS Reminders

VARIABLE past

pvars == <<vars, past>>

\* The events tick t has claimed and not yet done with.
Held(t)    == IF tick[t].pc = "advance" THEN tick[t].left ELSE tick[t].claimed
Holding(t) == {doc.id : doc \in Held(t)}

Doing(t, e) == \E doc \in tick[t].left \ tick'[t].left : doc.id = e

InitPast == past = [loose |-> {}, ticketed |-> {}, twice |-> {}, handled |-> {}, late |-> {},
                    drifted |-> {}, stuck |-> {}]

PInit == Init /\ InitPast

-------------------------------------------------------------------------------
(* What a step does to the history. *)

\* A claim is undone by the recovery of another tick, by the user moving the
\* reminder, or by a tick that had already lost the event to this one.
LooseNow ==
    {p \in Ticks \X Events :
        /\ p[2] \in Holding(p[1])
        /\ ev'[p[2]].send.status = "pending"
        /\ \/ WriteUpdate
           \/ \E s \in Ticks : recover_stuck_claims(s)
           \/ \E s \in Ticks \ {p[1]} : advance_recurring(s) /\ Doing(s, p[2])}

\* The tickets of the messages, by the fire times they were claimed for.
TicketsOf(t) ==
    UNION {{<<m, doc.fire>> : m \in {x \in tick'[t].tickets \ tick[t].tickets : x.id = doc.id}} :
              doc \in tick[t].claimed}
TicketsNow == UNION {TicketsOf(t) : t \in {s \in Ticks : SendAnswered(s)}}

AnsweredBy(t) == {<<doc.id, doc.fire>> : doc \in {d \in tick[t].claimed : d.id \in tick'[t].processed}}
Tokenless(t)  == {<<doc.id, doc.fire>> : doc \in tick[t].left \ tick'[t].left}
HandledNow ==
    (UNION {AnsweredBy(t) : t \in {s \in Ticks : SendAnswered(s)}})
    \cup (UNION {Tokenless(t) : t \in {s \in Ticks : active = {} /\ build_messages(s)}})
    \cup {<<e, ev'[e].send.fire>> : e \in {x \in Events :
              UserStep /\ ev'[x].send # ev[x].send /\ ev'[x].send.status = "sent"}}

LateNow ==
    {e \in Events : /\ ev[e].send.status # "sent" /\ ev'[e].send.status = "sent"
                    /\ \E t \in Ticks : <<t, e>> \in past.loose /\ (MarkProcessed(t) \/ build_messages(t))}

\* A tick advances a plan the user has changed since the claim; a PUT computed
\* from a row that a tick has advanced since.
DriftNow ==
    {e \in Events :
        \/ \E t \in Ticks : \E doc \in tick[t].left \ tick'[t].left :
               /\ advance_recurring(t)
               /\ doc.id = e /\ Live(e) /\ doc.plan # ev[e].plan /\ ev'[e].send # ev[e].send
        \/ WriteUpdate /\ edit.id = e /\ ~edit.moved /\ edit.send.fire # ev[e].send.fire}

StuckNow == {e \in Events : /\ ev[e].send.status = "claimed" /\ ev'[e].send.status = "pending"
                            /\ \E t \in Ticks : recover_stuck_claims(t)}

Observe ==
    past' = [loose    |-> {p \in past.loose \cup LooseNow : p[2] \in Holding(p[1])'},
             ticketed |-> past.ticketed \cup TicketsNow,
             twice    |-> past.twice \cup (past.ticketed \cap TicketsNow),
             handled  |-> past.handled \cup HandledNow,
             late     |-> past.late \cup LateNow,
             drifted  |-> past.drifted \cup DriftNow,
             stuck    |-> past.stuck \cup StuckNow]

PSpec == PInit /\ [][Next /\ Observe]_pvars /\ Fairness

-------------------------------------------------------------------------------
(* Properties *)

\* Two overlapping ticks never have one event at once, unless its claim was
\* recovered as stuck, or the user moved it, while the first tick had it.
OneHolder ==
    \A t1, t2 \in Ticks : t1 # t2 =>
        \A e \in Holding(t1) \cap Holding(t2) : {<<t1, e>>, <<t2, e>>} \cap past.loose # {}

\* A token gets one ticket for one fire time of an event, overlapping ticks
\* and edits or not, unless the event was recovered as stuck.  Not of a series:
\* see AdvanceMovesOn.
OneTicketEach == \A p \in past.twice : p[1].id \in past.stuck

\* A reminder that is not due is not marked sent: moving an event into the
\* future makes it fire, but for a tick that was still busy with the old time.
SentIsDue ==
    \A e \in Events :
        Live(e) /\ ev[e].send.status = "sent" /\ ev[e].send.fire > clock => e \in past.late

\* A pending reminder fires at the lead before an occurrence of the event as
\* it is now, however edits and the advance of a tick overlap.
Occurs(plan, at) == \E n \in 0..at : at = plan.start + n * plan.period
PendingIsCurrent ==
    \A e \in Events :
        Live(e) /\ ev[e].send.status = "pending" /\ e \notin past.drifted =>
            /\ ev[e].plan.minutes # 0
            /\ Occurs(ev[e].plan, ev[e].send.fire + ev[e].plan.minutes)

\* Sent means handled: Expo has answered for this fire time, or no device was
\* registered, or it was already past when it was set.  A failed call or a
\* tick that dies never makes a reminder sent.
SentWasHandled ==
    \A e \in Events :
        Live(e) /\ ev[e].send.status = "sent" /\ ev[e].send.fire # 0 =>
            <<e, ev[e].send.fire>> \in past.handled \/ e \in past.late

\* Sent means due and handled.
SentRightly == SentIsDue /\ SentWasHandled

\* What the code does not do.  backend/tests/test_nueco_apis.py: "the new
\* reminder_fire_at must be the *next* occurrence, strictly later than the one
\* that just fired".  The next occurrence is looked for from now on, and at
\* fire time the occurrence that is being announced is still ahead.
AdvanceMovesOn ==
    [][\A t \in Ticks : \A doc \in tick[t].left \ tick'[t].left :
        /\ tick[t].pc = "advance" /\ tick'[t].pc = "advance"
        /\ ev'[doc.id].send # ev[doc.id].send
        => ev'[doc.id].send.fire > doc.fire]_vars

=============================================================================
