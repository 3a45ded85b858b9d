---------------------------------- MODULE Canva ----------------------------------
(***************************************************************************)
(* The link of accounts to Canva (backend/canva/service.py): a handshake    *)
(* with a link that is good once and for a while, the tokens in the user's  *)
(* row, and their refresh when a request finds the access token old.        *)
(* Canva's refresh tokens are good once: [grant, n] is the n-th of a grant, *)
(* and `live' has the number of the one that is good.                       *)
(***************************************************************************)
EXTENDS Naturals, FiniteSets

CONSTANTS
    Users,
    Requests,   \* requests to Canva under way at a time
    MaxGrants,  \* bound: connections
    MaxTurns,   \* bound: refreshes of a grant
    MaxFaults   \* bound: answers that are lost, refusals of a good token

VARIABLES
    states,  \* _pending_states: [id, user, old]
    calls,   \* callbacks under way: [user, grant], after Canva's answer
    row,     \* the tokens in the user's row, or None
    req,     \* [pc, user, token]
    live,    \* Canva: the good refresh token of each grant
    past     \* counters, what the users want, and what excuses the property

vars == <<states, calls, row, req, live, past>>

None == [grant |-> 0, n |-> 0, fresh |-> FALSE]
Idle == [pc |-> "idle", user |-> CHOOSE u \in Users : TRUE, token |-> None]

Init ==
    /\ states = {} /\ calls = {}
    /\ row = [u \in Users |-> None] /\ req = [r \in Requests |-> Idle]
    /\ live = [g \in 1..MaxGrants |-> 0]
    /\ past = [links |-> 0, grants |-> 0, faults |-> 0,
               wanted |-> [u \in Users |-> FALSE], crossed |-> {}, failed |-> {}]

Token(g, n) == [grant |-> g, n |-> n, fresh |-> TRUE]

\* The steps of user u that have read something and will write the row.
Writing(u) == (\E c \in calls : c.user = u) \/ (\E r \in Requests : req[r].pc # "idle" /\ req[r].user = u)

\* Another step of the user is on its way when one begins.
Crossed(u) == IF Writing(u) THEN past.crossed \cup {u} ELSE past.crossed

-------------------------------------------------------------------------------
(* The handshake *)

_cleanup_expired_states == {s \in states : ~s.old}

build_authorize_url(u) ==
    /\ past.links < MaxGrants
    /\ states' = _cleanup_expired_states \cup {[id |-> past.links + 1, user |-> u, old |-> FALSE]}
    /\ past' = [past EXCEPT !.links = @ + 1]
    /\ UNCHANGED <<calls, row, req, live>>

\* Ten minutes go by.
Expire(s) ==
    /\ ~s.old
    /\ states' = (states \ {s}) \cup {[s EXCEPT !.old = TRUE]}
    /\ UNCHANGED <<calls, row, req, live, past>>

\* The user has approved link i; Canva takes the code once, and may refuse it.
exchange_code(i) ==
    /\ \E s \in _cleanup_expired_states :
           /\ s.id = i
           /\ states' = _cleanup_expired_states \ {s}
           /\ \/ /\ past.grants < MaxGrants
                 /\ live' = [live EXCEPT ![past.grants + 1] = 1]
                 /\ calls' = calls \cup {[user |-> s.user, grant |-> past.grants + 1]}
                 /\ past' = [past EXCEPT !.grants = @ + 1,
                                         !.crossed = Crossed(s.user)]
              \/ UNCHANGED <<calls, live, past>>
    /\ UNCHANGED <<row, req>>

\* Mistake: a refresh keeps the refresh token it used.
keepsOld(u, token) == row' = [row EXCEPT ![u] = IF @ = None THEN token ELSE [@ EXCEPT !.fresh = TRUE]]

_store_tokens(u, token) == row' = [row EXCEPT ![u] = token]

CallbackEnds(c) ==
    /\ calls' = calls \ {c}
    /\ _store_tokens(c.user, Token(c.grant, 1))
    /\ UNCHANGED <<states, req, live>>
    /\ past' = [past EXCEPT !.wanted[c.user] = TRUE, !.failed = @ \ {c.user},
                            !.crossed = IF Writing(c.user)' THEN @ ELSE @ \ {c.user}]

disconnect(u) ==
    /\ row[u] # None
    /\ row' = [row EXCEPT ![u] = None]
    /\ past' = [past EXCEPT !.wanted[u] = FALSE,
                            !.crossed = Crossed(u)]
    /\ UNCHANGED <<states, calls, req, live>>

-------------------------------------------------------------------------------
(* _get_valid_access_token; a good access token needs no more *)

\* The access token runs out, within a minute.
Ages(u) ==
    /\ row[u].fresh
    /\ row' = [row EXCEPT ![u].fresh = FALSE]
    /\ UNCHANGED <<states, calls, req, live, past>>

Refresh(r, u) ==
    /\ req[r] = Idle /\ row[u] # None /\ ~row[u].fresh
    /\ req' = [req EXCEPT ![r] = [pc |-> "asking", user |-> u, token |-> row[u]]]
    /\ past' = [past EXCEPT !.crossed = Crossed(u)]
    /\ UNCHANGED <<states, calls, row, live>>

\* Canva changes a good token for the next one.
Answered(r) ==
    /\ req[r].pc = "asking"
    /\ LET t == req[r].token
       IN  /\ live[t.grant] = t.n /\ t.n < MaxTurns
           /\ live' = [live EXCEPT ![t.grant] = t.n + 1]
           /\ req' = [req EXCEPT ![r].pc = "answered", ![r].token = Token(t.grant, t.n + 1)]
    /\ UNCHANGED <<states, calls, row, past>>

StoreRefreshed(r) ==
    /\ req[r].pc = "answered"
    /\ _store_tokens(req[r].user, req[r].token)
    /\ req' = [req EXCEPT ![r] = Idle]
    /\ UNCHANGED <<states, calls, live, past>>

Fault(u) ==
    /\ past.faults < MaxFaults
    /\ past' = [past EXCEPT !.faults = @ + 1, !.failed = @ \cup {u}]

\* Anything but 200, an outage of Canva included, ends the connection.
Refused(r) ==
    /\ req[r].pc = "asking"
    /\ IF live[req[r].token.grant] = req[r].token.n THEN Fault(req[r].user) ELSE UNCHANGED past
    /\ row' = [row EXCEPT ![req[r].user] = None]
    /\ req' = [req EXCEPT ![r] = Idle]
    /\ UNCHANGED <<states, calls, live>>

\* No answer, or the process ends before it is stored.
Lost(r) ==
    /\ req[r].pc # "idle" /\ Fault(req[r].user)
    /\ req' = [req EXCEPT ![r] = Idle]
    /\ UNCHANGED <<states, calls, row, live>>

Next ==
    \/ \E u \in Users : build_authorize_url(u) \/ disconnect(u) \/ Ages(u) \/ \E r \in Requests : Refresh(r, u)
    \/ \E s \in states : Expire(s) \/ exchange_code(s.id)
    \/ \E c \in calls : CallbackEnds(c)
    \/ \E r \in Requests : Answered(r) \/ StoreRefreshed(r) \/ Refused(r) \/ Lost(r)

-------------------------------------------------------------------------------

\* Whoever has connected and not disconnected is connected, with a token that
\* Canva will take, and nobody else is: unless two requests of the user refreshed
\* at once, one overlapped a connection or a disconnection, or Canva failed; a new
\* connection makes up for it.
ConnectionLives ==
    \A u \in Users : ~Writing(u) /\ u \notin past.crossed \cup past.failed =>
        /\ row[u] # None <=> past.wanted[u]
        /\ row[u] # None => live[row[u].grant] = row[u].n
===============================================================================
