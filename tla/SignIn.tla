--------------------------------- MODULE SignIn ---------------------------------
(***************************************************************************)
(* Sign-in on one device (frontend/src/api.ts, auth/): the stored tokens,  *)
(* the requests that meet a 401 and share one refresh, the refresh of a    *)
(* cold start, login, logout and the encryption key they leave.  The       *)
(* server's sessions are those of `Sessions'.  A step is the code between  *)
(* two awaits; the two stores behind one call of authStorage are one.      *)
(***************************************************************************)
EXTENDS Naturals

CONSTANTS
    Accounts,
    SessionIds,
    Owner,      \* whose session it is, [SessionIds -> Accounts]
    Fetchers,   \* calls of fetchApi that may be in progress at once
    None        \* no account, no session

ASSUME OwnerIsAccount == Owner \in [SessionIds -> Accounts]
ASSUME NoneIsNone == None \notin Accounts \cup SessionIds

VARIABLES
    open, closed,  \* the server's sessions
    stored,        \* authStorage: the access and refresh token, and the user
    shown,         \* the user AuthContext shows
    dek,           \* the account whose key is in the device's keystore
    fetch,         \* per call of fetchApi: where it is and the token it sent
    flight,        \* refreshInFlight, the refresh that fetchApi shares
    cold,          \* refreshAuth of a cold start
    form           \* the login or logout in progress

server == <<open, closed>>
vars   == <<open, closed, stored, shown, dek, fetch, flight, cold, form>>

Server == INSTANCE Sessions

-------------------------------------------------------------------------------
(* Data.  A token stands for its session; an access token expires long before. *)

Empty     == [access |-> None, refresh |-> None, user |-> None]
Quiet     == [pc |-> "idle", sid |-> None]
Started   == [pc |-> "idle", sid |-> None, isLoading |-> FALSE]
NotCalled == [pc |-> "idle", retried |-> FALSE]

Init ==
    /\ open = {} /\ closed = {}
    /\ stored = Empty
    /\ shown = None /\ dek = None
    /\ fetch = [f \in Fetchers |-> NotCalled]
    /\ flight = Quiet /\ cold = Started /\ form = Quiet

\* setAccessToken, setRefreshToken, setUser, as a flow for session s goes on.
Written(pc, s) ==
    [access  |-> IF pc = "access" THEN s ELSE stored.access,
     refresh |-> IF pc = "refresh" THEN s ELSE stored.refresh,
     user    |-> IF pc = "user" THEN Owner[s] ELSE stored.user]

After(flow, pc) == [flow EXCEPT !.pc = pc]

\* Mistake: only the access token goes.
clearAccess == [stored EXCEPT !.access = None, !.user = None]

clearAll == Empty

-------------------------------------------------------------------------------
(* fetchApi and refreshAccessToken *)

fetchApi(f) ==
    /\ fetch[f].pc = "idle" /\ shown # None
    /\ fetch' = [fetch EXCEPT ![f] = [pc |-> "sent", retried |-> FALSE]]
    /\ UNCHANGED <<server, stored, shown, dek, flight, cold, form>>

\* The request is served, or it fails or is aborted after FETCH_TIMEOUT_MS.
FetchEnded(f) ==
    /\ fetch[f].pc = "sent"
    /\ fetch' = [fetch EXCEPT ![f] = NotCalled]
    /\ UNCHANGED <<server, stored, shown, dek, flight, cold, form>>

\* A 401, as any access token may have expired: the call joins the refresh, or
\* starts it and finds a refresh token or none.
FetchRefused(f) ==
    /\ fetch[f].pc = "sent" /\ ~fetch[f].retried
    /\ IF flight.pc = "idle" /\ stored.refresh = None
       THEN fetch' = [fetch EXCEPT ![f] = NotCalled] /\ UNCHANGED flight
       ELSE /\ fetch' = [fetch EXCEPT ![f].pc = "wait"]
            /\ flight' = IF flight.pc = "idle" THEN [pc |-> "asked", sid |-> stored.refresh] ELSE flight
    /\ UNCHANGED <<server, stored, shown, dek, cold, form>>

\* Mistake: retryCount is not passed on.
RetriedForEver(f) == FALSE

Retried(f) == fetch[f].pc = "wait" \/ fetch[f].retried

FetchRetries(f) ==
    /\ fetch[f].pc = "again"
    /\ fetch' = [fetch EXCEPT ![f].pc = "sent"]
    /\ UNCHANGED <<server, stored, shown, dek, flight, cold, form>>

\* The shared promise settles for all that wait: they try again, or give up.
Settle(ok) ==
    /\ flight' = Quiet
    /\ fetch' = [f \in Fetchers |->
          IF fetch[f].pc # "wait" THEN fetch[f]
          ELSE IF ok THEN [fetch[f] EXCEPT !.pc = "again", !.retried = Retried(f)] ELSE NotCalled]

RefreshAnswered ==
    /\ flight.pc = "asked"
    /\ \/ flight.sid \in open /\ flight' = After(flight, "access") /\ UNCHANGED fetch
       \/ Settle(FALSE)     \* refused, or the request failed
    /\ UNCHANGED <<server, stored, shown, dek, cold, form>>

doRefreshAccessToken ==
    /\ flight.pc \in {"access", "refresh", "user"}
    /\ stored' = Written(flight.pc, flight.sid)
    /\ \/ flight.pc = "access" /\ flight' = After(flight, "refresh") /\ UNCHANGED fetch
       \/ flight.pc = "refresh" /\ flight' = After(flight, "user") /\ UNCHANGED fetch
       \/ flight.pc = "user" /\ Settle(TRUE)
    /\ UNCHANGED <<server, shown, dek, cold, form>>

-------------------------------------------------------------------------------
(* AuthContext: initAuth and refreshAuth *)

refreshToken(isLoading) ==
    IF stored.refresh = None THEN Started
    ELSE [pc |-> "asked", sid |-> stored.refresh, isLoading |-> isLoading]

\* The app is killed and started again: initAuth shows the stored user and
\* refreshes the tokens, or has tokens but no user and keeps loading.
Restart ==
    /\ fetch' = [f \in Fetchers |-> NotCalled]
    /\ flight' = Quiet /\ form' = Quiet
    /\ shown' = IF stored.refresh = None /\ stored.access = None THEN None ELSE stored.user
    /\ cold' = IF stored.user = None /\ stored.access # None
               THEN [pc |-> "me", sid |-> stored.access, isLoading |-> TRUE]
               ELSE refreshToken(stored.user = None)
    /\ UNCHANGED <<server, stored, dek>>

\* getMe, without a stored user; when it fails the tokens are refreshed.
initAuth ==
    /\ cold.pc = "me"
    /\ \/ /\ cold.sid \in open
          /\ shown' = Owner[cold.sid]
          /\ stored' = Written("user", cold.sid)
          /\ cold' = Started
       \/ cold' = refreshToken(TRUE) /\ UNCHANGED <<stored, shown>>
    /\ UNCHANGED <<server, dek, fetch, flight, form>>

\* Mistake: an answer that is no refusal (5xx) clears the tokens, too.
RefusedOrFailed == cold.pc = "asked"

Refused == cold.pc = "asked" /\ cold.sid \notin open

refreshAuth ==
    /\ \/ cold.pc = "asked" /\ cold.sid \in open
          /\ cold' = After(cold, "access") /\ UNCHANGED <<stored, shown>>
       \/ Refused /\ cold' = Started /\ stored' = clearAll /\ shown' = None
       \/ /\ cold.pc = "asked"    \* no answer: the tokens stay
          /\ cold' = Started
          /\ shown' = IF stored.access = None THEN None ELSE shown
          /\ UNCHANGED stored
       \/ cold.pc = "access"
          /\ stored' = Written("access", cold.sid) /\ cold' = After(cold, "user") /\ UNCHANGED shown
       \/ cold.pc = "user"
          /\ stored' = Written("user", cold.sid) /\ cold' = Started /\ shown' = Owner[cold.sid]
    /\ UNCHANGED <<server, dek, fetch, flight, form>>

-------------------------------------------------------------------------------
(* login and logout *)

\* The server opens a session; its answer arrives, or is lost.
LoginAnswered ==
    /\ form.pc = "idle" /\ shown = None /\ ~cold.isLoading
    /\ \E s \in SessionIds :
           /\ Server!Open(s)
           /\ \/ form' = [pc |-> "access", sid |-> s]
              \/ UNCHANGED form
    /\ UNCHANGED <<stored, shown, dek, fetch, flight, cold>>

login ==
    /\ form.pc \in {"access", "refresh", "user"}
    /\ stored' = Written(form.pc, form.sid)
    /\ \/ form.pc = "access" /\ form' = After(form, "refresh") /\ UNCHANGED shown
       \/ form.pc = "refresh" /\ form' = After(form, "user") /\ UNCHANGED shown
       \/ form.pc = "user" /\ form' = After(form, "key") /\ shown' = Owner[form.sid]
    /\ UNCHANGED <<server, dek, fetch, flight, cold>>

\* The escrow is asked for with the stored token.  A failure, or a password
\* that does not open it, leaves the keystore alone.
bootstrapKeyOnLogin ==
    /\ form.pc = "key"
    /\ form' = Quiet
    /\ dek' \in {dek} \cup {Owner[s] : s \in {x \in {form.sid} :
                                stored.access \in open /\ Owner[stored.access] = Owner[x]}}
    /\ UNCHANGED <<server, stored, shown, fetch, flight, cold>>

\* Without a refresh token there is nothing to ask the server.
logout ==
    /\ form.pc = "idle" /\ shown # None
    /\ form' = IF stored.refresh = None THEN [pc |-> "leave", sid |-> None]
                                        ELSE [pc |-> "ask", sid |-> stored.refresh]
    /\ stored' = IF stored.refresh = None THEN clearAll ELSE stored
    /\ UNCHANGED <<server, shown, dek, fetch, flight, cold>>

\* Answered or not, the tokens go; when the request fails the rest is skipped.
LogoutAnswered ==
    /\ form.pc = "ask"
    /\ stored' = clearAll
    /\ \/ Server!Retire({form.sid}) /\ form' \in {Quiet, After(form, "leave")}
       \/ UNCHANGED server /\ form' = Quiet
    /\ UNCHANGED <<shown, dek, fetch, flight, cold>>

\* Mistake: the key stays.
keepKey == dek

clearKeyOnLogout == None

LogoutEnds ==
    /\ form.pc = "leave"
    /\ form' = Quiet
    /\ dek' = clearKeyOnLogout
    /\ shown' = None
    /\ UNCHANGED <<server, stored, fetch, flight, cold>>

-------------------------------------------------------------------------------
(* The server *)

CloseElsewhere ==
    /\ \E s \in open : Server!Retire({s})
    /\ UNCHANGED <<stored, shown, dek, fetch, flight, cold, form>>

FetchStep(f) == FetchEnded(f) \/ FetchRefused(f) \/ FetchRetries(f)
Refreshing   == RefreshAnswered \/ doRefreshAccessToken
Signing      == login \/ bootstrapKeyOnLogin \/ logout \/ LogoutAnswered \/ LogoutEnds

Next ==
    \/ \E f \in Fetchers : fetchApi(f) \/ FetchStep(f)
    \/ Refreshing \/ Restart \/ initAuth \/ refreshAuth
    \/ LoginAnswered \/ Signing
    \/ CloseElsewhere

\* A request ends (FETCH_TIMEOUT_MS) and so, it is assumed, does a refresh,
\* which has no timeout of its own.
Fairness == (\A f \in Fetchers : WF_vars(FetchStep(f))) /\ WF_vars(Refreshing)

Spec == Init /\ [][Next]_vars /\ Fairness

-------------------------------------------------------------------------------
(* Properties *)

\* Every call of fetchApi ends: a 401 is answered by one retry, however often
\* tokens expire meanwhile, and no call waits for a refresh that is over.
FetchEnds == \A f \in Fetchers : fetch[f].pc # "idle" ~> fetch[f].pc = "idle"

\* The tokens of a session the server honours are dropped only by a logout, or
\* by a cold start's refusal of the tokens of another session.
LiveTokensKept ==
    [][stored.refresh \in open /\ stored'.refresh = None =>
          form.pc = "ask" \/ cold.sid # stored.refresh]_vars
===============================================================================
