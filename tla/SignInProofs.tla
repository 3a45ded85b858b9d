------------------------------ MODULE SignInProofs ------------------------------
(***************************************************************************)
(* SignIn, proved for any accounts, sessions and calls of fetchApi: what   *)
(* the stored tokens and the key have to do with who is signed in.         *)
(***************************************************************************)
EXTENDS SignInProps, TLAPS

-------------------------------------------------------------------------------
(* Types: what a flow has in hand is a session the server has opened *)

Given == open \cup closed

Live(flow) == flow.pc # "idle"

TypeOK ==
    /\ open \subseteq SessionIds /\ closed \subseteq SessionIds
    /\ stored \in [access : SessionIds \cup {None}, refresh : SessionIds \cup {None},
                   user : Accounts \cup {None}]
    /\ shown \in Accounts \cup {None} /\ dek \in Accounts \cup {None}
    /\ fetch \in [Fetchers -> [pc : {"idle", "sent", "wait", "again"}, retried : BOOLEAN]]
    /\ flight \in [pc : {"idle", "asked", "access", "refresh", "user"}, sid : SessionIds \cup {None}]
    /\ cold \in [pc : {"idle", "me", "asked", "access", "user"}, sid : SessionIds \cup {None},
                 isLoading : BOOLEAN]
    /\ form \in [pc : {"idle", "access", "refresh", "user", "key", "ask", "leave"},
                 sid : SessionIds \cup {None}]
    /\ past \in [mixed : BOOLEAN, left : BOOLEAN, signedOut : BOOLEAN]

Held ==
    /\ {stored.access, stored.refresh} \subseteq Given \cup {None}
    /\ Live(flight) => flight.sid \in Given
    /\ Live(cold) => cold.sid \in Given
    /\ cold.pc = "me" => cold.isLoading
    /\ form.pc \notin {"idle", "leave"} => form.sid \in Given

TInv == TypeOK /\ Held

LEMMA NoneFacts ==
    /\ None \notin SessionIds /\ None \notin Accounts
    /\ \A s \in SessionIds : Owner[s] \in Accounts
  BY OwnerIsAccount, NoneIsNone

LEMMA WrittenType ==
    ASSUME TInv, NEW pc, NEW s \in Given
    PROVE  /\ Written(pc, s) \in [access : SessionIds \cup {None}, refresh : SessionIds \cup {None},
                                  user : Accounts \cup {None}]
           /\ {Written(pc, s).access, Written(pc, s).refresh} \subseteq Given \cup {None}
           /\ pc \in {"access", "refresh", "user"} => Written(pc, s) # Empty
<1>1. s \in SessionIds /\ Owner[s] \in Accounts
  BY NoneFacts DEF TInv, TypeOK, Given
<1> QED
  BY <1>1, NoneFacts DEF TInv, TypeOK, Held, Written, Empty

LEMMA SettleType ==
    ASSUME TInv, NEW ok \in BOOLEAN, Settle(ok)
    PROVE  /\ flight' = Quiet
           /\ fetch' \in [Fetchers -> [pc : {"idle", "sent", "wait", "again"}, retried : BOOLEAN]]
           /\ \A f \in Fetchers : fetch'[f].pc # "idle" => fetch[f].pc # "idle"
  BY DEF Settle, TInv, TypeOK, NotCalled, Retried

LEMMA AfterFacts ==
    ASSUME TInv, NEW pc
    PROVE  /\ After(flight, pc) = [pc |-> pc, sid |-> flight.sid]
           /\ After(form, pc) = [pc |-> pc, sid |-> form.sid]
           /\ After(cold, pc) = [pc |-> pc, sid |-> cold.sid, isLoading |-> cold.isLoading]
  BY DEF TInv, TypeOK, After

LEMMA ObserveType ==
    ASSUME TInv, Observe
    PROVE  past' \in [mixed : BOOLEAN, left : BOOLEAN, signedOut : BOOLEAN]
<1>1. \E m, l, o \in BOOLEAN : past' = [mixed |-> m, left |-> l, signedOut |-> o]
  <2>1. (IF Cleared THEN form.pc \in {"refresh", "user"} ELSE past.mixed \/ Mixes) \in BOOLEAN
    <3>1. CASE Cleared
      BY <3>1
    <3>2. CASE ~Cleared
      BY <3>2
    <3> QED
      BY <3>1, <3>2
  <2>2. (IF LogoutEnds \/ (bootstrapKeyOnLogin /\ dek' = shown) THEN FALSE
         ELSE \/ past.left
              \/ refreshAuth /\ Cleared
              \/ LogoutAnswered /\ form' = Quiet
              \/ Restart /\ form.pc = "leave") \in BOOLEAN
    OBVIOUS
  <2>3. (LogoutEnds \/ (past.signedOut /\ ~LoginAnswered)) \in BOOLEAN
    OBVIOUS
  <2> QED
    BY <2>1, <2>2, <2>3 DEF Observe
<1> QED
  BY <1>1

LEMMA InitTInv ==
    ASSUME PInit
    PROVE  TInv
  BY DEF PInit, Init, TInv, TypeOK, Held, Empty, Quiet, Started, NotCalled, Live, Given

\* What the server does only adds to what it has given out.
LEMMA ServerFacts ==
    ASSUME TInv
    PROVE  /\ \A s \in SessionIds : Server!Open(s) =>
               s \notin Given /\ Given' = Given \cup {s} /\ (open \cup closed)' \subseteq SessionIds
           /\ \A S \in SUBSET Given : Server!Retire(S) =>
               Given' = Given /\ (open \cup closed)' \subseteq SessionIds
  BY DEF TInv, TypeOK, Given, Server!Open, Server!Retire

\* A step of a call of fetchApi.
LEMMA FetchTInv ==
    ASSUME TInv, Observe, NEW f \in Fetchers, fetchApi(f) \/ FetchStep(f)
    PROVE  TInv'
<1> DEFINE Call == [pc : {"idle", "sent", "wait", "again"}, retried : BOOLEAN]
<1>1. /\ UNCHANGED <<server, stored, shown, dek, cold, form>>
      /\ fetch' \in [Fetchers -> Call]
  <2>1. fetch \in [Fetchers -> Call] /\ NotCalled \in Call
    BY DEF TInv, TypeOK, NotCalled
  <2>2. \A pc \in {"sent", "wait"} : [fetch[f] EXCEPT !.pc = pc] \in Call
    BY <2>1
  <2>3. [pc |-> "sent", retried |-> FALSE] \in Call
    OBVIOUS
  <2>4. \E c \in Call : fetch' = [fetch EXCEPT ![f] = c]
    BY <2>1, <2>2, <2>3 DEF fetchApi, FetchStep, FetchEnded, FetchRefused, FetchRetries
  <2>5. UNCHANGED <<server, stored, shown, dek, cold, form>>
    BY DEF fetchApi, FetchStep, FetchEnded, FetchRefused, FetchRetries
  <2> HIDE DEF Call
  <2> QED
    BY <2>1, <2>4, <2>5
<1>2. flight' \in [pc : {"idle", "asked", "access", "refresh", "user"}, sid : SessionIds \cup {None}]
      /\ (Live(flight') => flight'.sid \in Given)
  <2>1. CASE flight' = flight
    BY <2>1 DEF TInv, TypeOK, Held
  <2>2. CASE stored.refresh # None /\ flight' = [pc |-> "asked", sid |-> stored.refresh]
    BY <2>2 DEF TInv, TypeOK, Held
  <2> QED
    BY <2>1, <2>2 DEF fetchApi, FetchStep, FetchEnded, FetchRefused, FetchRetries
<1>3. TypeOK'
  BY <1>1, <1>2, ObserveType DEF TInv, TypeOK, server
<1>4. Held'
  BY <1>1, <1>2 DEF TInv, Held, Live, Given, server
<1> QED
  BY <1>3, <1>4 DEF TInv

LEMMA RefreshTInv ==
    ASSUME TInv, Observe, Refreshing
    PROVE  TInv'
<1>1. UNCHANGED <<server, shown, dek, cold, form>>
  BY DEF Refreshing, RefreshAnswered, doRefreshAccessToken
<1>2. flight' \in [pc : {"idle", "asked", "access", "refresh", "user"}, sid : SessionIds \cup {None}]
      /\ (Live(flight') => flight'.sid \in Given)
      /\ fetch' \in [Fetchers -> [pc : {"idle", "sent", "wait", "again"}, retried : BOOLEAN]]
  <2>1. ASSUME NEW ok \in BOOLEAN, Settle(ok)
        PROVE  /\ flight' \in [pc : {"idle", "asked", "access", "refresh", "user"}, sid : SessionIds \cup {None}]
               /\ Live(flight') => flight'.sid \in Given
               /\ fetch' \in [Fetchers -> [pc : {"idle", "sent", "wait", "again"}, retried : BOOLEAN]]
    BY <2>1, SettleType DEF Quiet, Live
  <2>2. ASSUME NEW pc \in {"access", "refresh", "user"}, Live(flight), flight' = After(flight, pc),
               UNCHANGED fetch
        PROVE  /\ flight' \in [pc : {"idle", "asked", "access", "refresh", "user"}, sid : SessionIds \cup {None}]
               /\ Live(flight') => flight'.sid \in Given
               /\ fetch' \in [Fetchers -> [pc : {"idle", "sent", "wait", "again"}, retried : BOOLEAN]]
    BY <2>2, AfterFacts DEF TInv, TypeOK, Held, Live
  <2> QED
    BY <2>1, <2>2 DEF Refreshing, RefreshAnswered, doRefreshAccessToken, Live
<1>3. stored' = stored \/ \E pc \in {"access", "refresh", "user"} : Live(flight) /\ stored' = Written(pc, flight.sid)
  BY DEF Refreshing, RefreshAnswered, doRefreshAccessToken, Live
<1>4. /\ stored' \in [access : SessionIds \cup {None}, refresh : SessionIds \cup {None}, user : Accounts \cup {None}]
      /\ {stored'.access, stored'.refresh} \subseteq Given \cup {None}
  BY <1>3, WrittenType DEF TInv, TypeOK, Held
<1>5. TypeOK'
  BY <1>1, <1>2, <1>4, ObserveType DEF TInv, TypeOK, server
<1>6. Held'
  BY <1>1, <1>2, <1>4 DEF TInv, Held, Live, Given, server
<1> QED
  BY <1>5, <1>6 DEF TInv

\* The flows that end, or that a cold start begins.
LEMMA QuietFacts ==
    ASSUME TInv
    PROVE  /\ Quiet \in [pc : {"idle"}, sid : {None}]
           /\ Started \in [pc : {"idle"}, sid : {None}, isLoading : {FALSE}]
           /\ \A l \in BOOLEAN : \/ refreshToken(l) = Started
                                \/ /\ stored.refresh \in Given
                                   /\ refreshToken(l) = [pc |-> "asked", sid |-> stored.refresh, isLoading |-> l]
  BY DEF Quiet, Started, refreshToken, TInv, Held

LEMMA ColdTInv ==
    ASSUME TInv, Observe, Restart \/ initAuth \/ refreshAuth
    PROVE  TInv'
<1> USE NoneFacts
<1>1. UNCHANGED <<server, dek>>
  BY DEF Restart, initAuth, refreshAuth
<1>2. /\ cold' \in [pc : {"idle", "me", "asked", "access", "user"}, sid : SessionIds \cup {None}, isLoading : BOOLEAN]
      /\ Live(cold') => cold'.sid \in Given
      /\ cold'.pc = "me" => cold'.isLoading
  <2>1. \/ cold' = Started
        \/ \E l \in BOOLEAN : cold' = refreshToken(l)
        \/ stored.access # None /\ cold' = [pc |-> "me", sid |-> stored.access, isLoading |-> TRUE]
        \/ Live(cold) /\ \E pc \in {"access", "user"} : cold' = After(cold, pc)
    <3>1. (stored.user = None) \in BOOLEAN
      OBVIOUS
    <3> QED
      BY <3>1 DEF Restart, initAuth, refreshAuth, Live
  <2>2. CASE cold' = Started
    BY <2>2, QuietFacts DEF Live
  <2>3. CASE \E l \in BOOLEAN : cold' = refreshToken(l)
    <3>1. PICK l \in BOOLEAN : cold' = refreshToken(l)
      BY <2>3
    <3>2. stored.refresh \in SessionIds \cup {None}
      BY DEF TInv, TypeOK
    <3>3. CASE stored.refresh \in Given /\ cold' = [pc |-> "asked", sid |-> stored.refresh, isLoading |-> l]
      BY <3>2, <3>3
    <3> QED
      BY <2>2, <3>1, <3>3, QuietFacts
  <2>4. CASE stored.access # None /\ cold' = [pc |-> "me", sid |-> stored.access, isLoading |-> TRUE]
    BY <2>4 DEF TInv, TypeOK, Held
  <2>5. CASE Live(cold) /\ \E pc \in {"access", "user"} : cold' = After(cold, pc)
    BY <2>5, AfterFacts DEF TInv, TypeOK, Held
  <2> QED
    BY <2>1, <2>2, <2>3, <2>4, <2>5
<1>3. \/ stored' \in {stored, Empty}
      \/ \E pc \in {"access", "refresh", "user"} : Live(cold) /\ stored' = Written(pc, cold.sid)
  BY DEF Restart, initAuth, refreshAuth, Live, clearAll
<1>4. /\ stored' \in [access : SessionIds \cup {None}, refresh : SessionIds \cup {None}, user : Accounts \cup {None}]
      /\ {stored'.access, stored'.refresh} \subseteq Given \cup {None}
  BY <1>3, WrittenType DEF TInv, TypeOK, Held, Empty
<1>5. shown' \in Accounts \cup {None}
  <2>1. shown' \in {shown, None, stored.user} \cup {Owner[s] : s \in {x \in {cold.sid} : Live(cold)}}
    BY DEF Restart, initAuth, refreshAuth, Live
  <2> QED
    BY <2>1 DEF TInv, TypeOK, Held, Given
<1>6. /\ fetch' \in [Fetchers -> [pc : {"idle", "sent", "wait", "again"}, retried : BOOLEAN]]
      /\ flight' \in {flight, Quiet} /\ form' \in {form, Quiet}
  <2>1. NotCalled \in [pc : {"idle", "sent", "wait", "again"}, retried : BOOLEAN]
    BY DEF NotCalled
  <2>2. fetch' = fetch \/ fetch' = [f \in Fetchers |-> NotCalled]
    BY DEF Restart, initAuth, refreshAuth
  <2>3. fetch \in [Fetchers -> [pc : {"idle", "sent", "wait", "again"}, retried : BOOLEAN]]
    BY DEF TInv, TypeOK
  <2>4. flight' \in {flight, Quiet} /\ form' \in {form, Quiet}
    BY DEF Restart, initAuth, refreshAuth
  <2> QED
    BY <2>1, <2>2, <2>3, <2>4
<1>7. TypeOK'
  BY <1>1, <1>2, <1>4, <1>5, <1>6, ObserveType DEF TInv, TypeOK, server, Quiet
<1>8. Held'
  BY <1>1, <1>2, <1>4, <1>6 DEF TInv, Held, Live, Given, server, Quiet
<1> QED
  BY <1>7, <1>8 DEF TInv

LEMMA SignTInv ==
    ASSUME TInv, Observe, LoginAnswered \/ Signing
    PROVE  TInv'
<1> USE NoneFacts
<1>1. UNCHANGED <<fetch, flight, cold>>
  BY DEF LoginAnswered, Signing, login, bootstrapKeyOnLogin, logout, LogoutAnswered, LogoutEnds
<1>2. Given \subseteq Given' /\ (open \cup closed)' \subseteq SessionIds
  <2>1. CASE \E s \in SessionIds : Server!Open(s)
    BY <2>1, ServerFacts
  <2>2. CASE UNCHANGED server
    BY <2>2 DEF server, Given, TInv, TypeOK
  <2>3. CASE form.pc = "ask" /\ Server!Retire({form.sid})
    BY <2>3, ServerFacts DEF TInv, Held
  <2> QED
    BY <2>1, <2>2, <2>3 DEF LoginAnswered, Signing, login, bootstrapKeyOnLogin, logout, LogoutAnswered, LogoutEnds
<1>3. /\ form' \in [pc : {"idle", "access", "refresh", "user", "key", "ask", "leave"}, sid : SessionIds \cup {None}]
      /\ form'.pc \notin {"idle", "leave"} => form'.sid \in Given'
  <2>1. CASE LoginAnswered
    <3>1. PICK s \in SessionIds : Server!Open(s) /\ (form' = [pc |-> "access", sid |-> s] \/ UNCHANGED form)
      BY <2>1 DEF LoginAnswered
    <3>2. s \in Given' /\ Given \subseteq Given'
      BY <3>1, ServerFacts
    <3> QED
      BY <3>1, <3>2 DEF TInv, TypeOK, Held
  <2>2. CASE Signing
    <3>1. \/ form' = Quiet \/ form' = [pc |-> "leave", sid |-> None]
          \/ stored.refresh \in Given /\ form' = [pc |-> "ask", sid |-> stored.refresh]
          \/ form.pc \notin {"idle", "leave"} /\ \E pc \in {"refresh", "user", "key", "leave"} : form' = After(form, pc)
      BY <2>2 DEF Signing, login, bootstrapKeyOnLogin, logout, LogoutAnswered, LogoutEnds, TInv, TypeOK, Held
    <3> QED
      <4>1. CASE form' = Quiet \/ form' = [pc |-> "leave", sid |-> None]
        BY <4>1, QuietFacts
      <4>2. CASE stored.refresh \in Given /\ form' = [pc |-> "ask", sid |-> stored.refresh]
        BY <1>2, <4>2 DEF TInv, TypeOK
      <4>3. ASSUME NEW pc \in {"refresh", "user", "key", "leave"}, form.pc \notin {"idle", "leave"},
                   form' = After(form, pc)
            PROVE  /\ form' \in [pc : {"idle", "access", "refresh", "user", "key", "ask", "leave"},
                                sid : SessionIds \cup {None}]
                   /\ form'.pc \notin {"idle", "leave"} => form'.sid \in Given'
        BY <1>2, <4>3, AfterFacts DEF TInv, TypeOK, Held
      <4> QED
        BY <3>1, <4>1, <4>2, <4>3
  <2> QED
    BY <2>1, <2>2
<1>4. \/ stored' \in {stored, Empty}
      \/ form.pc \in {"access", "refresh", "user"} /\ stored' = Written(form.pc, form.sid)
  BY DEF LoginAnswered, Signing, login, bootstrapKeyOnLogin, logout, LogoutAnswered, LogoutEnds, clearAll
<1>5. /\ stored' \in [access : SessionIds \cup {None}, refresh : SessionIds \cup {None}, user : Accounts \cup {None}]
      /\ {stored'.access, stored'.refresh} \subseteq Given \cup {None}
  BY <1>4, WrittenType DEF TInv, TypeOK, Held, Empty
<1>6. shown' \in Accounts \cup {None} /\ dek' \in Accounts \cup {None}
  BY DEF LoginAnswered, Signing, login, bootstrapKeyOnLogin, logout, LogoutAnswered, LogoutEnds,
         clearKeyOnLogout, TInv, TypeOK, Held, Given
<1>7. TypeOK'
  BY <1>1, <1>2, <1>3, <1>5, <1>6, ObserveType DEF TInv, TypeOK
<1>8. Held'
  BY <1>1, <1>2, <1>3, <1>5 DEF TInv, Held, Live
<1> QED
  BY <1>7, <1>8 DEF TInv

LEMMA NextTInv ==
    ASSUME TInv, [Next /\ Observe]_pvars
    PROVE  TInv'
<1>1. CASE CloseElsewhere /\ Observe
  <2>1. PICK s \in open : Server!Retire({s})
    BY <1>1 DEF CloseElsewhere
  <2>2. Given' = Given /\ (open \cup closed)' \subseteq SessionIds
    BY <2>1, ServerFacts DEF Given
  <2>3. UNCHANGED <<stored, shown, dek, fetch, flight, cold, form>>
    BY <1>1 DEF CloseElsewhere
  <2>4. TypeOK'
    BY <1>1, <2>2, <2>3, ObserveType DEF TInv, TypeOK
  <2>5. Held'
    BY <2>2, <2>3 DEF TInv, Held, Live
  <2> QED
    BY <2>4, <2>5 DEF TInv
<1>2. CASE UNCHANGED pvars
  BY <1>2 DEF pvars, vars, server, TInv, TypeOK, Held, Live, Given
<1> QED
  BY <1>1, <1>2, FetchTInv, RefreshTInv, ColdTInv, SignTInv DEF Next

-------------------------------------------------------------------------------
(* A login and what it finds: its session is new *)

Writing == form.pc \in {"access", "refresh", "user"}

\* Nothing else has the session of a login before its refresh token is stored.
NewSession ==
    Writing =>
        /\ ~cold.isLoading /\ ~past.signedOut
        /\ Live(cold) => cold.sid # form.sid
        /\ form.pc # "user" =>
            stored.refresh # form.sid /\ (Live(flight) => flight.sid # form.sid)

UInv == TInv /\ NewSession

LEMMA ObserveFacts ==
    ASSUME TInv, Observe
    PROVE  /\ Cleared => past'.mixed = (form.pc \in {"refresh", "user"})
           /\ ~Cleared /\ ~past'.mixed => ~past.mixed /\ ~Mixes
           /\ ~past'.left => \/ LogoutEnds
                             \/ bootstrapKeyOnLogin /\ dek' = shown
                             \/ /\ ~past.left /\ ~(refreshAuth /\ Cleared)
                                /\ ~(LogoutAnswered /\ form' = Quiet) /\ ~(Restart /\ form.pc = "leave")
           /\ past'.signedOut => LogoutEnds \/ (past.signedOut /\ ~LoginAnswered)
<1>1. Cleared => past'.mixed = (form.pc \in {"refresh", "user"})
  BY DEF Observe
<1>2. ~Cleared /\ ~past'.mixed => ~past.mixed /\ ~Mixes
  BY DEF Observe
<1>3. ~past'.left => \/ LogoutEnds
                     \/ bootstrapKeyOnLogin /\ dek' = shown
                     \/ /\ ~past.left /\ ~(refreshAuth /\ Cleared)
                        /\ ~(LogoutAnswered /\ form' = Quiet) /\ ~(Restart /\ form.pc = "leave")
  <2>1. past'.left = IF LogoutEnds \/ (bootstrapKeyOnLogin /\ dek' = shown) THEN FALSE
                     ELSE \/ past.left
                          \/ refreshAuth /\ Cleared
                          \/ LogoutAnswered /\ form' = Quiet
                          \/ Restart /\ form.pc = "leave"
    BY DEF Observe
  <2>2. CASE LogoutEnds \/ (bootstrapKeyOnLogin /\ dek' = shown)
    BY <2>2
  <2>3. CASE ~(LogoutEnds \/ (bootstrapKeyOnLogin /\ dek' = shown))
    BY <2>1, <2>3
  <2> QED
    BY <2>2, <2>3
<1>4. past'.signedOut => LogoutEnds \/ (past.signedOut /\ ~LoginAnswered)
  BY DEF Observe
<1> QED
  BY <1>1, <1>2, <1>3, <1>4

\* The calls of fetchApi and the refresh they share, in the view of a login:
\* the refresh is one that was under way or is of the stored session.
LEMMA FetchFacts ==
    ASSUME TInv, NEW f \in Fetchers, fetchApi(f) \/ FetchStep(f)
    PROVE  /\ UNCHANGED <<server, stored, shown, dek, cold, form>>
           /\ \/ flight' = flight
              \/ /\ stored.refresh # None /\ flight' = [pc |-> "asked", sid |-> stored.refresh]
                 /\ fetch[f].pc # "idle"
           /\ shown = None /\ (\E g \in Fetchers : fetch'[g].pc # "idle") =>
                  \E g \in Fetchers : fetch[g].pc # "idle"
<1>1. /\ UNCHANGED <<server, stored, shown, dek, cold, form>>
      /\ \/ flight' = flight
         \/ /\ stored.refresh # None /\ flight' = [pc |-> "asked", sid |-> stored.refresh]
            /\ fetch[f].pc # "idle"
  BY DEF fetchApi, FetchStep, FetchEnded, FetchRefused, FetchRetries
<1>2. shown = None => fetch[f].pc # "idle"
  BY DEF fetchApi, FetchStep, FetchEnded, FetchRefused, FetchRetries
<1> QED
  BY <1>1, <1>2

LEMMA RefreshFacts ==
    ASSUME TInv, Refreshing
    PROVE  /\ UNCHANGED <<server, shown, dek, cold, form>>
           /\ Live(flight) /\ (Live(flight') => flight'.sid = flight.sid)
           /\ \A f \in Fetchers : fetch'[f].pc # "idle" => fetch[f].pc # "idle"
           /\ \/ stored' = stored
              \/ doRefreshAccessToken /\ \E pc \in {"access", "refresh", "user"} : stored' = Written(pc, flight.sid)
<1>1. \/ \E ok \in BOOLEAN : Settle(ok)
      \/ (\E pc : flight' = After(flight, pc)) /\ UNCHANGED fetch
  BY DEF Refreshing, RefreshAnswered, doRefreshAccessToken
<1>2. Live(flight') => flight'.sid = flight.sid
  BY <1>1, SettleType, AfterFacts DEF Quiet, Live
<1>3. \A f \in Fetchers : fetch'[f].pc # "idle" => fetch[f].pc # "idle"
  BY <1>1, SettleType
<1> QED
  BY <1>2, <1>3 DEF Refreshing, RefreshAnswered, doRefreshAccessToken, Live

LEMMA NextNewSession ==
    ASSUME UInv, TInv', Next, Observe
    PROVE  NewSession'
<1> USE DEF UInv
<1>1. ASSUME NEW f \in Fetchers, fetchApi(f) \/ FetchStep(f)
      PROVE  NewSession'
  <2>1. past'.signedOut => past.signedOut
    BY <1>1, ObserveFacts DEF LogoutEnds, fetchApi, FetchStep, FetchEnded, FetchRefused, FetchRetries, Quiet
  <2> QED
    BY <1>1, <2>1, FetchFacts DEF NewSession, Writing, Live
<1>2. CASE Refreshing
  <2>1. Writing => (past'.signedOut => past.signedOut)
    BY <1>2, ObserveFacts DEF LogoutEnds, Writing
  <2>2. stored'.refresh \in {stored.refresh, flight.sid}
    BY <1>2, RefreshFacts DEF Written
  <2> QED
    BY <1>2, <2>1, <2>2, RefreshFacts DEF NewSession, Writing
<1>3. CASE Restart
  BY <1>3 DEF Restart, NewSession, Writing, Quiet
<1>4. CASE initAuth
  BY <1>4 DEF initAuth, NewSession, Writing, TInv, Held
<1>5. CASE refreshAuth
  <2>1. Writing => (past'.signedOut => past.signedOut)
    BY <1>5, ObserveFacts DEF LogoutEnds, Writing
  <2>2. stored'.refresh \in {stored.refresh, None}
    BY <1>5 DEF refreshAuth, Written, clearAll, Empty
  <2>3. cold' = Started \/ (Live(cold) /\ \E pc : cold' = After(cold, pc))
    BY <1>5 DEF refreshAuth, Live
  <2>4. \/ ~cold'.isLoading /\ ~Live(cold')
        \/ Live(cold) /\ cold'.isLoading = cold.isLoading /\ cold'.sid = cold.sid
    <3>1. CASE cold' = Started
      BY <3>1 DEF Started, Live
    <3>2. CASE Live(cold) /\ \E pc : cold' = After(cold, pc)
      BY <3>2, AfterFacts
    <3> QED
      BY <2>3, <3>1, <3>2
  <2>5. UNCHANGED <<form, flight>> /\ (Writing => form.sid # None)
    BY <1>5, NoneFacts DEF refreshAuth, Writing, TInv, Held, TypeOK, Given
  <2> QED
    BY <2>1, <2>2, <2>4, <2>5 DEF NewSession, Writing
<1>6. CASE LoginAnswered
  <2>1. PICK s \in SessionIds : Server!Open(s) /\ (form' = [pc |-> "access", sid |-> s] \/ UNCHANGED form)
    BY <1>6 DEF LoginAnswered
  <2>2. s \notin Given /\ s # None
    BY <2>1, ServerFacts, NoneFacts
  <2>3. ~past'.signedOut
    BY <1>6, ObserveFacts DEF LogoutEnds, LoginAnswered
  <2>4. form.pc = "idle" /\ ~cold.isLoading /\ UNCHANGED <<stored, flight, cold>>
    BY <1>6 DEF LoginAnswered
  <2> QED
    BY <2>1, <2>2, <2>3, <2>4 DEF NewSession, Writing, TInv, Held
<1>7. CASE login
  <2>1. past'.signedOut => past.signedOut
    BY <1>7, ObserveFacts DEF LogoutEnds, login
  <2>2. UNCHANGED <<flight, cold>> /\ Writing
    BY <1>7 DEF login, Writing
  <2>3. \/ form.pc = "access" /\ form'.pc = "refresh" /\ form'.sid = form.sid /\ stored'.refresh = stored.refresh
        \/ form'.pc \in {"user", "key"} /\ form'.sid = form.sid
    BY <1>7, AfterFacts DEF login, Written
  <2> QED
    BY <2>1, <2>2, <2>3 DEF NewSession, Writing
<1>8. CASE bootstrapKeyOnLogin \/ logout \/ LogoutAnswered \/ LogoutEnds
  <2>1. ~Writing'
    BY <1>8, AfterFacts DEF bootstrapKeyOnLogin, logout, LogoutAnswered, LogoutEnds, Writing, Quiet
  <2> QED
    BY <2>1 DEF NewSession
<1>9. CASE CloseElsewhere
  <2>1. Writing => (past'.signedOut => past.signedOut)
    BY <1>9, ObserveFacts DEF LogoutEnds, Writing
  <2> QED
    BY <1>9, <2>1 DEF CloseElsewhere, NewSession, Writing
<1> QED
  BY <1>1, <1>2, <1>3, <1>4, <1>5, <1>6, <1>7, <1>8, <1>9 DEF Next, Signing

-------------------------------------------------------------------------------
(* What the stored tokens have to do with the accounts, until they are mixed *)

\* Nothing is stored, or an access token is.
Whole == stored.access = None => stored = Empty

\* Who is not shown has no tokens that a flow still goes on with.
NotShown ==
    shown = None =>
        /\ stored.user = None \/ (form.pc = "user" /\ stored.user = Owner[form.sid])
        /\ Live(flight) => flight.sid # stored.refresh \/ (form.pc = "user" /\ flight.sid = form.sid)
        /\ Live(cold) /\ ~cold.isLoading => cold.sid # stored.refresh
        /\ form.pc # "user" /\ (\E f \in Fetchers : fetch[f].pc # "idle") => stored.refresh = None

\* All that is stored and shown is of one account, but between two writes of
\* a login.
OneAccount ==
    /\ form.pc # "refresh" =>
        /\ Agree(Whose(stored.access), Whose(stored.refresh))
        /\ Agree(Whose(stored.access), stored.user)
        /\ Agree(Whose(stored.refresh), stored.user)
    /\ Agree(stored.user, shown)
    /\ Agree(Whose(stored.access), shown)
    /\ Agree(Whose(stored.refresh), shown)

\* How far a login has come.
SoFar ==
    /\ form.pc \in {"access", "refresh"} => shown = None
    /\ form.pc \in {"refresh", "user"} => stored.access = form.sid
    /\ form.pc = "user" => stored.refresh = form.sid /\ shown \in {None, Owner[form.sid]}
    /\ form.pc = "key" => stored.user = shown /\ (shown = None => stored = Empty)

\* After a logout nothing is stored.
Gone == form.pc = "leave" \/ past.signedOut => stored = Empty

\* The key is the stored user's.
KeyOfUser == ~past.left /\ dek # None /\ form.pc # "leave" => stored.user = dek

Match == Whole /\ NotShown /\ OneAccount /\ SoFar /\ Gone /\ KeyOfUser

MInv == UInv /\ (~past.mixed => Match)

LEMMA AgreeFacts ==
    ASSUME TInv
    PROVE  /\ Whose(None) = None
           /\ \A s \in SessionIds : Whose(s) = Owner[s] /\ Owner[s] # None
           /\ \A x, y : Agree(x, y) <=> Agree(y, x)
           /\ \A x : Agree(x, None) /\ Agree(None, x) /\ Agree(x, x)
           /\ Empty.access = None /\ Empty.refresh = None /\ Empty.user = None
  BY NoneFacts DEF Whose, Agree, Empty

\* Who clears the stored tokens.
LEMMA ClearedFacts ==
    ASSUME UInv, Next, Cleared
    PROVE  \/ /\ refreshAuth /\ cold' = Started /\ shown' = None
              /\ UNCHANGED <<form, dek, fetch, flight>>
           \/ form'.pc = "leave"
           \/ LogoutAnswered /\ form' = Quiet
<1> USE DEF UInv
<1>1. stored' # stored /\ stored' = Empty
  BY DEF Cleared
<1>2. ~\E pc \in {"access", "refresh", "user"} : \E s \in Given : stored' = Written(pc, s)
  BY <1>1, WrittenType
<1>3. CASE \E f \in Fetchers : fetchApi(f) \/ FetchStep(f)
  BY <1>1, <1>3, FetchFacts
<1>4. CASE Refreshing
  BY <1>1, <1>2, <1>4, RefreshFacts DEF TInv, Held
<1>5. CASE Restart \/ LoginAnswered \/ bootstrapKeyOnLogin \/ LogoutEnds \/ CloseElsewhere
  BY <1>1, <1>5 DEF Restart, LoginAnswered, bootstrapKeyOnLogin, LogoutEnds, CloseElsewhere
<1>6. CASE initAuth
  BY <1>1, <1>2, <1>6 DEF initAuth, TInv, Held, Live
<1>7. CASE refreshAuth
  BY <1>1, <1>2, <1>7 DEF refreshAuth, TInv, Held, Live
<1>8. CASE login
  BY <1>1, <1>2, <1>8 DEF login, TInv, Held
<1>9. CASE logout
  BY <1>1, <1>9 DEF logout
<1>10. CASE LogoutAnswered
  BY <1>10, AfterFacts DEF LogoutAnswered
<1> QED
  BY <1>3, <1>4, <1>5, <1>6, <1>7, <1>8, <1>9, <1>10 DEF Next, Signing

\* With nothing stored little is left to say.
LEMMA EmptyMatch ==
    ASSUME UInv, UInv', stored' = Empty, SoFar', KeyOfUser'
    PROVE  Match'
<1> USE DEF UInv
<1>1. Empty.access = None /\ Empty.refresh = None /\ Empty.user = None
  BY AgreeFacts
<1>2. Whole' /\ Gone'
  BY DEF Whole, Gone
<1>3. NotShown'
  <2>1. (Live(flight') => flight'.sid # None) /\ (Live(cold') => cold'.sid # None)
    BY NoneFacts DEF TInv, TypeOK, Held, Given, Live
  <2> QED
    BY <1>1, <2>1 DEF NotShown, Live
<1>4. OneAccount'
  BY <1>1, AgreeFacts DEF OneAccount, Whose, Agree
<1> QED
  BY <1>2, <1>3, <1>4 DEF Match

\* A step that clears the tokens, but not what a login has written.
LEMMA ClearedMatch ==
    ASSUME UInv, UInv', Next, Observe, Cleared, form.pc \notin {"refresh", "user"}
    PROVE  Match'
<1> USE DEF UInv
<1>1. stored' = Empty /\ stored # Empty
  BY DEF Cleared
<1>2. Empty.access = None /\ Empty.refresh = None /\ Empty.user = None
  BY AgreeFacts
<1>3. \/ /\ refreshAuth /\ cold' = Started /\ shown' = None
         /\ UNCHANGED <<form, dek, fetch, flight>>
      \/ form'.pc = "leave"
      \/ LogoutAnswered /\ form' = Quiet
  BY ClearedFacts
<1>4. SoFar'
  BY <1>1, <1>2, <1>3 DEF SoFar, Quiet
<1>5. KeyOfUser'
  <2>1. ~LogoutEnds /\ ~bootstrapKeyOnLogin
    BY <1>1 DEF LogoutEnds, bootstrapKeyOnLogin
  <2>2. ~past'.left => ~(refreshAuth /\ Cleared) /\ ~(LogoutAnswered /\ form' = Quiet)
    BY <2>1, ObserveFacts
  <2> QED
    BY <1>3, <2>2 DEF KeyOfUser
<1> QED
  BY <1>1, <1>4, <1>5, EmptyMatch

-------------------------------------------------------------------------------
(* The steps that do not clear them and leave them unmixed *)

LEMMA Unmixed ==
    ASSUME MInv, Observe, ~past.mixed
    PROVE  /\ past'.signedOut => stored = Empty /\ (LogoutEnds \/ past.signedOut)
           /\ ~past'.left /\ dek' # None =>
                  \/ form.pc = "key" /\ stored' = stored /\ stored.user = dek'
                  \/ /\ ~past.left /\ ~(refreshAuth /\ Cleared)
                     /\ ~(LogoutAnswered /\ form' = Quiet) /\ ~(Restart /\ form.pc = "leave")
<1> USE DEF MInv, UInv
<1>1. LogoutEnds => stored = Empty /\ dek' = None
  BY DEF LogoutEnds, Match, Gone, clearKeyOnLogout
<1>2. past.signedOut => stored = Empty
  BY DEF Match, Gone
<1>3. bootstrapKeyOnLogin /\ dek' = shown => form.pc = "key" /\ stored' = stored /\ stored.user = dek'
  BY DEF bootstrapKeyOnLogin, Match, SoFar
<1> QED
  BY <1>1, <1>2, <1>3, ObserveFacts

\* The calls of fetchApi, until their refresh writes.
LEMMA CallMatch ==
    ASSUME MInv, Observe, ~past.mixed, UNCHANGED <<stored, shown, dek, form>>,
           Live(cold') /\ ~cold'.isLoading => Live(cold) /\ ~cold.isLoading /\ cold'.sid = cold.sid,
           \/ Live(flight') => Live(flight) /\ flight'.sid = flight.sid
           \/ /\ stored.refresh # None /\ flight'.sid = stored.refresh
              /\ \E f \in Fetchers : fetch[f].pc # "idle",
           shown = None /\ (\E f \in Fetchers : fetch'[f].pc # "idle") =>
               \E f \in Fetchers : fetch[f].pc # "idle"
    PROVE  Match'
<1> USE DEF MInv, Match
<1>1. Whole' /\ OneAccount' /\ SoFar'
  BY DEF Whole, OneAccount, SoFar, Whose
<1>2. NotShown'
  BY DEF NotShown, SoFar, Live
<1>3. Gone'
  BY Unmixed DEF Gone
<1>4. KeyOfUser'
  BY Unmixed DEF KeyOfUser
<1> QED
  BY <1>1, <1>2, <1>3, <1>4

\* The refresh writes, for the session that is stored.
LEMMA RefreshMatch ==
    ASSUME MInv, Observe, ~past.mixed, Refreshing, stored' # stored,
           flight.sid = stored.refresh
    PROVE  Match'
<1> USE DEF MInv, UInv, Match
<1>1. /\ UNCHANGED <<server, shown, dek, cold, form>>
      /\ Live(flight) /\ (Live(flight') => flight'.sid = flight.sid)
      /\ \A f \in Fetchers : fetch'[f].pc # "idle" => fetch[f].pc # "idle"
  BY RefreshFacts
<1>2. PICK pc \in {"access", "refresh", "user"} : stored' = Written(pc, flight.sid)
  BY RefreshFacts
<1>3. flight.sid \in SessionIds /\ flight.sid # None /\ stored # Empty /\ Owner[flight.sid] # None
  BY <1>1, AgreeFacts, NoneFacts DEF TInv, TypeOK, Held, Given
<1>4. Whose(stored.refresh) = Owner[flight.sid]
  BY <1>3 DEF Whose
<1>5. /\ stored'.access = stored.access \/ stored'.access = flight.sid
      /\ stored'.refresh = stored.refresh
      /\ stored'.user = stored.user \/ stored'.user = Owner[flight.sid]
  BY <1>2 DEF Written
<1>6. stored.access # None
  BY <1>3 DEF Whole
<1>7. shown = None => form.pc = "user" /\ flight.sid = form.sid
  BY <1>1 DEF NotShown
<1>8. form.pc \notin {"access", "refresh", "leave"} /\ ~past'.signedOut
  BY <1>3, <1>7, Unmixed DEF SoFar, Gone
<1>9. Whole' /\ Gone'
  BY <1>1, <1>3, <1>5, <1>6, <1>8 DEF Whole, Gone, Empty
<1>10. NotShown'
  BY <1>1, <1>5, <1>7 DEF NotShown, Live
<1>11. OneAccount'
  BY <1>1, <1>3, <1>4, <1>5, <1>8 DEF OneAccount, Agree, Whose
<1>12. SoFar'
  BY <1>1, <1>3, <1>4, <1>5, <1>8 DEF SoFar, OneAccount, Agree
<1>13. KeyOfUser'
  <2>1. ~past'.left /\ dek' # None => stored.user = dek
    BY <1>1, <1>8, Unmixed DEF KeyOfUser
  <2>2. stored.user # None => stored.user = Owner[flight.sid]
    BY <1>3, <1>4, <1>8 DEF OneAccount, Agree
  <2> QED
    BY <1>1, <1>5, <2>1, <2>2 DEF KeyOfUser
<1> QED
  BY <1>9, <1>10, <1>11, <1>12, <1>13

LEMMA RestartMatch ==
    ASSUME MInv, Observe, ~past.mixed, ~past'.mixed, Restart
    PROVE  Match'
<1> USE DEF MInv, UInv, Match
<1>1. /\ UNCHANGED <<stored, dek>> /\ form' = Quiet /\ flight' = Quiet
      /\ fetch' = [f \in Fetchers |-> NotCalled]
      /\ shown' = IF stored.refresh = None /\ stored.access = None THEN None ELSE stored.user
  BY DEF Restart
<1>2. shown' = stored.user
  BY <1>1, AgreeFacts DEF Whole
<1>3. Live(cold') => cold'.isLoading \/ shown' # None
  <2>1. CASE stored.user = None
    <3>1. \/ cold' = [pc |-> "me", sid |-> stored.access, isLoading |-> TRUE]
          \/ cold' = refreshToken(TRUE)
      BY <2>1 DEF Restart
    <3>2. \/ refreshToken(TRUE) = Started
          \/ refreshToken(TRUE) = [pc |-> "asked", sid |-> stored.refresh, isLoading |-> TRUE]
      BY DEF refreshToken
    <3>3. CASE cold' = [pc |-> "me", sid |-> stored.access, isLoading |-> TRUE]
      BY <3>3
    <3>4. CASE cold' = Started
      BY <3>4 DEF Started, Live
    <3>5. CASE cold' = [pc |-> "asked", sid |-> stored.refresh, isLoading |-> TRUE]
      BY <3>5
    <3> QED
      BY <3>1, <3>2, <3>3, <3>4, <3>5
  <2> QED
    BY <1>2, <2>1
<1>4. form.pc = "refresh" => stored.refresh = None /\ stored.user = None
  <2>1. ~Cleared
    BY <1>1 DEF Cleared
  <2> QED
    BY <2>1, ObserveFacts DEF Mixes, SoFar, NotShown
<1>5. Whole' /\ SoFar'
  BY <1>1 DEF Whole, SoFar, Quiet
<1>6. NotShown'
  BY <1>1, <1>2, <1>3 DEF NotShown, Live, Quiet, NotCalled
<1>7. OneAccount'
  BY <1>1, <1>2, <1>4, AgreeFacts DEF OneAccount, Quiet, Agree, Whose
<1>8. Gone'
  BY <1>1, Unmixed DEF Gone, Quiet
<1>9. KeyOfUser'
  BY <1>1, Unmixed DEF KeyOfUser
<1> QED
  BY <1>5, <1>6, <1>7, <1>8, <1>9

\* A cold start shows the user whose tokens it asked about.
LEMMA UserShown ==
    ASSUME MInv, Observe, ~past.mixed, Live(cold), cold' = Started,
           stored' = Written("user", cold.sid), shown' = Owner[cold.sid],
           stored' # stored => cold.sid = stored.refresh,
           UNCHANGED <<server, dek, fetch, flight, form>>
    PROVE  Match'
<1> USE DEF MInv, UInv, Match
<1>1. cold.sid \in SessionIds /\ cold.sid # None /\ Owner[cold.sid] # None
  BY NoneFacts DEF TInv, TypeOK, Held, Given
<1>2. /\ stored'.access = stored.access /\ stored'.refresh = stored.refresh
      /\ stored'.user = Owner[cold.sid]
  BY DEF Written
<1>3. stored' = stored \/ Whose(stored.refresh) = Owner[cold.sid]
  BY <1>1 DEF Whose
<1>4. stored # Empty
  BY <1>1, <1>2, AgreeFacts
<1>5. stored.access # None
  BY <1>4 DEF Whole
<1>6. form.pc \notin {"access", "refresh", "leave"} /\ ~past'.signedOut
  <2>1. form.pc # "leave" /\ ~past'.signedOut
    BY <1>4, Unmixed DEF Gone
  <2>2. form.pc \in {"access", "refresh"} => shown = None /\ stored.user = None
    BY DEF SoFar, NotShown
  <2>3. form.pc \in {"access", "refresh"} => stored' # stored
    BY <1>1, <1>2, <2>2
  <2>4. form.pc \in {"access", "refresh"} => ~cold.isLoading /\ cold.sid = stored.refresh
    BY <2>3 DEF NewSession, Writing
  <2> QED
    BY <2>1, <2>2, <2>4 DEF NotShown
<1>7. /\ Agree(Whose(stored.access), Whose(stored.refresh))
      /\ Agree(Whose(stored.access), stored.user)
      /\ Agree(Whose(stored.refresh), stored.user)
  BY <1>6 DEF OneAccount
<1>8. Whole'
  BY <1>2, <1>5 DEF Whole
<1>9. NotShown'
  BY <1>1 DEF NotShown
<1>10. Agree(Whose(stored.access), Owner[cold.sid]) /\ Agree(Whose(stored.refresh), Owner[cold.sid])
       /\ Agree(stored.user, Owner[cold.sid])
  BY <1>1, <1>2, <1>3, <1>7 DEF Agree
<1>11. OneAccount'
  BY <1>2, <1>7, <1>10, AgreeFacts DEF OneAccount, Whose
<1>12. SoFar'
  <2>1. form.pc = "user" => Owner[cold.sid] = Owner[form.sid]
    <3>1. form.pc = "user" => stored.access = form.sid /\ form.sid # None /\ Whose(form.sid) = Owner[form.sid]
                              /\ Owner[form.sid] # None
      BY AgreeFacts, NoneFacts DEF SoFar, TInv, TypeOK, Held, Given
    <3> QED
      BY <1>1, <1>10, <3>1 DEF Agree
  <2> QED
    BY <1>1, <1>2, <1>6, <2>1 DEF SoFar
<1>13. Gone'
  BY <1>6 DEF Gone
<1>14. KeyOfUser'
  <2>1. ~past'.left /\ dek # None => stored.user = dek
    BY <1>6, Unmixed DEF KeyOfUser
  <2> QED
    BY <1>1, <1>2, <1>10, <2>1 DEF KeyOfUser, Agree
<1> QED
  BY <1>8, <1>9, <1>11, <1>12, <1>13, <1>14

LEMMA InitAuthMatch ==
    ASSUME MInv, Observe, ~past.mixed, ~past'.mixed, initAuth
    PROVE  Match'
<1> USE DEF MInv, UInv
<1>1. cold.pc = "me" /\ cold.isLoading /\ UNCHANGED <<server, dek, fetch, flight, form>>
  BY DEF initAuth, TInv, Held
<1>2. CASE cold.sid \in open /\ shown' = Owner[cold.sid] /\ stored' = Written("user", cold.sid) /\ cold' = Started
  <2>1. Live(cold) /\ cold.sid \in Given
    BY <1>1 DEF Live, Given, TInv, Held
  <2>2. ~Cleared
    BY <1>2, <2>1, WrittenType DEF Cleared
  <2>3. stored' # stored => cold.sid = stored.refresh
    BY <2>2, ObserveFacts DEF Mixes
  <2> QED
    BY <1>1, <1>2, <2>1, <2>3, UserShown
<1>3. CASE cold' = refreshToken(TRUE) /\ UNCHANGED <<stored, shown>>
  <2>1. Live(cold') => cold'.isLoading
    BY <1>3, QuietFacts DEF Started, Live, refreshToken
  <2> QED
    BY <1>1, <1>3, <2>1, CallMatch
<1> QED
  BY <1>2, <1>3 DEF initAuth

\* The cold start ends with nothing stored.
LEMMA NothingShown ==
    ASSUME MInv, UInv', Observe, ~past.mixed, refreshAuth, stored = Empty, stored' = Empty, shown' = None
    PROVE  Match'
<1> USE DEF MInv, UInv, Match
<1>1. UNCHANGED <<server, dek, fetch, flight, form>>
  BY DEF refreshAuth
<1>2. form.pc \notin {"refresh", "user"}
  BY AgreeFacts, NoneFacts DEF SoFar, TInv, TypeOK, Held, Given
<1>3. SoFar'
  BY <1>1, <1>2, AgreeFacts DEF SoFar
<1>4. KeyOfUser'
  BY <1>1, Unmixed DEF KeyOfUser
<1> QED
  BY <1>3, <1>4, EmptyMatch

\* The access token of a cold start.
LEMMA AccessMatch ==
    ASSUME MInv, Observe, ~past.mixed, Live(cold), cold' = After(cold, "user"),
           stored' = Written("access", cold.sid), stored' # stored, cold.sid = stored.refresh,
           UNCHANGED <<server, shown, dek, fetch, flight, form>>
    PROVE  Match'
<1> USE DEF MInv, UInv, Match
<1>1. cold.sid \in SessionIds /\ cold.sid # None /\ Whose(cold.sid) = Owner[cold.sid]
  BY NoneFacts DEF TInv, TypeOK, Held, Given, Whose
<1>2. /\ stored'.access = cold.sid /\ stored'.refresh = stored.refresh
      /\ stored'.user = stored.user
  BY DEF Written
<1>3. stored # Empty
  BY <1>1, AgreeFacts
<1>4. form.pc \notin {"access", "refresh", "user", "leave"} /\ ~past'.signedOut
  <2>1. form.pc # "leave" /\ ~past'.signedOut
    BY <1>3, Unmixed DEF Gone
  <2>2. form.pc # "user"
    BY DEF SoFar, NewSession, Writing
  <2>3. form.pc \notin {"access", "refresh"}
    BY DEF SoFar, NotShown, NewSession, Writing
  <2> QED
    BY <2>1, <2>2, <2>3
<1>5. cold' = [pc |-> "user", sid |-> cold.sid, isLoading |-> cold.isLoading]
  BY AfterFacts
<1>6. Whole' /\ Gone'
  BY <1>1, <1>2, <1>4 DEF Whole, Gone
<1>7. NotShown'
  BY <1>2, <1>5 DEF NotShown, Live
<1>8. OneAccount'
  BY <1>1, <1>2, <1>4, AgreeFacts DEF OneAccount, Whose
<1>9. SoFar'
  BY <1>2, <1>3, <1>4 DEF SoFar
<1>10. KeyOfUser'
  BY <1>2, <1>4, Unmixed DEF KeyOfUser
<1> QED
  BY <1>6, <1>7, <1>8, <1>9, <1>10

LEMMA RefreshAuthMatch ==
    ASSUME MInv, UInv', Observe, ~past.mixed, ~past'.mixed, ~Cleared, refreshAuth
    PROVE  Match'
<1> USE DEF MInv, UInv
<1>1. UNCHANGED <<server, dek, fetch, flight, form>>
  BY DEF refreshAuth
<1>2. stored' # stored => cold.sid = stored.refresh
  BY ObserveFacts DEF Mixes
<1>3. CASE cold.pc = "asked" /\ cold' = After(cold, "access") /\ UNCHANGED <<stored, shown>>
  BY <1>1, <1>3, AfterFacts, CallMatch DEF Live
<1>4. CASE stored' = clearAll /\ shown' = None
  BY <1>4, NothingShown DEF clearAll, Cleared
<1>5. CASE cold' = Started /\ shown' = (IF stored.access = None THEN None ELSE shown) /\ UNCHANGED stored
  <2>1. CASE stored.access = None
    BY <1>5, <2>1, NothingShown DEF Match, Whole
  <2>2. CASE stored.access # None
    BY <1>1, <1>5, <2>2, CallMatch DEF Started, Live
  <2> QED
    BY <2>1, <2>2
<1>6. CASE cold.pc = "access" /\ stored' = Written("access", cold.sid) /\ cold' = After(cold, "user") /\ UNCHANGED shown
  <2>1. CASE stored' = stored
    BY <1>1, <1>6, <2>1, AfterFacts, CallMatch DEF Live
  <2>2. CASE stored' # stored
    BY <1>1, <1>2, <1>6, <2>2, AccessMatch DEF Live
  <2> QED
    BY <2>1, <2>2
<1>7. CASE cold.pc = "user" /\ stored' = Written("user", cold.sid) /\ cold' = Started /\ shown' = Owner[cold.sid]
  BY <1>1, <1>2, <1>7, UserShown DEF Live
<1> QED
  BY <1>3, <1>4, <1>5, <1>6, <1>7 DEF refreshAuth

-------------------------------------------------------------------------------
(* Login and logout *)

LEMMA LoginAnsweredMatch ==
    ASSUME MInv, Observe, ~past.mixed, LoginAnswered
    PROVE  Match'
<1> USE DEF MInv, UInv, Match
<1>1. UNCHANGED <<stored, shown, dek, fetch, flight, cold>> /\ form.pc = "idle" /\ shown = None
  BY DEF LoginAnswered
<1>2. form'.pc \in {"idle", "access"}
  BY <1>1 DEF LoginAnswered
<1>3. Whole' /\ OneAccount' /\ SoFar'
  BY <1>1, <1>2 DEF Whole, OneAccount, SoFar, Whose
<1>4. NotShown'
  BY <1>1, <1>2 DEF NotShown, Live
<1>5. Gone'
  BY <1>1, <1>2, Unmixed DEF Gone
<1>6. KeyOfUser'
  BY <1>1, Unmixed DEF KeyOfUser
<1> QED
  BY <1>3, <1>4, <1>5, <1>6

LEMMA LoginMatch ==
    ASSUME MInv, Observe, ~past.mixed, login
    PROVE  Match'
<1> USE DEF MInv, UInv, Match
<1>1. UNCHANGED <<dek, fetch, flight, cold>> /\ Writing /\ stored' = Written(form.pc, form.sid)
  BY DEF login, Writing
<1>2. form.sid \in SessionIds /\ form.sid # None /\ Owner[form.sid] # None
  BY <1>1, NoneFacts DEF Writing, TInv, TypeOK, Held, Given
<1>3. Whose(form.sid) = Owner[form.sid]
  BY <1>2 DEF Whose
<1>4. ~past'.signedOut
  BY <1>1, ObserveFacts DEF NewSession, Writing, LogoutEnds
<1>5. ~past'.left /\ dek # None => stored.user = dek
  BY <1>1, Unmixed DEF KeyOfUser, Writing
<1>6. CASE form.pc = "access"
  <2>1. /\ stored'.access = form.sid /\ stored'.refresh = stored.refresh /\ stored'.user = stored.user
        /\ form'.pc = "refresh" /\ form'.sid = form.sid /\ shown = None /\ shown' = None /\ stored.user = None
    BY <1>1, <1>6, AfterFacts DEF login, Written, SoFar, NotShown
  <2>2. Whole' /\ Gone' /\ SoFar'
    BY <1>2, <1>4, <2>1 DEF Whole, Gone, SoFar
  <2>3. NotShown'
    BY <1>1, <1>6, <2>1 DEF NotShown, Live
  <2>4. OneAccount'
    BY <2>1, AgreeFacts DEF OneAccount, Agree
  <2>5. KeyOfUser'
    BY <1>1, <1>5, <2>1 DEF KeyOfUser
  <2> QED
    BY <2>2, <2>3, <2>4, <2>5
<1>7. CASE form.pc = "refresh"
  <2>1. /\ stored'.access = form.sid /\ stored'.refresh = form.sid /\ stored'.user = stored.user
        /\ form'.pc = "user" /\ form'.sid = form.sid /\ shown = None /\ shown' = None /\ stored.user = None
    BY <1>1, <1>7, AfterFacts DEF login, Written, SoFar, NotShown
  <2>2. Whole' /\ Gone' /\ SoFar'
    BY <1>2, <1>4, <2>1 DEF Whole, Gone, SoFar
  <2>3. NotShown'
    BY <1>1, <1>7, <2>1 DEF NotShown, Live, NewSession, Writing
  <2>4. OneAccount'
    BY <2>1, AgreeFacts DEF OneAccount, Agree
  <2>5. KeyOfUser'
    BY <1>1, <1>5, <2>1 DEF KeyOfUser
  <2> QED
    BY <2>2, <2>3, <2>4, <2>5
<1>8. CASE form.pc = "user"
  <2>1. /\ stored'.access = form.sid /\ stored'.refresh = form.sid /\ stored'.user = Owner[form.sid]
        /\ stored.access = form.sid
        /\ form'.pc = "key" /\ form'.sid = form.sid /\ shown' = Owner[form.sid]
    BY <1>1, <1>8, AfterFacts DEF login, Written, SoFar
  <2>2. Whole' /\ Gone' /\ SoFar'
    BY <1>2, <1>4, <2>1 DEF Whole, Gone, SoFar
  <2>3. NotShown'
    BY <1>2, <2>1 DEF NotShown
  <2>4. OneAccount'
    BY <1>3, <2>1, AgreeFacts DEF OneAccount, Agree, Whose
  <2>5. Agree(Owner[form.sid], stored.user)
    BY <1>3, <1>8, <2>1 DEF OneAccount
  <2>6. KeyOfUser'
    BY <1>1, <1>2, <1>5, <2>1, <2>5 DEF KeyOfUser, Agree
  <2> QED
    BY <2>2, <2>3, <2>4, <2>6
<1> QED
  BY <1>1, <1>6, <1>7, <1>8 DEF Writing

LEMMA KeyMatch ==
    ASSUME MInv, Observe, ~past.mixed, bootstrapKeyOnLogin
    PROVE  Match'
<1> USE DEF MInv, UInv, Match
<1>1. UNCHANGED <<server, stored, shown, fetch, flight, cold>> /\ form.pc = "key" /\ form'.pc = "idle"
  BY DEF bootstrapKeyOnLogin, Quiet
<1>2. \/ dek' = dek
      \/ stored.access \in open /\ dek' = Owner[stored.access]
  BY DEF bootstrapKeyOnLogin
<1>3. stored.access \in open => stored.user = Owner[stored.access]
  <2>1. stored.access \in open => /\ stored.access # None /\ Owner[stored.access] # None
                                  /\ Whose(stored.access) = Owner[stored.access]
    BY NoneFacts, AgreeFacts DEF TInv, TypeOK
  <2>2. stored.access \in open => stored.user # None
    BY <1>1, <2>1, AgreeFacts DEF SoFar
  <2> QED
    BY <1>1, <2>1, <2>2 DEF OneAccount, Agree
<1>4. Whole' /\ OneAccount' /\ SoFar'
  BY <1>1 DEF Whole, OneAccount, SoFar, Whose
<1>5. NotShown'
  BY <1>1 DEF NotShown, Live
<1>6. Gone'
  BY <1>1, Unmixed DEF Gone
<1>7. KeyOfUser'
  BY <1>1, <1>2, <1>3, Unmixed DEF KeyOfUser
<1> QED
  BY <1>4, <1>5, <1>6, <1>7

LEMMA LogoutMatch ==
    ASSUME MInv, UInv', Observe, ~past.mixed, ~Cleared, logout \/ LogoutAnswered \/ LogoutEnds
    PROVE  Match'
<1> USE DEF MInv, UInv, Match
<1>1. ASSUME stored' = Empty, form'.pc = "leave"
      PROVE  Match'
  BY <1>1, EmptyMatch DEF SoFar, KeyOfUser
<1>2. CASE logout
  <2>1. CASE stored.refresh = None
    BY <1>1, <1>2, <2>1 DEF logout, clearAll
  <2>2. CASE stored.refresh # None
    <3>1. UNCHANGED <<stored, shown, dek, fetch, flight, cold>> /\ form.pc = "idle" /\ form'.pc = "ask"
      BY <1>2, <2>2 DEF logout
    <3>2. Whole' /\ OneAccount' /\ SoFar'
      BY <3>1 DEF Whole, OneAccount, SoFar, Whose
    <3>3. NotShown'
      BY <3>1 DEF NotShown, Live
    <3>4. Gone' /\ KeyOfUser'
      BY <3>1, Unmixed DEF Gone, KeyOfUser
    <3> QED
      BY <3>2, <3>3, <3>4
  <2> QED
    BY <2>1, <2>2
<1>3. CASE LogoutAnswered
  <2>1. CASE form' = Quiet
    <3>1. SoFar' /\ stored' = Empty /\ form.pc = "ask"
      BY <1>3, <2>1 DEF LogoutAnswered, SoFar, Quiet, clearAll
    <3>2. KeyOfUser'
      BY <1>3, <2>1, <3>1, Unmixed DEF KeyOfUser
    <3> QED
      BY <3>1, <3>2, EmptyMatch
  <2>2. CASE form' # Quiet
    BY <1>1, <1>3, <2>2, AfterFacts DEF LogoutAnswered, clearAll
  <2> QED
    BY <2>1, <2>2
<1>4. CASE LogoutEnds
  <2>1. stored' = Empty /\ form' = Quiet /\ dek' = None
    BY <1>4 DEF LogoutEnds, Gone, clearKeyOnLogout
  <2> QED
    BY <2>1, EmptyMatch DEF SoFar, KeyOfUser, Quiet
<1> QED
  BY <1>2, <1>3, <1>4

-------------------------------------------------------------------------------
(* The invariant, and what follows from it *)

LEMMA InitMInv ==
    ASSUME PInit
    PROVE  MInv
<1>1. TInv
  BY InitTInv
<1>2. NewSession
  BY DEF PInit, Init, NewSession, Writing, Quiet
<1>3. stored = Empty /\ shown = None /\ dek = None /\ form = Quiet /\ flight = Quiet /\ cold = Started
  BY DEF PInit, Init
<1>4. Whole /\ NotShown /\ SoFar /\ Gone /\ KeyOfUser
  BY <1>3, AgreeFacts, <1>1 DEF Whole, NotShown, SoFar, Gone, KeyOfUser, Quiet, Started, Live
<1>5. OneAccount
  BY <1>1, <1>3, AgreeFacts DEF OneAccount, Agree
<1> QED
  BY <1>1, <1>2, <1>4, <1>5 DEF MInv, UInv, Match

LEMMA NextMInv ==
    ASSUME MInv, [Next /\ Observe]_pvars
    PROVE  MInv'
<1>1. CASE UNCHANGED pvars
  BY <1>1 DEF pvars, vars, server, MInv, UInv, TInv, TypeOK, Held, NewSession, Writing, Match, Whole,
              NotShown, OneAccount, SoFar, Gone, KeyOfUser, Live, Given, Whose
<1>2. CASE Next /\ Observe
  <2>1. UInv'
    BY <1>2, NextTInv, NextNewSession DEF MInv, UInv
  <2>2. SUFFICES ASSUME ~past'.mixed
                 PROVE  Match'
    BY <2>1 DEF MInv
  <2>3. TInv
    BY DEF MInv, UInv
  <2>4. CASE Cleared
    BY <1>2, <2>1, <2>2, <2>3, <2>4, ObserveFacts, ClearedMatch DEF MInv
  <2>5. CASE ~Cleared
    <3>1. ~past.mixed /\ ~Mixes
      BY <1>2, <2>2, <2>3, <2>5, ObserveFacts
    <3>2. ASSUME NEW f \in Fetchers, fetchApi(f) \/ FetchStep(f)
          PROVE  Match'
      BY <1>2, <2>3, <3>1, <3>2, FetchFacts, CallMatch
    <3>3. CASE Refreshing
      <4>1. CASE stored' = stored
        BY <1>2, <2>3, <3>1, <3>3, <4>1, RefreshFacts, CallMatch
      <4>2. CASE stored' # stored
        BY <1>2, <2>3, <3>1, <3>3, <4>2, RefreshFacts, RefreshMatch DEF Mixes
      <4> QED
        BY <4>1, <4>2
    <3>4. CASE CloseElsewhere
      BY <1>2, <3>1, <3>4, CallMatch DEF CloseElsewhere
    <3> QED
      BY <1>2, <2>1, <2>2, <2>5, <3>1, <3>2, <3>3, <3>4, RestartMatch, InitAuthMatch,
         RefreshAuthMatch, LoginAnsweredMatch, LoginMatch, KeyMatch, LogoutMatch DEF Next, Signing
  <2> QED
    BY <2>4, <2>5
<1> QED
  BY <1>1, <1>2

\* Until something mixes them, what is stored and shown is of one account, but
\* between the writes of a login.
THEOREM MatchHolds == PSpec => []MInv
  BY InitMInv, NextMInv, PTL DEF PSpec

\* The stored tokens are of one account, the one that is shown, and a logout
\* leaves none: in every behaviour, unless one of the three accidents happens
\* that `mixed' counts.
THEOREM TokensOfOneAccount == PSpec => []TokensMatch
<1>1. MInv => TokensMatch
  <2>1. SUFFICES ASSUME MInv, form.pc = "idle", ~past.mixed
                 PROVE  /\ Agree(Whose(stored.access), shown)
                        /\ Agree(Whose(stored.access), Whose(stored.refresh))
                        /\ past.signedOut => stored = Empty
    BY DEF TokensMatch
  <2> QED
    BY <2>1 DEF MInv, Match, OneAccount, Gone
<1> QED
  BY <1>1, MatchHolds, PTL

\* No key of another account is left in the keystore of who is signed in,
\* unless that account's sign-out was cut short.
THEOREM KeyOfWhoIsShown == PSpec => []KeyIsOwn
<1>1. MInv => KeyIsOwn
  <2>1. SUFFICES ASSUME MInv, form.pc = "idle", ~past.mixed, ~past.left
                 PROVE  Agree(dek, shown)
    BY DEF KeyIsOwn
  <2> QED
    BY <2>1 DEF MInv, Match, OneAccount, KeyOfUser, Agree
<1> QED
  BY <1>1, MatchHolds, PTL

\* A step that leaves no refresh token of a session that is still open.
LEMMA TokensDropped ==
    ASSUME TInv, [Next /\ Observe]_pvars, stored.refresh \in open, stored'.refresh = None
    PROVE  form.pc = "ask" \/ cold.sid # stored.refresh
<1>1. stored.refresh # None /\ stored' # stored
  BY NoneFacts DEF TInv, TypeOK
<1>2. \A s \in Given : \A pc : Written(pc, s).refresh # None
  BY <1>1, NoneFacts DEF Written, TInv, TypeOK, Given
<1>3. Next
  BY <1>1 DEF pvars, vars
<1>4. ~\E f \in Fetchers : fetchApi(f) \/ FetchStep(f)
  BY <1>1, FetchFacts
<1>5. ~Refreshing
  BY <1>1, <1>2, RefreshFacts DEF TInv, Held
<1>6. ~(Restart \/ LoginAnswered \/ bootstrapKeyOnLogin \/ LogoutEnds \/ CloseElsewhere)
  BY <1>1 DEF Restart, LoginAnswered, bootstrapKeyOnLogin, LogoutEnds, CloseElsewhere
<1>7. ~initAuth /\ ~login /\ ~logout
  BY <1>1, <1>2 DEF initAuth, login, logout, TInv, Held, Live
<1>8. CASE refreshAuth
  BY <1>1, <1>2, <1>8 DEF refreshAuth, Refused, TInv, Held, Live
<1>9. CASE LogoutAnswered
  BY <1>9 DEF LogoutAnswered
<1> QED
  BY <1>3, <1>4, <1>5, <1>6, <1>7, <1>8, <1>9 DEF Next, Signing

\* Tokens the server would still honour go only with a logout or with the
\* refusal of another session's: no refresh that fails, no restart, drops them.
THEOREM NoLiveTokenLost == PSpec => LiveTokensKept
<1>1. /\ MInv
      /\ [Next /\ Observe]_pvars
      => [stored.refresh \in open /\ stored'.refresh = None =>
              form.pc = "ask" \/ cold.sid # stored.refresh]_vars
  BY TokensDropped DEF MInv, UInv
<1> QED
  BY <1>1, MatchHolds, PTL DEF PSpec, LiveTokensKept

===============================================================================
