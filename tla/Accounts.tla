-------------------------------- MODULE Accounts --------------------------------
(***************************************************************************)
(* The accounts of one email address on the server (backend/auth/service): *)
(* signup, verification, login with its lockout, password reset and change,*)
(* sessions.  Requests overlap: a step is one database call with the code  *)
(* up to the next one, and a handler goes by the row it read first.  What  *)
(* a request makes, a row or a session, is named by the request's number,  *)
(* which no other request has; times are naturals.                         *)
(***************************************************************************)
EXTENDS Naturals, FiniteSets

CONSTANTS
    Requests,     \* requests that may be in progress at once
    Passwords,
    MAX_FAILED,   \* MAX_FAILED_ATTEMPTS
    LOCKOUT,      \* LOCKOUT_DURATION_MINUTES
    LINK,         \* life of a verification or reset link
    MaxClock,     \* bound: the clock stops here
    MaxRequests   \* bound: how many requests are ever made

ASSUME SomePassword == Passwords # {}
ASSUME NumbersAreNat == {MAX_FAILED, LOCKOUT, LINK, MaxClock, MaxRequests} \subseteq Nat
ASSUME SomeRequest == MaxRequests # 0
ASSUME SomeFailure == MAX_FAILED # 0

VARIABLES
    clock,
    user,      \* the users row of the address, NoUser if there is none
    sessions,  \* the sessions collection, with the password each was opened with
    req,       \* per request, the handler's position, its number and what it read
    made       \* how many requests were made

vars == <<clock, user, sessions, req, made>>

-------------------------------------------------------------------------------
(* Data *)

Users     == [id : Nat, password : Passwords, verified : BOOLEAN, vexpiry : Nat, rexpiry : Nat,
              failed : Nat, locked : Nat]
Nobody    == CHOOSE p \in Passwords : TRUE
NoUser    == [id |-> 0, password |-> Nobody, verified |-> FALSE, vexpiry |-> 0, rexpiry |-> 0,
              failed |-> 0, locked |-> 0]
Session   == [id : Nat, user : Nat, word : Passwords]
Positions == {"idle", "login", "open", "replace", "signup", "discard", "resend", "verify",
              "forgot", "reset", "revoke", "change"}
Request   == [pc : Positions, n : Nat, row : Users, word : Passwords]
Idle      == [pc |-> "idle", n |-> 0, row |-> NoUser, word |-> Nobody]

Exists == user.id # 0
Locked == user.locked > clock

create_user_doc(id, word) ==
    [NoUser EXCEPT !.id = id, !.password = word, !.vexpiry = clock + LINK]

\* An account verified long ago, one just signed up, or none.
Init ==
    /\ clock = 1
    /\ user \in {NoUser} \cup {[create_user_doc(1, p) EXCEPT !.verified = v] :
                                   p \in Passwords, v \in BOOLEAN}
    /\ sessions = {}
    /\ req = [r \in Requests |-> Idle]
    /\ made = 1

-------------------------------------------------------------------------------
(* Steps of a handler *)

\* The first call of a handler: it keeps the row it found.
Arrive(r, pc, word) ==
    /\ req[r].pc = "idle" /\ made < MaxRequests
    /\ made' = made + 1
    /\ req' = [req EXCEPT ![r] = [pc |-> pc, n |-> made + 1, row |-> user, word |-> word]]
    /\ UNCHANGED <<clock, user, sessions>>

\* A later call: what it writes to the users row and to the sessions.
Step(r, pc, row, ss) ==
    /\ req[r].pc = pc
    /\ user' = row
    /\ sessions' = ss
    /\ UNCHANGED <<clock, made>>

Goto(r, pc) == req' = [req EXCEPT ![r].pc = pc]
Done(r)     == req' = [req EXCEPT ![r] = Idle]

\* update_one by the email: it matches whatever row has the address now.
ByEmail(row) == IF Exists THEN row ELSE user

-------------------------------------------------------------------------------
(* login *)

LoginFinds(r) == \E p \in Passwords : Exists /\ ~Locked /\ Arrive(r, "login", p)

RightWord(r) == req[r].word = req[r].row.password

\* Mistake: the lock comes one failure late.
LockLate(failed) == IF failed > MAX_FAILED THEN clock + LOCKOUT ELSE user.locked

LockAfter(failed) == IF failed >= MAX_FAILED THEN clock + LOCKOUT ELSE user.locked

\* A wrong password: the count of the row that was read, plus one.
LoginFails(r) ==
    LET failed == req[r].row.failed + 1 IN
    /\ ~RightWord(r)
    /\ Step(r, "login", ByEmail([user EXCEPT !.failed = failed, !.locked = LockAfter(failed)]), sessions)
    /\ Done(r)

\* Mistake: an address that was never verified logs in.
AnyMayLogIn(row) == TRUE

MayLogIn(row) == row.verified

LoginUnverified(r) ==
    /\ RightWord(r) /\ ~MayLogIn(req[r].row)
    /\ Step(r, "login", user, sessions)
    /\ Done(r)

LoginSucceeds(r) ==
    /\ RightWord(r) /\ MayLogIn(req[r].row)
    /\ Step(r, "login", ByEmail([user EXCEPT !.failed = 0, !.locked = 0]), sessions)
    /\ Goto(r, "open")

\* Mistake: a user has one session id for good.
OneIdPerUser(r) == req[r].row.id

SessionId(r) == req[r].n

LoginOpens(r) ==
    /\ Step(r, "open", user,
            sessions \cup {[id |-> SessionId(r), user |-> req[r].row.id, word |-> req[r].word]})
    /\ Done(r)

-------------------------------------------------------------------------------
(* signup, delete_unverified_account, resend_verification, verify_email *)

SignupFinds(r) ==
    \E p \in Passwords :
        \/ ~Exists /\ Arrive(r, "signup", p)
        \/ Exists /\ ~user.verified /\ user.vexpiry < clock /\ Arrive(r, "replace", p)

\* delete_one by the email, of the row found or of the one that took its place.
SignupReplaces(r) == Step(r, "replace", NoUser, sessions) /\ Goto(r, "signup")

\* The unique index on the email refuses a second row.
SignupInserts(r) ==
    /\ Step(r, "signup", IF Exists THEN user ELSE create_user_doc(req[r].n, req[r].word), sessions)
    /\ Done(r)

DiscardFinds(r) == Exists /\ ~user.verified /\ Arrive(r, "discard", Nobody)

delete_unverified_account(r) == Step(r, "discard", NoUser, sessions) /\ Done(r)

ResendFinds(r) == Exists /\ ~user.verified /\ Arrive(r, "resend", Nobody)

resend_verification(r) ==
    Step(r, "resend", ByEmail([user EXCEPT !.vexpiry = clock + LINK]), sessions) /\ Done(r)

\* Somebody opens the last link that was mailed; older ones are found nowhere.
VerifyFinds(r) ==
    /\ Exists /\ ~user.verified /\ ~(user.vexpiry < clock)
    /\ Arrive(r, "verify", Nobody)

verify_email(r) ==
    Step(r, "verify", ByEmail([user EXCEPT !.verified = TRUE]), sessions) /\ Done(r)

-------------------------------------------------------------------------------
(* forgot_password, reset_password, change_password, logout, refresh *)

ForgotFinds(r) == Exists /\ Arrive(r, "forgot", Nobody)

forgot_password(r) ==
    Step(r, "forgot", ByEmail([user EXCEPT !.rexpiry = clock + LINK]), sessions) /\ Done(r)

\* The link is gone once it was used (rexpiry 0); the new password is any.
ResetFinds(r) ==
    \E p \in Passwords : user.rexpiry # 0 /\ ~(user.rexpiry < clock) /\ Arrive(r, "reset", p)

reset_password(r) ==
    /\ Step(r, "reset", ByEmail([user EXCEPT !.password = req[r].word, !.rexpiry = 0]), sessions)
    /\ Goto(r, "revoke")

\* Mistake: the sessions are left alone.
RevokeNone(r) == {}

Revoked(r) == {s \in sessions : s.user = req[r].row.id}

ResetRevokes(r) == Step(r, "revoke", user, sessions \ Revoked(r)) /\ Done(r)

\* Needs a session and the current password; the sessions stay.
ChangeFinds(r) ==
    \E p \in Passwords : Exists /\ (\E s \in sessions : s.user = user.id) /\ Arrive(r, "change", p)

change_password(r) ==
    /\ Step(r, "change", IF user.id = req[r].row.id THEN [user EXCEPT !.password = req[r].word]
                                                    ELSE user, sessions)
    /\ Done(r)

\* A logout, a refresh that finds the session expired, or the TTL index.
CloseSession ==
    /\ \E s \in sessions : sessions' = sessions \ {s}
    /\ UNCHANGED <<clock, user, req, made>>

Pass ==
    /\ clock < MaxClock
    /\ clock' = clock + 1
    /\ UNCHANGED <<user, sessions, req, made>>

Handle(r) ==
    \/ LoginFinds(r) \/ LoginFails(r) \/ LoginUnverified(r) \/ LoginSucceeds(r) \/ LoginOpens(r)
    \/ SignupFinds(r) \/ SignupReplaces(r) \/ SignupInserts(r)
    \/ DiscardFinds(r) \/ delete_unverified_account(r)
    \/ ResendFinds(r) \/ resend_verification(r) \/ VerifyFinds(r) \/ verify_email(r)
    \/ ForgotFinds(r) \/ forgot_password(r) \/ ResetFinds(r) \/ reset_password(r)
    \/ ResetRevokes(r) \/ ChangeFinds(r) \/ change_password(r)

Next == (\E r \in Requests : Handle(r)) \/ CloseSession \/ Pass

Spec == Init /\ [][Next]_vars

-------------------------------------------------------------------------------
(* Properties *)

\* The values the state can have.
TypeOK ==
    /\ clock \in Nat
    /\ user \in Users
    /\ sessions \in SUBSET Session
    /\ req \in [Requests -> Request]
    /\ made \in Nat

\* The numbers of requests that are over and left no session, or one that is
\* closed by now: no session will ever have them.
OpenIds == {s.id : s \in sessions}
Retired == {n \in 1..made : n \notin OpenIds /\ \A r \in Requests : req[r].n # n}

Promise == INSTANCE Sessions WITH SessionIds <- 1..MaxRequests, open <- OpenIds, closed <- Retired

\* A session has an id of its own and one that was closed, by whatever request
\* in whatever order, is never honoured again.
SessionsPromise == Promise!Spec
===============================================================================
