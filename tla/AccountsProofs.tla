---------------------------- MODULE AccountsProofs ----------------------------
(***************************************************************************)
(* Accounts, proved for any number of requests, any passwords and every    *)
(* limit and bound: its types, that it implements Sessions, and the        *)
(* properties of AccountsProps.                                            *)
(***************************************************************************)
EXTENDS AccountsProps, TLAPS

-------------------------------------------------------------------------------
(* The shapes of a step: what the handlers do to what the promise is about *)

\* A request arrives and takes the next number.
Arrives(r, q) ==
    /\ req[r].pc = "idle" /\ made < MaxRequests
    /\ made' = made + 1 /\ q \in Request /\ q.n = made + 1 /\ q.pc # "idle"
    /\ req' = [req EXCEPT ![r] = q]
    /\ UNCHANGED sessions

\* A handler goes on to its next call.
Moves(r, pc) ==
    /\ req[r].pc # "idle" /\ pc \in Positions \ {"idle"}
    /\ req' = [req EXCEPT ![r].pc = pc]
    /\ UNCHANGED <<made, sessions>>

\* A handler ends, and closes sessions or not.
Ends(r) ==
    /\ req' = [req EXCEPT ![r] = Idle]
    /\ sessions' \subseteq sessions
    /\ UNCHANGED made

\* Sessions are closed or nothing happens to them.
Closes ==
    /\ sessions' \subseteq sessions
    /\ UNCHANGED <<made, req>>

Shape ==
    \/ \E r \in Requests : \E q \in Request : Arrives(r, q)
    \/ \E r \in Requests : \E pc \in Positions : Moves(r, pc)
    \/ \E r \in Requests : Ends(r)
    \/ \E r \in Requests : LoginOpens(r)
    \/ Closes

\* What all steps keep of the time and the users row.
RowTypes == clock' \in Nat /\ user' \in Users

-------------------------------------------------------------------------------
(* The operators keep the types *)

LEMMA Numbers ==
    /\ MAX_FAILED \in Nat /\ LOCKOUT \in Nat /\ LINK \in Nat /\ MaxClock \in Nat
    /\ MaxRequests \in Nat /\ MaxRequests >= 1
  BY NumbersAreNat, SomeRequest

LEMMA RestTypes == Nobody \in Passwords /\ NoUser \in Users /\ Idle \in Request
<1>1. Nobody \in Passwords
  BY SomePassword DEF Nobody
<1>2. NoUser \in Users
  BY <1>1 DEF NoUser, Users
<1>3. "idle" \in Positions
  BY DEF Positions
<1> QED
  BY <1>1, <1>2, <1>3 DEF Idle, Request

LEMMA DocType ==
    ASSUME clock \in Nat, NEW id \in Nat, NEW word \in Passwords
    PROVE  create_user_doc(id, word) \in Users
<1>1. clock + LINK \in Nat
  BY Numbers
<1>2. \A u \in Users, e \in Nat : [u EXCEPT !.id = id, !.password = word, !.vexpiry = e] \in Users
  BY DEF Users
<1> QED
  BY <1>1, <1>2, RestTypes DEF create_user_doc

LEMMA ReadType ==
    ASSUME TypeOK, NEW r \in Requests
    PROVE  /\ req[r] \in Request /\ req[r].n \in Nat /\ req[r].word \in Passwords
           /\ req[r].row \in Users /\ req[r].row.id \in Nat /\ req[r].row.failed \in Nat
<1>1. req[r] \in Request
  BY DEF TypeOK
<1>2. req[r].row \in Users
  BY <1>1 DEF Request
<1> QED
  BY <1>1, <1>2 DEF Request, Users

-------------------------------------------------------------------------------
(* Every step has a shape *)

LEMMA ArriveShape ==
    ASSUME TypeOK, NEW r \in Requests, NEW pc \in Positions \ {"idle"}, NEW word \in Passwords,
           Arrive(r, pc, word)
    PROVE  Shape /\ RowTypes
<1> DEFINE q == [pc |-> pc, n |-> made + 1, row |-> user, word |-> word]
<1>1. q \in Request /\ q.n = made + 1 /\ q.pc # "idle"
  BY DEF TypeOK, Request
<1>2. Arrives(r, q)
  BY <1>1 DEF Arrive, Arrives
<1> QED
  BY <1>1, <1>2 DEF Shape, RowTypes, Arrive, TypeOK

\* A later call that ends the handler, or goes on.
LEMMA EndShape ==
    ASSUME TypeOK, NEW r \in Requests, NEW pc, NEW row \in Users, NEW ss \in SUBSET sessions,
           Step(r, pc, row, ss), Done(r)
    PROVE  Shape /\ RowTypes
<1>1. Ends(r)
  BY DEF Step, Done, Ends
<1> QED
  BY <1>1 DEF Shape, RowTypes, Step, TypeOK

LEMMA MoveShape ==
    ASSUME TypeOK, NEW r \in Requests, NEW pc \in Positions \ {"idle"}, NEW row \in Users,
           NEW next \in Positions \ {"idle"}, Step(r, pc, row, sessions), Goto(r, next)
    PROVE  Shape /\ RowTypes
<1>1. Moves(r, next)
  BY DEF Step, Goto, Moves
<1> QED
  BY <1>1 DEF Shape, RowTypes, Step, TypeOK

LEMMA ByEmailType ==
    ASSUME TypeOK, NEW row \in Users
    PROVE  ByEmail(row) \in Users
  BY DEF TypeOK, ByEmail

LEMMA LoginShapes ==
    ASSUME TypeOK, NEW r \in Requests,
           LoginFinds(r) \/ LoginFails(r) \/ LoginUnverified(r) \/ LoginSucceeds(r) \/ LoginOpens(r)
    PROVE  Shape /\ RowTypes
<1>1. CASE LoginFinds(r)
  <2>1. PICK p \in Passwords : Arrive(r, "login", p)
    BY <1>1 DEF LoginFinds
  <2> QED
    BY <2>1, ArriveShape DEF Positions
<1>2. CASE LoginFails(r)
  <2> DEFINE failed == req[r].row.failed + 1
             row    == [user EXCEPT !.failed = failed, !.locked = LockAfter(failed)]
  <2>1. failed \in Nat
    BY ReadType
  <2>2. LockAfter(failed) \in Nat
    BY <2>1, Numbers DEF LockAfter, TypeOK, Users
  <2>3. row \in Users
    <3> HIDE DEF failed
    <3> QED  BY <2>1, <2>2 DEF TypeOK, Users
  <2>4. ByEmail(row) \in Users
    <3> HIDE DEF row
    <3> QED  BY <2>3, ByEmailType
  <2>5. Step(r, "login", ByEmail(row), sessions) /\ Done(r)
    BY <1>2 DEF LoginFails
  <2> QED
    <3> HIDE DEF row
    <3> QED  BY <2>4, <2>5, EndShape
<1>3. CASE LoginUnverified(r)
  BY <1>3, EndShape DEF LoginUnverified, TypeOK
<1>4. CASE LoginSucceeds(r)
  <2> DEFINE row == [user EXCEPT !.failed = 0, !.locked = 0]
  <2>1. row \in Users
    BY DEF TypeOK, Users
  <2>2. ByEmail(row) \in Users
    BY <2>1, ByEmailType
  <2>3. Step(r, "login", ByEmail(row), sessions) /\ Goto(r, "open")
    BY <1>4 DEF LoginSucceeds
  <2> QED
    <3> HIDE DEF row
    <3> QED  BY <2>2, <2>3, MoveShape DEF Positions
<1>5. CASE LoginOpens(r)
  BY <1>5 DEF LoginOpens, Shape, RowTypes, Step, TypeOK
<1> QED
  BY <1>1, <1>2, <1>3, <1>4, <1>5

LEMMA SignupShapes ==
    ASSUME TypeOK, NEW r \in Requests,
           \/ SignupFinds(r) \/ SignupReplaces(r) \/ SignupInserts(r)
           \/ DiscardFinds(r) \/ delete_unverified_account(r)
           \/ ResendFinds(r) \/ resend_verification(r) \/ VerifyFinds(r) \/ verify_email(r)
    PROVE  Shape /\ RowTypes
<1> USE RestTypes
<1>1. CASE SignupFinds(r)
  <2>1. PICK p \in Passwords : Arrive(r, "signup", p) \/ Arrive(r, "replace", p)
    BY <1>1 DEF SignupFinds
  <2> QED
    BY <2>1, ArriveShape DEF Positions
<1>2. CASE SignupReplaces(r)
  BY <1>2, MoveShape DEF SignupReplaces, Positions
<1>3. CASE SignupInserts(r)
  <2> DEFINE row == IF Exists THEN user ELSE create_user_doc(req[r].n, req[r].word)
  <2>1. row \in Users
    BY ReadType, DocType DEF TypeOK
  <2>2. Step(r, "signup", row, sessions) /\ Done(r)
    BY <1>3 DEF SignupInserts
  <2> QED
    <3> HIDE DEF row
    <3> QED  BY <2>1, <2>2, EndShape
<1>4. CASE DiscardFinds(r)
  BY <1>4, ArriveShape DEF DiscardFinds, Positions
<1>5. CASE delete_unverified_account(r)
  BY <1>5, EndShape DEF delete_unverified_account
<1>6. CASE ResendFinds(r)
  BY <1>6, ArriveShape DEF ResendFinds, Positions
<1>7. CASE resend_verification(r)
  <2> DEFINE row == [user EXCEPT !.vexpiry = clock + LINK]
  <2>1. row \in Users
    BY Numbers DEF TypeOK, Users
  <2>2. ByEmail(row) \in Users
    BY <2>1, ByEmailType
  <2>3. Step(r, "resend", ByEmail(row), sessions) /\ Done(r)
    BY <1>7 DEF resend_verification
  <2> QED
    <3> HIDE DEF row
    <3> QED  BY <2>2, <2>3, EndShape
<1>8. CASE VerifyFinds(r)
  BY <1>8, ArriveShape DEF VerifyFinds, Positions
<1>9. CASE verify_email(r)
  <2> DEFINE row == [user EXCEPT !.verified = TRUE]
  <2>1. row \in Users
    BY DEF TypeOK, Users
  <2>2. ByEmail(row) \in Users
    BY <2>1, ByEmailType
  <2>3. Step(r, "verify", ByEmail(row), sessions) /\ Done(r)
    BY <1>9 DEF verify_email
  <2> QED
    <3> HIDE DEF row
    <3> QED  BY <2>2, <2>3, EndShape
<1> QED
  BY <1>1, <1>2, <1>3, <1>4, <1>5, <1>6, <1>7, <1>8, <1>9

LEMMA PasswordShapes ==
    ASSUME TypeOK, NEW r \in Requests,
           \/ ForgotFinds(r) \/ forgot_password(r) \/ ResetFinds(r) \/ reset_password(r)
           \/ ResetRevokes(r) \/ ChangeFinds(r) \/ change_password(r)
    PROVE  Shape /\ RowTypes
<1> USE RestTypes
<1>1. CASE ForgotFinds(r)
  BY <1>1, ArriveShape DEF ForgotFinds, Positions
<1>2. CASE forgot_password(r)
  <2> DEFINE row == [user EXCEPT !.rexpiry = clock + LINK]
  <2>1. row \in Users
    BY Numbers DEF TypeOK, Users
  <2>2. ByEmail(row) \in Users
    BY <2>1, ByEmailType
  <2>3. Step(r, "forgot", ByEmail(row), sessions) /\ Done(r)
    BY <1>2 DEF forgot_password
  <2> QED
    <3> HIDE DEF row
    <3> QED  BY <2>2, <2>3, EndShape
<1>3. CASE ResetFinds(r)
  <2>1. PICK p \in Passwords : Arrive(r, "reset", p)
    BY <1>3 DEF ResetFinds
  <2> QED
    BY <2>1, ArriveShape DEF Positions
<1>4. CASE reset_password(r)
  <2> DEFINE row == [user EXCEPT !.password = req[r].word, !.rexpiry = 0]
  <2>1. row \in Users
    BY ReadType DEF TypeOK, Users
  <2>2. ByEmail(row) \in Users
    BY <2>1, ByEmailType
  <2>3. Step(r, "reset", ByEmail(row), sessions) /\ Goto(r, "revoke")
    BY <1>4 DEF reset_password
  <2> QED
    <3> HIDE DEF row
    <3> QED  BY <2>2, <2>3, MoveShape DEF Positions
<1>5. CASE ResetRevokes(r)
  <2>1. sessions \ Revoked(r) \in SUBSET sessions
    OBVIOUS
  <2> QED
    BY <1>5, <2>1, EndShape DEF ResetRevokes, TypeOK
<1>6. CASE ChangeFinds(r)
  <2>1. PICK p \in Passwords : Arrive(r, "change", p)
    BY <1>6 DEF ChangeFinds
  <2> QED
    BY <2>1, ArriveShape DEF Positions
<1>7. CASE change_password(r)
  <2> DEFINE row == IF user.id = req[r].row.id THEN [user EXCEPT !.password = req[r].word] ELSE user
  <2>1. row \in Users
    BY ReadType DEF TypeOK, Users
  <2>2. Step(r, "change", row, sessions) /\ Done(r)
    BY <1>7 DEF change_password
  <2> QED
    <3> HIDE DEF row
    <3> QED  BY <2>1, <2>2, EndShape
<1> QED
  BY <1>1, <1>2, <1>3, <1>4, <1>5, <1>6, <1>7

LEMMA NextHasShape ==
    ASSUME TypeOK, [Next]_vars
    PROVE  Shape /\ RowTypes
<1>1. CASE \E r \in Requests : Handle(r)
  <2>1. PICK r \in Requests : Handle(r)
    BY <1>1
  <2> QED
    BY <2>1, LoginShapes, SignupShapes, PasswordShapes DEF Handle
<1>2. CASE CloseSession
  <2>1. sessions' \subseteq sessions
    BY <1>2 DEF CloseSession
  <2> QED
    BY <1>2, <2>1 DEF CloseSession, Shape, Closes, RowTypes, TypeOK
<1>3. CASE Pass
  BY <1>3 DEF Pass, Shape, Closes, RowTypes, TypeOK
<1>4. CASE UNCHANGED vars
  BY <1>4 DEF vars, Shape, Closes, RowTypes, TypeOK
<1> QED
  BY <1>1, <1>2, <1>3, <1>4 DEF Next

-------------------------------------------------------------------------------
(* The numbers: what is typed, and who has which number *)

\* The numbers given out are those of the requests, each its own, and of the
\* sessions, none of which a request in progress will use.
Numbered ==
    /\ made \in 1..MaxRequests
    /\ \A r \in Requests : req[r].n <= made /\ (req[r].pc = "idle" <=> req[r].n = 0)
    /\ \A q, r \in Requests : q # r /\ req[q].n # 0 => req[q].n # req[r].n
    /\ \A s \in sessions : s.id \in 1..made
    /\ \A s \in sessions : \A r \in Requests : s.id # req[r].n

IInv == TypeOK /\ Numbered

LEMMA InitIInv ==
    ASSUME Init
    PROVE  IInv
<1>1. TypeOK
  <2>1. \A p \in Passwords, v \in BOOLEAN : [create_user_doc(1, p) EXCEPT !.verified = v] \in Users
    <3> TAKE p \in Passwords, v \in BOOLEAN
    <3>1. clock \in Nat
      BY DEF Init
    <3>2. create_user_doc(1, p) \in Users
      BY <3>1, DocType
    <3> QED
      BY <3>2 DEF Users
  <2>2. user \in Users
    BY <2>1, RestTypes DEF Init
  <2> QED
    BY <2>2, RestTypes DEF Init, TypeOK
<1>2. Numbered
  BY Numbers DEF Init, Numbered, Idle
<1> QED
  BY <1>1, <1>2 DEF IInv

\* What a step does to the numbers of the requests: they stay, go, or one is new.
LEMMA ArrivesIInv ==
    ASSUME IInv, RowTypes, NEW r \in Requests, NEW q \in Request, Arrives(r, q)
    PROVE  IInv'
<1> USE DEF IInv
<1>1. req' \in [Requests -> Request] /\ req'[r] = q /\ \A o \in Requests \ {r} : req'[o] = req[o]
  BY DEF Arrives, TypeOK
<1>2. TypeOK'
  BY <1>1, Numbers DEF Arrives, TypeOK, RowTypes
<1>3. made' \in 1..MaxRequests /\ made' = made + 1
  BY Numbers DEF Numbered, Arrives
<1>4. \A o \in Requests : req[o].n \in Nat /\ req[o].n <= made
  BY DEF Numbered, TypeOK, Request
<1>5. \A o \in Requests : req'[o].n <= made' /\ (req'[o].pc = "idle" <=> req'[o].n = 0)
  BY <1>1, <1>3, <1>4 DEF Numbered, Arrives
<1>6. \A o, p \in Requests : o # p /\ req'[o].n # 0 => req'[o].n # req'[p].n
  BY <1>1, <1>3, <1>4 DEF Numbered, Arrives
<1>7. \A s \in sessions' : s.id \in 1..made'
  BY <1>3 DEF Numbered, Arrives
<1>8. \A s \in sessions' : \A o \in Requests : s.id # req'[o].n
  BY <1>1, <1>3 DEF Numbered, Arrives
<1> QED
  BY <1>2, <1>3, <1>5, <1>6, <1>7, <1>8 DEF Numbered

LEMMA MovesIInv ==
    ASSUME IInv, RowTypes, NEW r \in Requests, NEW pc \in Positions, Moves(r, pc)
    PROVE  IInv' /\ \A o \in Requests : req'[o].n = req[o].n
<1> USE DEF IInv
<1>1. [req[r] EXCEPT !.pc = pc] \in Request
  BY DEF TypeOK, Request
<1>2. req' = [req EXCEPT ![r] = [req[r] EXCEPT !.pc = pc]]
  BY DEF Moves
<1>3. req' \in [Requests -> Request] /\ req'[r] = [req[r] EXCEPT !.pc = pc]
      /\ \A o \in Requests \ {r} : req'[o] = req[o]
  BY <1>1, <1>2 DEF TypeOK
<1>4. req'[r].pc = pc /\ req'[r].n = req[r].n
  BY <1>3 DEF TypeOK, Request
<1>5. \A o \in Requests : req'[o].n = req[o].n
  BY <1>3, <1>4
<1>6. \A o \in Requests : req'[o].pc = "idle" <=> req[o].pc = "idle"
  BY <1>3, <1>4 DEF Moves
<1>7. TypeOK'
  BY <1>3 DEF Moves, TypeOK, RowTypes
<1>8. Numbered'
  BY <1>5, <1>6 DEF Numbered, Moves
<1> QED
  BY <1>5, <1>7, <1>8

LEMMA EndsNumbers ==
    ASSUME IInv, NEW r \in Requests, req' = [req EXCEPT ![r] = Idle]
    PROVE  /\ req' \in [Requests -> Request]
           /\ req'[r].n = 0 /\ req'[r].pc = "idle"
           /\ \A o \in Requests \ {r} : req'[o] = req[o]
<1>1. req'[r] = Idle /\ \A o \in Requests \ {r} : req'[o] = req[o]
  BY DEF IInv, TypeOK
<1>2. Idle.n = 0 /\ Idle.pc = "idle"
  BY DEF Idle
<1> QED
  BY <1>1, <1>2, RestTypes DEF IInv, TypeOK

LEMMA EndsIInv ==
    ASSUME IInv, RowTypes, NEW r \in Requests, Ends(r)
    PROVE  IInv'
<1> USE DEF IInv
<1>1. /\ req' \in [Requests -> Request] /\ req'[r].n = 0 /\ req'[r].pc = "idle"
      /\ \A o \in Requests \ {r} : req'[o] = req[o]
  BY EndsNumbers DEF Ends
<1>2. TypeOK'
  BY <1>1 DEF Ends, TypeOK, RowTypes
<1>3. made' = made /\ made \in 1..MaxRequests
  BY DEF Ends, Numbered
<1>4. \A o \in Requests : req'[o].n <= made' /\ (req'[o].pc = "idle" <=> req'[o].n = 0)
  BY <1>1, <1>3, Numbers DEF Numbered
<1>5. \A o, p \in Requests : o # p /\ req'[o].n # 0 => req'[o].n # req'[p].n
  BY <1>1 DEF Numbered
<1>6. \A s \in sessions' : s.id \in 1..made'
  BY <1>3 DEF Ends, Numbered
<1>7. \A s \in sessions' : \A o \in Requests : s.id # req'[o].n
  BY <1>1, <1>6 DEF Ends, Numbered
<1> QED
  BY <1>2, <1>3, <1>4, <1>5, <1>6, <1>7 DEF Numbered

\* The step that opens a session: its id is the request's number, which the
\* request gives up.
LEMMA OpensFacts ==
    ASSUME IInv, NEW r \in Requests, LoginOpens(r)
    PROVE  /\ req[r].n \in 1..made
           /\ sessions' = sessions \cup {[id |-> req[r].n, user |-> req[r].row.id, word |-> req[r].word]}
           /\ req' = [req EXCEPT ![r] = Idle] /\ made' = made
<1>1. req[r].pc = "open"
  BY DEF LoginOpens, Step
<1>2. req[r].n # 0 /\ req[r].n <= made
  BY <1>1 DEF IInv, Numbered
<1>3. req[r].n \in 1..made
  BY <1>2, ReadType, Numbers DEF IInv, Numbered
<1> QED
  BY <1>3 DEF LoginOpens, Step, Done, SessionId

LEMMA OpensIInv ==
    ASSUME IInv, RowTypes, NEW r \in Requests, LoginOpens(r)
    PROVE  IInv'
<1> USE DEF IInv
<1> DEFINE new == [id |-> req[r].n, user |-> req[r].row.id, word |-> req[r].word]
<1>1. /\ req[r].n \in 1..made /\ sessions' = sessions \cup {new}
      /\ req' = [req EXCEPT ![r] = Idle] /\ made' = made
  BY OpensFacts
<1>2. /\ req' \in [Requests -> Request] /\ req'[r].n = 0 /\ req'[r].pc = "idle"
      /\ \A o \in Requests \ {r} : req'[o] = req[o]
  BY <1>1, EndsNumbers
<1>3. new \in Session /\ new.id = req[r].n
  BY ReadType DEF Session
<1> HIDE DEF new
<1>4. TypeOK'
  BY <1>1, <1>2, <1>3 DEF TypeOK, RowTypes
<1>5. made' \in 1..MaxRequests
  BY <1>1 DEF Numbered
<1>6. \A o \in Requests : req'[o].n <= made' /\ (req'[o].pc = "idle" <=> req'[o].n = 0)
  BY <1>1, <1>2, <1>5, Numbers DEF Numbered
<1>7. \A o, p \in Requests : o # p /\ req'[o].n # 0 => req'[o].n # req'[p].n
  BY <1>2 DEF Numbered
<1>8. \A s \in sessions' : s.id \in 1..made'
  BY <1>1, <1>3 DEF Numbered
<1>9. \A s \in sessions' : \A o \in Requests : s.id # req'[o].n
  <2> TAKE s \in sessions'
  <2> TAKE o \in Requests
  <2>1. CASE s = new
    BY <2>1, <1>1, <1>2, <1>3 DEF Numbered
  <2>2. CASE s \in sessions
    <3>1. s.id # req[o].n /\ s.id \in 1..made
      BY <2>2 DEF Numbered
    <3> QED
      BY <3>1, <1>2
  <2> QED
    BY <2>1, <2>2, <1>1
<1> QED
  BY <1>4, <1>5, <1>6, <1>7, <1>8, <1>9 DEF Numbered

LEMMA ClosesIInv ==
    ASSUME IInv, RowTypes, Closes
    PROVE  IInv'
<1> USE DEF IInv
<1>1. TypeOK'
  BY DEF Closes, TypeOK, RowTypes
<1>2. Numbered'
  BY DEF Closes, Numbered
<1> QED
  BY <1>1, <1>2

LEMMA NextIInv ==
    ASSUME IInv, [Next]_vars
    PROVE  IInv'
<1>1. Shape /\ RowTypes
  BY NextHasShape DEF IInv
<1> QED
  BY <1>1, ArrivesIInv, MovesIInv, EndsIInv, OpensIInv, ClosesIInv DEF Shape

\* Whatever the requests and however their calls overlap, the state has the
\* types the handlers rely on, and every number is one request's or session's.
THEOREM TypeCorrect == Spec => []TypeOK
<1>1. Init => IInv
  BY InitIInv
<1>2. IInv /\ [Next]_vars => IInv'
  BY NextIInv
<1>3. IInv => TypeOK
  BY DEF IInv
<1> QED
  BY <1>1, <1>2, <1>3, PTL DEF Spec

-------------------------------------------------------------------------------
(* Accounts implements Sessions *)

LEMMA InitPromised ==
    ASSUME Init
    PROVE  Promise!Init
<1>1. OpenIds = {}
  BY DEF Init, OpenIds
<1>2. Retired \subseteq 1..MaxRequests
  BY Numbers DEF Init, Retired
<1> QED
  BY <1>1, <1>2 DEF Promise!Init

LEMMA ArrivesPromised ==
    ASSUME IInv, NEW r \in Requests, NEW q \in Request, Arrives(r, q)
    PROVE  UNCHANGED <<OpenIds, Retired>>
<1>1. req'[r] = q /\ \A o \in Requests \ {r} : req'[o] = req[o]
  BY DEF Arrives, IInv, TypeOK
<1>2. OpenIds' = OpenIds
  BY DEF Arrives, OpenIds
<1>3. req'[r].n = made + 1 /\ req[r].n = 0 /\ made' = made + 1 /\ made \in Nat
  BY <1>1 DEF Arrives, IInv, Numbered, TypeOK
<1>4. \A n \in 1..made : (\A o \in Requests : req'[o].n # n) <=> (\A o \in Requests : req[o].n # n)
  BY <1>1, <1>3
<1>5. Retired' = {n \in 1..(made + 1) : n \notin OpenIds /\ \A o \in Requests : req'[o].n # n}
  BY <1>2, <1>3 DEF Retired
<1>6. \A n : n \in 1..(made + 1) <=> n \in 1..made \/ n = made + 1
  BY <1>3
<1>7. \A n : n \in Retired' <=> n \in Retired
  BY <1>3, <1>4, <1>5, <1>6 DEF Retired
<1> QED
  BY <1>2, <1>7

LEMMA MovesPromised ==
    ASSUME IInv, RowTypes, NEW r \in Requests, NEW pc \in Positions, Moves(r, pc)
    PROVE  UNCHANGED <<OpenIds, Retired>>
<1>1. \A o \in Requests : req'[o].n = req[o].n
  BY MovesIInv
<1>2. OpenIds' = OpenIds /\ made' = made
  BY DEF Moves, OpenIds
<1> QED
  BY <1>1, <1>2 DEF Retired

\* Whoever lets sessions or numbers go, retires them.
LEMMA RetiresPromised ==
    ASSUME IInv, sessions' \subseteq sessions, made' = made,
           \A o \in Requests : req'[o].n = req[o].n \/ req'[o].n = 0
    PROVE  Promise!Next
<1> DEFINE S == (OpenIds \ OpenIds') \cup (Retired' \ Retired)
<1>1. OpenIds' \subseteq OpenIds
  BY DEF OpenIds
<1>2. OpenIds \subseteq 1..made /\ made <= MaxRequests /\ made \in Nat
  BY DEF OpenIds, IInv, Numbered
<1>3. \A i \in OpenIds : \A o \in Requests : req[o].n # i
  BY DEF OpenIds, IInv, Numbered
<1>4. \A i \in 1..made : i # 0
  BY <1>2
<1>5. OpenIds \ OpenIds' \subseteq Retired'
  BY <1>2, <1>3, <1>4 DEF Retired
<1>6. Retired \subseteq Retired'
  BY <1>1, <1>4 DEF Retired
<1>7. Retired' \subseteq 1..made /\ Retired' \cap OpenIds' = {}
  BY DEF Retired
<1>8. 1..made \subseteq 1..MaxRequests
  BY <1>2, Numbers
<1>9. S \in SUBSET (1..MaxRequests)
  BY <1>2, <1>7, <1>8
<1>10. OpenIds' = OpenIds \ S
  BY <1>1, <1>7
<1>11. Retired' = Retired \cup S
  BY <1>5, <1>6
<1> HIDE DEF S
<1>12. Promise!Retire(S)
  BY <1>10, <1>11 DEF Promise!Retire
<1> QED
  BY <1>9, <1>12 DEF Promise!Next

LEMMA EndsPromised ==
    ASSUME IInv, NEW r \in Requests, Ends(r)
    PROVE  Promise!Next
<1>1. \A o \in Requests : req'[o].n = req[o].n \/ req'[o].n = 0
  BY EndsNumbers DEF Ends
<1> QED
  BY <1>1, RetiresPromised DEF Ends

LEMMA ClosesPromised ==
    ASSUME IInv, Closes
    PROVE  Promise!Next
<1>1. \A o \in Requests : req'[o].n = req[o].n
  BY DEF Closes
<1> QED
  BY <1>1, RetiresPromised DEF Closes

LEMMA OpensPromised ==
    ASSUME IInv, NEW r \in Requests, LoginOpens(r)
    PROVE  Promise!Next
<1> DEFINE i   == req[r].n
           new == [id |-> i, user |-> req[r].row.id, word |-> req[r].word]
<1>1. i \in 1..made /\ sessions' = sessions \cup {new} /\ made' = made
  BY OpensFacts
<1>2. req'[r].n = 0 /\ \A o \in Requests \ {r} : req'[o] = req[o]
  BY OpensFacts, EndsNumbers
<1>3. new.id = i
  OBVIOUS
<1> HIDE DEF new
<1>4. OpenIds' = OpenIds \cup {i}
  BY <1>1, <1>3 DEF OpenIds
<1>5. \A s \in sessions : s.id # i
  BY DEF IInv, Numbered
<1>6. i \notin OpenIds
  BY <1>5 DEF OpenIds
<1>7. i \notin Retired
  BY DEF Retired
<1>8. \A n \in 1..made :
          (n \notin OpenIds' /\ \A o \in Requests : req'[o].n # n)
          <=> (n \notin OpenIds /\ \A o \in Requests : req[o].n # n)
  <2> TAKE n \in 1..made
  <2>1. n # 0
    BY DEF IInv, Numbered
  <2> QED
    BY <2>1, <1>2, <1>4
<1>9. Retired' = Retired
  BY <1>1, <1>8 DEF Retired
<1>10. i \in 1..MaxRequests
  BY <1>1, Numbers DEF IInv, Numbered
<1> HIDE DEF i
<1>11. Promise!Open(i)
  BY <1>4, <1>6, <1>7, <1>9 DEF Promise!Open
<1> QED
  BY <1>10, <1>11 DEF Promise!Next

LEMMA NextPromised ==
    ASSUME IInv, [Next]_vars
    PROVE  [Promise!Next]_<<OpenIds, Retired>>
<1>1. Shape /\ RowTypes
  BY NextHasShape DEF IInv
<1> QED
  BY <1>1, ArrivesPromised, MovesPromised, EndsPromised, OpensPromised, ClosesPromised DEF Shape

\* The handlers keep the promise about sessions that the app builds on: an id
\* is opened once, and one that was closed, by a logout, a reset of the
\* password or its age, in whatever order the calls of overlapping requests
\* land, is never honoured again.
THEOREM ImplementsSessions == Spec => SessionsPromise
<1>1. Init => IInv /\ Promise!Init
  BY InitIInv, InitPromised
<1>2. IInv /\ [Next]_vars => IInv'
  BY NextIInv
<1>3. IInv /\ [Next]_vars => [Promise!Next]_<<OpenIds, Retired>>
  BY NextPromised
<1> QED
  BY <1>1, <1>2, <1>3, PTL DEF Spec, SessionsPromise, Promise!Spec

-------------------------------------------------------------------------------
(* The inductive invariant of the properties *)

At(r, S) == req[r].pc \in S

\* The types of the history.
PastOK == past \in [fails : Nat, stale : SUBSET Nat, lost : BOOLEAN,
                    excused : SUBSET Nat, orphans : SUBSET Nat]

\* No row, no traces of one.
Empty == ~Exists => ~user.verified /\ user.failed = 0

\* Whose sessions there may be: the verified account's, and those of users
\* that were verified under a delete.
Live(i) == i \in past.orphans \/ (i = user.id /\ user.verified)

\* A login in progress is for such a user, too, and whoever deletes the row
\* has read it as unverified.
Owned ==
    /\ \A s \in sessions : Live(s.user)
    /\ \A r \in Requests :
        /\ At(r, {"login"}) /\ req[r].row.verified => Live(req[r].row.id)
        /\ At(r, {"open"}) => Live(req[r].row.id)
        /\ At(r, {"discard", "replace"}) => ~req[r].row.verified

\* The number of a signup is no user's before it inserts the row.
Fresh ==
    /\ user.id <= made
    /\ \A s \in sessions : s.user \in 1..made
    /\ \A r \in Requests : req[r].row.id <= made
    /\ \A r \in Requests : At(r, {"login", "open"}) => req[r].row.id # 0
    /\ \A r \in Requests : At(r, {"signup", "replace"}) =>
        /\ user.id # req[r].n
        /\ \A s \in sessions : s.user # req[r].n
        /\ \A q \in Requests : req[q].row.id # req[r].n

\* A session that is open, or about to be, with another password than the
\* account's, for which nothing excuses it: a reset that will sweep it goes on.
Outdated(id, word, n) == id = user.id /\ word # user.password /\ n \notin past.excused
Sweeping == \E r \in Requests : At(r, {"revoke"}) /\ req[r].row.id = user.id

Swept ==
    /\ \A s \in sessions : Outdated(s.user, s.word, s.id) => Sweeping
    /\ \A r \in Requests : At(r, {"open"}) /\ Outdated(req[r].row.id, req[r].word, req[r].n) => Sweeping
    /\ \A r \in Requests : At(r, {"login"}) /\ Outdated(req[r].row.id, req[r].word, req[r].n)
                                /\ RightWord(r) => Sweeping

\* Unless a failure was lost, the row has the count, and so does what the
\* logins read that are not stale.
Counting ==
    /\ clock >= 1
    /\ ~past.lost => user.failed = past.fails
    /\ ~past.lost /\ Exists /\ past.fails >= MAX_FAILED => user.locked # 0
    /\ \A r \in Requests : At(r, {"login"}) /\ req[r].n \notin past.stale =>
        Exists /\ req[r].row.failed = user.failed

PInv == IInv /\ PastOK /\ Empty /\ Owned /\ Fresh /\ Swept /\ Counting

-------------------------------------------------------------------------------
(* What the calls do to the requests and to the history *)

LEMMA ArriveFacts ==
    ASSUME IInv, NEW r \in Requests, NEW pc \in Positions \ {"idle"}, NEW word \in Passwords,
           Arrive(r, pc, word)
    PROVE  /\ req'[r].pc = pc /\ req'[r].n = made + 1 /\ req'[r].row = user /\ req'[r].word = word
           /\ req[r].pc = "idle" /\ \A o \in Requests \ {r} : req'[o] = req[o]
           /\ made' = made + 1 /\ UNCHANGED <<clock, user, sessions>>
<1>1. req' = [req EXCEPT ![r] = [pc |-> pc, n |-> made + 1, row |-> user, word |-> word]]
  BY DEF Arrive
<1>2. req'[r] = [pc |-> pc, n |-> made + 1, row |-> user, word |-> word]
      /\ \A o \in Requests \ {r} : req'[o] = req[o]
  BY <1>1 DEF IInv, TypeOK
<1> QED
  BY <1>2 DEF Arrive

LEMMA GotoFacts ==
    ASSUME IInv, NEW r \in Requests, NEW pc \in Positions, Goto(r, pc)
    PROVE  /\ req'[r].pc = pc /\ req'[r].n = req[r].n /\ req'[r].row = req[r].row
           /\ req'[r].word = req[r].word /\ \A o \in Requests \ {r} : req'[o] = req[o]
<1>1. req' = [req EXCEPT ![r] = [req[r] EXCEPT !.pc = pc]]
  BY DEF Goto
<1>2. req'[r] = [req[r] EXCEPT !.pc = pc] /\ \A o \in Requests \ {r} : req'[o] = req[o]
  BY <1>1 DEF IInv, TypeOK
<1>3. req[r] \in Request
  BY ReadType DEF IInv
<1> QED
  BY <1>2, <1>3 DEF Request

LEMMA DoneFacts ==
    ASSUME IInv, NEW r \in Requests, Done(r)
    PROVE  /\ req'[r].pc = "idle" /\ req'[r].n = 0 /\ req'[r].row.id = 0
           /\ \A o \in Requests \ {r} : req'[o] = req[o]
<1>1. req'[r] = Idle /\ \A o \in Requests \ {r} : req'[o] = req[o]
  BY DEF Done, IInv, TypeOK
<1> QED
  BY <1>1 DEF Idle, NoUser

\* The numbers are naturals and those of the requests in progress are used once.
LEMMA NumberFacts ==
    ASSUME IInv
    PROVE  /\ made \in Nat /\ made >= 1
           /\ \A r \in Requests : req[r].n \in 0..made /\ req[r].row.id \in Nat
           /\ \A r \in Requests : req[r].pc # "idle" => req[r].n \in 1..made
           /\ \A q, r \in Requests : q # r /\ req[q].pc # "idle" => req[q].n # req[r].n
           /\ \A s \in sessions : s.id \in 1..made /\ s.user \in Nat
           /\ user \in Users /\ user.id \in Nat /\ clock \in Nat
<1>1. made \in 1..MaxRequests /\ made \in Nat
  BY DEF IInv, Numbered, TypeOK
<1>2. \A r \in Requests : req[r].n \in Nat /\ req[r].row.id \in Nat
  BY ReadType DEF IInv
<1>3. \A s \in sessions : s.id \in 1..made /\ s.user \in Nat
  BY DEF IInv, Numbered, TypeOK, Session
<1>4. user \in Users /\ user.id \in Nat /\ clock \in Nat
  BY DEF IInv, TypeOK, Users
<1>5. \A r \in Requests : req[r].n \in 0..made /\ (req[r].pc # "idle" => req[r].n \in 1..made)
  BY <1>1, <1>2 DEF IInv, Numbered
<1>6. \A q, r \in Requests : q # r /\ req[q].pc # "idle" => req[q].n # req[r].n
  BY <1>1, <1>2 DEF IInv, Numbered
<1> QED
  BY <1>1, <1>2, <1>3, <1>4, <1>5, <1>6

LEMMA InProgressType ==
    ASSUME IInv
    PROVE  InProgress \in SUBSET Nat
  BY NumberFacts DEF InProgress

LEMMA NotedType ==
    ASSUME IInv, PastOK, NEW r \in Requests, past' = Noted(r)
    PROVE  PastOK'
<1>1. 1..made \in SUBSET Nat /\ InProgress \in SUBSET Nat /\ user.id \in Nat
  BY NumberFacts, InProgressType
<1>2. Noted(r).fails \in Nat
  BY DEF PastOK, Noted
<1>3. Noted(r).stale \in SUBSET Nat
  BY <1>1 DEF PastOK, Noted
<1>4. Noted(r).lost \in BOOLEAN
  BY DEF PastOK, Noted
<1>5. Noted(r).excused \in SUBSET Nat
  BY <1>1 DEF PastOK, Noted
<1>6. Noted(r).orphans \in SUBSET Nat
  BY <1>1 DEF PastOK, Noted
<1> QED
  BY <1>2, <1>3, <1>4, <1>5, <1>6 DEF PastOK, Noted

\* A call that the history takes no note of.
LEMMA NotedNothing ==
    ASSUME PastOK, NEW r \in Requests, past' = Noted(r), ~Counts(r),
           req[r].pc \notin {"change", "reset", "revoke", "discard", "replace"}
    PROVE  past' = past
  BY DEF PastOK, Noted, Deletes

-------------------------------------------------------------------------------
(* What the steps keep, besides IInv and PastOK *)

Kept == Empty /\ Owned /\ Fresh /\ Swept /\ Counting

\* A request arrives: a login only for a row there is, a delete only for one
\* that is not verified.
LEMMA ArriveKept ==
    ASSUME PInv, NEW r \in Requests, NEW pc \in Positions \ {"idle"}, NEW word \in Passwords,
           Arrive(r, pc, word), past' = past, pc = "login" => Exists,
           pc \notin {"open", "revoke"}, pc \in {"discard", "replace"} => ~user.verified
    PROVE  Kept'
<1> USE DEF PInv
<1>1. /\ req'[r].pc = pc /\ req'[r].n = made + 1 /\ req'[r].row = user /\ req'[r].word = word
      /\ req[r].pc = "idle" /\ \A o \in Requests \ {r} : req'[o] = req[o]
      /\ made' = made + 1 /\ UNCHANGED <<clock, user, sessions>>
  BY ArriveFacts
<1>2. Empty'
  BY <1>1 DEF Empty, Exists
<1>3. Owned'
  <2>1. \A i : Live(i)' <=> Live(i)
    BY <1>1 DEF Live
  <2>2. \A s \in sessions' : Live(s.user)'
    BY <1>1, <2>1 DEF Owned
  <2>3. ASSUME NEW o \in Requests
        PROVE  /\ At(o, {"login"})' /\ req'[o].row.verified => Live(req[o].row.id)'
               /\ At(o, {"open"})' => Live(req[o].row.id)'
               /\ At(o, {"discard", "replace"})' => ~req'[o].row.verified
    <3>1. CASE o = r
      <4>1. req'[r].row.verified => Live(req[r].row.id)'
        BY <1>1 DEF Live
      <4> QED
        BY <1>1, <3>1, <4>1 DEF At
    <3>2. CASE o # r
      BY <1>1, <2>1, <3>2 DEF Owned, At
    <3> QED
      BY <3>1, <3>2
  <2> QED
    BY <2>1, <2>2, <2>3 DEF Owned
<1>4. Fresh'
  <2> USE NumberFacts
  <2>1. user'.id <= made' /\ \A s \in sessions' : s.user \in 1..made'
    BY <1>1 DEF Fresh
  <2>2. \A o \in Requests : req'[o].row.id <= made'
    BY <1>1 DEF Fresh
  <2>3. \A o \in Requests : At(o, {"login", "open"})' => req'[o].row.id # 0
    BY <1>1 DEF Fresh, At, Exists
  <2>4. ASSUME NEW o \in Requests, At(o, {"signup", "replace"})'
        PROVE  /\ user'.id # req'[o].n /\ \A s \in sessions' : s.user # req'[o].n
               /\ \A q \in Requests : req'[q].row.id # req'[o].n
    <3>1. CASE o = r
      BY <1>1, <3>1 DEF Fresh
    <3>2. CASE o # r
      BY <1>1, <2>4, <3>2 DEF Fresh, At
    <3> QED
      BY <3>1, <3>2
  <2> QED
    BY <2>1, <2>2, <2>3, <2>4 DEF Fresh
<1>5. Swept'
  <2>1. Sweeping => Sweeping'
    BY <1>1 DEF Sweeping, At
  <2>2. \A s \in sessions' : Outdated(s.user, s.word, s.id)' => Sweeping'
    BY <1>1, <2>1 DEF Swept, Outdated
  <2>3. ASSUME NEW o \in Requests
        PROVE  /\ At(o, {"open"})' /\ Outdated(req[o].row.id, req[o].word, req[o].n)' => Sweeping'
               /\ At(o, {"login"})' /\ Outdated(req[o].row.id, req[o].word, req[o].n)'
                      /\ RightWord(o)' => Sweeping'
    <3>1. CASE o = r
      BY <1>1, <3>1 DEF At, Outdated, RightWord
    <3>2. CASE o # r
      BY <1>1, <2>1, <3>2 DEF At, Outdated, RightWord, Swept
    <3> QED
      BY <3>1, <3>2
  <2> QED
    BY <2>2, <2>3 DEF Swept
<1>6. Counting'
  BY <1>1 DEF Counting, At, Exists
<1> QED
  BY <1>2, <1>3, <1>4, <1>5, <1>6 DEF Kept

\* A handler ends and leaves the ids alone.
LEMMA FewerFresh ==
    ASSUME PInv, NEW r \in Requests, user'.id = user.id, made' = made, sessions' \subseteq sessions,
           req'[r].pc = "idle", req'[r].row.id = 0, \A o \in Requests \ {r} : req'[o] = req[o]
    PROVE  Fresh'
<1> USE DEF PInv
<1>1. \A o \in Requests : req'[o].row.id <= made'
  BY NumberFacts DEF Fresh
<1>2. \A o \in Requests : At(o, {"login", "open"})' => req'[o].row.id # 0
  BY DEF Fresh, At
<1>3. ASSUME NEW o \in Requests, At(o, {"signup", "replace"})'
      PROVE  /\ user'.id # req'[o].n /\ \A s \in sessions' : s.user # req'[o].n
             /\ \A q \in Requests : req'[q].row.id # req'[o].n
  <2>1. o # r /\ req'[o] = req[o] /\ req[o].n # 0
    BY <1>3, NumberFacts DEF At
  <2> QED
    BY <1>3, <2>1 DEF Fresh, At
<1> QED
  BY <1>1, <1>2, <1>3 DEF Fresh

\* So it is with the password, unless the handler was to sweep.
LEMMA DoneSwept ==
    ASSUME PInv, NEW r \in Requests, user'.id = user.id, user'.password = user.password,
           sessions' \subseteq sessions, past'.excused = past.excused, req[r].pc # "revoke",
           req'[r].pc = "idle", \A o \in Requests \ {r} : req'[o] = req[o]
    PROVE  Swept'
<1> USE DEF PInv
<1>1. Sweeping => Sweeping'
  BY DEF Sweeping, At
<1> QED
  BY <1>1 DEF Swept, Outdated, At, RightWord

\* A handler ends that changed nothing the invariant speaks of, but that the
\* account may be verified now.
LEMMA QuietKept ==
    ASSUME PInv, NEW r \in Requests, Done(r), past' = past, req[r].pc # "revoke",
           user'.id = user.id, user'.password = user.password, user'.failed = user.failed,
           user'.locked = user.locked, user.verified => user'.verified,
           ~Exists => user' = user, UNCHANGED <<made, clock, sessions>>
    PROVE  Kept'
<1> USE DEF PInv
<1>1. /\ req'[r].pc = "idle" /\ req'[r].n = 0 /\ req'[r].row.id = 0
      /\ \A o \in Requests \ {r} : req'[o] = req[o]
  BY DoneFacts
<1>2. Empty'
  BY DEF Empty, Exists
<1>3. Owned'
  <2>1. \A i : Live(i) => Live(i)'
    BY DEF Live
  <2> QED
    BY <1>1, <2>1 DEF Owned, At
<1>4. Fresh'
  BY <1>1, FewerFresh
<1>5. Swept'
  BY <1>1, DoneSwept
<1>6. Counting'
  BY <1>1 DEF Counting, At, Exists
<1> QED
  BY <1>2, <1>3, <1>4, <1>5, <1>6 DEF Kept

\* The row is deleted, verified meanwhile or not.
LEMMA DeleteKept ==
    ASSUME PInv, PastOK', NEW r \in Requests, req[r].pc \in {"discard", "replace"}, past' = Noted(r),
           user' = NoUser, UNCHANGED <<made, clock, sessions>>,
           \/ Done(r)
           \/ req[r].pc = "replace" /\ Goto(r, "signup")
    PROVE  Kept'
<1> USE DEF PInv
<1>1. /\ req'[r].pc = "idle" /\ req'[r].n = 0 /\ req'[r].row.id = 0
      \/ /\ req'[r].pc = "signup" /\ req'[r].n = req[r].n /\ req'[r].row = req[r].row
         /\ req[r].pc = "replace"
  BY DoneFacts, GotoFacts DEF Positions
<1>2. \A o \in Requests \ {r} : req'[o] = req[o]
  BY DoneFacts, GotoFacts DEF Positions
<1>3. user'.id = 0 /\ ~user'.verified /\ user'.failed = 0 /\ user'.locked = 0
  BY DEF NoUser
<1>4. Empty'
  BY <1>3 DEF Empty, Exists
<1>5. Owned'
  <2>1. ~req[r].row.verified
    BY DEF Owned, At
  <2>2. past'.orphans = IF user.verified THEN past.orphans \cup {user.id} ELSE past.orphans
    BY <2>1 DEF Noted, Deletes
  <2>3. \A i : Live(i) => Live(i)'
    BY <2>2 DEF Live
  <2> QED
    BY <1>1, <1>2, <2>3 DEF Owned, At
<1>6. Fresh'
  <2> USE NumberFacts
  <2>1. user'.id <= made' /\ \A s \in sessions' : s.user \in 1..made'
    BY <1>3 DEF Fresh
  <2>2. \A o \in Requests : req'[o].row.id <= made'
    BY <1>1, <1>2 DEF Fresh
  <2>3. \A o \in Requests : At(o, {"login", "open"})' => req'[o].row.id # 0
    BY <1>1, <1>2 DEF Fresh, At
  <2>4. ASSUME NEW o \in Requests, At(o, {"signup", "replace"})'
        PROVE  /\ user'.id # req'[o].n /\ \A s \in sessions' : s.user # req'[o].n
               /\ \A q \in Requests : req'[q].row.id # req'[o].n
    <3>1. req'[o].n = req[o].n /\ req[o].pc \in {"signup", "replace"} /\ req[o].n # 0
      BY <1>1, <1>2, <2>4 DEF At
    <3>2. \A q \in Requests : req'[q].row.id = req[q].row.id \/ req'[q].row.id = 0
      BY <1>1, <1>2
    <3> QED
      BY <1>3, <3>1, <3>2 DEF Fresh, At
  <2> QED
    BY <2>1, <2>2, <2>3, <2>4 DEF Fresh
<1>7. Swept'
  <2>1. \A s \in sessions' : s.user # user'.id
    BY <1>3, NumberFacts DEF Fresh
  <2>2. \A o \in Requests : At(o, {"login", "open"})' => req'[o].row.id # user'.id
    BY <1>3, <1>6 DEF Fresh
  <2> QED
    BY <2>1, <2>2 DEF Swept, Outdated, At
<1>8. Counting'
  <2>1. past'.fails = 0 /\ past'.stale = InProgress \ {req[r].n}
    BY DEF Noted, Deletes
  <2>2. \A o \in Requests : At(o, {"login"})' => req'[o].n \in past'.stale
    <3> TAKE o \in Requests
    <3> HAVE At(o, {"login"})'
    <3>1. o # r /\ req'[o] = req[o] /\ req[o].pc = "login"
      BY <1>1, <1>2 DEF At
    <3>2. req[o].n # req[r].n
      BY <3>1, NumberFacts
    <3> QED
      BY <2>1, <3>1, <3>2 DEF InProgress
  <2> QED
    BY <1>3, <2>1, <2>2 DEF Counting, Exists
<1> QED
  BY <1>4, <1>5, <1>6, <1>7, <1>8 DEF Kept

\* A wrong password is counted.
LEMMA FailKept ==
    ASSUME PInv, PastOK', NEW r \in Requests, LoginFails(r), past' = Noted(r)
    PROVE  Kept'
<1> USE DEF PInv
<1> DEFINE failed == req[r].row.failed + 1
<1>1. /\ req'[r].pc = "idle" /\ req'[r].n = 0 /\ req'[r].row.id = 0
      /\ \A o \in Requests \ {r} : req'[o] = req[o]
  BY DoneFacts DEF LoginFails
<1>2. req[r].pc = "login" /\ ~RightWord(r) /\ UNCHANGED <<made, clock, sessions>>
      /\ user' = IF Exists THEN [user EXCEPT !.failed = failed, !.locked = LockAfter(failed)] ELSE user
  BY DEF LoginFails, Step, ByEmail
<1>3. /\ user'.id = user.id /\ user'.password = user.password /\ user'.verified = user.verified
      /\ Exists => user'.failed = failed /\ user'.locked = LockAfter(failed)
      /\ ~Exists => user' = user
  <2> HIDE DEF failed
  <2> QED
    BY <1>2, NumberFacts DEF Users
<1>4. /\ past'.fails = past.fails + 1 /\ past'.stale = InProgress \ {req[r].n}
      /\ past'.lost = (past.lost \/ req[r].n \in past.stale)
      /\ past'.excused = past.excused /\ past'.orphans = past.orphans
  BY <1>2 DEF Noted, Deletes, Counts, PastOK
<1> HIDE DEF failed
<1>5. Empty'
  BY <1>3 DEF Empty, Exists
<1>6. Owned'
  <2>1. \A i : Live(i)' <=> Live(i)
    BY <1>3, <1>4 DEF Live
  <2> QED
    BY <1>1, <1>2, <2>1 DEF Owned, At
<1>7. Fresh'
  BY <1>1, <1>2, <1>3, FewerFresh
<1>8. Swept'
  BY <1>1, <1>2, <1>3, <1>4, DoneSwept
<1>9. Counting'
  <2>1. ASSUME NEW o \in Requests
        PROVE  At(o, {"login"})' => req'[o].n \in past'.stale
    <3> HAVE At(o, {"login"})'
    <3>1. o # r /\ req'[o] = req[o] /\ req[o].pc = "login"
      BY <1>1 DEF At
    <3>2. req[o].n # req[r].n
      BY <3>1, NumberFacts
    <3> QED
      BY <1>4, <3>1, <3>2 DEF InProgress
  <2>2. ASSUME ~past'.lost
        PROVE  /\ Exists /\ user'.failed = past'.fails
               /\ past'.fails >= MAX_FAILED => user'.locked # 0
    <3>1. ~past.lost /\ req[r].n \notin past.stale
      BY <1>4, <2>2
    <3>2. Exists /\ failed = past.fails + 1
      BY <1>2, <3>1 DEF Counting, At, failed
    <3>3. failed >= MAX_FAILED => LockAfter(failed) = clock + LOCKOUT
      BY DEF LockAfter
    <3>4. clock + LOCKOUT # 0
      BY Numbers, NumberFacts DEF Counting
    <3> QED
      BY <1>3, <1>4, <3>2, <3>3, <3>4
  <2> QED
    BY <1>2, <2>1, <2>2 DEF Counting
<1> QED
  BY <1>5, <1>6, <1>7, <1>8, <1>9 DEF Kept

\* A login goes on to its session; the row's count starts again.
LEMMA SucceedKept ==
    ASSUME PInv, PastOK', NEW r \in Requests, LoginSucceeds(r), past' = Noted(r)
    PROVE  Kept'
<1> USE DEF PInv
<1>1. /\ req'[r].pc = "open" /\ req'[r].n = req[r].n /\ req'[r].row = req[r].row
      /\ req'[r].word = req[r].word /\ \A o \in Requests \ {r} : req'[o] = req[o]
  BY GotoFacts DEF LoginSucceeds, Positions
<1>2. req[r].pc = "login" /\ RightWord(r) /\ req[r].row.verified /\ UNCHANGED <<made, clock, sessions>>
      /\ user' = IF Exists THEN [user EXCEPT !.failed = 0, !.locked = 0] ELSE user
  BY DEF LoginSucceeds, Step, ByEmail, MayLogIn
<1>3. /\ user'.id = user.id /\ user'.password = user.password /\ user'.verified = user.verified
      /\ user'.failed = 0 /\ (~Exists => user' = user)
  BY <1>2, NumberFacts DEF Users, Empty
<1>4. /\ past'.fails = 0 /\ past'.stale = InProgress \ {req[r].n} /\ past'.lost = FALSE
      /\ past'.excused = past.excused /\ past'.orphans = past.orphans
  BY <1>2 DEF Noted, Deletes, Counts, PastOK, MayLogIn
<1>5. Empty'
  BY <1>3 DEF Empty, Exists
<1>6. Owned'
  <2>1. \A i : Live(i)' <=> Live(i)
    BY <1>3, <1>4 DEF Live
  <2> QED
    BY <1>1, <1>2, <2>1 DEF Owned, At
<1>7. Fresh'
  BY <1>1, <1>2, <1>3 DEF Fresh, At
<1>8. Swept'
  <2>1. Sweeping => Sweeping'
    BY <1>1, <1>2, <1>3 DEF Sweeping, At
  <2> QED
    BY <1>1, <1>2, <1>3, <1>4, <2>1 DEF Swept, Outdated, At, RightWord
<1>9. Counting'
  <2>1. ASSUME NEW o \in Requests
        PROVE  At(o, {"login"})' => req'[o].n \in past'.stale
    <3> HAVE At(o, {"login"})'
    <3>1. o # r /\ req'[o] = req[o] /\ req[o].pc = "login"
      BY <1>1 DEF At
    <3>2. req[o].n # req[r].n
      BY <3>1, NumberFacts
    <3> QED
      BY <1>4, <3>1, <3>2 DEF InProgress
  <2>2. ~(0 >= MAX_FAILED)
    BY Numbers, SomeFailure
  <2> QED
    BY <1>2, <1>3, <1>4, <2>1, <2>2 DEF Counting
<1> QED
  BY <1>5, <1>6, <1>7, <1>8, <1>9 DEF Kept

\* A login opens its session.
LEMMA OpenKept ==
    ASSUME PInv, NEW r \in Requests, LoginOpens(r), past' = past
    PROVE  Kept'
<1> USE DEF PInv
<1> DEFINE new == [id |-> req[r].n, user |-> req[r].row.id, word |-> req[r].word]
<1>1. /\ req'[r].pc = "idle" /\ req'[r].n = 0 /\ req'[r].row.id = 0
      /\ \A o \in Requests \ {r} : req'[o] = req[o]
  BY DoneFacts DEF LoginOpens
<1>2. /\ req[r].pc = "open" /\ sessions' = sessions \cup {new}
      /\ UNCHANGED <<made, clock, user>>
  BY DEF LoginOpens, Step, SessionId
<1>3. new.id = req[r].n /\ new.user = req[r].row.id /\ new.word = req[r].word
  OBVIOUS
<1> HIDE DEF new
<1>4. Empty'
  BY <1>2 DEF Empty, Exists
<1>5. Owned'
  <2>1. \A i : Live(i)' <=> Live(i)
    BY <1>2 DEF Live
  <2> QED
    BY <1>1, <1>2, <1>3, <2>1 DEF Owned, At
<1>6. Fresh'
  <2>1. \A o \in Requests : req'[o].row.id <= made'
    BY <1>1, <1>2, NumberFacts DEF Fresh
  <2>2. \A o \in Requests : At(o, {"login", "open"})' => req'[o].row.id # 0
    BY <1>1 DEF Fresh, At
  <2>3. new.user \in 1..made
    BY <1>2, <1>3, NumberFacts DEF Fresh, At
  <2>4. \A s \in sessions' : s.user \in 1..made'
    BY <1>2, <2>3 DEF Fresh
  <2>5. ASSUME NEW o \in Requests, At(o, {"signup", "replace"})'
        PROVE  /\ user'.id # req'[o].n /\ \A s \in sessions' : s.user # req'[o].n
               /\ \A q \in Requests : req'[q].row.id # req'[o].n
    <3>1. o # r /\ req'[o] = req[o] /\ req[o].n # 0
      BY <1>1, <2>5, NumberFacts DEF At
    <3>2. new.user # req[o].n
      BY <1>3, <2>5, <3>1 DEF Fresh, At
    <3>3. \A q \in Requests : req'[q].row.id # req'[o].n
      BY <1>1, <2>5, <3>1 DEF Fresh, At
    <3>4. \A s \in sessions : s.user # req'[o].n
      BY <2>5, <3>1 DEF Fresh, At
    <3> QED
      BY <1>2, <2>5, <3>1, <3>2, <3>3, <3>4 DEF Fresh, At
  <2> QED
    BY <1>2, <2>1, <2>2, <2>4, <2>5 DEF Fresh
<1>7. Swept'
  <2>1. Sweeping => Sweeping'
    BY <1>1, <1>2 DEF Sweeping, At
  <2>2. \A s \in sessions' : Outdated(s.user, s.word, s.id)' => Sweeping'
    BY <1>2, <1>3, <2>1 DEF Swept, Outdated, At
  <2> QED
    BY <1>1, <1>2, <2>1, <2>2 DEF Swept, Outdated, At, RightWord
<1>8. Counting'
  BY <1>1, <1>2 DEF Counting, At, Exists
<1> QED
  BY <1>4, <1>5, <1>6, <1>7, <1>8 DEF Kept

\* A new row: its id is the number of the signup, which nothing refers to.
LEMMA InsertKept ==
    ASSUME PInv, NEW r \in Requests, req[r].pc = "signup", ~Exists, Done(r), past' = past,
           user' = create_user_doc(req[r].n, req[r].word), UNCHANGED <<made, clock, sessions>>
    PROVE  Kept'
<1> USE DEF PInv
<1>1. /\ req'[r].pc = "idle" /\ req'[r].n = 0 /\ req'[r].row.id = 0
      /\ \A o \in Requests \ {r} : req'[o] = req[o]
  BY DoneFacts
<1>2. user'.id = req[r].n /\ ~user'.verified /\ user'.failed = 0 /\ req[r].n \in 1..made
  BY NumberFacts DEF create_user_doc, NoUser
<1>3. /\ \A s \in sessions : s.user # req[r].n
      /\ \A q \in Requests : req[q].row.id # req[r].n
  BY DEF Fresh, At
<1>4. Empty'
  BY <1>2 DEF Empty
<1>5. Owned'
  <2>1. \A i : Live(i) => Live(i)'
    BY DEF Live, Empty
  <2> QED
    BY <1>1, <2>1 DEF Owned, At
<1>6. Fresh'
  <2>1. user'.id <= made' /\ \A o \in Requests : req'[o].row.id <= made'
    BY <1>1, <1>2, NumberFacts DEF Fresh
  <2>2. \A o \in Requests : At(o, {"login", "open"})' => req'[o].row.id # 0
    BY <1>1 DEF Fresh, At
  <2>3. ASSUME NEW o \in Requests, At(o, {"signup", "replace"})'
        PROVE  /\ user'.id # req'[o].n /\ \A s \in sessions' : s.user # req'[o].n
               /\ \A q \in Requests : req'[q].row.id # req'[o].n
    <3>1. o # r /\ req'[o] = req[o] /\ req[o].n # 0 /\ req[o].n # req[r].n
      BY <1>1, <2>3, NumberFacts DEF At
    <3> QED
      BY <1>1, <1>2, <2>3, <3>1 DEF Fresh, At
  <2> QED
    BY <2>1, <2>2, <2>3 DEF Fresh
<1>7. Swept'
  <2>1. \A s \in sessions' : s.user # user'.id
    BY <1>2, <1>3
  <2>2. \A o \in Requests : At(o, {"login", "open"})' => req'[o].row.id # user'.id
    BY <1>1, <1>2, <1>3 DEF At
  <2> QED
    BY <2>1, <2>2 DEF Swept, Outdated, At
<1>8. Counting'
  <2>1. ~(0 >= MAX_FAILED)
    BY Numbers, SomeFailure
  <2>2. user'.failed = user.failed
    BY <1>2 DEF Empty
  <2>3. \A o \in Requests : At(o, {"login"})' => req'[o].n \in past'.stale
    BY <1>1 DEF Counting, At
  <2> QED
    BY <1>2, <2>1, <2>2, <2>3 DEF Counting
<1> QED
  BY <1>4, <1>5, <1>6, <1>7, <1>8 DEF Kept

\* A new password: a row that is not the one the reset was for is excused.
LEMMA ResetKept ==
    ASSUME PInv, PastOK', NEW r \in Requests, reset_password(r), past' = Noted(r)
    PROVE  Kept'
<1> USE DEF PInv
<1>1. /\ req'[r].pc = "revoke" /\ req'[r].n = req[r].n /\ req'[r].row = req[r].row
      /\ \A o \in Requests \ {r} : req'[o] = req[o]
  BY GotoFacts DEF reset_password, Positions
<1>2. /\ req[r].pc = "reset" /\ UNCHANGED <<made, clock, sessions>>
      /\ user' = IF Exists THEN [user EXCEPT !.password = req[r].word, !.rexpiry = 0] ELSE user
  BY DEF reset_password, Step, ByEmail
<1>3. /\ user'.id = user.id /\ user'.verified = user.verified /\ user'.failed = user.failed
      /\ user'.locked = user.locked
  BY <1>2, NumberFacts DEF Users
<1>4. /\ past'.fails = past.fails /\ past'.stale = past.stale /\ past'.lost = past.lost
      /\ past'.orphans = past.orphans
      /\ past'.excused = IF req[r].row.id # user.id THEN 1..made ELSE past.excused
  BY <1>2 DEF Noted, Deletes, Counts, PastOK
<1>5. Empty'
  BY <1>3 DEF Empty, Exists
<1>6. Owned'
  <2>1. \A i : Live(i)' <=> Live(i)
    BY <1>3, <1>4 DEF Live
  <2> QED
    BY <1>1, <1>2, <2>1 DEF Owned, At
<1>7. Fresh'
  BY <1>1, <1>2, <1>3 DEF Fresh, At
<1>8. Swept'
  <2>1. CASE req[r].row.id = user.id
    <3>1. Sweeping'
      BY <1>1, <1>3, <2>1 DEF Sweeping, At
    <3> QED
      BY <3>1 DEF Swept
  <2>2. CASE req[r].row.id # user.id
    <3>1. past'.excused = 1..made
      BY <1>4, <2>2
    <3>2. \A s \in sessions' : s.id \in past'.excused
      BY <1>2, <3>1, NumberFacts
    <3>3. \A o \in Requests : At(o, {"login", "open"})' => req'[o].n \in past'.excused
      BY <1>1, <3>1, NumberFacts DEF At
    <3> QED
      BY <3>2, <3>3 DEF Swept, Outdated, At
  <2> QED
    BY <2>1, <2>2
<1>9. Counting'
  BY <1>1, <1>2, <1>3, <1>4 DEF Counting, At, Exists
<1> QED
  BY <1>5, <1>6, <1>7, <1>8, <1>9 DEF Kept

\* The sweep: it takes every session of the row it read, so that what is left
\* to sweep another reset has to.
LEMMA RevokeKept ==
    ASSUME PInv, PastOK', NEW r \in Requests, ResetRevokes(r), past' = Noted(r)
    PROVE  Kept'
<1> USE DEF PInv
<1>1. /\ req'[r].pc = "idle" /\ req'[r].n = 0 /\ req'[r].row.id = 0
      /\ \A o \in Requests \ {r} : req'[o] = req[o]
  BY DoneFacts DEF ResetRevokes
<1>2. /\ req[r].pc = "revoke" /\ UNCHANGED <<made, clock, user>>
      /\ sessions' = {s \in sessions : s.user # req[r].row.id}
  BY DEF ResetRevokes, Step, Revoked
<1>3. /\ past'.fails = past.fails /\ past'.stale = past.stale /\ past'.lost = past.lost
      /\ past'.orphans = past.orphans /\ past'.excused = past.excused \cup InProgress
  BY <1>2 DEF Noted, Deletes, Counts, PastOK
<1>4. Empty'
  BY <1>2 DEF Empty, Exists
<1>5. Owned'
  <2>1. \A i : Live(i)' <=> Live(i)
    BY <1>2, <1>3 DEF Live
  <2> QED
    BY <1>1, <1>2, <2>1 DEF Owned, At
<1>6. Fresh'
  BY <1>1, <1>2, FewerFresh
<1>7. Swept'
  <2>1. \A o \in Requests : At(o, {"login", "open"})' => req'[o].n \in past'.excused
    BY <1>1, <1>3 DEF At, InProgress
  <2>2. CASE req[r].row.id = user.id
    <3>1. \A s \in sessions' : s.user # user'.id
      BY <1>2, <2>2
    <3> QED
      BY <2>1, <3>1 DEF Swept, Outdated, At
  <2>3. CASE req[r].row.id # user.id
    <3>1. Sweeping => Sweeping'
      BY <1>1, <1>2, <2>3 DEF Sweeping, At
    <3> QED
      BY <1>2, <1>3, <2>1, <3>1 DEF Swept, Outdated, At
  <2> QED
    BY <2>2, <2>3
<1>8. Counting'
  BY <1>1, <1>2, <1>3 DEF Counting, At, Exists
<1> QED
  BY <1>4, <1>5, <1>6, <1>7, <1>8 DEF Kept

\* A changed password sweeps nothing and excuses all.
LEMMA ChangeKept ==
    ASSUME PInv, PastOK', NEW r \in Requests, change_password(r), past' = Noted(r)
    PROVE  Kept'
<1> USE DEF PInv
<1>1. /\ req'[r].pc = "idle" /\ req'[r].n = 0 /\ req'[r].row.id = 0
      /\ \A o \in Requests \ {r} : req'[o] = req[o]
  BY DoneFacts DEF change_password
<1>2. /\ req[r].pc = "change" /\ UNCHANGED <<made, clock, sessions>>
      /\ user' = IF user.id = req[r].row.id THEN [user EXCEPT !.password = req[r].word] ELSE user
  BY DEF change_password, Step
<1>3. /\ user'.id = user.id /\ user'.verified = user.verified /\ user'.failed = user.failed
      /\ user'.locked = user.locked
  BY <1>2, NumberFacts DEF Users
<1>4. /\ past'.fails = past.fails /\ past'.stale = past.stale /\ past'.lost = past.lost
      /\ past'.orphans = past.orphans /\ past'.excused = 1..made
  BY <1>2 DEF Noted, Deletes, Counts, PastOK
<1>5. Empty'
  BY <1>3 DEF Empty, Exists
<1>6. Owned'
  <2>1. \A i : Live(i)' <=> Live(i)
    BY <1>3, <1>4 DEF Live
  <2> QED
    BY <1>1, <1>2, <2>1 DEF Owned, At
<1>7. Fresh'
  BY <1>1, <1>2, <1>3, FewerFresh
<1>8. Swept'
  <2>1. \A s \in sessions' : s.id \in past'.excused
    BY <1>2, <1>4, NumberFacts
  <2>2. \A o \in Requests : At(o, {"login", "open"})' => req'[o].n \in past'.excused
    BY <1>1, <1>4, NumberFacts DEF At
  <2> QED
    BY <2>1, <2>2 DEF Swept, Outdated, At
<1>9. Counting'
  BY <1>1, <1>2, <1>3, <1>4 DEF Counting, At, Exists
<1> QED
  BY <1>5, <1>6, <1>7, <1>8, <1>9 DEF Kept

\* Sessions end and time passes.
LEMMA RestKept ==
    ASSUME PInv, UNCHANGED <<user, req, made, past>>, sessions' \subseteq sessions,
           clock' \in Nat, clock' >= clock
    PROVE  Kept'
<1> USE DEF PInv
<1>1. \A i : Live(i)' <=> Live(i)
  BY DEF Live
<1>2. Sweeping' <=> Sweeping
  BY DEF Sweeping, At
<1>3. Empty' /\ Owned' /\ Fresh'
  BY <1>1 DEF Empty, Exists, Owned, Fresh, At
<1>4. Swept'
  BY <1>2 DEF Swept, Outdated, At, RightWord
<1>5. Counting'
  BY NumberFacts DEF Counting, At, Exists
<1> QED
  BY <1>3, <1>4, <1>5 DEF Kept

-------------------------------------------------------------------------------
(* Every step keeps it *)

LEMMA LoginKept ==
    ASSUME PInv, PastOK', NEW r \in Requests, past' = Noted(r),
           LoginFinds(r) \/ LoginFails(r) \/ LoginUnverified(r) \/ LoginSucceeds(r) \/ LoginOpens(r)
    PROVE  Kept'
<1> USE DEF PInv
<1>1. CASE LoginFinds(r)
  <2>1. PICK p \in Passwords : Exists /\ Arrive(r, "login", p)
    BY <1>1 DEF LoginFinds
  <2>2. past' = past
    BY <2>1, NotedNothing DEF Arrive, Counts
  <2> QED
    BY <2>1, <2>2, ArriveKept DEF Positions
<1>2. CASE LoginUnverified(r)
  <2>1. past' = past
    BY <1>2, NotedNothing DEF LoginUnverified, Step, Counts
  <2> QED
    BY <1>2, <2>1, QuietKept DEF LoginUnverified, Step
<1>3. CASE LoginOpens(r)
  <2>1. past' = past
    BY <1>3, NotedNothing DEF LoginOpens, Step, Counts
  <2> QED
    BY <1>3, <2>1, OpenKept
<1> QED
  BY <1>1, <1>2, <1>3, FailKept, SucceedKept

\* The other handlers arrive.
LEMMA FindKept ==
    ASSUME PInv, NEW r \in Requests, NEW word \in Passwords, past' = Noted(r),
           NEW pc \in {"signup", "replace", "discard", "resend", "verify", "forgot", "reset", "change"},
           Arrive(r, pc, word), pc \in {"discard", "replace"} => ~user.verified
    PROVE  Kept'
<1>1. pc \in Positions \ {"idle"} /\ pc # "login" /\ pc \notin {"open", "revoke"}
  BY DEF Positions
<1>2. past' = past
  BY NotedNothing DEF Arrive, Counts, PInv
<1> QED
  BY <1>1, <1>2, ArriveKept

\* A call that only ends, with a row of which nothing counted is changed.
LEMMA EndKept ==
    ASSUME PInv, NEW r \in Requests, NEW pc \in {"signup", "resend", "verify", "forgot"}, NEW row,
           past' = Noted(r), Step(r, pc, row, sessions), Done(r),
           row.id = user.id, row.password = user.password, row.failed = user.failed,
           row.locked = user.locked, user.verified => row.verified, ~Exists => row = user
    PROVE  Kept'
<1>1. past' = past
  BY NotedNothing DEF Step, Counts, PInv
<1> QED
  BY <1>1, QuietKept DEF Step

LEMMA SignupKept ==
    ASSUME PInv, PastOK', NEW r \in Requests, past' = Noted(r),
           \/ SignupFinds(r) \/ SignupReplaces(r) \/ SignupInserts(r)
           \/ DiscardFinds(r) \/ delete_unverified_account(r)
           \/ ResendFinds(r) \/ resend_verification(r) \/ VerifyFinds(r) \/ verify_email(r)
    PROVE  Kept'
<1> USE DEF PInv
<1>2. CASE SignupFinds(r)
  <2>1. PICK p \in Passwords : Arrive(r, "signup", p) \/ (~user.verified /\ Arrive(r, "replace", p))
    BY <1>2 DEF SignupFinds
  <2> QED
    BY <2>1, FindKept
<1>3. CASE SignupReplaces(r)
  BY <1>3, DeleteKept DEF SignupReplaces, Step
<1>4. CASE SignupInserts(r) /\ Exists
  BY <1>4, EndKept DEF SignupInserts
<1>5. CASE SignupInserts(r) /\ ~Exists
  <2>1. /\ req[r].pc = "signup" /\ Done(r) /\ UNCHANGED <<made, clock, sessions>>
        /\ user' = create_user_doc(req[r].n, req[r].word)
    BY <1>5 DEF SignupInserts, Step
  <2>2. past' = past
    BY <2>1, NotedNothing DEF Counts
  <2> QED
    BY <1>5, <2>1, <2>2, InsertKept
<1>6. CASE DiscardFinds(r)
  BY <1>6, FindKept, RestTypes DEF DiscardFinds
<1>7. CASE delete_unverified_account(r)
  BY <1>7, DeleteKept DEF delete_unverified_account, Step
<1>8. CASE ResendFinds(r)
  BY <1>8, FindKept, RestTypes DEF ResendFinds
<1>9. CASE resend_verification(r)
  <2> DEFINE row == ByEmail([user EXCEPT !.vexpiry = clock + LINK])
  <2>1. /\ row.id = user.id /\ row.password = user.password /\ row.failed = user.failed
        /\ row.locked = user.locked /\ row.verified = user.verified /\ (~Exists => row = user)
    BY NumberFacts DEF ByEmail, Users
  <2>2. Step(r, "resend", row, sessions) /\ Done(r)
    BY <1>9 DEF resend_verification
  <2> HIDE DEF row
  <2> QED
    BY <2>1, <2>2, EndKept
<1>10. CASE VerifyFinds(r)
  BY <1>10, FindKept, RestTypes DEF VerifyFinds
<1>11. CASE verify_email(r)
  <2> DEFINE row == ByEmail([user EXCEPT !.verified = TRUE])
  <2>1. /\ row.id = user.id /\ row.password = user.password /\ row.failed = user.failed
        /\ row.locked = user.locked /\ (user.verified => row.verified) /\ (~Exists => row = user)
    BY NumberFacts DEF ByEmail, Users
  <2>2. Step(r, "verify", row, sessions) /\ Done(r)
    BY <1>11 DEF verify_email
  <2> HIDE DEF row
  <2> QED
    BY <2>1, <2>2, EndKept
<1> QED
  BY <1>2, <1>3, <1>4, <1>5, <1>6, <1>7, <1>8, <1>9, <1>10, <1>11

LEMMA PasswordKept ==
    ASSUME PInv, PastOK', NEW r \in Requests, past' = Noted(r),
           \/ ForgotFinds(r) \/ forgot_password(r) \/ ResetFinds(r) \/ reset_password(r)
           \/ ResetRevokes(r) \/ ChangeFinds(r) \/ change_password(r)
    PROVE  Kept'
<1> USE DEF PInv
<1>2. CASE ForgotFinds(r)
  BY <1>2, FindKept, RestTypes DEF ForgotFinds
<1>3. CASE forgot_password(r)
  <2> DEFINE row == ByEmail([user EXCEPT !.rexpiry = clock + LINK])
  <2>1. /\ row.id = user.id /\ row.password = user.password /\ row.failed = user.failed
        /\ row.locked = user.locked /\ row.verified = user.verified /\ (~Exists => row = user)
    BY NumberFacts DEF ByEmail, Users
  <2>2. Step(r, "forgot", row, sessions) /\ Done(r)
    BY <1>3 DEF forgot_password
  <2> HIDE DEF row
  <2> QED
    BY <2>1, <2>2, EndKept
<1>4. CASE ResetFinds(r)
  <2>1. PICK p \in Passwords : Arrive(r, "reset", p)
    BY <1>4 DEF ResetFinds
  <2> QED
    BY <2>1, FindKept
<1>5. CASE ChangeFinds(r)
  <2>1. PICK p \in Passwords : Arrive(r, "change", p)
    BY <1>5 DEF ChangeFinds
  <2> QED
    BY <2>1, FindKept
<1> QED
  BY <1>2, <1>3, <1>4, <1>5, ResetKept, RevokeKept, ChangeKept

LEMMA InitPInv ==
    ASSUME PInit
    PROVE  PInv
<1>1. IInv
  BY InitIInv DEF PInit
<1>2. PastOK
  BY DEF PInit, PastOK
<1>3. \A r \in Requests : req[r].pc = "idle" /\ req[r].row.id = 0
  BY DEF PInit, Init, Idle, NoUser
<1>4. sessions = {} /\ clock = 1 /\ made = 1
  BY DEF PInit, Init
<1>5. user.failed = 0 /\ user.id \in {0, 1} /\ (user.id = 0 => ~user.verified)
  <2> DEFINE doc(p, v) == [create_user_doc(1, p) EXCEPT !.verified = v]
  <2>1. \A p \in Passwords, v \in BOOLEAN : doc(p, v).failed = 0 /\ doc(p, v).id = 1
    BY DEF create_user_doc, NoUser
  <2>2. user \in {NoUser} \cup {doc(p, v) : p \in Passwords, v \in BOOLEAN}
    BY DEF PInit, Init
  <2> HIDE DEF doc
  <2>3. CASE user = NoUser
    BY <2>3 DEF NoUser
  <2>4. CASE \E p \in Passwords, v \in BOOLEAN : user = doc(p, v)
    BY <2>1, <2>4
  <2> QED
    BY <2>2, <2>3, <2>4
<1>6. Empty /\ Owned /\ Fresh
  BY <1>3, <1>4, <1>5 DEF Empty, Exists, Owned, Fresh, At
<1>7. Swept
  BY <1>3, <1>4 DEF Swept, At
<1>8. Counting
  <2>1. ~(0 >= MAX_FAILED)
    BY Numbers, SomeFailure
  <2> QED
    BY <1>3, <1>4, <1>5, <2>1 DEF Counting, At, PInit
<1> QED
  BY <1>1, <1>2, <1>6, <1>7, <1>8 DEF PInv

LEMMA NextPInv ==
    ASSUME PInv, [PNext]_pvars
    PROVE  PInv'
<1>1. [Next]_vars
  BY DEF PNext, Next, pvars
<1>2. IInv'
  BY <1>1, NextIInv DEF PInv
<1>3. CASE \E r \in Requests : Handle(r) /\ past' = Noted(r)
  <2>1. PICK r \in Requests : Handle(r) /\ past' = Noted(r)
    BY <1>3
  <2>2. PastOK'
    BY <2>1, NotedType DEF PInv
  <2>3. Kept'
    BY <2>1, <2>2, LoginKept, SignupKept, PasswordKept DEF Handle
  <2> QED
    BY <1>2, <2>2, <2>3 DEF PInv, Kept
<1>4. CASE (CloseSession \/ Pass \/ UNCHANGED vars) /\ UNCHANGED past
  <2>1. UNCHANGED <<user, req, made, past>> /\ sessions' \subseteq sessions
    BY <1>4 DEF CloseSession, Pass, vars
  <2>2. clock' \in Nat /\ clock' >= clock
    BY <1>4, NumberFacts DEF CloseSession, Pass, vars, PInv
  <2>3. Kept' /\ PastOK'
    BY <2>1, <2>2, RestKept DEF PInv, PastOK
  <2> QED
    BY <1>2, <2>3 DEF PInv, Kept
<1> QED
  BY <1>3, <1>4 DEF PNext, pvars

LEMMA PInvariant == PSpec => []PInv
<1>1. PInit => PInv
  BY InitPInv
<1>2. PInv /\ [PNext]_pvars => PInv'
  BY NextPInv
<1> QED
  BY <1>1, <1>2, PTL DEF PSpec

\* As many wrong passwords as the limit lock the account, whatever else runs,
\* as long as no login counted on a count that another one had written over:
\* the row then has the count, and what the logins in progress read is it.
THEOREM LimitLocks == PSpec => []FailuresLock
<1>1. PInv => FailuresLock
  BY DEF PInv, Counting, FailuresLock
<1> QED
  BY <1>1, PInvariant, PTL

\* Once no reset is under way, a session with a password that is not the
\* account's is one a login opened across the reset, or a changed password
\* left: while a reset goes on, its sweep is what the others wait for.
THEOREM ResetsEndSessions == PSpec => []ResetEndsSessions
<1>1. PInv => ResetEndsSessions
  BY DEF PInv, Swept, Outdated, Sweeping, At, ResetEndsSessions
<1> QED
  BY <1>1, PInvariant, PTL

\* Every session is the account's, or that of a user verified between the
\* read and the delete of a handler that took it for unverified.
THEOREM SessionsOwned == PSpec => []SessionsHaveAccounts
<1>1. PInv => SessionsHaveAccounts
  BY DEF PInv, Owned, Live, SessionsHaveAccounts
<1> QED
  BY <1>1, PInvariant, PTL

===============================================================================
