----------------------------- MODULE AccountsProps -----------------------------
(***************************************************************************)
(* Properties of `Accounts' that need a history variable.                  *)
(***************************************************************************)
EXTENDS Accounts

VARIABLE past   \* what happened to the address so far, see PInit

pvars == <<vars, past>>

PInit ==
    /\ Init
    /\ past = [fails   |-> 0,     \* wrong passwords since the last login
               stale   |-> {},    \* logins whose row another login has written since
               lost    |-> FALSE, \* whether such a login counted a failure
               excused |-> {},    \* logins a password change or a reset let pass
               orphans |-> {}]    \* users verified after the delete had read them

InProgress == {req[r].n : r \in {q \in Requests : req[q].pc \in {"login", "open"}}}

Deletes(r) == req[r].pc \in {"discard", "replace"}

\* A login that writes the count of failures.
Counts(r) == req[r].pc = "login" /\ (RightWord(r) => MayLogIn(req[r].row))

\* What the history is after the step of request r.
Noted(r) ==
    [fails   |-> IF Deletes(r) \/ (Counts(r) /\ RightWord(r)) THEN 0
                 ELSE IF Counts(r) THEN past.fails + 1 ELSE past.fails,
     stale   |-> IF Deletes(r) \/ Counts(r) THEN InProgress \ {req[r].n} ELSE past.stale,
     lost    |-> IF Deletes(r) \/ (Counts(r) /\ RightWord(r)) THEN FALSE
                 ELSE past.lost \/ (Counts(r) /\ req[r].n \in past.stale),
     excused |-> IF req[r].pc = "change" \/ (req[r].pc = "reset" /\ req[r].row.id # user.id) THEN 1..made
                 ELSE IF req[r].pc = "revoke" THEN past.excused \cup InProgress ELSE past.excused,
     orphans |-> IF Deletes(r) /\ user.verified /\ ~req[r].row.verified THEN past.orphans \cup {user.id}
                 ELSE past.orphans]

PNext ==
    \/ \E r \in Requests : Handle(r) /\ past' = Noted(r)
    \/ (CloseSession \/ Pass) /\ UNCHANGED past

PSpec == PInit /\ [][PNext]_pvars

-------------------------------------------------------------------------------

\* As many wrong passwords in a row as the limit lock the account, unless two
\* attempts overlapped: the count is read, raised and written in separate
\* calls, so of overlapping failures one is lost.
FailuresLock == Exists /\ past.fails >= MAX_FAILED /\ ~past.lost => user.locked # 0

\* Once a reset of the password is answered, no session that was opened with
\* the old one is left, unless its login overlapped the reset (it opens its
\* session after the sweep), or the password was changed, which sweeps none.
ResetEndsSessions ==
    (\A r \in Requests : req[r].pc # "revoke") =>
        \A s \in sessions :
            s.user = user.id /\ s.word # user.password => s.id \in past.excused

\* A session is one of an account that exists, unless the account was verified
\* after a discard or a new signup had read it as unverified: both delete the
\* row by its address without asking again.
SessionsHaveAccounts == \A s \in sessions : s.user = user.id \/ s.user \in past.orphans
===============================================================================
