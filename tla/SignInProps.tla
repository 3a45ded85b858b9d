------------------------------- MODULE SignInProps -------------------------------
(***************************************************************************)
(* Properties of `SignIn' that need a history variable:                    *)
(*   mixed      a refresh wrote the tokens of a session that is no longer  *)
(*              the stored one, a login was killed between its writes      *)
(*              while the tokens of another were still stored, or a cold   *)
(*              start's refusal cleared what it had written so far         *)
(*   left       a sign-out was cut short before the key was cleared        *)
(*   signedOut  the last thing the user did was to log out                 *)
(***************************************************************************)
EXTENDS SignIn

VARIABLE past

pvars == <<vars, past>>

PInit == Init /\ past = [mixed |-> FALSE, left |-> FALSE, signedOut |-> FALSE]

Cleared == stored' = Empty /\ stored # Empty

Mixes ==
    \/ Restart /\ form.pc = "refresh" /\ stored.refresh # None
    \/ doRefreshAccessToken /\ flight.sid # stored.refresh
    \/ (refreshAuth \/ initAuth) /\ stored' # stored /\ ~Cleared /\ cold.sid # stored.refresh

Observe ==
    past' = [mixed     |-> IF Cleared THEN form.pc \in {"refresh", "user"} ELSE past.mixed \/ Mixes,
             left      |-> IF LogoutEnds \/ (bootstrapKeyOnLogin /\ dek' = shown) THEN FALSE
                           ELSE \/ past.left
                                \/ refreshAuth /\ Cleared
                                \/ LogoutAnswered /\ form' = Quiet
                                \/ Restart /\ form.pc = "leave",
             signedOut |-> LogoutEnds \/ (past.signedOut /\ ~LoginAnswered)]

PSpec == PInit /\ [][Next /\ Observe]_pvars /\ Fairness

-------------------------------------------------------------------------------

Whose(s) == IF s = None THEN None ELSE Owner[s]
Agree(a, b) == a = None \/ b = None \/ a = b

\* The stored tokens are of the account that is shown and of one account, and
\* none are left after a logout, unless a refresh was answered after the login
\* or logout that replaced its session (nothing tells it that it is late), or
\* another flow cut into a login between its writes: a kill that left the
\* tokens of another, or the refusal of a cold start, which clears them all.
TokensMatch ==
    form.pc = "idle" /\ ~past.mixed =>
        /\ Agree(Whose(stored.access), shown)
        /\ Agree(Whose(stored.access), Whose(stored.refresh))
        /\ past.signedOut => stored = Empty

\* Who is signed in never works with the key of another account, unless the
\* sign-out of that account was cut short (a logout that could not reach the
\* server skips the rest, a refusal at a cold start clears the tokens only).
KeyIsOwn ==
    form.pc = "idle" /\ ~past.mixed /\ ~past.left => Agree(dek, shown)
===============================================================================
