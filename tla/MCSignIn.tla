-------------------------------- MODULE MCSignIn --------------------------------
(* SignIn with two accounts. *)
EXTENDS SignInProps, TLC
CONSTANTS a, b, s1, s2, s3, f1, f2

\* Bound: once tokens of two sessions are mixed, one request at a time is followed.
Followed == past.mixed => fetch[f2].pc = "idle"

TwoAndOne == (s1 :> a) @@ (s2 :> b)
===============================================================================
