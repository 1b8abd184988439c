------------------------------ MODULE Identity ------------------------------
(***************************************************************************)
(* Who a browser is: its session and sign-in, and the reset of a forgotten *)
(* password.  The two meet only in the form that is submitted last.        *)
(***************************************************************************)
EXTENDS SignIn, ResetCodes

IdentitySpec == SignInSpec /\ ResetSpec

\* A browser has one identity at a time, its calls find it, and a password can be reset
\* with what was mailed (session.ts, settleSignIn, passwordReset.ts).
IdentityIsSound ==
    /\ SignInTypeOK
    /\ OneAnonymousAccount
    /\ CallsFindSession
    /\ SignedInIsKnown
    /\ ResetTypeOK
    /\ NewestMailIsCurrent
    /\ SendsAreCapped
=============================================================================
