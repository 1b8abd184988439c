--------------------------- MODULE ResetCodes ---------------------------
(***************************************************************************)
(* Password reset by an emailed code, for one address: the page that asks  *)
(* for a code and takes it (PasswordRecoveryPage.tsx, useForgotPassword),  *)
(* the send limit (convex/passwordReset.ts, rateLimit of                   *)
(* convex/lib/social.ts) and the mail.                                     *)
(*                                                                         *)
(* External, as the code uses it: Convex Auth looks the account up, stores *)
(* the new code in place of the old one, and only then calls               *)
(* sendVerificationRequest; reset-verification takes the stored code once. *)
(* A code is named by the number of the request that made it.              *)
(***************************************************************************)
EXTENDS Integers, Sequences, FiniteSets, SequencesExt

CONSTANTS
  SendsPerWindow,   \* SENDS_PER_WINDOW
  MaxRequests,      \* bound: requests for a code
  LastWindow        \* bound: limit windows that pass

ASSUME ResetAssumption == SendsPerWindow \in Nat \ {0} /\ MaxRequests \in Nat /\ LastWindow \in Nat

VARIABLES
  known,       \* whether an account uses the address
  request,     \* how far each request has come
  valid,       \* the code the server accepts, 0 for none
  limit,       \* the rateLimits row of the address
  window,      \* the current limit window
  allowed,     \* the window each send was allowed in, -1 for none
  mails,       \* the codes mailed, oldest first
  view,        \* the form the page shows
  waiting,     \* the request each form of the page waits for, 0 for none
  lapses      \* what the properties excuse

resetVars ==
  <<known, request, valid, limit, window, allowed, mails, view, waiting,
    lapses>>

Codes == 1..MaxRequests
Stages == {"unused", "sent", "stored", "allowed", "ended"}
Under(c, stage) == [request EXCEPT ![c] = stage]
InFlight == {c \in Codes : request[c] \in {"sent", "stored", "allowed"}}

ResetInit ==
  /\ known \in BOOLEAN
  /\ request = [c \in Codes |-> "unused"]
  /\ valid = 0
  /\ limit = [window |-> 0, count |-> 0]
  /\ window = 0
  /\ allowed = [c \in Codes |-> -1]
  /\ mails = << >>
  /\ view = "email"
  /\ waiting = [email |-> 0, again |-> 0]
  /\ lapses = [overlap |-> FALSE, unsent |-> FALSE]

-----------------------------------------------------------------------------
(* The page                                                                *)

Unused == {c \in Codes : request[c] = "unused"}

\* Send reset code: the button is disabled while its own request is pending.
Forgot ==
  /\ view = "email"
  /\ waiting.email = 0
  /\ \E c \in Unused :
       /\ \A d \in Unused : c <= d
       /\ request' = Under(c, "sent")
       /\ waiting' = [waiting EXCEPT !.email = c]
  /\ lapses' = [lapses EXCEPT !.overlap = @ \/ InFlight # {}]
  /\ UNCHANGED <<known, valid, limit, window, allowed, mails, view>>

\* Send a new code.
OffersResend == view = "code" /\ waiting.again = 0

SendAgain ==
  /\ OffersResend
  /\ \E c \in Unused :
       /\ \A d \in Unused : c <= d
       /\ request' = Under(c, "sent")
       /\ waiting' = [waiting EXCEPT !.again = c]
  /\ UNCHANGED <<known, valid, limit, window, allowed, mails, view, lapses>>

\* Use a different email (here: the same one again) forgets the code form.
ChangeEmail ==
  /\ view = "code"
  /\ view' = "email"
  /\ waiting' = [waiting EXCEPT !.again = 0]
  /\ UNCHANGED <<known, request, valid, limit, window, allowed, mails, lapses>>

\* An answer to request c: success of the first form shows the second one.
Answered(c, ok) ==
  /\ view' = IF ok /\ waiting.email = c THEN "code" ELSE view
  /\ waiting' = [email |-> IF waiting.email = c THEN 0 ELSE waiting.email,
                 again |-> IF waiting.again = c THEN 0 ELSE waiting.again]

-----------------------------------------------------------------------------
(* The server                                                              *)

\* An address without an account fails, which the page does not report.
Lookup(c) ==
  /\ request[c] = "sent"
  /\ \/ /\ known
        /\ valid' = c
        /\ request' = Under(c, "stored")
        /\ UNCHANGED <<view, waiting>>
     \/ /\ ~known
        /\ request' = Under(c, "ended")
        /\ Answered(c, TRUE)
        /\ UNCHANGED valid
  /\ UNCHANGED <<known, limit, window, allowed, mails, lapses>>

Limited == limit.window = window /\ limit.count >= SendsPerWindow

\* The row after one more send: a new window starts again at one.
Counted ==
  [window |-> window,
   count |-> IF limit.window = window THEN limit.count + 1 ELSE 1]

AllowSend(c) ==
  /\ request[c] = "stored"
  /\ \/ /\ ~Limited
        /\ limit' = Counted
        /\ allowed' = [allowed EXCEPT ![c] = window]
        /\ request' = Under(c, "allowed")
        /\ UNCHANGED <<view, waiting, lapses>>
     \/ /\ Limited
        /\ request' = Under(c, "ended")
        /\ lapses' = [lapses EXCEPT !.unsent = TRUE]
        /\ Answered(c, FALSE)
        /\ UNCHANGED <<limit, allowed>>
  /\ UNCHANGED <<known, valid, window, mails>>

\* sendResetEmail; an outage of the mail service is reported.
Mail(c) ==
  /\ request[c] = "allowed"
  /\ request' = Under(c, "ended")
  /\ \E ok \in BOOLEAN :
       /\ mails' = IF ok THEN Append(mails, c) ELSE mails
       /\ lapses' = [lapses EXCEPT !.unsent = (@ /\ valid # c) \/ ~ok]
       /\ Answered(c, ok)
  /\ UNCHANGED <<known, valid, limit, window, allowed>>

\* reset-verification with a mailed code; only the stored one is taken.
VerifyCode ==
  /\ view = "code"
  /\ \E i \in DOMAIN mails : mails[i] = valid
  /\ valid' = 0
  /\ view' = "done"
  /\ waiting' = [waiting EXCEPT !.again = 0]
  /\ UNCHANGED <<known, request, limit, window, allowed, mails, lapses>>

\* The code's 15 minutes pass.
Expire ==
  /\ valid # 0
  /\ valid' = 0
  /\ UNCHANGED <<known, request, limit, window, allowed, mails, view, waiting, lapses>>

NextWindow ==
  /\ window < LastWindow
  /\ window' = window + 1
  /\ UNCHANGED <<known, request, valid, limit, allowed, mails, view, waiting, lapses>>

ResetNext ==
  \/ Forgot
  \/ SendAgain
  \/ ChangeEmail
  \/ \E c \in Codes : Lookup(c) \/ AllowSend(c) \/ Mail(c)
  \/ VerifyCode
  \/ Expire
  \/ NextWindow

ResetSpec == ResetInit /\ [][ResetNext]_resetVars

-----------------------------------------------------------------------------
(* Properties                                                              *)

ResetTypeOK ==
  /\ known \in BOOLEAN
  /\ request \in [Codes -> Stages]
  /\ valid \in Codes \cup {0}
  /\ limit \in [window : 0..LastWindow, count : 0..MaxRequests]
  /\ window \in 0..LastWindow
  /\ allowed \in [Codes -> -1..LastWindow]
  /\ mails \in Seq(Codes)
  /\ view \in {"email", "code", "done"}
  /\ waiting \in [email : Codes \cup {0}, again : Codes \cup {0}]
  /\ lapses \in [overlap : BOOLEAN, unsent : BOOLEAN]

\* When nothing is being sent, the newest mail holds the code the server
\* accepts ("Use the newest one"), unless the address was entered again during
\* a resend, or the latest code was refused or lost on its way (CodeResetForm).
NewestMailIsCurrent ==
  InFlight = {} /\ valid # 0 /\ ~lapses.overlap /\ ~lapses.unsent
    => mails # << >> /\ Last(mails) = valid

\* The sends that were allowed in some windows.
SentIn(windows) == {c \in Codes : allowed[c] \in windows}

\* An address gets at most SENDS_PER_WINDOW sends in a window, whatever forms and
\* windows the requests come from (allowSend, rateLimit).  The windows are fixed, so
\* fifteen minutes that reach into a second one may see as many again, and no more.
SendsAreCapped ==
  \A w \in 0..LastWindow :
    /\ Cardinality(SentIn({w})) <= SendsPerWindow
    /\ Cardinality(SentIn({w, w + 1})) <= 2 * SendsPerWindow
=============================================================================
