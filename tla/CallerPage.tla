----------------------------- MODULE CallerPage -----------------------------
(***************************************************************************)
(* A caller's Hotline page: CallerQueue, CallRequestForm and               *)
(* ConfirmAuthorization of PublicHotline.tsx with the hooks they use, and  *)
(* what they ask of payments.authorize and queue.joinPaid.                 *)
(*                                                                         *)
(* A paid request takes three rounds: the form asks the server for a       *)
(* payment, the card form asks Stripe for a hold, and the page then asks   *)
(* the server to join.  The key of the payment is kept in sessionStorage,  *)
(* one for each tier, from the first round until the join is answered, so  *)
(* that a retry or a reload resumes the hold of that tier; a caller who    *)
(* goes back and takes another tier has a hold on each.  Meanwhile the     *)
(* host picks callers, card events arrive, the show may end, and the       *)
(* caller may withdraw or reload.                                          *)
(*                                                                         *)
(* The page makes one request at a time, as its buttons have it; a         *)
(* confirmation whose card form has been taken away counts as one.         *)
(* The steps of capture, cancelIntent and the webhooks that cannot be seen *)
(* from the page are single steps here; module Hotline takes them apart.   *)
(***************************************************************************)
EXTENDS Integers, Sequences, FiniteSets

CONSTANTS
    Tiers,      \* the paid tiers of the show
    MaxKeys,    \* bound: payment keys the page draws
    TierOf,     \* the tier that a key is drawn for
    MaxTalks,   \* bound: calls of this caller
    MaxAsks,    \* bound: authorize and joinPaid actions at a time
    MaxErrors   \* bound: requests that fail or whose answer is lost

ASSUME CallerPageAssumption ==
    /\ {MaxKeys, MaxTalks, MaxAsks, MaxErrors} \subseteq Nat
    /\ TierOf \in [1..MaxKeys -> Tiers]

VARIABLES
    hotline,   \* shows.status, and whether closeQueue is scheduled
    entry,     \* queueEntries row of the caller
    talks,     \* calls of the caller, oldest first
    hold,      \* paymentAttempts and their PaymentIntents, by idempotencyKey
    declines,  \* keys with an undelivered payment_intent.payment_failed event
    releasing, \* keys with a cancelIntent action
    asks,      \* authorize and joinPaid actions that are running
    page,      \* sessionStorage and the state of the components
    errors     \* errors so far

serverVars == <<hotline, entry, talks, hold, declines, releasing>>
callerVars == <<serverVars, asks, page, errors>>

PayKeys == 1..MaxKeys
AttemptStatuses ==
    {"NONE", "CREATED", "AUTHORIZED", "CAPTURING", "CAPTURED", "CANCELED", "FAILED"}
IntentStatuses ==
    {"none", "requires_payment_method", "requires_capture", "succeeded", "canceled"}

\* attached: stripePaymentIntentId is set; queued: queueEntryId is set.
\* spare: its join found the caller in the line already; evicted: the end of another
\* payment took its caller out of the line (history).
Hold == [status : AttemptStatuses, intent : IntentStatuses, attached : BOOLEAN,
         queued : BOOLEAN, spare : BOOLEAN, evicted : BOOLEAN]
NoHold == [status |-> "NONE", intent |-> "none", attached |-> FALSE,
           queued |-> FALSE, spare |-> FALSE, evicted |-> FALSE]

Talk == [attempt : 0..MaxKeys, status : {"PAYMENT_PENDING", "OPEN", "ENDED", "FAILED"}]

\* keys: what sessionStorage holds for each tier (0: nothing); drawn: keys drawn so
\* far; card: the payment of `pending` (0: null); awaiting: what an event handler
\* awaits; paying: the payment that `confirm` was last called with; leaving:
\* leave.isPending; submitting: the state of ConfirmAuthorization.
Page == [keys : [Tiers -> 0..MaxKeys], drawn : SUBSET PayKeys, card : 0..MaxKeys,
         awaiting : {"nothing", "authorize", "confirm", "join"}, paying : 0..MaxKeys,
         leaving : BOOLEAN, submitting : BOOLEAN]

\* An action on the server; heard: the page that called it is still open.
Ask == [op : {"authorize", "join"}, key : PayKeys, heard : BOOLEAN,
        phase : {"prepare", "intent", "verify", "enter", "done", "failed"}]

CallerInit ==
    /\ hotline = [status |-> "LIVE", closing |-> FALSE]
    /\ entry = [status |-> "NONE", attempt |-> 0]
    /\ talks = <<>>
    /\ hold = [k \in PayKeys |-> NoHold]
    /\ declines = {} /\ releasing = {} /\ asks = {}
    /\ page = [keys |-> [t \in Tiers |-> 0], drawn |-> {}, card |-> 0,
               awaiting |-> "nothing", paying |-> 0, leaving |-> FALSE,
               submitting |-> FALSE]
    /\ errors = 0

-----------------------------------------------------------------------------
(* What the page shows.                                                    *)

\* calls.mine: the latest call that is not waiting for its payment.
Mine == {n \in DOMAIN talks : talks[n].status # "PAYMENT_PENDING"}
MyCall == IF Mine = {} THEN "NONE"
          ELSE talks[CHOOSE n \in Mine : \A m \in Mine : m <= n].status

\* PublicHotline and CallerQueue, over liveByUsername, calls.mine and queue.mine:
\* what the server's state makes of the page, and what is shown then.
Place == CASE hotline.status # "LIVE" -> "closed"
           [] hotline.status = "LIVE" /\ MyCall = "OPEN" -> "call"
           [] hotline.status = "LIVE" /\ MyCall \in {"ENDED", "FAILED"} -> "complete"
           [] hotline.status = "LIVE" /\ MyCall = "NONE" ->
                 IF entry.status = "WAITING" THEN "waiting" ELSE "asking"
View == IF Place # "asking" THEN Place ELSE IF page.card # 0 THEN "card" ELSE "form"

\* ConfirmAuthorization keeps its state only while it is drawn.
Draws(p) == page' = [p EXCEPT !.submitting = @ /\ p.card # 0 /\ Place' = "asking"]
Redraws == Draws(page)

-----------------------------------------------------------------------------
(* The form.                                                               *)

\* The keys that could still be drawn for a tier.
Fresh(t) == {k \in PayKeys : TierOf[k] = t /\ k \notin page.drawn}
\* Fault: every press of the button draws a key.
KeyDrawn(t) == IF Fresh(t) # {} THEN CHOOSE k \in Fresh(t) : TRUE ELSE 0
\* paymentKey: the stored key of the tier, or a new one (0: past the bound).
PaymentKey(t) == IF page.keys[t] # 0 THEN page.keys[t]
                 ELSE IF Fresh(t) # {} THEN CHOOSE k \in Fresh(t) : TRUE ELSE 0

\* "Continue to payment" with a tier: useAuthorizePayment.
Submit(t) ==
    LET k == PaymentKey(t)
    IN /\ View = "form" /\ page.awaiting = "nothing"
       /\ k # 0 /\ Cardinality(asks) < MaxAsks
       /\ asks' = asks \cup
            {[op |-> "authorize", key |-> k, heard |-> TRUE, phase |-> "prepare"]}
       /\ UNCHANGED <<serverVars, errors>>
       /\ Draws([page EXCEPT !.keys[t] = k, !.drawn = @ \cup {k},
                             !.awaiting = "authorize"])

\* "Send call request" for a free tier: queue.join, which leaves a caller who is in
\* the line alone.
JoinFree ==
    /\ View = "form" /\ page.awaiting = "nothing"
    /\ entry' = IF entry.status \in {"NONE", "LEFT"}
                THEN [status |-> "WAITING", attempt |-> 0] ELSE entry
    /\ UNCHANGED <<hotline, talks, hold, declines, releasing, asks, errors>>
    /\ Redraws

-----------------------------------------------------------------------------
(* payments.authorize.                                                     *)

Goes(a, phase) == asks' = (asks \ {a}) \cup {[a EXCEPT !.phase = phase]}

\* prepare: the attempt of the key, if there is none yet a new one.
Prepare(a) ==
    /\ a.phase = "prepare"
    /\ IF hotline.status = "LIVE"
       THEN /\ hold' = [hold EXCEPT ![a.key].status = IF @ = "NONE" THEN "CREATED" ELSE @]
            /\ Goes(a, "intent")
       ELSE Goes(a, "failed") /\ UNCHANGED hold
    /\ UNCHANGED <<hotline, entry, talks, declines, releasing, errors>>
    /\ Redraws

\* The PaymentIntent is made once per attempt, its id attached, and the answer given.
AttachIntent(a) ==
    /\ a.phase = "intent"
    /\ hold' = [hold EXCEPT ![a.key].attached = TRUE,
                   ![a.key].intent = IF @ = "none" THEN "requires_payment_method" ELSE @]
    /\ Goes(a, "done")
    /\ UNCHANGED <<hotline, entry, talks, declines, releasing, errors>>
    /\ Redraws

\* Stripe cannot be reached, before or after it made the PaymentIntent.
IntentFails(a) ==
    /\ a.phase = "intent" /\ errors < MaxErrors
    /\ hold' \in {hold, [hold EXCEPT ![a.key].intent =
                            IF @ = "none" THEN "requires_payment_method" ELSE @]}
    /\ Goes(a, "failed")
    /\ errors' = errors + 1
    /\ UNCHANGED <<hotline, entry, talks, declines, releasing>>
    /\ Redraws

\* The page hears of the payment and shows the card form, or the error.
Authorized(a) ==
    /\ a.op = "authorize" /\ a.phase \in {"done", "failed"}
    /\ asks' = asks \ {a}
    /\ UNCHANGED <<serverVars, errors>>
    /\ IF a.heard
       THEN Draws([page EXCEPT !.awaiting = "nothing",
                               !.card = IF a.phase = "done" THEN a.key ELSE @])
       ELSE Redraws

-----------------------------------------------------------------------------
(* The card form.                                                          *)

Back ==
    /\ View = "card" /\ ~page.submitting
    /\ UNCHANGED <<serverVars, asks, errors>>
    /\ Draws([page EXCEPT !.card = 0])

\* "Authorize and join": confirmPayment places the hold, if the bank agrees and the
\* PaymentIntent still wants a card.
Confirm ==
    /\ View = "card" /\ ~page.submitting /\ page.awaiting = "nothing"
    /\ hold[page.card].intent = "requires_payment_method"
    /\ hold' = [hold EXCEPT ![page.card].intent = "requires_capture"]
    /\ UNCHANGED <<hotline, entry, talks, declines, releasing, asks, errors>>
    /\ Draws([page EXCEPT !.awaiting = "confirm", !.paying = page.card,
                          !.submitting = TRUE])

\* Declined: Stripe tells the page, and Bling with an event.
ConfirmDeclined ==
    /\ View = "card" /\ ~page.submitting /\ page.awaiting = "nothing"
    /\ hold[page.card].intent = "requires_payment_method"
    /\ errors < MaxErrors
    /\ errors' = errors + 1
    /\ declines' = declines \cup {page.card}
    /\ UNCHANGED <<hotline, entry, talks, hold, releasing, asks>>
    /\ Redraws

\* The hold is placed, and the page still there, if perhaps not the card form: it joins
\* with the payment it has confirmed.
Join ==
    /\ page.awaiting = "confirm" /\ Cardinality(asks) < MaxAsks
    /\ asks' = asks \cup {[op |-> "join", key |-> page.paying, heard |-> TRUE,
                           phase |-> "verify"]}
    /\ UNCHANGED <<serverVars, errors>>
    /\ Draws([page EXCEPT !.awaiting = "join"])

-----------------------------------------------------------------------------
(* queue.joinPaid.                                                         *)

\* verifyAuthorization.
Verify(a) ==
    /\ a.phase = "verify"
    /\ CASE hold[a.key].status = "AUTHORIZED" -> Goes(a, "enter") /\ UNCHANGED hold
         [] /\ hold[a.key].status = "CREATED"
            /\ hold[a.key].attached /\ hold[a.key].intent = "requires_capture" ->
                /\ hold' = [hold EXCEPT ![a.key].status = "AUTHORIZED"]
                /\ Goes(a, "enter")
         [] OTHER -> Goes(a, "failed") /\ UNCHANGED hold
    /\ UNCHANGED <<hotline, entry, talks, declines, releasing, errors>>
    /\ Redraws

\* joinWithPayment.  A caller who is in the line already keeps their entry, and the
\* payment stays unused.
Enter(a) ==
    /\ a.phase = "enter"
    /\ CASE hotline.status # "LIVE" -> Goes(a, "failed") /\ UNCHANGED <<entry, hold>>
         [] hotline.status = "LIVE" /\ entry.status \notin {"NONE", "LEFT"} ->
                /\ hold' = [hold EXCEPT ![a.key].spare = TRUE]
                /\ Goes(a, "done") /\ UNCHANGED entry
         [] hotline.status = "LIVE" /\ entry.status \in {"NONE", "LEFT"} ->
                IF hold[a.key].status = "AUTHORIZED"
                THEN /\ entry' = [status |-> "WAITING", attempt |-> a.key]
                     /\ hold' = [hold EXCEPT ![a.key].queued = TRUE]
                     /\ Goes(a, "done")
                ELSE Goes(a, "failed") /\ UNCHANGED <<entry, hold>>
    /\ UNCHANGED <<hotline, talks, declines, releasing, errors>>
    /\ Redraws

\* sessionStorage.removeItem of the payment's tier, once the join is answered.
KeyAfterJoin == 0

\* What is left of submitting: only an error takes it back.
SubmittingAfter(a) == page.submitting /\ a.phase = "done"

Joined(a) ==
    /\ a.op = "join" /\ a.phase \in {"done", "failed"}
    /\ asks' = asks \ {a}
    /\ UNCHANGED <<serverVars, errors>>
    /\ IF a.heard
       THEN Draws([page EXCEPT !.awaiting = "nothing",
                    !.keys[TierOf[a.key]] = IF a.phase = "done" THEN KeyAfterJoin ELSE @,
                    !.submitting = SubmittingAfter(a)])
       ELSE Redraws

\* A request to Stripe fails, or the answer is lost on the way.
AskFails(a) ==
    /\ a.phase \in {"verify", "done"} /\ errors < MaxErrors
    /\ Goes(a, "failed")
    /\ errors' = errors + 1
    /\ UNCHANGED serverVars
    /\ Redraws

-----------------------------------------------------------------------------
(* The caller.                                                             *)

\* "Withdraw request".
Withdraw ==
    /\ View = "waiting" /\ ~page.leaving
    /\ UNCHANGED <<serverVars, asks, errors>>
    /\ Draws([page EXCEPT !.leaving = TRUE])

\* scheduleCancel of a hold that stands.
Cancels(k) ==
    releasing' = IF k # 0 /\ hold[k].status \in {"CREATED", "AUTHORIZED"}
                 THEN releasing \cup {k} ELSE releasing

\* queue.leave.  A caller who has been picked stays.
Leave ==
    /\ page.leaving
    /\ IF entry.status = "WAITING"
       THEN entry' = [entry EXCEPT !.status = "LEFT"] /\ Cancels(entry.attempt)
       ELSE UNCHANGED <<entry, releasing>>
    /\ UNCHANGED <<hotline, talks, hold, declines, asks, errors>>
    /\ Draws([page EXCEPT !.leaving = FALSE])

\* The caller reloads, or comes back from the bank's page.  An answer that is still
\* to come finds nobody, which counts as an error.
Reload ==
    /\ page.card # 0 \/ page.awaiting # "nothing"
    /\ errors < MaxErrors
    /\ errors' = errors + 1
    /\ asks' = {[a EXCEPT !.heard = FALSE] : a \in asks}
    /\ UNCHANGED serverVars
    /\ Draws([page EXCEPT !.card = 0, !.awaiting = "nothing", !.leaving = FALSE,
                          !.submitting = FALSE])

-----------------------------------------------------------------------------
(* The host, the bank and the scheduler.                                   *)

\* calls.select.
Select ==
    /\ hotline.status = "LIVE" /\ entry.status = "WAITING" /\ Len(talks) < MaxTalks
    /\ \A n \in DOMAIN talks : talks[n].status \in {"ENDED", "FAILED"}
    /\ entry.attempt # 0 => hold[entry.attempt].status = "AUTHORIZED"
    /\ entry' = [entry EXCEPT !.status = "SELECTED"]
    /\ talks' = Append(talks, [attempt |-> entry.attempt,
                    status |-> IF entry.attempt = 0 THEN "OPEN" ELSE "PAYMENT_PENDING"])
    /\ hold' = [k \in PayKeys |-> IF k = entry.attempt
                               THEN [hold[k] EXCEPT !.status = "CAPTURING"] ELSE hold[k]]
    /\ UNCHANGED <<hotline, declines, releasing, asks, errors>>
    /\ Redraws

Pending(k) == {n \in DOMAIN talks : talks[n].attempt = k /\ talks[n].status = "PAYMENT_PENDING"}

\* recordCaptured.
Captured(k) ==
    /\ hold[k].status = "CAPTURING" /\ hold[k].intent = "requires_capture"
    /\ hold' = [hold EXCEPT ![k].status = "CAPTURED", ![k].intent = "succeeded"]
    /\ talks' = [n \in DOMAIN talks |->
                    IF n \notin Pending(k) THEN talks[n]
                    ELSE [talks[n] EXCEPT !.status =
                            IF hotline.status = "LIVE" THEN "OPEN" ELSE "FAILED"]]
    /\ entry' = IF hotline.status # "LIVE" /\ Pending(k) # {}
                THEN [entry EXCEPT !.status = "ENDED"] ELSE entry
    /\ UNCHANGED <<hotline, declines, releasing, asks, errors>>
    /\ Redraws

\* A call that waits on the payment fails.
CallWithout(k, talk) == IF talk.attempt = k /\ talk.status = "PAYMENT_PENDING"
                        THEN [talk EXCEPT !.status = "FAILED"] ELSE talk

\* The entry that the payment names leaves the line, whichever payment it waits on now.
Drops(k) == /\ hold[k].queued
            /\ \/ entry.status = "WAITING"
               \/ entry.status = "SELECTED" /\ Pending(k) # {}

\* recordNotCaptured.
NotCaptured(k, status, intent) ==
    IF hold[k].status = "CAPTURED"
    THEN /\ hold' = [hold EXCEPT ![k].intent = intent]
         /\ UNCHANGED <<talks, entry>>
    ELSE /\ hold' = [l \in PayKeys |->
                        IF l = k THEN [hold[k] EXCEPT !.status = status, !.intent = intent]
                        ELSE [hold[l] EXCEPT !.evicted = @ \/ (l = entry.attempt /\ Drops(k))]]
         /\ talks' = [n \in DOMAIN talks |-> CallWithout(k, talks[n])]
         /\ entry' = IF Drops(k) THEN [entry EXCEPT !.status = "LEFT"] ELSE entry

\* The capture is given up, or the hold was gone.
CaptureFails(k) ==
    /\ hold[k].status = "CAPTURING" /\ errors < MaxErrors
    /\ errors' = errors + 1
    /\ NotCaptured(k, "FAILED", hold[k].intent)
    /\ UNCHANGED <<hotline, declines, releasing, asks>>
    /\ Redraws

\* cancelIntent.
CancelIntent(k) ==
    /\ k \in releasing
    /\ releasing' = releasing \ {k}
    /\ IF hold[k].attached /\ hold[k].status \in {"CREATED", "AUTHORIZED"}
       THEN NotCaptured(k, "CANCELED", "canceled")
       ELSE UNCHANGED <<hold, talks, entry>>
    /\ UNCHANGED <<hotline, declines, asks, errors>>
    /\ Redraws

\* The event of a card that was declined.
DeclineEvent(k) ==
    /\ k \in declines
    /\ declines' = declines \ {k}
    /\ NotCaptured(k, "FAILED", hold[k].intent)
    /\ UNCHANGED <<hotline, releasing, asks, errors>>
    /\ Redraws

OpenTalk == {n \in DOMAIN talks : talks[n].status = "OPEN"}
Over == [n \in DOMAIN talks |-> IF n \in OpenTalk
                                THEN [talks[n] EXCEPT !.status = "ENDED"] ELSE talks[n]]

\* calls.transition or expire.
TalkEnds ==
    /\ OpenTalk # {}
    /\ talks' = Over
    /\ entry' = [entry EXCEPT !.status = "ENDED"]
    /\ UNCHANGED <<hotline, hold, declines, releasing, asks, errors>>
    /\ Redraws

\* shows.end.
End ==
    /\ hotline.status = "LIVE"
    /\ hotline' = [status |-> "ENDED", closing |-> TRUE]
    /\ talks' = Over
    /\ entry' = IF OpenTalk # {} THEN [entry EXCEPT !.status = "ENDED"] ELSE entry
    /\ UNCHANGED <<hold, declines, releasing, asks, errors>>
    /\ Redraws

\* closeEntries gives a caller who still waits their hold back.
GivesBack(k) == Cancels(k)

\* closeQueue.
Close ==
    /\ hotline.closing
    /\ hotline' = [hotline EXCEPT !.closing = FALSE]
    /\ entry' = IF entry.status \in {"WAITING", "SELECTED"}
                THEN [entry EXCEPT !.status = "ENDED"] ELSE entry
    /\ IF entry.status = "WAITING" THEN GivesBack(entry.attempt)
                                   ELSE UNCHANGED releasing
    /\ UNCHANGED <<talks, hold, declines, asks, errors>>
    /\ Redraws

-----------------------------------------------------------------------------
Server(a) == Prepare(a) \/ AttachIntent(a) \/ Verify(a) \/ Enter(a)
Answer(a) == Authorized(a) \/ Joined(a)

CallerNext ==
    \/ \E t \in Tiers : Submit(t)
    \/ JoinFree \/ Back \/ Confirm \/ ConfirmDeclined \/ Join
    \/ Withdraw \/ Leave \/ Reload
    \/ \E a \in asks : Server(a) \/ Answer(a) \/ IntentFails(a) \/ AskFails(a)
    \/ Select \/ TalkEnds \/ End \/ Close
    \/ \E k \in PayKeys : \/ Captured(k) \/ CaptureFails(k) \/ CancelIntent(k)
                       \/ DeclineEvent(k)

CallerSpec == CallerInit /\ [][CallerNext]_callerVars

-----------------------------------------------------------------------------
(* Properties.                                                             *)

\* Show, entry, calls, payments, actions and page have their shape.
CallerTypeOK ==
    /\ hotline \in [status : {"LIVE", "ENDED"}, closing : BOOLEAN]
    /\ entry \in [status : {"NONE", "WAITING", "SELECTED", "LEFT", "ENDED"},
                  attempt : 0..MaxKeys]
    /\ talks \in Seq(Talk) /\ Len(talks) <= MaxTalks
    /\ hold \in [PayKeys -> Hold]
    /\ declines \subseteq PayKeys /\ releasing \subseteq PayKeys
    /\ asks \subseteq Ask
    /\ page \in Page
    /\ errors \in 0..MaxErrors

\* A hold that nobody has undertaken to capture or to release.
Standing(k) == /\ hold[k].intent = "requires_capture" /\ k \notin releasing
               /\ hold[k].status \in {"CREATED", "AUTHORIZED"}

\* payments.authorize "starts (or resumes, for the same idempotency key) a hold":
\* whatever fails, however often the caller starts over or reloads, their card is
\* not held twice for one tier, unless they had joined already when they asked with
\* one of the holds, or a hold of theirs that was given up earlier has put them out
\* of the line.
RetriesReuseHold ==
    \A k, l \in PayKeys :
        (k # l /\ TierOf[k] = TierOf[l] /\ Standing(k) /\ Standing(l)) =>
            hold[k].spare \/ hold[l].spare \/ hold[k].evicted \/ hold[l].evicted

\* The key the page would use next for a tier is not that of a payment which is over,
\* unless a card was declined or an answer was lost: only then is the caller kept from
\* asking again for this tier in this tab.
KeyIsUsable ==
    (View = "form" /\ page.awaiting = "nothing" /\ errors = 0) =>
        \A t \in Tiers : page.keys[t] # 0 =>
            hold[page.keys[t]].status \in {"NONE", "CREATED", "AUTHORIZED"}

Quiet == /\ hotline.status = "ENDED" /\ ~hotline.closing
         /\ asks = {} /\ releasing = {} /\ page.awaiting = "nothing"

\* Once the show is over and its queue closed, the hold of a caller who was in the
\* line to the end is charged, released or being captured, whichever of their
\* payments it is and however often they left before.
JoinedHoldsGo ==
    (Quiet /\ entry.status = "ENDED" /\ entry.attempt # 0) => ~Standing(entry.attempt)

\* RefundPage: "The Hotline ends before you are picked: the hold is released and you
\* are not charged."
HoldsEndWithShow == Quiet => \A k \in PayKeys : ~Standing(k)

\* The card form is disabled only while the page awaits an answer that will enable it
\* again or take it away, or for a caller who turned out to be in the line already.
CardFormReturns ==
    page.submitting => page.awaiting # "nothing" \/ hold[page.card].spare

\* The caller's page and the server agree on the payment they talk of, through errors,
\* reloads and withdrawals (PublicHotline.tsx, payments.authorize, queue.joinPaid).
CallerPageIsSound ==
    /\ CallerTypeOK
    /\ RetriesReuseHold
    /\ KeyIsUsable
    /\ JoinedHoldsGo
    /\ CardFormReturns
=============================================================================
