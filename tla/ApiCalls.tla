------------------------------ MODULE ApiCalls ------------------------------
(***************************************************************************)
(* The Go API's queue, calls and payments for one show: internal/queue,    *)
(* internal/call, internal/payment and internal/show with the handlers of  *)
(* internal/httpapi that drive them.                                       *)
(*                                                                         *)
(* A viewer is a session token, so a viewer has one queue entry per show   *)
(* and, calls.queue_entry_id being UNIQUE, at most one call.  A call to    *)
(* Stripe is made outside of a transaction and is a step of its own, after *)
(* which the handler may die.                                              *)
(*                                                                         *)
(* A database transaction is one step: the rows it reads to decide are     *)
(* locked by FOR UPDATE, FOR SHARE or an advisory lock.  The end of a show *)
(* reads the calls it refunds without locking them, but it holds the show  *)
(* FOR UPDATE from its first statement on.  Whatever opens, connects or    *)
(* closes a call meanwhile locks the show FOR SHARE or inserts a row of    *)
(* queue_outbox, whose foreign key to shows (000002_durable_queue.up.sql   *)
(* 63) locks it FOR KEY SHARE; both wait for the end of the show to        *)
(* commit.  (One that already has the call's row deadlocks with the end,   *)
(* and PostgreSQL rolls one of the two back, which is no step.)  What      *)
(* takes no such lock - MarkAuthorized, MarkCanceled, a failed payment     *)
(* whose caller is gone - changes nothing the end of the show reads.       *)
(***************************************************************************)
EXTENDS Integers, FiniteSets

CONSTANTS
    Viewers,      \* session tokens
    Payments,     \* payment attempts (one per idempotency key)
    Payer,        \* payment_attempts.viewer_token_hash
    PaidRank,     \* show_tiers.priority_rank of the paid tier
    FreeRank,     \* and of the free one
    None

ASSUME ApiCallsAssumption ==
    /\ Payer \in [Payments -> Viewers]
    /\ PaidRank \in Nat /\ FreeRank \in Nat
    /\ None \notin Payments

VARIABLES
    show,        \* shows.status
    entry,       \* queue_entries: status and payment_attempt_id
    call,        \* calls by queue entry: status, payment_attempt_id, started_at
    attempt,     \* payment_attempts.status ("NONE": no row)
    attached,    \* payment_attempts.stripe_payment_intent_id IS NOT NULL
    claimed,     \* payment_attempts.queue_entry_id IS NOT NULL
    refund,      \* payments with a payment_refunds row
    earning,     \* payments with an EARNING in creator_ledger_entries
    capturing,   \* the selectPaid handler of a viewer's call, after its commit
    releasing,   \* the leave handler's CancelForViewer
    verified,    \* VerifyForQueue: Stripe answered requires_capture
    intent,      \* Stripe: PaymentIntent.status
    events,      \* Stripe: events not yet answered with success
    declined     \* Stripe: payments for which a card was refused first

rows   == <<attempt, attached, claimed, refund, earning>>
jobs   == <<capturing, releasing, verified>>
stripe == <<intent, events, declined>>
callsVars == <<show, entry, call, rows, jobs, stripe>>

ActiveEntry == {"WAITING", "SELECTED", "CONNECTING", "LIVE"}
ActiveCall  == {"PAYMENT_PENDING", "CREATED", "CONNECTING", "LIVE"}
EntryStatuses == ActiveEntry \cup {"NONE", "ENDED", "LEFT"}
CallStatuses  == ActiveCall \cup {"NONE", "ENDED", "FAILED"}
AttemptStatuses ==
    {"NONE", "CREATED", "AUTHORIZED", "CAPTURING", "CAPTURED", "CANCELED", "FAILED"}
IntentStatuses == {"none", "requires_payment_method", "requires_capture",
                   "succeeded", "canceled"}
EventKinds == {"succeeded", "canceled", "payment_failed"}

CallsInit ==
    /\ show = "CREATED"
    /\ entry = [v \in Viewers |-> [status |-> "NONE", pay |-> None]]
    /\ call = [v \in Viewers |-> [status |-> "NONE", pay |-> None, started |-> FALSE]]
    /\ attempt = [p \in Payments |-> "NONE"]
    /\ attached = {} /\ claimed = {} /\ refund = {} /\ earning = {}
    /\ capturing = [v \in Viewers |-> "idle"]
    /\ releasing = [p \in Payments |-> "idle"]
    /\ verified = {}
    /\ intent = [p \in Payments |-> "none"]
    /\ events = {}
    /\ declined = {}

------------------------------------------------------------------------------
(* The show: internal/show. *)

StartShow ==
    /\ show = "CREATED"
    /\ show' = "LIVE"
    /\ UNCHANGED <<entry, call, rows, jobs, stripe>>

\* The calls whose payment the end of the show gives back.
UnopenedCalls == {v \in Viewers : /\ call[v].status \in {"CREATED", "CONNECTING"}
                                  /\ ~call[v].started
                                  /\ call[v].pay # None
                                  /\ attempt[call[v].pay] = "CAPTURED"}

ClosedByEnd == ActiveCall
EndShow ==
    /\ show = "LIVE"
    /\ show' = "ENDED"
    /\ refund' = refund \cup {call[v].pay : v \in UnopenedCalls}
    /\ call' = [v \in Viewers |-> IF call[v].status \in ClosedByEnd
                                  THEN [call[v] EXCEPT !.status = "ENDED"] ELSE call[v]]
    /\ entry' = [v \in Viewers |-> IF entry[v].status \in ActiveEntry
                                   THEN [entry[v] EXCEPT !.status = "ENDED"] ELSE entry[v]]
    /\ UNCHANGED <<attempt, attached, claimed, earning, jobs, stripe>>

------------------------------------------------------------------------------
(* Authorizing a payment: internal/payment. *)

\* A retry with the same idempotency key finds the row and changes nothing.
Prepare(p) ==
    /\ show = "LIVE"
    /\ attempt[p] = "NONE"
    /\ attempt' = [attempt EXCEPT ![p] = "CREATED"]
    /\ UNCHANGED <<show, entry, call, attached, claimed, refund, earning, jobs, stripe>>

\* Authorize after Prepare: Stripe makes the intent (once per attempt, by its
\* idempotency key), and AttachIntent records it, here or in a later retry.
CreateAuthorization(p) ==
    /\ attempt[p] = "CREATED"
    /\ p \notin attached
    /\ \/ /\ intent[p] = "none"
          /\ intent' = [intent EXCEPT ![p] = "requires_payment_method"]
          /\ UNCHANGED attached
       \/ /\ intent[p] # "none"
          /\ attached' = attached \cup {p}
          /\ UNCHANGED intent
    /\ UNCHANGED <<show, entry, call, attempt, claimed, refund, earning, events,
                   declined, jobs>>

\* VerifyForQueue reads the intent ...
RetrieveIntent(p) ==
    /\ attempt[p] = "CREATED"
    /\ p \in attached
    /\ intent[p] = "requires_capture"
    /\ verified' = verified \cup {p}
    /\ UNCHANGED <<show, entry, call, capturing, releasing, rows, stripe>>

\* ... and marks the attempt authorized, unless it has moved on by then.
MarkAuthorized(p) ==
    /\ p \in verified
    /\ verified' = verified \ {p}
    /\ attempt' = [attempt EXCEPT ![p] = IF @ = "CREATED" THEN "AUTHORIZED" ELSE @]
    /\ UNCHANGED <<show, entry, call, attached, claimed, refund, earning, capturing,
                   releasing, stripe>>

------------------------------------------------------------------------------
(* The queue: internal/queue. *)

\* The authorization Join accepts.
Usable(v, p) ==
    /\ Payer[p] = v
    /\ attempt[p] = "AUTHORIZED"
    /\ p \notin claimed

\* payment_attempts.queue_entry_id is UNIQUE: an entry that a payment has
\* claimed cannot be claimed by a second one, and the join is rolled back.
Unclaimed(v) == \A q \in claimed : Payer[q] # v

\* A viewer whose entry is WAITING, or past LEFT, gets it back as it is.
Join(v, p) ==
    /\ show = "LIVE"
    /\ entry[v].status \in {"NONE", "LEFT"}
    /\ p # None => Usable(v, p) /\ Unclaimed(v)
    /\ entry' = [entry EXCEPT ![v] = [status |-> "WAITING", pay |-> p]]
    /\ claimed' = claimed \cup ({p} \ {None})
    /\ UNCHANGED <<show, call, attempt, attached, refund, earning, jobs, stripe>>

\* Leaving again repeats the release of the payment.
Leave(v) ==
    /\ entry[v].status \in {"WAITING", "LEFT"}
    /\ entry[v].pay # None => releasing[entry[v].pay] = "idle"
    /\ entry' = [entry EXCEPT ![v].status = "LEFT"]
    /\ releasing' = [p \in Payments |->
                        IF p = entry[v].pay /\ attempt[p] \notin {"CANCELED", "CAPTURED"}
                        THEN "cancel" ELSE releasing[p]]
    /\ UNCHANGED <<show, call, capturing, verified, rows, stripe>>

------------------------------------------------------------------------------
(* Calls to Stripe and their effect there. *)

\* The events Stripe sends when an intent becomes succeeded or canceled.
Told(p, kind) == events' = events \cup {<<p, kind>>}

\* Stripe cancels an intent that is neither captured nor canceled yet.
CancelAtStripe(p) ==
    /\ intent[p] \in {"requires_payment_method", "requires_capture"}
    /\ intent' = [intent EXCEPT ![p] = "canceled"]
    /\ Told(p, "canceled")

\* CancelForViewer: on an error of Stripe, or of the network, it gives up.
ReleaseCall(p) ==
    /\ releasing[p] = "cancel"
    /\ \/ CancelAtStripe(p) /\ \E next \in {"mark", "idle"} :
                                   releasing' = [releasing EXCEPT ![p] = next]
       \/ UNCHANGED <<intent, events>> /\ releasing' = [releasing EXCEPT ![p] = "idle"]
    /\ UNCHANGED <<show, entry, call, capturing, verified, declined, rows>>

MarkCanceled(p) ==
    /\ releasing[p] = "mark"
    /\ releasing' = [releasing EXCEPT ![p] = "idle"]
    /\ attempt' = [attempt EXCEPT ![p] = IF @ = "CAPTURED" THEN @ ELSE "CANCELED"]
    /\ UNCHANGED <<show, entry, call, attached, claimed, refund, earning, capturing,
                   verified, stripe>>

------------------------------------------------------------------------------
(* Selecting a caller: internal/call. *)

NoActiveCall == \A v \in Viewers : call[v].status \notin ActiveCall
Rank(v) == IF entry[v].pay = None THEN FreeRank ELSE PaidRank
Waiting == {v \in Viewers : entry[v].status = "WAITING"}

\* randomCaller: any position of the highest rank may be the pivot.
HighestRanked == {v \in Waiting : \A w \in Waiting : Rank(w) <= Rank(v)}

\* The new call of a viewer: calls.queue_entry_id is UNIQUE, so the INSERT fails
\* for an entry that had a call, and the selection is rolled back.
Opens(v, status) ==
    /\ call[v].status = "NONE"
    /\ call' = [call EXCEPT ![v] = [status |-> status, pay |-> entry[v].pay,
                                    started |-> FALSE]]
SelectFree(v) ==
    /\ entry[v].pay = None
    /\ Opens(v, "CREATED")
    /\ entry' = [entry EXCEPT ![v].status = "SELECTED"]
    /\ UNCHANGED <<attempt, capturing>>

\* The entry stays WAITING until the payment is captured.
SelectPaid(v) ==
    /\ entry[v].pay # None
    /\ attempt[entry[v].pay] = "AUTHORIZED"
    /\ Opens(v, "PAYMENT_PENDING")
    /\ attempt' = [attempt EXCEPT ![entry[v].pay] = "CAPTURING"]
    /\ capturing' = [capturing EXCEPT ![v] = "capture"]
    /\ UNCHANGED entry

Select(v) ==
    /\ show = "LIVE"
    /\ NoActiveCall
    /\ v \in Waiting
    /\ SelectFree(v) \/ SelectPaid(v)
    /\ UNCHANGED <<show, attached, claimed, refund, earning, releasing, verified, stripe>>
SelectRandom == \E v \in HighestRanked : Select(v)

\* Capture: it succeeds and the answer arrives, or an error does, after a
\* capture or without one.  A canceled intent is reported as such or as an error.
CaptureCall(v) ==
    LET p == call[v].pay
    IN /\ capturing[v] = "capture"
       /\ \/ /\ intent[p] = "requires_capture"
             /\ intent' = [intent EXCEPT ![p] = "succeeded"]
             /\ Told(p, "succeeded")
             /\ \E next \in {"complete", "cancel"} :
                    capturing' = [capturing EXCEPT ![v] = next]
          \/ /\ capturing' = [capturing EXCEPT ![v] = "cancel"]
             /\ UNCHANGED <<intent, events>>
          \/ /\ intent[p] = "canceled"
             /\ capturing' = [capturing EXCEPT ![v] = "fail"]
             /\ UNCHANGED <<intent, events>>
       /\ UNCHANGED <<show, entry, call, releasing, verified, declined, rows>>

\* After an error the hold is canceled; if that fails too, the call is left
\* PAYMENT_PENDING for the webhook (ErrPaymentPending).
CancelFailedCapture(v) ==
    /\ capturing[v] = "cancel"
    /\ \/ CancelAtStripe(call[v].pay) /\ \E next \in {"fail", "idle"} :
                                             capturing' = [capturing EXCEPT ![v] = next]
       \/ UNCHANGED <<intent, events>> /\ capturing' = [capturing EXCEPT ![v] = "idle"]
    /\ UNCHANGED <<show, entry, call, releasing, verified, declined, rows>>

\* An entry that is no longer WAITING rolls all of it back.
FailPaidSelection(v) ==
    LET p == call[v].pay
    IN /\ capturing[v] = "fail"
       /\ capturing' = [capturing EXCEPT ![v] = "idle"]
       /\ IF entry[v].status = "WAITING"
          THEN /\ call' = [call EXCEPT ![v].status =
                              IF @ = "PAYMENT_PENDING" THEN "FAILED" ELSE @]
               /\ attempt' = [attempt EXCEPT ![p] =
                                 IF @ = "CAPTURING" THEN "FAILED" ELSE @]
               /\ entry' = [entry EXCEPT ![v].status = "LEFT"]
          ELSE UNCHANGED <<call, attempt, entry>>
       /\ UNCHANGED <<show, attached, claimed, refund, earning, releasing, verified, stripe>>

\* enqueueRefundForCall: once per attempt, and only for money that was taken.
RefundOf(p, books) == IF p # None /\ books[p] = "CAPTURED" THEN {p} ELSE {}

CompletePaidSelection(v) ==
    LET p == call[v].pay
        books == [attempt EXCEPT ![p] =
                     IF @ \in {"CAPTURING", "CAPTURED"} THEN "CAPTURED" ELSE @]
    IN /\ capturing[v] = "complete"
       /\ capturing' = [capturing EXCEPT ![v] = "idle"]
       /\ \/ /\ show # "LIVE"
             /\ attempt' = books
             /\ call' = [call EXCEPT ![v].status = "FAILED"]
             /\ refund' = refund \cup RefundOf(p, books)
             /\ UNCHANGED entry
          \/ /\ show = "LIVE"
             /\ call[v].status = "PAYMENT_PENDING"
             /\ attempt' = books
             /\ call' = [call EXCEPT ![v].status = "CREATED"]
             /\ entry' = [entry EXCEPT ![v].status =
                             IF @ = "WAITING" THEN "SELECTED" ELSE @]
             /\ UNCHANGED refund
          \/ /\ show = "LIVE"
             /\ call[v].status # "PAYMENT_PENDING"
             /\ UNCHANGED <<attempt, call, entry, refund>>
       /\ UNCHANGED <<show, attached, claimed, earning, releasing, verified, stripe>>

------------------------------------------------------------------------------
(* The call's life: applyTransition, and the sweeps that use it. *)

CanTransition(from, to) ==
    \/ from = "CREATED" /\ to \in {"CONNECTING", "ENDED", "FAILED"}
    \/ from = "CONNECTING" /\ to \in {"LIVE", "ENDED", "FAILED"}
    \/ from = "LIVE" /\ to \in {"ENDED", "FAILED"}

EntryAfter(v, target) == IF target = "FAILED" THEN "ENDED" ELSE target

ApplyTransition(v, target) ==
    LET p == call[v].pay
    IN /\ CanTransition(call[v].status, target)
       /\ call' = [call EXCEPT ![v].status = target,
                               ![v].started = @ \/ target = "LIVE"]
       /\ entry' = [entry EXCEPT ![v].status = EntryAfter(v, target)]
       /\ refund' = refund \cup (IF target \in {"ENDED", "FAILED"} /\ ~call[v].started
                                 THEN RefundOf(p, attempt) ELSE {})
       /\ earning' = earning \cup (IF target = "LIVE" THEN RefundOf(p, attempt) ELSE {})

\* The creator, the viewer, ExpireDue or ExpireDisconnected.
Transition(v, target) ==
    /\ ApplyTransition(v, target)
    /\ UNCHANGED <<show, attempt, attached, claimed, jobs, stripe>>

------------------------------------------------------------------------------
(* The webhook: the claimed event is processed in one transaction; a handler *)
(* that dies before CompleteEvent leaves the event to be processed again.    *)

\* Fault: only a call that still waits for the payment is given its money back.
RefundsPending(v) == call[v].status = "PAYMENT_PENDING" /\ show # "LIVE"
\* Fault: a call that was LIVE is given its money back too.
RefundsStarted(v) == show # "LIVE"

ShouldRefund(v) == ~call[v].started /\ show # "LIVE"

ReconcileCaptured(p) ==
    LET v == Payer[p]
        has == call[v].pay = p
        pending == has /\ call[v].status = "PAYMENT_PENDING"
        late == has /\ ShouldRefund(v)
    IN /\ attempt' = [attempt EXCEPT ![p] = "CAPTURED"]
       /\ call' = [call EXCEPT ![v].status =
                      CASE pending /\ late -> "FAILED"
                        [] pending /\ ~late -> "CREATED"
                        [] OTHER -> @]
       /\ entry' = [entry EXCEPT ![v].status =
                       CASE late /\ @ \in ActiveEntry -> "ENDED"
                         [] pending /\ ~late -> "SELECTED"
                         [] OTHER -> @]
       /\ refund' = refund \cup (IF late THEN {p} ELSE {})

ReconcileNotCaptured(p, status) ==
    LET v == Payer[p]
    IN IF attempt[p] = "CAPTURED" THEN UNCHANGED <<attempt, call, entry, refund>>
       ELSE /\ attempt' = [attempt EXCEPT ![p] = status]
            /\ call' = [call EXCEPT ![v].status =
                           IF call[v].pay = p /\ @ = "PAYMENT_PENDING" THEN "FAILED" ELSE @]
            /\ entry' = [entry EXCEPT ![v].status =
                            IF entry[v].pay = p /\ @ = "WAITING" THEN "LEFT" ELSE @]
            /\ UNCHANGED refund

\* Fault: an event of a canceled payment is answered and not processed.
IgnoresCanceled(p, kind) ==
    /\ <<p, kind>> \in events
    /\ \/ kind = "succeeded" /\ ReconcileCaptured(p)
       \/ kind = "canceled" /\ UNCHANGED <<attempt, call, entry, refund>>
       \/ kind = "payment_failed" /\ ReconcileNotCaptured(p, "FAILED")
    /\ UNCHANGED <<show, attached, claimed, earning, intent, declined, jobs>>

ProcessEvent(p, kind) ==
    /\ <<p, kind>> \in events
    /\ \/ kind = "succeeded" /\ ReconcileCaptured(p)
       \/ kind = "canceled" /\ ReconcileNotCaptured(p, "CANCELED")
       \/ kind = "payment_failed" /\ ReconcileNotCaptured(p, "FAILED")
    /\ UNCHANGED <<show, attached, claimed, earning, intent, declined, jobs>>

\* CompleteEvent is reached, or the handler dies and Stripe delivers it again.
Webhook(p, kind) ==
    /\ ProcessEvent(p, kind)
    /\ events' = events \ {<<p, kind>>}
WebhookDies(p, kind) ==
    /\ ProcessEvent(p, kind)
    /\ UNCHANGED events

------------------------------------------------------------------------------
(* The environment. *)

\* The caller's card is accepted for the hold: the intent is to be captured manually.
Confirm(p) ==
    /\ p \in attached
    /\ intent[p] = "requires_payment_method"
    /\ intent' = [intent EXCEPT ![p] = "requires_capture"]
    /\ UNCHANGED <<show, entry, call, events, declined, rows, jobs>>

\* A card is refused; the caller may try another one on the same intent.
Decline(p) ==
    /\ p \in attached \ declined
    /\ intent[p] = "requires_payment_method"
    /\ declined' = declined \cup {p}
    /\ Told(p, "payment_failed")
    /\ UNCHANGED <<show, entry, call, intent, rows, jobs>>

\* A hold that nobody captures is given up by Stripe after seven days.
HoldLapses(p) ==
    /\ intent[p] = "requires_capture"
    /\ CancelAtStripe(p)
    /\ UNCHANGED <<show, entry, call, declined, rows, jobs>>

\* The process serving a selection or a departure stops.
HandlerDies ==
    /\ \/ \E v \in Viewers : /\ capturing[v] # "idle"
                             /\ capturing' = [capturing EXCEPT ![v] = "idle"]
                             /\ UNCHANGED releasing
       \/ \E p \in Payments : /\ releasing[p] # "idle"
                              /\ releasing' = [releasing EXCEPT ![p] = "idle"]
                              /\ UNCHANGED capturing
    /\ UNCHANGED <<show, entry, call, verified, rows, stripe>>

------------------------------------------------------------------------------
CallsNext ==
    \/ StartShow \/ EndShow \/ SelectRandom \/ HandlerDies
    \/ \E p \in Payments :
          \/ Prepare(p) \/ CreateAuthorization(p) \/ RetrieveIntent(p)
          \/ MarkAuthorized(p) \/ ReleaseCall(p) \/ MarkCanceled(p)
          \/ Confirm(p) \/ Decline(p) \/ HoldLapses(p)
          \/ \E kind \in EventKinds : Webhook(p, kind) \/ WebhookDies(p, kind)
    \/ \E v \in Viewers :
          \/ Leave(v) \/ Select(v) \/ CaptureCall(v) \/ CancelFailedCapture(v)
          \/ FailPaidSelection(v) \/ CompletePaidSelection(v)
          \/ \E p \in Payments \cup {None} : Join(v, p)
          \/ \E target \in CallStatuses : Transition(v, target)

CallsSpec == CallsInit /\ [][CallsNext]_callsVars

\* Stripe lets an unused hold lapse and repeats an event until it is answered;
\* nothing is assumed of the handlers, which may die at every step.
CallsFairness ==
    \A p \in Payments :
        /\ WF_callsVars(HoldLapses(p))
        /\ \A kind \in EventKinds : WF_callsVars(Webhook(p, kind))

------------------------------------------------------------------------------
(* Properties. *)

\* Every row holds what its column allows.
CallsTypeOK ==
    /\ show \in {"CREATED", "LIVE", "ENDED"}
    /\ entry \in [Viewers -> [status : EntryStatuses, pay : Payments \cup {None}]]
    /\ call \in [Viewers -> [status : CallStatuses, pay : Payments \cup {None},
                             started : BOOLEAN]]
    /\ attempt \in [Payments -> AttemptStatuses]
    /\ attached \subseteq Payments /\ claimed \subseteq Payments
    /\ refund \subseteq Payments /\ earning \subseteq Payments
    /\ capturing \in [Viewers -> {"idle", "capture", "cancel", "fail", "complete"}]
    /\ releasing \in [Payments -> {"idle", "cancel", "mark"}]
    /\ verified \subseteq Payments /\ declined \subseteq Payments
    /\ intent \in [Payments -> IntentStatuses]
    /\ events \subseteq Payments \X EventKinds

\* Select, completePaidSelection and Reconcile never rely on the unique index to
\* keep a second call from opening.
ApiOneActiveCall == Cardinality({v \in Viewers : call[v].status \in ActiveCall}) <= 1

\* payment_attempts never says more than Stripe does, whichever of the leave
\* handler, the selection and the webhook comes last.
ApiBooksMatchStripe ==
    \A p \in Payments :
        /\ attempt[p] = "CAPTURED" => intent[p] = "succeeded"
        /\ attempt[p] = "CANCELED" => intent[p] = "canceled"
        /\ attempt[p] = "FAILED" => intent[p] = "canceled" \/ p \in declined

\* A call that is open was paid for, unless it is free.
ApiOpenCallIsPaid ==
    \A v \in Viewers :
        call[v].status \in {"CREATED", "CONNECTING", "LIVE"} /\ call[v].pay # None
            => intent[call[v].pay] = "succeeded" /\ attempt[call[v].pay] = "CAPTURED"

\* A queue entry past WAITING has a call at the same stage, and a call that
\* connects has its entry: also for a caller who leaves, and even joins again,
\* while the payment is being captured.
ApiEntryFollowsCall ==
    \A v \in Viewers :
        /\ entry[v].status = "SELECTED" => call[v].status = "CREATED"
        /\ entry[v].status \in {"CONNECTING", "LIVE"} => call[v].status = entry[v].status
        /\ call[v].status \in {"CONNECTING", "LIVE"} => entry[v].status = call[v].status

\* show.transition closes everything, and what a capture or an event does
\* afterwards opens nothing.
ApiEndedShowIsQuiet ==
    show = "ENDED" => \A v \in Viewers : /\ call[v].status \notin ActiveCall
                                         /\ entry[v].status \notin ActiveEntry

\* Money that was taken is earned, given back, or in a call that is still open,
\* once the selection's handler and the event of the capture are done: whoever
\* died, left or ended the show in between.  Payments with a declined card are
\* left out: the late event of the refusal can fail a call under capture.
ApiChargeIsSettled ==
    \A v \in Viewers, p \in Payments \ declined :
        /\ intent[p] = "succeeded"
        /\ call[v].pay = p
        /\ capturing[v] = "idle"
        /\ <<p, "succeeded">> \notin events
        => \/ p \in refund \cup earning
           \/ call[v].status \in {"CREATED", "CONNECTING"}

\* Where a payment stands.  One that was refunded is refunded, earned or not.
MoneyOf(p) ==
    CASE intent[p] \in {"none", "requires_payment_method"} -> "unpaid"
      [] intent[p] = "requires_capture" -> "held"
      [] intent[p] = "canceled" -> "released"
      [] intent[p] = "succeeded" /\ p \in refund -> "refunded"
      [] intent[p] = "succeeded" /\ p \in earning \ refund -> "earned"
      [] OTHER -> "charged"
ApiMoney == [p \in Payments |-> MoneyOf(p)]
ApiPicked == {p \in Payments : \E v \in Viewers : call[v].pay = p}
Abstract == INSTANCE Payment WITH
    Attempts <- Payments, money <- ApiMoney, picked <- ApiPicked

\* The one step that Payment does not have: completePaidSelection, which its handler
\* reaches only after an event opened the call, the call was LIVE and the show ended,
\* refunds the payment that the creator has earned (call/store.go 234-240).
TakesBack ==
    \E v \in Viewers : /\ capturing[v] = "complete" /\ show = "ENDED"
                       /\ Abstract!Move(call[v].pay, {"earned"}, "refunded")

\* Each payment follows the abstract Payment: it is charged only after its caller was
\* picked, and then earned or refunded and never both, but for TakesBack: neither the
\* end of the show, nor an event delivered twice, nor a call that fails refunds what
\* was earned, and nothing refunded is ever earned (internal/call, internal/payment).
ApiImplementsPayment ==
    Abstract!Init /\ [][Abstract!Next \/ TakesBack]_<<ApiMoney, ApiPicked>>

\* A call does not wait for its payment for ever, though the handler that should
\* have settled it died: Stripe's hold ends, and its event decides.
ApiPendingSettles ==
    \A v \in Viewers : call[v].status = "PAYMENT_PENDING"
                          ~> call[v].status # "PAYMENT_PENDING"

\* Queue, calls, payments and refunds agree with each other and with Stripe, whatever
\* the handlers of internal/call, internal/payment and internal/show interleave.
ApiCallsAreSound ==
    /\ CallsTypeOK
    /\ ApiOneActiveCall
    /\ ApiBooksMatchStripe
    /\ ApiOpenCallIsPaid
    /\ ApiEntryFollowsCall
    /\ ApiEndedShowIsQuiet
    /\ ApiChargeIsSettled
==============================================================================
