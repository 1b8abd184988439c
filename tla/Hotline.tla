------------------------------ MODULE Hotline ------------------------------
(***************************************************************************)
(* One show of a creator: its queue, its calls and the payments behind     *)
(* them, as frontend/convex runs them.                                     *)
(*                                                                         *)
(* A Convex mutation is a serializable transaction, so each one is a       *)
(* single action here.  A Convex action is not: between its Stripe         *)
(* requests and its mutations anything may happen, it runs at most once    *)
(* and may die at any point.  payments.capture and payments.cancelIntent   *)
(* are therefore jobs with one step per request or mutation.  Stripe is    *)
(* the external part: the state of each PaymentIntent and the webhook      *)
(* events it has emitted, which arrive late, in any order and repeatedly.  *)
(*                                                                         *)
(* Variables are the columns of the tables (schema.ts) that the properties *)
(* tell apart.  What makes an open call end by itself is the subject of    *)
(* CallPresence; the refund worker and the ledger of Refunds.              *)
(***************************************************************************)
EXTENDS Naturals, FiniteSets

CONSTANTS
    Viewers,          \* callers; each has at most one queue entry per show
    Attempts,         \* paymentAttempts rows a caller may create
    Payer,            \* the caller each attempt belongs to
    Calls,            \* calls rows (a bound on how many calls are made)
    Tiers, PaidTiers, \* enabled tiers, which cannot change once LIVE
    Rank,             \* showTiers.priorityRank
    None,             \* an absent optional column
    CloseBatch,       \* CLOSE_BATCH of shows.ts
    MaxCaptureTries,  \* MAX_CAPTURE_TRIES of payments.ts
    MaxCaptureJobs,   \* bound: the sweep adds a capture to fewer running ones
    MaxDeclines       \* bound: declined cards per PaymentIntent

ASSUME PayerAssumption == Payer \in [Attempts -> Viewers]
ASSUME TierAssumption == /\ PaidTiers \subseteq Tiers
                         /\ Rank \in [Tiers -> Nat]
ASSUME NoneAssumption == None \notin Viewers \cup Attempts \cup Tiers
ASSUME BoundAssumption == /\ CloseBatch \in Nat \ {0}
                          /\ MaxCaptureTries \in Nat \ {0}
                          /\ MaxCaptureJobs \in Nat
                          /\ MaxDeclines \in Nat

VARIABLES
    showStatus,    \* shows.status
    closing,       \* a shows.closeQueue run is scheduled
    entryStatus,   \* queueEntries.status per viewer ("NONE": no row)
    entryTier,     \* queueEntries.tierId
    entryPayment,  \* queueEntries.paymentAttemptId
    callStatus,    \* calls.status ("NONE": no row)
    callViewer,    \* calls.viewerId, hence calls.queueEntryId
    callPayment,   \* calls.paymentAttemptId
    callStarted,   \* calls.startedAt is set
    payStatus,     \* paymentAttempts.status ("NONE": no row)
    payTier,       \* paymentAttempts.tierId
    payIntent,     \* paymentAttempts.stripePaymentIntentId is set
    payEntry,      \* paymentAttempts.queueEntryId, as its viewer
    refunds,       \* attempts with a paymentRefunds row
    earned,        \* attempts with an EARNING ledger entry
    captureJobs,   \* payments.capture actions scheduled or running
    cancelJobs,    \* payments.cancelIntent actions scheduled or running
    verifying,     \* joinPaid actions that read a hold in place at Stripe
    intent,        \* Stripe: PaymentIntent.status ("none": not created)
    events,        \* Stripe: payment_intent events emitted so far
    stripeEvents   \* stripeEvents rows: events already applied

queueVars  == <<entryStatus, entryTier, entryPayment>>
callVars   == <<callStatus, callViewer, callPayment, callStarted>>
payVars    == <<payStatus, payTier, payIntent, payEntry>>
moneyVars  == <<refunds, earned>>
jobVars    == <<captureJobs, cancelJobs, verifying>>
stripeVars == <<intent, events>>
vars == <<showStatus, closing, queueVars, callVars, payVars, moneyVars,
          jobVars, stripeVars, stripeEvents>>

-----------------------------------------------------------------------------
(* Statuses and the shape of jobs and events.                              *)

ShowStatuses  == {"CREATED", "LIVE", "ENDED"}
EntryStatuses == {"WAITING", "SELECTED", "CONNECTING", "LIVE", "ENDED", "LEFT"}
CallStatuses  == {"PAYMENT_PENDING", "CREATED", "CONNECTING", "LIVE",
                  "ENDED", "FAILED"}
PayStatuses   == {"CREATED", "AUTHORIZED", "CAPTURING", "CAPTURED",
                  "CANCELED", "FAILED"}
IntentStatuses == {"none", "requires_payment_method", "requires_capture",
                   "succeeded", "canceled"}

ActiveEntryStatuses == {"WAITING", "SELECTED", "CONNECTING", "LIVE"}
ActiveCallStatuses  == {"PAYMENT_PENDING", "CREATED", "CONNECTING", "LIVE"}
ConnectableStatuses == {"CREATED", "CONNECTING", "LIVE"}
FinishedStatuses    == {"ENDED", "FAILED"}

\* The allowed moves of a call; PAYMENT_PENDING has none, since only the
\* payment's outcome moves such a call.
CanTransition(from, to) ==
    \/ from = "CREATED"    /\ to \in {"CONNECTING", "ENDED", "FAILED"}
    \/ from = "CONNECTING" /\ to \in {"LIVE", "ENDED", "FAILED"}
    \/ from = "LIVE"       /\ to \in {"ENDED", "FAILED"}

\* Where a payments.capture action stands: scheduled; about to call Stripe;
\* told "succeeded"; told the capture was refused; told the hold is released.
CapturePhases == {"scheduled", "calling", "succeeded", "refused", "released"}
CaptureJob == [call : Calls, phase : CapturePhases, tries : Nat]
\* Where a payments.cancelIntent action stands.
CancelPhases == {"scheduled", "calling", "canceled"}
CancelJob == [attempt : Attempts, phase : CancelPhases]

\* payment_intent.* events; n tells apart the declines of one intent.
Event == [type : {"succeeded", "canceled", "payment_failed"},
          attempt : Attempts, n : 0..MaxDeclines]
Ev(type, a) == [type |-> type, attempt |-> a, n |-> 0]

-----------------------------------------------------------------------------
Init ==
    /\ showStatus = "CREATED"
    /\ closing = FALSE
    /\ entryStatus = [v \in Viewers |-> "NONE"]
    /\ entryTier = [v \in Viewers |-> None]
    /\ entryPayment = [v \in Viewers |-> None]
    /\ callStatus = [c \in Calls |-> "NONE"]
    /\ callViewer = [c \in Calls |-> None]
    /\ callPayment = [c \in Calls |-> None]
    /\ callStarted = [c \in Calls |-> FALSE]
    /\ payStatus = [a \in Attempts |-> "NONE"]
    /\ payTier = [a \in Attempts |-> None]
    /\ payIntent = [a \in Attempts |-> FALSE]
    /\ payEntry = [a \in Attempts |-> None]
    /\ refunds = {}
    /\ earned = {}
    /\ captureJobs = {}
    /\ cancelJobs = {}
    /\ verifying = {}
    /\ intent = [a \in Attempts |-> "none"]
    /\ events = {}
    /\ stripeEvents = {}

-----------------------------------------------------------------------------
(* Shared helpers of lib/payments.ts and lib/calls.ts.                     *)

CallsFor(a) == {c \in Calls : callPayment[c] = a}

\* lib/payments.scheduleCancel: the attempts of A whose hold can be released.
Cancellable(a) == payIntent[a] /\ payStatus[a] \in {"CREATED", "AUTHORIZED"}
ScheduleCancel(A) ==
    cancelJobs' = cancelJobs \cup
        {[attempt |-> a, phase |-> "scheduled"] : a \in {x \in A : Cancellable(x)}}

\* lib/payments.requestRefund: one row per captured attempt.
RequestRefund(a) == IF payIntent[a] THEN refunds \cup {a} ELSE refunds

PendingCalls(a) == {c \in CallsFor(a) : callStatus[c] = "PAYMENT_PENDING"}

\* Fault: a show that is over still takes calls.
ShowLiveOrOver == showStatus # "CREATED"
ShowLive == showStatus = "LIVE"

\* Fault: the end of the show is not noticed.
NeverTooLate(a) == {}
\* Calls that can no longer start, because the show is over.
TooLate(a) == IF ShowLive THEN {} ELSE {c \in CallsFor(a) : ~callStarted[c]}

\* lib/payments.recordCaptured: a call waiting on the capture opens; if its show
\* is over it fails, and the payment is refunded.
RecordCaptured(a) ==
    /\ payStatus' = [payStatus EXCEPT ![a] = "CAPTURED"]
    /\ callStatus' = [c \in Calls |->
            IF c \notin PendingCalls(a) THEN callStatus[c]
            ELSE IF ShowLive THEN "CREATED"
            ELSE IF c \in TooLate(a) THEN "FAILED" ELSE callStatus[c]]
    /\ entryStatus' = [v \in Viewers |->
            IF \E c \in PendingCalls(a) \cap TooLate(a) : callViewer[c] = v
            THEN "ENDED" ELSE entryStatus[v]]
    /\ refunds' = IF TooLate(a) # {} THEN RequestRefund(a) ELSE refunds

\* Fault: only a caller already selected is released.
WaitsOnSelected(v, a) == /\ payEntry[a] = v
                         /\ entryStatus[v] = "SELECTED" /\ PendingCalls(a) # {}
\* The entry a failed payment releases: the one the attempt names, if it is
\* WAITING or SELECTED for the call that fails with it.
WaitsOn(v, a) ==
    /\ payEntry[a] = v
    /\ \/ entryStatus[v] = "WAITING"
       \/ entryStatus[v] = "SELECTED" /\ PendingCalls(a) # {}

FailsWith(c, a) == c \in PendingCalls(a)

\* lib/payments.recordNotCaptured; a captured attempt is left alone.
RecordNotCaptured(a, status) ==
    LET settles == payStatus[a] # "CAPTURED"
    IN /\ payStatus' = [payStatus EXCEPT ![a] = IF settles THEN status ELSE @]
       /\ callStatus' = [c \in Calls |->
            IF settles /\ FailsWith(c, a) THEN "FAILED" ELSE callStatus[c]]
       /\ entryStatus' = [v \in Viewers |->
            IF settles /\ WaitsOn(v, a) THEN "LEFT" ELSE entryStatus[v]]

\* Fault: the entry takes the call's status as it is.
EntryCopies(target) == target
\* Fault: the entry stays SELECTED until the call is over.
EntryLags(target) == IF target \in FinishedStatuses THEN "ENDED" ELSE "SELECTED"
\* The caller's entry follows the call; a failed call simply ends it.
EntryFor(target) == IF target \in FinishedStatuses THEN "ENDED" ELSE target

\* Fault: a call that was LIVE is refunded as well.
RefundsAny(c, target) == target \in FinishedStatuses
\* Fault: only failed calls are refunded, not those that were hung up on.
RefundsFailed(c, target) == target = "FAILED" /\ ~callStarted[c]
\* A paid call that never went live is refunded in full.
RefundsOn(c, target) == target \in FinishedStatuses /\ ~callStarted[c]

\* lib/calls.applyTransition for a target other than the current status, which
\* it returns without writing.  Presence rows and timers: CallPresence.
ApplyTransition(c, target) ==
    LET a == callPayment[c]
        captured == a # None /\ payStatus[a] = "CAPTURED"
    IN /\ CanTransition(callStatus[c], target)
       /\ callStatus' = [callStatus EXCEPT ![c] = target]
       /\ callStarted' = [callStarted EXCEPT ![c] = @ \/ target = "LIVE"]
       /\ entryStatus' = [entryStatus EXCEPT ![callViewer[c]] = EntryFor(target)]
       /\ earned' = IF target = "LIVE" /\ ~callStarted[c] /\ captured
                    THEN earned \cup {a} ELSE earned
       /\ refunds' = IF RefundsOn(c, target) /\ captured
                     THEN RequestRefund(a) ELSE refunds
       /\ UNCHANGED <<callViewer, callPayment>>

-----------------------------------------------------------------------------
(* shows.ts.  The other conditions of start (payout account, no other live *)
(* show) read tables this module does not hold.                            *)

Start ==
    /\ showStatus = "CREATED"
    /\ Tiers # {}
    /\ showStatus' = "LIVE"
    /\ UNCHANGED <<closing, queueVars, callVars, payVars, moneyVars, jobVars,
                   stripeVars, stripeEvents>>

OpenCalls == {c \in Calls : callStatus[c] \in ConnectableStatuses}

\* An open call ends with its show; one still capturing is settled when the
\* capture finishes.
End ==
    /\ showStatus = "LIVE"
    /\ showStatus' = "ENDED"
    /\ closing' = TRUE
    /\ \/ \E c \in OpenCalls : ApplyTransition(c, "ENDED")
       \/ /\ OpenCalls = {}
          /\ UNCHANGED <<entryStatus, callVars, moneyVars>>
    /\ UNCHANGED <<entryTier, entryPayment, payVars, jobVars, stripeVars,
                   stripeEvents>>

ActiveEntries == {v \in Viewers : entryStatus[v] \in ActiveEntryStatuses}

\* The order in which closeEntries visits the statuses.
StatusOrder(s) == CASE s = "WAITING" -> 1 [] s = "SELECTED" -> 2
                    [] s = "CONNECTING" -> 3 [] OTHER -> 4

\* shows.closeEntries takes up to CloseBatch active entries, status by status;
\* within a status any entries may come first.
Batch(B) ==
    /\ Cardinality(B) <= CloseBatch
    /\ B = ActiveEntries \/ Cardinality(B) = CloseBatch
    /\ \A v \in B, w \in ActiveEntries \ B :
          StatusOrder(entryStatus[v]) <= StatusOrder(entryStatus[w])

\* Fault: a full batch does not schedule the next one.
MoreThanFull(B) == Cardinality(B) > CloseBatch
MoreToClose(B) == Cardinality(B) = CloseBatch

CloseQueue ==
    /\ closing
    /\ \E B \in SUBSET ActiveEntries :
        /\ Batch(B)
        /\ entryStatus' = [v \in Viewers |->
                             IF v \in B THEN "ENDED" ELSE entryStatus[v]]
        /\ ScheduleCancel({a \in Attempts : \E v \in B :
                entryStatus[v] = "WAITING" /\ entryPayment[v] = a})
        /\ closing' = MoreToClose(B)
    /\ UNCHANGED <<showStatus, entryTier, entryPayment, callVars, payVars,
                   moneyVars, captureJobs, verifying, stripeVars, stripeEvents>>

-----------------------------------------------------------------------------
(* payments.authorize: prepare, create the intent at Stripe, record its id. *)

Prepare(a, t) ==
    /\ showStatus = "LIVE"
    /\ t \in PaidTiers
    /\ payStatus[a] = "NONE"
    /\ payStatus' = [payStatus EXCEPT ![a] = "CREATED"]
    /\ payTier' = [payTier EXCEPT ![a] = t]
    /\ UNCHANGED <<showStatus, closing, queueVars, callVars, payIntent, payEntry,
                   moneyVars, jobVars, stripeVars, stripeEvents>>

CreateIntent(a) ==
    /\ payStatus[a] # "NONE"
    /\ intent[a] = "none"
    /\ intent' = [intent EXCEPT ![a] = "requires_payment_method"]
    /\ UNCHANGED <<showStatus, closing, queueVars, callVars, payVars, moneyVars,
                   jobVars, events, stripeEvents>>

AttachIntent(a) ==
    /\ intent[a] # "none"
    /\ ~payIntent[a]
    /\ payIntent' = [payIntent EXCEPT ![a] = TRUE]
    /\ UNCHANGED <<showStatus, closing, queueVars, callVars, payStatus, payTier,
                   payEntry, moneyVars, jobVars, stripeVars, stripeEvents>>

\* payments.verifyAuthorization reads the hold at Stripe...
VerifyAuthorization(a) ==
    /\ payStatus[a] = "CREATED"
    /\ payIntent[a]
    /\ intent[a] = "requires_capture"
    /\ verifying' = verifying \cup {a}
    /\ UNCHANGED <<showStatus, closing, queueVars, callVars, payVars, moneyVars,
                   captureJobs, cancelJobs, stripeVars, stripeEvents>>

\* ... and records it in a later mutation, by when both may have changed.
MarkAuthorized(a) ==
    /\ a \in verifying
    /\ verifying' = verifying \ {a}
    /\ payStatus' = [payStatus EXCEPT
                        ![a] = IF @ = "CREATED" THEN "AUTHORIZED" ELSE @]
    /\ UNCHANGED <<showStatus, closing, queueVars, callVars, payTier, payIntent,
                   payEntry, moneyVars, captureJobs, cancelJobs, stripeVars,
                   stripeEvents>>

-----------------------------------------------------------------------------
(* queue.ts.                                                               *)

\* queue.joinQueue; a caller who is already in is returned unchanged.
JoinQueue(v, t, a) ==
    /\ showStatus = "LIVE"
    /\ entryStatus[v] \in {"NONE", "LEFT"}
    /\ entryStatus' = [entryStatus EXCEPT ![v] = "WAITING"]
    /\ entryTier' = [entryTier EXCEPT ![v] = t]
    /\ entryPayment' = [entryPayment EXCEPT ![v] = a]
    /\ UNCHANGED <<showStatus, closing, callVars, payStatus, payTier, payIntent,
                   moneyVars, jobVars, stripeVars, stripeEvents>>

Join(v, t) ==
    /\ t \in Tiers \ PaidTiers
    /\ JoinQueue(v, t, None)
    /\ UNCHANGED payEntry

\* joinWithPayment: the caller's own hold for this tier, not used elsewhere.
Usable(a, v, t) ==
    /\ Payer[a] = v
    /\ payTier[a] = t
    /\ payStatus[a] = "AUTHORIZED"
    /\ payEntry[a] \in {None, v}

JoinWithPayment(v, t, a) ==
    /\ t \in PaidTiers
    /\ Usable(a, v, t)
    /\ JoinQueue(v, t, a)
    /\ payEntry' = [payEntry EXCEPT ![a] = v]

Leave(v) ==
    /\ entryStatus[v] = "WAITING"
    /\ entryStatus' = [entryStatus EXCEPT ![v] = "LEFT"]
    /\ ScheduleCancel({entryPayment[v]} \ {None})
    /\ UNCHANGED <<showStatus, closing, entryTier, entryPayment, callVars,
                   payVars, moneyVars, captureJobs, verifying, stripeVars,
                   stripeEvents>>

-----------------------------------------------------------------------------
(* calls.ts.                                                               *)

ActiveCalls == {c \in Calls : callStatus[c] \in ActiveCallStatuses}
Waiting == {v \in Viewers : entryStatus[v] = "WAITING"}

\* Fault: a call still being charged does not block a selection.
PrepareSelectionOpenOnly == showStatus = "LIVE" /\ OpenCalls = {}

PrepareSelection == showStatus = "LIVE" /\ ActiveCalls = {}

\* Fault: a paid call opens at once and is captured in the background.
OpensAtOnce(paid) == "CREATED"
FirstStatus(paid) == IF paid THEN "PAYMENT_PENDING" ELSE "CREATED"

CreateCall(v, c) ==
    LET paid == entryTier[v] \in PaidTiers
        a == IF paid THEN entryPayment[v] ELSE None
    IN /\ callStatus[c] = "NONE"
       /\ paid => a # None /\ payStatus[a] = "AUTHORIZED"
       /\ entryStatus' = [entryStatus EXCEPT ![v] = "SELECTED"]
       /\ callStatus' = [callStatus EXCEPT ![c] = FirstStatus(paid)]
       /\ callViewer' = [callViewer EXCEPT ![c] = v]
       /\ callPayment' = [callPayment EXCEPT ![c] = a]
       /\ payStatus' = IF paid THEN [payStatus EXCEPT ![a] = "CAPTURING"]
                       ELSE payStatus
       /\ captureJobs' = IF paid THEN captureJobs \cup
                                {[call |-> c, phase |-> "scheduled", tries |-> 0]}
                         ELSE captureJobs
       /\ UNCHANGED <<showStatus, closing, entryTier, entryPayment, callStarted,
                      payTier, payIntent, payEntry, moneyVars, cancelJobs,
                      verifying, stripeVars, stripeEvents>>

Select(v, c) ==
    /\ PrepareSelection
    /\ v \in Waiting
    /\ CreateCall(v, c)

\* Anyone of the highest tier that has a caller waiting.
SelectRandom(c) ==
    /\ PrepareSelection
    /\ \E v \in Waiting :
        /\ \A w \in Waiting : Rank[entryTier[w]] <= Rank[entryTier[v]]
        /\ CreateCall(v, c)

RoleTargets(role) ==
    IF role = "creator" THEN {"CONNECTING", "LIVE", "ENDED", "FAILED"}
                        ELSE {"LIVE", "ENDED", "FAILED"}

Transition(c, role, target) ==
    /\ target \in RoleTargets(role)
    /\ ApplyTransition(c, target)
    /\ UNCHANGED <<showStatus, closing, entryTier, entryPayment, payVars,
                   jobVars, stripeVars, stripeEvents>>

\* The timer of a LIVE call fires.
Expire(c) ==
    /\ callStatus[c] = "LIVE"
    /\ ApplyTransition(c, "ENDED")
    /\ UNCHANGED <<showStatus, closing, entryTier, entryPayment, payVars,
                   jobVars, stripeVars, stripeEvents>>

-----------------------------------------------------------------------------
(* Stripe.                                                                 *)

StripeCaptures(a) ==
    /\ intent[a] = "requires_capture"
    /\ intent' = [intent EXCEPT ![a] = "succeeded"]
    /\ events' = events \cup {Ev("succeeded", a)}

StripeCancels(a) ==
    /\ intent[a] \in {"requires_payment_method", "requires_capture"}
    /\ intent' = [intent EXCEPT ![a] = "canceled"]
    /\ events' = events \cup {Ev("canceled", a)}

\* The caller confirms a card: the hold is placed, or the card is declined and
\* another may be tried on the same intent.
ConfirmCard(a) ==
    /\ payIntent[a]
    /\ intent[a] = "requires_payment_method"
    /\ \/ /\ intent' = [intent EXCEPT ![a] = "requires_capture"]
          /\ UNCHANGED events
       \/ /\ \E n \in 1..MaxDeclines :
                LET e == [type |-> "payment_failed", attempt |-> a, n |-> n]
                IN e \notin events /\ events' = events \cup {e}
          /\ UNCHANGED intent
    /\ UNCHANGED <<showStatus, closing, queueVars, callVars, payVars, moneyVars,
                   jobVars, stripeEvents>>

\* An uncaptured hold lapses on its own after seven days.
HoldLapses(a) ==
    /\ intent[a] = "requires_capture"
    /\ StripeCancels(a)
    /\ UNCHANGED <<showStatus, closing, queueVars, callVars, payVars, moneyVars,
                   jobVars, stripeEvents>>

-----------------------------------------------------------------------------
(* payments.capture.                                                       *)

MoveCapture(j, phases) ==
    captureJobs' = (captureJobs \ {j}) \cup
        {[call |-> j.call, phase |-> p, tries |-> 0] : p \in phases}

\* pendingCapture: nothing is left to do unless the call still waits on it.
CaptureBegin(j) ==
    LET a == callPayment[j.call]
        pending == /\ callStatus[j.call] = "PAYMENT_PENDING"
                   /\ a # None
                   /\ payStatus[a] = "CAPTURING" /\ payIntent[a]
    IN /\ j.phase = "scheduled"
       /\ captureJobs' = (captureJobs \ {j}) \cup
            (IF pending THEN {[j EXCEPT !.phase = "calling"]} ELSE {})
       /\ UNCHANGED <<showStatus, closing, queueVars, callVars, payVars,
                      moneyVars, cancelJobs, verifying, stripeVars, stripeEvents>>

\* Stripe answers: it captures; or had captured; or refuses, and the intent is
\* read again.
CaptureAnswered(j) ==
    LET a == callPayment[j.call]
    IN /\ j.phase = "calling"
       /\ \/ StripeCaptures(a) /\ MoveCapture(j, {"succeeded"})
          \/ /\ UNCHANGED stripeVars
             /\ MoveCapture(j, {IF intent[a] = "succeeded" THEN "succeeded" ELSE
                                IF intent[a] = "canceled" THEN "released"
                                ELSE "refused"})
       /\ UNCHANGED <<showStatus, closing, queueVars, callVars, payVars,
                      moneyVars, cancelJobs, verifying, stripeEvents>>

\* A transient error: the capture may or may not have happened.  Try again, up
\* to MaxCaptureTries, then leave it to the webhook or the sweep.
CaptureUnanswered(j) ==
    LET a == callPayment[j.call]
    IN /\ j.phase = "calling"
       /\ StripeCaptures(a) \/ UNCHANGED stripeVars
       /\ captureJobs' = (captureJobs \ {j}) \cup
            (IF j.tries + 1 < MaxCaptureTries
             THEN {[call |-> j.call, phase |-> "scheduled", tries |-> j.tries + 1]}
             ELSE {})
       /\ UNCHANGED <<showStatus, closing, queueVars, callVars, payVars,
                      moneyVars, cancelJobs, verifying, stripeEvents>>

\* A refused capture's hold is released (or already was, under the same key)...
CaptureRelease(j) ==
    LET a == callPayment[j.call]
    IN /\ j.phase = "refused"
       /\ \/ StripeCancels(a)
          \/ intent[a] = "canceled" /\ UNCHANGED stripeVars
       /\ MoveCapture(j, {"released"})
       /\ UNCHANGED <<showStatus, closing, queueVars, callVars, payVars,
                      moneyVars, cancelJobs, verifying, stripeEvents>>

\* ... or that fails too, whether or not Stripe acted, and the call stays pending.
CaptureReleaseFails(j) ==
    /\ j.phase = "refused"
    /\ StripeCancels(callPayment[j.call]) \/ UNCHANGED stripeVars
    /\ MoveCapture(j, {})
    /\ UNCHANGED <<showStatus, closing, queueVars, callVars, payVars, moneyVars,
                   cancelJobs, verifying, stripeEvents>>

\* The closing mutation: payments.captured or payments.notCaptured.
CaptureFinish(j) ==
    LET a == callPayment[j.call]
    IN /\ \/ j.phase = "succeeded" /\ RecordCaptured(a)
          \/ /\ j.phase = "released" /\ RecordNotCaptured(a, "FAILED")
             /\ UNCHANGED refunds
       /\ MoveCapture(j, {})
       /\ UNCHANGED <<showStatus, closing, entryTier, entryPayment, callViewer,
                      callPayment, callStarted, payTier, payIntent, payEntry,
                      earned, cancelJobs, verifying, stripeVars, stripeEvents>>

\* Fault: the sweep looks for calls that are already open.
StalledOpen(c) == callStatus[c] = "CREATED"
\* payments.stalledCaptures; how long a call has waited is left open.
Stalled(c) == callStatus[c] = "PAYMENT_PENDING"

\* refunds.sweep re-schedules the capture of a stalled call.
Sweep(c) ==
    /\ Stalled(c)
    /\ Cardinality(captureJobs) < MaxCaptureJobs
    /\ captureJobs' = captureJobs \cup
            {[call |-> c, phase |-> "scheduled", tries |-> 0]}
    /\ UNCHANGED <<showStatus, closing, queueVars, callVars, payVars, moneyVars,
                   cancelJobs, verifying, stripeVars, stripeEvents>>

-----------------------------------------------------------------------------
(* payments.cancelIntent.                                                  *)

MoveCancel(j, phases) ==
    cancelJobs' = (cancelJobs \ {j}) \cup
        {[attempt |-> j.attempt, phase |-> p] : p \in phases}

CancelBegin(j) ==
    /\ j.phase = "scheduled"
    /\ MoveCancel(j, IF Cancellable(j.attempt) THEN {"calling"} ELSE {})
    /\ UNCHANGED <<showStatus, closing, queueVars, callVars, payVars, moneyVars,
                   captureJobs, verifying, stripeVars, stripeEvents>>

\* Fault: an error from Stripe is taken for a released hold.
ReleasedOnError(a) == TRUE
ReleasedAtStripe(a) == intent[a] = "canceled"

\* Stripe cancels the hold, or an error is settled by reading the intent.
CancelCall(j) ==
    /\ j.phase = "calling"
    /\ \/ StripeCancels(j.attempt) /\ MoveCancel(j, {"canceled"})
       \/ /\ UNCHANGED stripeVars
          /\ MoveCancel(j, IF ReleasedAtStripe(j.attempt)
                           THEN {"canceled"} ELSE {})
    /\ UNCHANGED <<showStatus, closing, queueVars, callVars, payVars, moneyVars,
                   captureJobs, verifying, stripeEvents>>

CancelFinish(j) ==
    /\ j.phase = "canceled"
    /\ RecordNotCaptured(j.attempt, "CANCELED")
    /\ MoveCancel(j, {})
    /\ UNCHANGED <<showStatus, closing, entryTier, entryPayment, callViewer,
                   callPayment, callStarted, payTier, payIntent, payEntry,
                   moneyVars, captureJobs, verifying, stripeVars, stripeEvents>>

\* An action runs at most once: it may die between any two of its steps.
JobDies ==
    /\ \/ /\ \E j \in captureJobs : captureJobs' = captureJobs \ {j}
          /\ UNCHANGED <<cancelJobs, verifying>>
       \/ /\ \E j \in cancelJobs : cancelJobs' = cancelJobs \ {j}
          /\ UNCHANGED <<captureJobs, verifying>>
       \/ /\ \E a \in verifying : verifying' = verifying \ {a}
          /\ UNCHANGED <<captureJobs, cancelJobs>>
    /\ UNCHANGED <<showStatus, closing, queueVars, callVars, payVars, moneyVars,
                   stripeVars, stripeEvents>>

-----------------------------------------------------------------------------
(* webhooks.apply for payment_intent events.  A repeated delivery of an    *)
(* event already in stripeEvents changes nothing, and the intent's id is   *)
(* recorded before the caller can confirm a card on it.                    *)

Webhook(e) ==
    /\ e \notin stripeEvents
    /\ stripeEvents' = stripeEvents \cup {e}
    /\ payIntent[e.attempt]
    /\ \/ e.type = "succeeded" /\ RecordCaptured(e.attempt)
       \/ /\ e.type # "succeeded"
          /\ RecordNotCaptured(e.attempt, IF e.type = "canceled"
                                          THEN "CANCELED" ELSE "FAILED")
          /\ UNCHANGED refunds
    /\ UNCHANGED <<showStatus, closing, entryTier, entryPayment, callViewer,
                   callPayment, callStarted, payTier, payIntent, payEntry,
                   earned, jobVars, stripeVars>>

-----------------------------------------------------------------------------
Next ==
    \/ Start \/ End \/ CloseQueue
    \/ \E a \in Attempts :
        \/ \E t \in Tiers : Prepare(a, t)
        \/ CreateIntent(a) \/ AttachIntent(a)
        \/ VerifyAuthorization(a) \/ MarkAuthorized(a)
        \/ ConfirmCard(a) \/ HoldLapses(a)
    \/ \E v \in Viewers :
        \/ \E t \in Tiers : Join(v, t)
        \/ \E t \in Tiers, a \in Attempts : JoinWithPayment(v, t, a)
        \/ Leave(v)
        \/ \E c \in Calls : Select(v, c)
    \/ \E c \in Calls :
        \/ SelectRandom(c) \/ Expire(c) \/ Sweep(c)
        \/ \E role \in {"creator", "viewer"}, target \in CallStatuses :
              Transition(c, role, target)
    \/ \E j \in captureJobs :
        \/ CaptureBegin(j) \/ CaptureAnswered(j) \/ CaptureUnanswered(j)
        \/ CaptureRelease(j) \/ CaptureReleaseFails(j) \/ CaptureFinish(j)
    \/ \E j \in cancelJobs : CancelBegin(j) \/ CancelCall(j) \/ CancelFinish(j)
    \/ JobDies
    \/ \E e \in events : Webhook(e)

Spec == Init /\ [][Next]_vars

\* Scheduled mutations run exactly once, so closeQueue is weakly fair.  The sweep
\* is a cron.  A capture it keeps re-scheduling is not killed at the same point
\* for ever and Stripe is not down for ever: strong fairness of each step.
\* Callers, creators and webhooks promise nothing.
CaptureOf(c, Step(_)) == \E j \in captureJobs : j.call = c /\ Step(j)

Fairness ==
    /\ WF_vars(CloseQueue)
    /\ \A c \in Calls : /\ WF_vars(Sweep(c))
                        /\ SF_vars(CaptureOf(c, CaptureBegin))
                        /\ SF_vars(CaptureOf(c, CaptureAnswered))
                        /\ SF_vars(CaptureOf(c, CaptureRelease))
                        /\ SF_vars(CaptureOf(c, CaptureFinish))

FairSpec == Spec /\ Fairness

-----------------------------------------------------------------------------
(* Properties.                                                             *)

\* Every column holds a value of its schema type, every job and event its shape.
TypeOK ==
    /\ showStatus \in ShowStatuses
    /\ closing \in BOOLEAN
    /\ entryStatus \in [Viewers -> EntryStatuses \cup {"NONE"}]
    /\ entryTier \in [Viewers -> Tiers \cup {None}]
    /\ entryPayment \in [Viewers -> Attempts \cup {None}]
    /\ callStatus \in [Calls -> CallStatuses \cup {"NONE"}]
    /\ callViewer \in [Calls -> Viewers \cup {None}]
    /\ callPayment \in [Calls -> Attempts \cup {None}]
    /\ callStarted \in [Calls -> BOOLEAN]
    /\ payStatus \in [Attempts -> PayStatuses \cup {"NONE"}]
    /\ payTier \in [Attempts -> Tiers \cup {None}]
    /\ payIntent \in [Attempts -> BOOLEAN]
    /\ payEntry \in [Attempts -> Viewers \cup {None}]
    /\ refunds \subseteq Attempts
    /\ earned \subseteq Attempts
    /\ captureJobs \subseteq CaptureJob
    /\ cancelJobs \subseteq CancelJob
    /\ verifying \subseteq Attempts
    /\ intent \in [Attempts -> IntentStatuses]
    /\ events \subseteq Event
    /\ stripeEvents \subseteq Event

\* A show never has two calls that block a selection (calls.prepareSelection),
\* however captures, webhooks and selections interleave.
OneActiveCall == \A c, d \in ActiveCalls : c = d

\* A capture under way has exactly one call waiting on it, and every call that
\* waits has its capture under way, so payments.pendingCapture never finds a
\* PAYMENT_PENDING call it cannot finish.
PendingIsCapturing ==
    /\ \A c \in Calls : callStatus[c] = "PAYMENT_PENDING" =>
          callPayment[c] # None /\ payStatus[callPayment[c]] = "CAPTURING"
    /\ \A a \in Attempts : payStatus[a] = "CAPTURING" =>
          \E c \in Calls : callPayment[c] = a /\ callStatus[c] = "PAYMENT_PENDING"

\* The caller's money is at Bling before a paid call opens, and stays there:
\* nobody talks on a hold that lapsed or was released while the call was set up.
OpenPaidCallIsCharged ==
    \A c \in OpenCalls : callPayment[c] # None =>
        payStatus[callPayment[c]] = "CAPTURED" /\ intent[callPayment[c]] = "succeeded"

\* A caller waiting on a paid tier has an AUTHORIZED hold that names the entry,
\* so calls.createCall does not answer PAYMENT_CAPTURE_FAILED to the creator.
WaitingIsAuthorized ==
    \A v \in Viewers : entryStatus[v] = "WAITING" /\ entryTier[v] \in PaidTiers =>
        /\ entryPayment[v] # None
        /\ payStatus[entryPayment[v]] = "AUTHORIZED"
        /\ payEntry[entryPayment[v]] = v

\* The queue entry of an open call mirrors it, and a caller who is SELECTED,
\* CONNECTING or LIVE always has such a call: nobody is left stuck in the queue.
EntryFollowsCall ==
    /\ \A c \in OpenCalls : entryStatus[callViewer[c]] =
          IF callStatus[c] = "CREATED" THEN "SELECTED" ELSE callStatus[c]
    /\ \A v \in Viewers : entryStatus[v] \in {"SELECTED", "CONNECTING", "LIVE"} =>
          \E c \in ActiveCalls : callViewer[c] = v

\* A show that is over has no open call, and once shows.closeQueue has run its
\* last batch no entry is active, whatever settles afterwards.
EndedShowIsQuiet ==
    showStatus = "ENDED" => /\ OpenCalls = {}
                            /\ closing \/ ActiveEntries = {}

\* Money moves only with Stripe: CAPTURED means the intent succeeded, CANCELED
\* means the hold is gone, and nothing is charged without a call behind it.
BooksMatchStripe ==
    \A a \in Attempts :
        /\ payStatus[a] = "CAPTURED" => intent[a] = "succeeded"
        /\ payStatus[a] = "CANCELED" => intent[a] = "canceled"
        /\ intent[a] = "succeeded" => CallsFor(a) # {}

\* README.md: "captured calls that never reach LIVE are automatically refunded".
\* A captured payment whose call is over was earned by the creator or is refunded.
Settled(c) ==
    /\ callStatus[c] \in FinishedStatuses
    /\ callPayment[c] # None
    /\ payStatus[callPayment[c]] = "CAPTURED"
    => callPayment[c] \in earned \cup refunds
ChargedIsSettled == \A c \in Calls : Settled(c)

\* What the code does keep of it: the promise holds for every payment on which no
\* payment_intent.payment_failed event was ever applied.
DeclineApplied(a) ==
    \E e \in stripeEvents : e.type = "payment_failed" /\ e.attempt = a
UndeclinedIsSettled ==
    \A c \in Calls : DeclineApplied(callPayment[c]) \/ Settled(c)

\* lib/payments.recordNotCaptured: "the caller is released from the queue so they
\* can try again" - the caller who was waiting on that payment.  A waiting caller
\* drops out only by leaving or because the payment of that very entry fell through.
OnlyOwnPaymentEvicts ==
    [][\A v \in Viewers :
         entryStatus[v] = "WAITING" /\ entryStatus'[v] = "LEFT" =>
            \/ Leave(v)
            \/ /\ entryPayment[v] # None
               /\ payStatus'[entryPayment[v]] \in {"CANCELED", "FAILED"}]_vars

\* Each payment follows the promise of module Payment: held, then released or,
\* only for a caller the creator picked, charged; a charge becomes an earning or
\* a refund, never both and never undone.
Stands == [none |-> "unpaid", requires_payment_method |-> "unpaid",
           requires_capture |-> "held", succeeded |-> "charged",
           canceled |-> "released"]
Money(a) == IF a \in earned \cap refunds THEN "both"
            ELSE IF a \in earned THEN "earned"
            ELSE IF a \in refunds THEN "refunded" ELSE Stands[intent[a]]
P == INSTANCE Payment WITH money <- [a \in Attempts |-> Money(a)],
                           picked <- {a \in Attempts : CallsFor(a) # {}}
ImplementsPayment == P!Spec

\* A call never waits on its capture for ever: the action, its retries, the
\* webhook or the sweep settles it, although the action may die at any point.
PendingSettles ==
    \A c \in Calls : callStatus[c] = "PAYMENT_PENDING"
                     ~> callStatus[c] # "PAYMENT_PENDING"

\* A show that ends leaves nobody in its queue, however large (closeQueue).
QueueCloses == showStatus = "ENDED" ~> ActiveEntries = {}

\* Money charged around the end of a show finds its way to the creator or back to
\* the caller.
ChargedIsEventuallySettled ==
    \A a \in Attempts : intent[a] = "succeeded" /\ showStatus = "ENDED"
                        ~> a \in earned \cup refunds

=============================================================================
