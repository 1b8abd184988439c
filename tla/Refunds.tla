------------------------------ MODULE Refunds ------------------------------
(***************************************************************************)
(* The refunds of one captured payment and what they take back from the    *)
(* creator: refunds.ts, the refund events of webhooks.apply, and           *)
(* lib/ledger.creditEarning and reverseForRefund.                          *)
(*                                                                         *)
(* Bling requests one refund, for the whole price, when a call ends that   *)
(* never went LIVE.  refunds.run is an action: it claims the refund in one *)
(* mutation, asks Stripe, and records the answer in another; it may die in *)
(* between, and a sweep starts it again.  Support may also refund part of  *)
(* the price in the Stripe dashboard, which Bling learns of from the       *)
(* webhook.  Stripe reports each refund's progress in events that arrive   *)
(* late and in any order.                                                  *)
(*                                                                         *)
(* Amounts are in cents.  Time is reduced to whether a row's nextAttemptAt *)
(* has been reached.                                                       *)
(***************************************************************************)
EXTENDS Sums

CONSTANTS
    Price,        \* paymentAttempts.amountCents
    Earning,      \* the creator's share of it
    Outside,      \* refunds support may make in the dashboard
    Amount,       \* their amounts
    MaxAttempts,  \* MAX_ATTEMPTS of refunds.ts
    MaxRuns,      \* bound: the sweep adds an action to fewer running ones
    Request,      \* the row of the refund Bling requests
    Own,          \* the refund that Stripe makes for it
    None          \* an absent column

\* The refunds Stripe may know of; each may also be a row of its own.
StripeRefunds == {Own} \cup Outside
Rows == {Request} \cup StripeRefunds

ASSUME AmountAssumption == /\ Price \in Nat \ {0}
                           /\ Earning \in 0..Price
                           /\ Amount \in [Outside -> 1..Price]
                           /\ IsFiniteSet(Outside)
ASSUME NameAssumption == /\ Own \notin Outside
                         /\ Request \notin StripeRefunds
                         /\ None \notin Rows
ASSUME BoundAssumption == MaxAttempts \in Nat \ {0} /\ MaxRuns \in Nat

VARIABLES
    call,      \* the paid call: "open", "live" (it went LIVE) or "over"
    earned,    \* the EARNING ledger entry exists
    reversed,  \* cents of the REFUND_REVERSAL entry of each row (0: none)
    row,       \* paymentRefunds rows ("NONE": no row)
    runs,      \* refunds.run actions
    stripe,    \* Stripe: status and amount of each refund ("none": not made)
    events,    \* Stripe: refund events emitted
    applied    \* stripeEvents rows

callVars == <<call, earned>>
stripeVars == <<stripe, events>>
vars == <<callVars, reversed, row, runs, stripeVars, applied>>

Statuses == {"REQUESTED", "PROCESSING", "RETRY", "PENDING", "SUCCEEDED", "FAILED"}
Final == {"SUCCEEDED", "FAILED"}
StripeStatuses == {"none", "pending", "succeeded", "failed"}

\* stripe is paymentRefunds.stripeRefundId; due: nextAttemptAt is reached.
Row == [status : Statuses \cup {"NONE"}, stripe : StripeRefunds \cup {None},
        attempts : 0..MaxAttempts, due : BOOLEAN, amount : 0..Price]
NoRow == [status |-> "NONE", stripe |-> None, attempts |-> 0, due |-> FALSE,
          amount |-> 0]

\* A refunds.run action: waiting out its delay, scheduled, about to ask Stripe
\* about the refund it claimed, told of an error, or holding Stripe's answer.
\* n, the attempt, tells apart two actions on one row.
Phases == {"delayed", "scheduled", "calling", "failed", "answered"}
Run == [row : Rows, phase : Phases, n : 0..MaxAttempts,
        stripe : StripeRefunds \cup {None}, status : StripeStatuses]
Waits(r, phase) == [row |-> r, phase |-> phase, n |-> 0, stripe |-> None,
                    status |-> "none"]

\* first is the answer that Stripe repeats for the same idempotency key.
StripeRefund == [status : StripeStatuses, first : StripeStatuses,
                 amount : 0..Price]
Event == [refund : StripeRefunds, status : StripeStatuses]

Init ==
    /\ call = "open"
    /\ earned = FALSE
    /\ reversed = [r \in Rows |-> 0]
    /\ row = [r \in Rows |-> NoRow]
    /\ runs = {}
    /\ stripe = [s \in StripeRefunds |->
                    [status |-> "none", first |-> "none", amount |-> 0]]
    /\ events = {}
    /\ applied = {}

-----------------------------------------------------------------------------
(* lib/ledger.ts.                                                          *)

\* Math.round of a share of the earning in proportion to the refund.
Share(amount) == IF amount < Price
                 THEN (2 * Earning * amount + Price) \div (2 * Price)
                 ELSE Earning

TotalReversed == SumOver(reversed, Rows)

\* Fault: the reversals of other refunds are not counted.
AllOfIt(r) == Earning
\* What the other refunds have left of the earning.
LeftToReverse(r) == Earning - (TotalReversed - reversed[r])

\* reverseForRefund, of a row that has just SUCCEEDED; at most once per row.
ReverseForRefund(r, amount) ==
    LET cents == Min({Share(amount), LeftToReverse(r)})
    IN reversed' = IF earned /\ cents > 0 /\ reversed[r] = 0
                   THEN [reversed EXCEPT ![r] = cents] ELSE reversed

\* statusFromStripe, also spelled out in webhooks.apply.
StatusFromStripe(status) == CASE status = "succeeded" -> "SUCCEEDED"
                              [] status = "failed" -> "FAILED"
                              [] OTHER -> "PENDING"

-----------------------------------------------------------------------------
(* The call.  requestRefund leaves a payment alone that has any refund.    *)

GoLive ==
    /\ call = "open"
    /\ call' = "live"
    /\ earned' = TRUE
    /\ UNCHANGED <<reversed, row, runs, stripeVars, applied>>

RequestRefund ==
    IF \A r \in Rows : row[r].status = "NONE"
    THEN /\ row' = [row EXCEPT ![Request] =
                [status |-> "REQUESTED", stripe |-> None, attempts |-> 0,
                 due |-> TRUE, amount |-> Price]]
         /\ runs' = runs \cup {Waits(Request, "scheduled")}
    ELSE UNCHANGED <<row, runs>>

Finish ==
    /\ call # "over"
    /\ call' = "over"
    /\ IF call = "open" THEN RequestRefund ELSE UNCHANGED <<row, runs>>
    /\ UNCHANGED <<earned, reversed, stripeVars, applied>>

-----------------------------------------------------------------------------
(* Stripe.                                                                 *)

Refunded == SumOver(
    [s \in StripeRefunds |-> IF stripe[s].status = "failed" THEN 0 ELSE stripe[s].amount],
    StripeRefunds)

\* A refund is made, pending or done at once.
Make(s, amount, status) ==
    /\ stripe[s].status = "none"
    /\ amount > 0 /\ amount <= Price - Refunded
    /\ stripe' = [stripe EXCEPT ![s] =
                    [status |-> status, first |-> status, amount |-> amount]]
    /\ events' = events \cup {[refund |-> s, status |-> status]}

\* A pending refund succeeds or fails; the bank may return a done one later.
Progress(s, status) ==
    /\ \/ stripe[s].status = "pending" /\ status \in {"succeeded", "failed"}
       \/ stripe[s].status = "succeeded" /\ status = "failed"
    /\ stripe' = [stripe EXCEPT ![s].status = status]
    /\ events' = events \cup {[refund |-> s, status |-> status]}
    /\ UNCHANGED <<callVars, reversed, row, runs, applied>>

\* Support refunds part of the price, or all of it, in the dashboard.
Support(s) ==
    /\ \E status \in {"pending", "succeeded"} : Make(s, Amount[s], status)
    /\ UNCHANGED <<callVars, reversed, row, runs, applied>>

-----------------------------------------------------------------------------
(* refunds.ts.                                                             *)

\* claim: the refund is due and not in hand, or its lease has run out.
Claimable(r) ==
    /\ row[r].attempts < MaxAttempts
    /\ \/ row[r].status = "REQUESTED"
       \/ row[r].status \in {"RETRY", "PENDING", "PROCESSING"} /\ row[r].due

Claim(j) ==
    /\ j.phase = "scheduled"
    /\ IF Claimable(j.row)
       THEN /\ row' = [row EXCEPT ![j.row].status = "PROCESSING",
                                  ![j.row].attempts = @ + 1,
                                  ![j.row].due = FALSE]
            /\ runs' = (runs \ {j}) \cup
                 {[j EXCEPT !.phase = "calling", !.n = row[j.row].attempts + 1,
                            !.stripe = row[j.row].stripe]}
       ELSE runs' = runs \ {j} /\ UNCHANGED row
    /\ UNCHANGED <<callVars, reversed, stripeVars, applied>>

Answered(j, s, status) ==
    runs' = (runs \ {j}) \cup
        {[j EXCEPT !.phase = "answered", !.stripe = s, !.status = status]}

\* Stripe is asked about the refund the row names; otherwise for a refund of all
\* that is left of the price, under a key with which it is made once and the
\* first answer is repeated.
CallStripe(j) ==
    /\ j.phase = "calling"
    /\ \/ /\ j.stripe # None
          /\ Answered(j, j.stripe, stripe[j.stripe].status)
          /\ UNCHANGED stripeVars
       \/ /\ j.stripe = None /\ stripe[Own].status # "none"
          /\ Answered(j, Own, stripe[Own].first)
          /\ UNCHANGED stripeVars
       \/ /\ j.stripe = None
          /\ \E status \in {"pending", "succeeded"} :
                Make(Own, Price - Refunded, status) /\ Answered(j, Own, status)
    /\ UNCHANGED <<callVars, reversed, row, applied>>

\* Any error: the refund may have been made, or there was nothing left to refund.
CallFails(j) ==
    /\ j.phase = "calling"
    /\ runs' = (runs \ {j}) \cup {[j EXCEPT !.phase = "failed"]}
    /\ \/ UNCHANGED stripeVars
       \/ /\ j.stripe = None
          /\ \E status \in {"pending", "succeeded"} :
                Make(Own, Price - Refunded, status)
    /\ UNCHANGED <<callVars, reversed, row, applied>>

\* record: a final outcome reported by the webhook stands.
Record(j) ==
    LET r == j.row
        status == StatusFromStripe(j.status)
    IN /\ j.phase = "answered"
       /\ IF row[r].status \in Final
          THEN runs' = runs \ {j} /\ UNCHANGED <<row, reversed>>
          ELSE /\ row' = [row EXCEPT ![r].stripe = j.stripe, ![r].status = status,
                                     ![r].due = FALSE]
               /\ runs' = (runs \ {j}) \cup
                    (IF status = "PENDING"
                     THEN {Waits(r, "delayed")} ELSE {})
               /\ IF status = "SUCCEEDED" THEN ReverseForRefund(r, row[r].amount)
                                          ELSE UNCHANGED reversed
       /\ UNCHANGED <<callVars, stripeVars, applied>>

Retry(j) ==
    LET r == j.row
    IN /\ j.phase = "failed"
       /\ \/ /\ row[r].status # "PROCESSING"
             /\ runs' = runs \ {j} /\ UNCHANGED row
          \/ /\ row[r].status = "PROCESSING" /\ row[r].attempts >= MaxAttempts
             /\ row' = [row EXCEPT ![r].status = "FAILED"]
             /\ runs' = runs \ {j}
          \/ /\ row[r].status = "PROCESSING" /\ row[r].attempts < MaxAttempts
             /\ row' = [row EXCEPT ![r].status = "RETRY", ![r].due = FALSE]
             /\ runs' = (runs \ {j}) \cup {Waits(r, "delayed")}
       /\ UNCHANGED <<callVars, reversed, stripeVars, applied>>

\* A retry's delay, a lease or the wait before a recheck passes.
Elapse(r) ==
    /\ row[r].status \in {"RETRY", "PENDING", "PROCESSING"}
    /\ ~row[r].due \/ Waits(r, "delayed") \in runs
    /\ row' = [row EXCEPT ![r].due = TRUE]
    /\ runs' = {IF j = Waits(r, "delayed") THEN Waits(r, "scheduled") ELSE j :
                j \in runs}
    /\ UNCHANGED <<callVars, reversed, stripeVars, applied>>

\* Fault: the sweep takes a refund that is PROCESSING to be in good hands.
DueUnclaimed(r) == /\ row[r].status \in {"REQUESTED", "RETRY", "PENDING"}
                   /\ row[r].due /\ row[r].attempts < MaxAttempts
\* due: what refunds.sweep schedules again.
Due(r) == /\ row[r].status \in {"REQUESTED", "RETRY", "PENDING", "PROCESSING"}
          /\ row[r].due /\ row[r].attempts < MaxAttempts

Sweep(r) ==
    /\ Due(r)
    /\ Waits(r, "scheduled") \notin runs
    /\ Cardinality(runs) < MaxRuns
    /\ runs' = runs \cup {Waits(r, "scheduled")}
    /\ UNCHANGED <<callVars, reversed, row, stripeVars, applied>>

\* An action runs at most once and may die anywhere.
RunDies(j) ==
    /\ runs' = runs \ {j}
    /\ UNCHANGED <<callVars, reversed, row, stripeVars, applied>>

-----------------------------------------------------------------------------
(* webhooks.apply for refund events.                                       *)

\* The row that carries the refund's id, or else one without an id yet.
Matches(s) == IF \E r \in Rows : row[r].stripe = s
              THEN {r \in Rows : row[r].stripe = s}
              ELSE {r \in Rows : row[r].status # "NONE" /\ row[r].stripe = None}

\* A final outcome is never reopened by an older event.
Newer(old, new) == ~(old \in Final /\ new = "PENDING")

\* A refund without a row was made outside Bling: it is given one.
Webhook(e) ==
    LET s == e.refund
        next == StatusFromStripe(e.status)
        r == IF Matches(s) = {} THEN s ELSE CHOOSE x \in Matches(s) : TRUE
        found == IF Matches(s) # {} THEN row[r]
                 ELSE [status |-> "PENDING", stripe |-> s, attempts |-> 0,
                       due |-> TRUE, amount |-> stripe[s].amount]
    IN /\ e \notin applied
       /\ applied' = applied \cup {e}
       /\ IF Newer(found.status, next)
          THEN /\ row' = [row EXCEPT ![r] =
                    [found EXCEPT !.status = next,
                        !.stripe = IF @ = None THEN s ELSE @]]
               /\ IF next = "SUCCEEDED" THEN ReverseForRefund(r, found.amount)
                                        ELSE UNCHANGED reversed
          ELSE UNCHANGED <<row, reversed>>
       /\ UNCHANGED <<callVars, runs, stripeVars>>

-----------------------------------------------------------------------------
\* What the call, Stripe, the clock and the webhook do; what support does; what
\* the worker and the sweep do.
Books ==
    \/ GoLive \/ Finish
    \/ \E s \in StripeRefunds, status \in StripeStatuses : Progress(s, status)
    \/ \E r \in Rows : Elapse(r)
    \/ \E e \in events : Webhook(e)
Desk == \E s \in Outside : Support(s)
Worker ==
    \/ \E r \in Rows : Sweep(r)
    \/ \E j \in runs : \/ Claim(j) \/ CallStripe(j) \/ CallFails(j)
                       \/ Record(j) \/ Retry(j) \/ RunDies(j)

Next == Books \/ Desk \/ Worker

Spec == Init /\ [][Next]_vars

\* An action that has started ends or dies, and does not die for ever before it
\* claims; the sweep is a cron; delays pass; Stripe redelivers its events.
RunStep(j) == \/ CallStripe(j) \/ CallFails(j) \/ Record(j) \/ Retry(j)
              \/ RunDies(j)
Fairness ==
    /\ \A r \in Rows :
        /\ WF_vars(Elapse(r)) /\ WF_vars(Sweep(r))
        /\ SF_vars(\E j \in runs : j.row = r /\ Claim(j))
        /\ WF_vars(\E j \in runs : j.row = r /\ RunStep(j))
    /\ WF_vars(\E e \in events : Webhook(e))

FairSpec == Spec /\ Fairness

-----------------------------------------------------------------------------
(* Properties.                                                             *)

\* Rows, actions and events have their shape; amounts stay within the price.
TypeOK ==
    /\ call \in {"open", "live", "over"}
    /\ earned \in BOOLEAN
    /\ reversed \in [Rows -> 0..Price]
    /\ row \in [Rows -> Row]
    /\ runs \subseteq Run
    /\ stripe \in [StripeRefunds -> StripeRefund]
    /\ events \subseteq Event
    /\ applied \subseteq events

\* reverseForRefund: "refunds together never take back more than was earned",
\* however many parts are refunded, in whatever order they succeed and although
\* each share is rounded.
NeverTakesMore == TotalReversed <= (IF earned THEN Earning ELSE 0)

\* The creator loses nothing to a refund that did not go through: a reversal
\* belongs to a row whose Stripe refund has succeeded.
ReversedIsRefunded ==
    \A r \in Rows : reversed[r] > 0 =>
        [refund |-> row[r].stripe, status |-> "succeeded"] \in events

\* A settled refund stays settled: neither a late answer of the worker, nor a
\* second worker whose lease ran out, nor an older event reopens it.
SettledStaysSettled ==
    [][\A r \in Rows : row[r].status \in Final => row'[r].status \in Final]_vars

\* A requested refund is settled or has used up its attempts, although actions
\* die and Stripe fails: the sweep brings back whatever was dropped.
RefundIsDriven ==
    row[Request].status = "REQUESTED" ~>
        row[Request].status \in Final \/ row[Request].attempts = MaxAttempts

\* Refunds that have succeeded at Stripe, but not in the books.
Lagging ==
    {s \in StripeRefunds : /\ stripe[s].status = "succeeded"
                           /\ ~\E r \in Rows : row[r].stripe = s /\ row[r].status = "SUCCEEDED"}

\* A refund that succeeds at Stripe succeeds in the books, even one the worker
\* gave up on, unless Stripe takes it back: the books catch up with all of them.
BooksCatchUp == Lagging # {} ~> Lagging = {}

\* refunds.ts: errors retry, "giving up as FAILED after MAX_ATTEMPTS. The payments
\* sweep re-schedules anything whose action died, so nothing is left PROCESSING."
NothingLeftProcessing ==
    \A r \in Rows : row[r].status = "PROCESSING" ~> row[r].status # "PROCESSING"

\* The refunds of a payment and what they took back agree: refunds.ts, webhooks.ts
\* and reverseForRefund write them apart, in any order.
RefundsAreSound ==
    /\ TypeOK
    /\ NeverTakesMore
    /\ ReversedIsRefunded

\* A refund comes to its end, and so do the books: the sweep and Stripe's events make
\* up for what the worker dropped.
RefundSettles ==
    /\ RefundIsDriven
    /\ BooksCatchUp
=============================================================================
