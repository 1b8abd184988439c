------------------------------ MODULE Payouts ------------------------------
(***************************************************************************)
(* Monthly payouts to creators: payouts.ts, the transfer part of           *)
(* refunds.sweep, and the dispute events of webhooks.apply, over the       *)
(* ledger of module Ledger.                                                *)
(*                                                                         *)
(* An hourly cron opens the run of the period that is due and walks the    *)
(* payout accounts page by page, reserving what each creator has available *)
(* and starting a transfer.  transfer is an action: it claims the item for *)
(* a while, asks Stripe under an idempotency key, and records the answer;  *)
(* it may die in between, and the sweep starts it again.  Meanwhile calls  *)
(* earn, holds end, refunds succeed, disputes come and go, and accounts    *)
(* are opened and restricted.                                              *)
(*                                                                         *)
(* Time is the period that is due (the calendar is checked by itself), and *)
(* for an item whether nextAttemptAt has been reached.                     *)
(***************************************************************************)
EXTENDS Ledger, Sequences

CONSTANTS
    LastMonth,     \* bound: the calendar stops in this month
    TierPrices,    \* prices a tier may have, to check the fees on
    Days,          \* days of a month, to check the calendar on
    Minimum,       \* CREATOR_PAYOUT_MINIMUM_CENTS
    BatchSize,     \* RESERVE_BATCH
    MaxTransfers,   \* MAX_TRANSFER_ATTEMPTS
    MaxJobs,       \* bound: the sweep adds a transfer to fewer running ones
    MaxWalks,      \* bound: the cron adds a walk to fewer unfinished ones
    Refundable,    \* payments whose price may be refunded in full
    Disputable,    \* payments that may be disputed
    Earlier,       \* payments earned, and out of their hold, from the start
    Movers,        \* creators whose account changes
    NoAccount           \* no account

Months == 1..LastMonth
Capabilities == {"inactive", "active"}

ASSUME PayoutsAssumption ==
    /\ Items = Creators \X Months
    /\ LastMonth \in Nat \ {0} /\ Minimum \in Nat \ {0} /\ BatchSize \in Nat \ {0}
    /\ MaxTransfers \in Nat \ {0} /\ {MaxJobs, MaxWalks} \subseteq Nat
    /\ Refundable \subseteq Payments /\ Disputable \subseteq Payments
    /\ Earlier \subseteq Payments
    /\ Movers \subseteq Creators
    /\ TierPrices \subseteq MinPrice..MaxPrice /\ Days \subseteq 1..31
    /\ NoAccount \notin Capabilities

VARIABLES
    refunded,  \* payments whose refund row is SUCCEEDED
    disputed,   \* stripeEvents rows of dispute events
    account,   \* payoutAccounts.transfersStatus (NoAccount: no row)
    order,     \* payoutAccounts in the order of their creation
    month,     \* the period that payoutPeriod gives now
    run,       \* payoutRuns.status of each period ("NONE": no row)
    reserves,  \* scheduled reserveBatch mutations: run and cursor
    item,      \* payoutItems rows ("NONE": no row)
    jobs,      \* transfer actions
    sent       \* Stripe: transfers made, each under its idempotency key

earnedVars == <<refunded, disputed>>
orderVars == <<account, order>>
payVars == <<run, reserves, item, jobs, sent>>
payoutsVars == <<ledgerVars, earnedVars, orderVars, month, payVars>>

ItemStatuses == {"NONE", "RESERVED", "SENDING", "RETRY", "PAID", "FAILED"}
InFlight == {"RESERVED", "SENDING", "RETRY"}
UNSETTLED == InFlight \cup {"FAILED"}
RunStatuses == {"NONE", "PROCESSING", "COMPLETED", "PARTIAL_FAILED"}

Item == [status : ItemStatuses, amount : Nat, attempts : 0..MaxTransfers,
         due : BOOLEAN]
NoItem == [status |-> "NONE", amount |-> 0, attempts |-> 0, due |-> FALSE]

\* A transfer action: scheduled, about to ask Stripe, refused, or answered.
\* n is the attempt it claimed.
Job == [item : Items, n : 0..MaxTransfers,
        phase : {"scheduled", "calling", "refused", "answered"}]
TransferJob(i) == [item |-> i, n |-> 0, phase |-> "scheduled"]

PayoutsInit ==
    /\ InitLedger(Earlier)
    /\ refunded = {} /\ disputed = {}
    /\ order \in {s \in UNION {[1..n -> Creators] : n \in 0..Cardinality(Creators)} :
                    \A i, j \in DOMAIN s : s[i] = s[j] => i = j}
    /\ account = [c \in Creators |->
                    IF \E i \in DOMAIN order : order[i] = c THEN "active" ELSE NoAccount]
    /\ month = 1
    /\ run = [m \in Months |-> "NONE"] /\ reserves = {}
    /\ item = [i \in Items |-> NoItem]
    /\ jobs = {} /\ sent = {}

-----------------------------------------------------------------------------
(* Calls, refunds, disputes: what moves the ledger.                        *)

\* A call goes LIVE once.
CallGoesLive(p) ==
    /\ ~Earned(p)
    /\ CreditEarning(p)
    /\ UNCHANGED <<earnedVars, orderVars, month, payVars>>

\* CREATOR_EARNINGS_HOLD_HOURS have passed.
HoldEnds(p) ==
    /\ p \in held
    /\ held' = held \ {p}
    /\ UNCHANGED <<ledger, total, earnedVars, orderVars, month, payVars>>

\* refunds.record, or the refund event, of a refund of the whole price.
RefundSucceeds(p) ==
    /\ p \in Refundable \ refunded
    /\ refunded' = refunded \cup {p}
    /\ ReverseEarning(p)
    /\ UNCHANGED <<disputed, orderVars, month, payVars>>

\* webhooks.apply of the events of a payment's one dispute, each of them once;
\* Stripe may deliver that it was decided before that it was opened.
DisputeEvent(p, status) ==
    /\ p \in Disputable /\ <<p, status>> \notin disputed
    /\ status # "open" => \A s \in {"won", "lost"} : <<p, s>> \notin disputed
    /\ disputed' = disputed \cup {<<p, status>>}
    /\ AdjustForDispute(p, status)
    /\ UNCHANGED <<refunded, orderVars, month, payVars>>

-----------------------------------------------------------------------------
(* saveAccount, whichever action of module PayoutAccounts calls it.        *)

\* The first save inserts the creator's row, later ones replace it.
Inserted(c) == IF account[c] = NoAccount THEN Append(order, c) ELSE order

SaveAccount(c, status) ==
    /\ c \in Movers /\ account[c] # status
    /\ account' = [account EXCEPT ![c] = status]
    /\ order' = Inserted(c)
    /\ UNCHANGED <<ledgerVars, earnedVars, month, payVars>>

-----------------------------------------------------------------------------
(* The monthly run.                                                        *)

\* Dates are pairs of a month, counted from some January, and a day.
\* payoutPeriod: the month before the latest payout day.
PayoutPeriod(date, day) == (IF date[2] < day THEN date[1] - 1 ELSE date[1]) - 1
\* nextPayoutAt: the first payout day that is not over or under way.
NextPayoutAt(date, day) == <<IF day <= date[2] THEN date[1] + 1 ELSE date[1], day>>

\* The next payout day comes; the days between make no difference.
NextMonth ==
    /\ month < LastMonth
    /\ month' = month + 1
    /\ UNCHANGED <<ledgerVars, earnedVars, orderVars, payVars>>

\* finishRuns on the runs and items of a state.
Finished(status, items) ==
    [m \in Months |->
        IF status[m] # "PROCESSING"
           \/ \E c \in Creators : items[<<c, m>>].status \in InFlight
        THEN status[m]
        ELSE IF \E c \in Creators : items[<<c, m>>].status = "FAILED"
             THEN "PARTIAL_FAILED" ELSE "COMPLETED"]

\* The cron.  The finishRuns it schedules is the step FinishRuns.
RunDue ==
    LET first == [run |-> month, cursor |-> 0]
    IN /\ Cardinality(reserves) < MaxWalks /\ first \notin reserves
       /\ run' = [run EXCEPT ![month] = IF @ = "NONE" THEN "PROCESSING" ELSE @]
       /\ reserves' = reserves \cup {first}
       /\ UNCHANGED <<ledgerVars, earnedVars, orderVars, month, item, jobs, sent>>

\* Scheduled by runDue, markPaid and retryTransfer; runs at some later time.
FinishRuns ==
    /\ run' = Finished(run, item)
    /\ run' # run
    /\ UNCHANGED <<ledgerVars, earnedVars, orderVars, month, reserves, item, jobs, sent>>

Eligible(c, m) ==
    /\ account[c] = "active"
    /\ item[<<c, m>>].status = "NONE"
    /\ \A k \in Months : item[<<c, k>>].status \notin UNSETTLED
    /\ Available(c) >= Minimum

\* A reservation reopens the run it belongs to.
Reopened(status, paid) == IF paid = {} THEN status ELSE "PROCESSING"

ReserveBatch(b) ==
    LET walked == {order[n] : n \in {n \in DOMAIN order :
                    b.cursor < n /\ n <= b.cursor + BatchSize}}
        paid == {c \in walked : Eligible(c, b.run)}
    IN /\ item' = [i \in Items |->
            IF i[1] \in paid /\ i[2] = b.run
            THEN [status |-> "RESERVED", amount |-> Available(i[1]),
                  attempts |-> 0, due |-> TRUE]
            ELSE item[i]]
       /\ PostEntries([k \in {<<"PAYOUT_RESERVATION", <<c, b.run>>>> : c \in paid}
                        |-> -Available(k[2][1])])
       /\ run' = [run EXCEPT ![b.run] = Reopened(@, paid)]
       /\ jobs' = jobs \cup {TransferJob(<<c, b.run>>) : c \in paid}
       /\ reserves' = (reserves \ {b}) \cup
            (IF b.cursor + BatchSize < Len(order)
             THEN {[b EXCEPT !.cursor = @ + BatchSize]} ELSE {})
       /\ UNCHANGED <<held, earnedVars, orderVars, month, sent>>

-----------------------------------------------------------------------------
(* Transfers.                                                              *)

\* claimTransfer: the item is due and not in hand, or its lease has run out.
TransferClaimable(i) ==
    /\ item[i].attempts < MaxTransfers
    /\ \/ item[i].status = "RESERVED"
       \/ item[i].status \in {"RETRY", "SENDING"} /\ item[i].due

ClaimTransfer(j) ==
    /\ j.phase = "scheduled"
    /\ IF TransferClaimable(j.item)
       THEN /\ item' = [item EXCEPT ![j.item].status = "SENDING",
                                    ![j.item].attempts = @ + 1,
                                    ![j.item].due = FALSE]
            /\ jobs' = (jobs \ {j}) \cup
                 {[j EXCEPT !.phase = "calling", !.n = item[j.item].attempts + 1]}
       ELSE jobs' = jobs \ {j} /\ UNCHANGED item
    /\ UNCHANGED <<ledgerVars, earnedVars, orderVars, month, run, reserves, sent>>

\* idempotencyKey: the creator and the month of the run.
TransferKey(j) == <<j.item, 0>>

\* Stripe makes one transfer per key.
StripeTransfers(j) ==
    sent' = IF \E t \in sent : t.key = TransferKey(j) THEN sent
            ELSE sent \cup {[key |-> TransferKey(j), amount |-> item[j.item].amount]}

SendTransfer(j) ==
    /\ j.phase = "calling"
    /\ StripeTransfers(j)
    /\ jobs' = (jobs \ {j}) \cup {[j EXCEPT !.phase = "answered"]}
    /\ UNCHANGED <<ledgerVars, earnedVars, orderVars, month, run, reserves, item>>

\* Any error; the transfer may have been made all the same.
TransferFails(j) ==
    /\ j.phase = "calling"
    /\ StripeTransfers(j) \/ UNCHANGED sent
    /\ jobs' = (jobs \ {j}) \cup {[j EXCEPT !.phase = "refused"]}
    /\ UNCHANGED <<ledgerVars, earnedVars, orderVars, month, run, reserves, item>>

\* Fault: whatever became of the item, it is paid now.
PaidAnyway(i) == TRUE
\* markPaid and retryTransfer leave an item alone that is not being sent.
StillSending(i) == item[i].status = "SENDING"

MarkPaid(j) ==
    /\ j.phase = "answered"
    /\ item' = [item EXCEPT ![j.item].status = IF StillSending(j.item)
                                               THEN "PAID" ELSE @]
    /\ jobs' = jobs \ {j}
    /\ UNCHANGED <<ledgerVars, earnedVars, orderVars, month, run, reserves, sent>>

RetryTransfer(j) ==
    /\ j.phase = "refused"
    /\ item' = [item EXCEPT ![j.item] =
            CASE ~StillSending(j.item) -> @
              [] StillSending(j.item) /\ @.attempts >= MaxTransfers ->
                    [@ EXCEPT !.status = "FAILED"]
              [] OTHER -> [@ EXCEPT !.status = "RETRY", !.due = FALSE]]
    /\ jobs' = jobs \ {j}
    /\ UNCHANGED <<ledgerVars, earnedVars, orderVars, month, run, reserves, sent>>

\* A lease ends, or a retry's delay, and then the transfer scheduled for it runs.
LeaseEnds(i) ==
    /\ item[i].status \in {"RETRY", "SENDING"} /\ ~item[i].due
    /\ item' = [item EXCEPT ![i].due = TRUE]
    /\ jobs' = IF item[i].status = "RETRY" THEN jobs \cup {TransferJob(i)} ELSE jobs
    /\ UNCHANGED <<ledgerVars, earnedVars, orderVars, month, run, reserves, sent>>

\* Fault: an item that is being sent is taken to be in good hands.
TransferUnclaimed(i) == /\ item[i].status \in {"RESERVED", "RETRY"} /\ item[i].due
                   /\ item[i].attempts < MaxTransfers
\* dueTransfers: what refunds.sweep schedules again.
TransferDue(i) == /\ item[i].status \in InFlight /\ item[i].due
          /\ item[i].attempts < MaxTransfers

SweepTransfer(i) ==
    /\ TransferDue(i)
    /\ TransferJob(i) \notin jobs /\ Cardinality(jobs) < MaxJobs
    /\ jobs' = jobs \cup {TransferJob(i)}
    /\ UNCHANGED <<ledgerVars, earnedVars, orderVars, month, run, reserves, item, sent>>

JobDies(j) ==
    /\ jobs' = jobs \ {j}
    /\ UNCHANGED <<ledgerVars, earnedVars, orderVars, month, run, reserves, item, sent>>

-----------------------------------------------------------------------------
\* What creators, callers, banks and Stripe bring about.
Disturbances ==
    \/ \E p \in Payments, s \in {"open", "lost", "won"} : DisputeEvent(p, s)
    \/ \E p \in Payments : RefundSucceeds(p)
    \/ \E c \in Creators, status \in Capabilities : SaveAccount(c, status)

\* Stripe fails, an action dies, or an answer takes longer than the lease.
Failures ==
    \/ \E j \in jobs : TransferFails(j) \/ JobDies(j)
    \/ \E i \in Items : LeaseEnds(i)

Work ==
    \/ \E p \in Payments : CallGoesLive(p) \/ HoldEnds(p)
    \/ NextMonth \/ RunDue \/ FinishRuns
    \/ \E b \in reserves : ReserveBatch(b)
    \/ \E j \in jobs : \/ ClaimTransfer(j) \/ SendTransfer(j)
                       \/ MarkPaid(j) \/ RetryTransfer(j)
    \/ \E i \in Items : SweepTransfer(i)

PayoutsNext == Disturbances \/ Failures \/ Work

PayoutsSpec == PayoutsInit /\ [][PayoutsNext]_payoutsVars

-----------------------------------------------------------------------------
(* Properties.                                                             *)

\* Rows, actions and the calendar have their shape.
PayoutsTypeOK ==
    /\ ledger \in [EntryKeys -> Int] /\ total \in [Creators -> Int]
    /\ held \subseteq Payments
    /\ refunded \subseteq Refundable
    /\ disputed \subseteq Disputable \X {"open", "lost", "won"}
    /\ account \in [Creators -> Capabilities \cup {NoAccount}]
    /\ Len(order) <= Cardinality(Creators)
    /\ month \in Months
    /\ run \in [Months -> RunStatuses]
    /\ reserves \subseteq [run : Months, cursor : 0..Len(order)]
    /\ item \in [Items -> Item]
    /\ jobs \subseteq Job
    /\ \A t \in sent : t.key[1] \in Items /\ t.amount \in Nat

Reservations(c) == {k \in EntriesOf(c) : k[1] = "PAYOUT_RESERVATION"}

\* postEntry keeps "the creator's running total in step": the total is what was
\* earned, less refunds and disputes, less what was reserved for payouts.
TotalInStep == \A c \in Creators : total[c] = NetEarnings(c) + Sum(Reservations(c))

Cleared(c) == Sum({<<"EARNING", p>> : p \in {q \in Payments \ held : CreatorOf[q] = c}})
Transferred(c) ==
    SumOver([t \in sent |-> t.amount], {t \in sent : t.key[1][1] = c})

\* What Stripe was told to send a creator, over all runs, retries and lost
\* answers, never exceeds the earnings whose hold has ended: "the money is
\* neither lost nor sent twice".
OnlyClearedIsSent == \A c \in Creators : Transferred(c) <= Cleared(c)

\* runDue: "a creator gets one item per run and never while an earlier payout is
\* unsettled", whichever pages of whichever runs are walked at the same time.
OneUnsettledPayout ==
    \A c \in Creators :
        Cardinality({m \in Months : item[<<c, m>>].status \in UNSETTLED}) <= 1

\* finishRuns: a run that is over has nothing in flight, although creators may
\* join a run that was finished, and it says so if an item failed.
FinishedRunIsQuiet ==
    \A c \in Creators, m \in Months :
        LET status == item[<<c, m>>].status
        IN /\ run[m] = "COMPLETED" => status \in {"NONE", "PAID"}
           /\ run[m] = "PARTIAL_FAILED" => status \in {"NONE", "PAID", "FAILED"}

\* "Each happens at most once per dispute": a dispute costs the creator the call's
\* earning or nothing, in whatever order its events arrive.
DisputeCostsOneEarning ==
    \A p \in Payments :
        ledger[<<"DISPUTE_DEBIT", p>>] + ledger[<<"DISPUTE_RELEASE", p>>]
            \in {0, -ledger[<<"EARNING", p>>]}

\* "The creator gets their share of the price less half of Stripe's published
\* basic domestic card fee [...]; Bling [...] absorbs the other half of the card
\* fee, including the odd cent", and every price leaves the creator something.
FeesAreFair ==
    /\ \A price \in TierPrices, c \in Creators :
        LET half == CreatorProcessingFee(price)
        IN /\ PlatformFee(price, FeeBps[c]) \in 0..(price - 1)
           /\ half <= BasicCardFee(price) - half
           /\ BasicCardFee(price) - half <= half + 1
    /\ \A p \in Payments : ledger[<<"EARNING", p>>] < Charged[p]

\* payoutPeriod and nextPayoutAt, worked out separately, agree whatever the payout
\* day and the date: the period is the same until the next payout and turns then.
NextPayoutTurnsPeriod ==
    \A day \in Days \cap (1..28), d \in Days :
        LET next == NextPayoutAt(<<month, d>>, day)
        IN /\ PayoutPeriod(next, day) = PayoutPeriod(<<month, d>>, day) + 1
           /\ \A e \in {e \in Days : e >= d} : (next[1] > month \/ e < next[2]) =>
                PayoutPeriod(<<month, e>>, day) = PayoutPeriod(<<month, d>>, day)

\* A settled payout is final: neither a late answer nor a second action changes it.
PaidStaysPaid ==
    [][\A i \in Items : /\ item[i].status = "PAID" => item'[i] = item[i]
                        /\ item[i].status = "FAILED" => item'[i] = item[i]]_payoutsVars

\* Runs under way, but for those with an item that used up its attempts.
Unfinished ==
    {m \in Months : /\ run[m] = "PROCESSING"
                    /\ ~\E c \in Creators : item[<<c, m>>].attempts = MaxTransfers}

\* A run ends, and with it (FinishedRunIsQuiet) every payout of it is PAID or
\* FAILED, although actions die and Stripe fails, unless an item has used up its
\* attempts and is still SENDING.
RunEnds == Unfinished # {} ~> Unfinished = {}

\* The ledger is right, in whatever order calls, refunds, disputes and payouts post to
\* it (lib/ledger.ts), and the split it starts from is fair.
LedgerIsSound ==
    /\ TotalInStep
    /\ DisputeCostsOneEarning
    /\ FeesAreFair

\* Runs, items and transfers agree: reserveBatch, transfer with its outcomes and
\* the sweep are transactions of their own.
PayoutsAreSound ==
    /\ PayoutsTypeOK
    /\ OnlyClearedIsSent
    /\ OneUnsettledPayout
    /\ FinishedRunIsQuiet
    /\ NextPayoutTurnsPeriod
=============================================================================
