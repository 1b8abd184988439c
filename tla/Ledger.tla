------------------------------- MODULE Ledger -------------------------------
(***************************************************************************)
(* The creator ledger (lib/ledger.ts) and the split of a call's price      *)
(* (lib/stripe.paymentFees).                                               *)
(*                                                                         *)
(* A ledger entry is known by its idempotency key, here a pair of the kind *)
(* of entry and what it is about.  An entry of 0 cents is never posted, so *)
(* ledger[k] = 0 says that there is no entry with key k.                   *)
(***************************************************************************)
EXTENDS Sums

CONSTANTS
    Creators,   \* users who take calls
    Payments,   \* paymentAttempts, all CAPTURED
    CreatorOf,  \* paymentAttempts.creatorId
    Charged,      \* paymentAttempts.amountCents
    FeeBps,     \* users.platformFeeBps
    Items       \* payoutItems

\* The prices of paid tiers that tiers.update takes, and the highest rate.
MinPrice == 50
MaxPrice == 1000000
STANDARD_PLATFORM_FEE_BPS == 2000

ASSUME PaymentAssumption == /\ IsFiniteSet(Creators) /\ IsFiniteSet(Payments)
                            /\ CreatorOf \in [Payments -> Creators]
                            /\ Charged \in [Payments -> MinPrice..MaxPrice]
                            /\ FeeBps \in [Creators -> 0..STANDARD_PLATFORM_FEE_BPS]

VARIABLES
    ledger,  \* ledgerEntries: the cents of each entry (0: not posted)
    total,   \* creatorBalances.totalCents
    held     \* payments whose EARNING entry has effectiveAt in the future

ledgerVars == <<ledger, total, held>>

-----------------------------------------------------------------------------
(* lib/stripe.ts: fees.                                                    *)

BasicCardFee(amount) == (amount * 290 + 5000) \div 10000 + 30
CreatorProcessingFee(amount) == (BasicCardFee(amount) * 5000) \div 10000
PlatformFee(amount, bps) ==
    amount - (amount * (10000 - bps)) \div 10000 + CreatorProcessingFee(amount)

\* What creditEarning posts.
EarningOf(p) == Charged[p] - PlatformFee(Charged[p], FeeBps[CreatorOf[p]])

-----------------------------------------------------------------------------
(* Entries.                                                                *)

EarningKinds == {"EARNING", "REFUND_REVERSAL", "DISPUTE_DEBIT", "DISPUTE_RELEASE"}
PaymentKeys == EarningKinds \X Payments
EntryKeys == PaymentKeys \cup ({"PAYOUT_RESERVATION"} \X Items)

\* An item is a pair whose first component is its creator.
CreatorOfKey(k) == IF k \in PaymentKeys THEN CreatorOf[k[2]] ELSE k[2][1]
Sum(keys) == SumOver(ledger, keys)
EntriesOf(c) == {k \in EntryKeys : CreatorOfKey(k) = c}

\* The payments of cleared were earned, and their holds ended, before.
InitLedger(cleared) ==
    /\ ledger = [k \in EntryKeys |-> IF k \in {"EARNING"} \X cleared
                               THEN EarningOf(k[2]) ELSE 0]
    /\ total = [c \in Creators |-> Sum(EntriesOf(c))]
    /\ held = {}

\* Fault: the running total counts an entry again that exists already.
CountedAgain(new) == DOMAIN new
\* Keys of new whose entry is posted: no entry has the key yet.
FreshKeys(new) == {k \in DOMAIN new : ledger[k] = 0}

\* postEntry, for every entry of new (a function from keys to cents): the
\* creator's running total follows.
PostEntries(new) ==
    /\ ledger' = [k \in EntryKeys |->
                    IF k \in DOMAIN new /\ ledger[k] = 0 THEN new[k] ELSE ledger[k]]
    /\ total' = [c \in Creators |->
                    total[c] + SumOver(new, {k \in FreshKeys(new) : CreatorOfKey(k) = c})]
PostEntry(k, cents) == PostEntries([x \in {k} |-> cents])

\* Fault: money on hold counts as available.
HoldIgnored(c) == total[c]
\* balanceAt: the total less what is not yet effective.  Only earnings are held.
Available(c) ==
    total[c] - Sum({<<"EARNING", p>> : p \in {q \in held : CreatorOf[q] = c}})

Earned(p) == ledger[<<"EARNING", p>>] # 0

\* A paid call went LIVE.
CreditEarning(p) ==
    /\ PostEntry(<<"EARNING", p>>, EarningOf(p))
    /\ held' = IF Earned(p) THEN held ELSE held \cup {p}

\* A refund of the whole price succeeded; the shares of partial ones are in
\* Refunds.
ReverseEarning(p) ==
    /\ IF Earned(p)
       THEN PostEntry(<<"REFUND_REVERSAL", p>>, -ledger[<<"EARNING", p>>])
       ELSE UNCHANGED <<ledger, total>>
    /\ UNCHANGED held

\* What the dispute's debit took, 0 if there is none.
DebitReleased(p) == -ledger[<<"DISPUTE_DEBIT", p>>]

\* The one dispute of payment p is "open" or "lost" (statuses of DISPUTE_OPEN) or
\* "won" (DISPUTE_RESOLVED).
AdjustForDispute(p, status) ==
    /\ CASE Earned(p) /\ status \in {"open", "lost"} ->
              PostEntry(<<"DISPUTE_DEBIT", p>>, -ledger[<<"EARNING", p>>])
         [] Earned(p) /\ status = "won" ->
              PostEntry(<<"DISPUTE_RELEASE", p>>, DebitReleased(p))
         [] OTHER -> UNCHANGED <<ledger, total>>
    /\ UNCHANGED held

\* The payouts chart (payouts.earnings): what a creator made, payouts aside.
NetEarnings(c) == Sum({k \in EntriesOf(c) : k[1] \in EarningKinds})

=============================================================================
