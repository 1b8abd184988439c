---------------------------- MODULE PayoutsProofs ----------------------------
(***************************************************************************)
(* The creator ledger and the monthly payouts, for any number of creators, *)
(* payments, months, walks and transfers.                                  *)
(***************************************************************************)
EXTENDS Money, RefundsProofs, SumTheorems

USE DEF Months, InFlight, UNSETTLED, ItemStatuses, RunStatuses, EarningKinds

-----------------------------------------------------------------------------
(* The inductive invariant.                                                *)

EarningKey(p) == <<"EARNING", p>>
ReservationKey(i) == <<"PAYOUT_RESERVATION", i>>

\* payoutAccounts holds one row per creator.
OrderIsAccounts ==
    /\ order \in Seq(Creators)
    /\ \A m, n \in DOMAIN order : order[m] = order[n] => m = n
    /\ \A n \in DOMAIN order : account[order[n]] # NoAccount

\* What a payment's entries may be, whichever of them are there.
EntriesAgree ==
    \A p \in Payments :
        LET e == ledger[<<"EARNING", p>>]
        IN /\ e \in {0, EarningOf(p)}
           /\ ledger[<<"REFUND_REVERSAL", p>>] \in {0, -e}
           /\ ledger[<<"DISPUTE_DEBIT", p>>] \in {0, -e}
           /\ ledger[<<"DISPUTE_RELEASE", p>>] \in {0, DebitReleased(p)}

\* The running total is the sum of the creator's entries.
TotalIsSum == \A c \in Creators : total[c] = Sum(EntriesOf(c))

\* Every item has its reservation, of the item's amount.
ItemIsReserved ==
    \A i \in Items :
        /\ ledger[ReservationKey(i)] = -item[i].amount
        /\ item[i].status = "NONE" => item[i] = NoItem

\* What is reserved is covered by earnings whose hold has ended.
ReservedIsCleared == \A c \in Creators : -Sum(Reservations(c)) <= Cleared(c)

\* A transfer is made for an item, of its amount, and so is an action.
SentIsOwed ==
    \A t \in sent : \E i \in Items :
        item[i].status # "NONE" /\ t = [key |-> <<i, 0>>, amount |-> item[i].amount]
JobHasItem == \A j \in jobs : item[j.item].status # "NONE"

\* A creator has one payout at a time that is not settled.
OneAtATime ==
    \A c \in Creators, m, k \in Months :
        item[<<c, m>>].status \in UNSETTLED /\ item[<<c, k>>].status \in UNSETTLED
            => m = k

LedgerInv == EntriesAgree /\ TotalIsSum
BooksInv == LedgerInv /\ ItemIsReserved /\ ReservedIsCleared
RunsInv == OrderIsAccounts /\ SentIsOwed /\ JobHasItem /\ OneAtATime /\ FinishedRunIsQuiet
PayoutsInv == PayoutsTypeOK /\ BooksInv /\ RunsInv

-----------------------------------------------------------------------------
(* Fees and the calendar.                                                  *)

\* Prices and rates are numbers within their limits.
LEMMA PricesAndRates ==
    /\ \A x \in MinPrice..MaxPrice : x \in Int /\ x >= 50
    /\ \A x \in 0..STANDARD_PLATFORM_FEE_BPS : x \in Int /\ x >= 0 /\ x <= 2000
<1>1. MinPrice \in Int /\ MaxPrice \in Int /\ MinPrice = 50 BY SMT DEF MinPrice, MaxPrice
<1>2. STANDARD_PLATFORM_FEE_BPS \in Int /\ STANDARD_PLATFORM_FEE_BPS = 2000
  BY SMT DEF STANDARD_PLATFORM_FEE_BPS
<1> QED BY <1>1, <1>2, SMT

\* The creator's share of a price, before their half of the card fee, lies between
\* 80% of it and all of it.
LEMMA ShareOfPrice ==
    ASSUME NEW price \in Int, price >= 50, NEW bps \in Int, bps >= 0, bps <= 2000
    PROVE  LET q == (price * (10000 - bps)) \div 10000
           IN /\ q \in Int /\ q <= price
              /\ 10 * q >= 8 * price - 10
<1> DEFINE a == price * (10000 - bps)
<1>1. a \in Int BY SMT
<1>2. a <= 10000 * price
  <2>1. price * bps >= 0 BY SMT
  <2>2. a = 10000 * price - price * bps BY SMT
  <2> QED BY <2>1, <2>2, SMT
<1>3. a >= 8000 * price
  <2>1. price * (2000 - bps) >= 0 BY SMT
  <2>2. a = 8000 * price + price * (2000 - bps) BY SMT
  <2> QED BY <2>1, <2>2, SMT
<1> HIDE DEF a
<1>4. /\ a \div 10000 \in Int /\ a \div 10000 <= price
      /\ 10 * (a \div 10000) >= 8 * price - 10
  BY <1>1, <1>2, <1>3, SMT
<1> QED BY <1>4, SMT DEF a

\* Whatever a tier costs and whatever the platform's rate, a creator earns something, the
\* platform takes at least its fee, and both bear half of the card fee.
LEMMA FeeIsFair ==
    ASSUME NEW price \in Int, price >= 50, NEW bps \in Int, bps >= 0, bps <= 2000
    PROVE  /\ PlatformFee(price, bps) \in 1..(price - 1)
           /\ CreatorProcessingFee(price) <= BasicCardFee(price) - CreatorProcessingFee(price)
           /\ BasicCardFee(price) - CreatorProcessingFee(price)
                <= CreatorProcessingFee(price) + 1
<1> DEFINE fee == BasicCardFee(price)
           half == CreatorProcessingFee(price)
           q == (price * (10000 - bps)) \div 10000
<1>1. fee \in Int /\ fee >= 31 /\ 1000 * fee <= 29 * price + 31000
  BY SMT DEF BasicCardFee
<1> HIDE DEF fee
<1>2. half \in Int /\ 2 * half <= fee /\ fee <= 2 * half + 1
  BY <1>1, SMT DEF CreatorProcessingFee, fee
<1> HIDE DEF half
<1>3. q \in Int /\ q <= price /\ 10 * q >= 8 * price - 10 BY ShareOfPrice, SMT
<1>4. PlatformFee(price, bps) = price - q + half BY SMT DEF PlatformFee, half
<1> HIDE DEF q
<1>5. half < q BY <1>1, <1>2, <1>3, SMT
<1>6. half >= 15 BY <1>1, <1>2, SMT
<1>7. PlatformFee(price, bps) \in 1..(price - 1) BY <1>2, <1>3, <1>4, <1>5, <1>6, SMT
<1>8. half <= fee - half /\ fee - half <= half + 1 BY <1>1, <1>2, SMT
<1> QED BY <1>7, <1>8 DEF half, fee

\* An earning is positive and less than the price.
LEMMA EarningIsPositive ==
    ASSUME NEW p \in Payments PROVE EarningOf(p) \in 1..(Charged[p] - 1)
<1>1. Charged[p] \in MinPrice..MaxPrice /\ FeeBps[CreatorOf[p]] \in 0..STANDARD_PLATFORM_FEE_BPS
  BY PaymentAssumption
<1>3. Charged[p] \in Int BY <1>1, PricesAndRates
<1>2. PlatformFee(Charged[p], FeeBps[CreatorOf[p]]) \in 1..(Charged[p] - 1)
  BY <1>1, PricesAndRates, FeeIsFair
<1> QED BY <1>2, <1>3 DEF EarningOf

\* payoutPeriod turns at the date that nextPayoutAt gives and not before.
LEMMA PeriodTurns == PayoutsTypeOK => NextPayoutTurnsPeriod
<1> SUFFICES ASSUME PayoutsTypeOK, NEW day \in Days \cap (1..28), NEW d \in Days
             PROVE  LET next == NextPayoutAt(<<month, d>>, day)
                    IN /\ PayoutPeriod(next, day) = PayoutPeriod(<<month, d>>, day) + 1
                       /\ \A e \in {e \in Days : e >= d} : (next[1] > month \/ e < next[2]) =>
                            PayoutPeriod(<<month, e>>, day) = PayoutPeriod(<<month, d>>, day)
  BY DEF NextPayoutTurnsPeriod
<1>1. month \in Nat /\ day \in Nat /\ d \in Nat /\ Days \subseteq Nat
  BY PayoutsAssumption DEF PayoutsTypeOK
<1> QED BY <1>1 DEF NextPayoutAt, PayoutPeriod

-----------------------------------------------------------------------------
(* Sums of entries.                                                        *)

\* The books are finite.
LEMMA FiniteKeys == IsFiniteSet(EntryKeys) /\ IsFiniteSet(Items)
<1>1. IsFiniteSet(Creators) /\ IsFiniteSet(Payments) BY PaymentAssumption
<1>2. IsFiniteSet(Months) BY PayoutsAssumption, FS_Interval
<1>3. IsFiniteSet(Items) BY <1>1, <1>2, PayoutsAssumption, FS_Product
<1>4. IsFiniteSet({"EARNING"} \cup {"REFUND_REVERSAL"} \cup {"DISPUTE_DEBIT"}
                    \cup {"DISPUTE_RELEASE"})
  BY FS_Singleton, FS_Union
<1>5. EarningKinds = {"EARNING"} \cup {"REFUND_REVERSAL"} \cup {"DISPUTE_DEBIT"}
                       \cup {"DISPUTE_RELEASE"}
  OBVIOUS
<1>6. IsFiniteSet(PaymentKeys) BY <1>1, <1>4, <1>5, FS_Product DEF PaymentKeys
<1>7. IsFiniteSet({"PAYOUT_RESERVATION"} \X Items) BY <1>3, FS_Singleton, FS_Product
<1> QED BY <1>3, <1>6, <1>7, FS_Union DEF EntryKeys

\* Postings add up: the sum over some keys grows by the entries posted under them.
LEMMA PostedSum ==
    ASSUME ledger \in [EntryKeys -> Int],
           NEW new, DOMAIN new \subseteq EntryKeys, \A k \in DOMAIN new : new[k] \in Int,
           PostEntries(new), NEW K \in SUBSET EntryKeys
    PROVE  /\ Sum(K)' = Sum(K) + SumOver(new, FreshKeys(new) \cap K)
           /\ Sum(K) \in Int /\ SumOver(new, FreshKeys(new) \cap K) \in Int
<1> DEFINE A == FreshKeys(new) \cap K
           B == K \ A
<1>1. IsFiniteSet(K) /\ IsFiniteSet(A) /\ IsFiniteSet(B)
  BY FiniteKeys, FS_Subset DEF FreshKeys
<1>2. A \cup B = K /\ A \cap B = {} OBVIOUS
<1>3. /\ ledger' \in [EntryKeys -> Int]
      /\ \A k \in A : ledger'[k] = new[k] /\ ledger[k] = 0
      /\ \A k \in B : ledger'[k] = ledger[k]
  BY DEF PostEntries, FreshKeys
<1>4. A \subseteq K /\ B \subseteq K /\ \A k \in A : new[k] \in Int
  BY DEF FreshKeys
<1> HIDE DEF A, B
<1>5. SumOver(ledger', A \cup B) = SumOver(ledger', A) + SumOver(ledger', B)
  <2>1. \A k \in A \cup B : ledger'[k] \in Int BY <1>3, <1>4
  <2> QED BY <1>1, <1>2, <2>1, SumOfParts
<1>6. SumOver(ledger, A \cup B) = SumOver(ledger, A) + SumOver(ledger, B)
  <2>1. \A k \in A \cup B : ledger[k] \in Int BY <1>3, <1>4
  <2> QED BY <1>1, <1>2, <2>1, SumOfParts
<1>7. SumOver(ledger', A) = SumOver(new, A) BY <1>1, <1>3, SumOfEqual
<1>8. SumOver(ledger', B) = SumOver(ledger, B) BY <1>1, <1>3, SumOfEqual
<1>9. SumOver(ledger, A) = 0 BY <1>1, <1>3, SumOfZeros
<1>10. SumOver(new, A) \in Int BY <1>1, <1>4, SumIsInt
<1>11. SumOver(ledger, B) \in Int
  <2>1. \A k \in B : ledger[k] \in Int BY <1>4
  <2> QED BY <1>1, <2>1, SumIsInt
<1>12. SumOver(ledger, K) = SumOver(ledger, B)
  BY <1>2, <1>6, <1>9, <1>11
<1>13. SumOver(ledger', K) = SumOver(ledger, K) + SumOver(new, A)
  <2>1. SumOver(ledger', K) = SumOver(new, A) + SumOver(ledger, B)
    BY <1>2, <1>5, <1>7, <1>8
  <2> QED BY <1>10, <1>11, <1>12, <2>1
<1> QED BY <1>10, <1>11, <1>12, <1>13 DEF Sum, A

\* postEntry keeps the creator's running total in step, whatever is posted.
LEMMA PostingKeepsTotal ==
    ASSUME ledger \in [EntryKeys -> Int], total \in [Creators -> Int], TotalIsSum,
           NEW new, DOMAIN new \subseteq EntryKeys, \A k \in DOMAIN new : new[k] \in Int,
           PostEntries(new)
    PROVE  /\ ledger' \in [EntryKeys -> Int] /\ total' \in [Creators -> Int] /\ TotalIsSum'
<1>1. ledger' \in [EntryKeys -> Int] BY DEF PostEntries
<1>2. ASSUME NEW c \in Creators
      PROVE  total'[c] = Sum(EntriesOf(c))' /\ total'[c] \in Int
  <2>1. EntriesOf(c) \in SUBSET EntryKeys BY DEF EntriesOf
  <2>2. {k \in FreshKeys(new) : CreatorOfKey(k) = c} = FreshKeys(new) \cap EntriesOf(c)
    BY DEF FreshKeys, EntriesOf
  <2>3. total'[c] = total[c] + SumOver(new, FreshKeys(new) \cap EntriesOf(c))
    BY <2>2 DEF PostEntries
  <2>4. /\ Sum(EntriesOf(c))' = Sum(EntriesOf(c)) + SumOver(new, FreshKeys(new) \cap EntriesOf(c))
        /\ SumOver(new, FreshKeys(new) \cap EntriesOf(c)) \in Int
    BY <2>1, PostedSum DEF Sum, EntriesOf, CreatorOfKey
  <2> QED BY <2>3, <2>4 DEF TotalIsSum
<1>3. total' \in [Creators -> Int] BY <1>2 DEF PostEntries
<1> QED BY <1>1, <1>2, <1>3 DEF TotalIsSum

-----------------------------------------------------------------------------
(* What a creator has.                                                     *)

\* The keys of one kind of entry for a set of payments.
KeysOf(kind, P) == {<<kind, p>> : p \in P}
PaymentsOf(c) == {p \in Payments : CreatorOf[p] = c}

\* Keys tell kinds and creators apart.
LEMMA KeyFacts ==
    /\ \A kind \in EarningKinds, p \in Payments :
        /\ <<kind, p>> \in PaymentKeys /\ <<kind, p>> \in EntryKeys
        /\ CreatorOfKey(<<kind, p>>) = CreatorOf[p]
    /\ \A i \in Items :
        /\ ReservationKey(i) \in EntryKeys /\ ReservationKey(i) \notin PaymentKeys
        /\ CreatorOfKey(ReservationKey(i)) = i[1]
    /\ \A k \in EntryKeys :
        \/ \E kind \in EarningKinds, p \in Payments : k = <<kind, p>>
        \/ \E i \in Items : k = ReservationKey(i)
BY DEF PaymentKeys, EntryKeys, CreatorOfKey, ReservationKey

\* Sums of entries are whole numbers.
LEMMA SumOfEntries ==
    ASSUME ledger \in [EntryKeys -> Int], NEW K \in SUBSET EntryKeys
    PROVE  IsFiniteSet(K) /\ Sum(K) \in Int
<1>1. IsFiniteSet(K) BY FiniteKeys, FS_Subset
<1>2. \A k \in K : ledger[k] \in Int OBVIOUS
<1> QED BY <1>1, <1>2, SumIsInt DEF Sum

\* Keys in two parts.
LEMMA SumOfTwoParts ==
    ASSUME ledger \in [EntryKeys -> Int], NEW K \in SUBSET EntryKeys,
           NEW L \in SUBSET EntryKeys, K \cap L = {}
    PROVE  Sum(K \cup L) = Sum(K) + Sum(L)
<1>1. IsFiniteSet(K) /\ IsFiniteSet(L) BY FiniteKeys, FS_Subset
<1>2. \A k \in K \cup L : ledger[k] \in Int OBVIOUS
<1> QED BY <1>1, <1>2, SumOfParts DEF Sum

\* The signs of a payment's entries.
LEMMA EntryBounds ==
    ASSUME EntriesAgree, NEW p \in Payments
    PROVE  /\ ledger[<<"EARNING", p>>] \in Nat
           /\ ledger[<<"REFUND_REVERSAL", p>>] <= 0
           /\ ledger[<<"DISPUTE_DEBIT", p>>] <= 0
           /\ ledger[<<"DISPUTE_RELEASE", p>>] <= -ledger[<<"DISPUTE_DEBIT", p>>]
<1>1. EarningOf(p) \in Nat
  <2>1. Charged[p] \in Int BY PaymentAssumption, PricesAndRates
  <2> QED BY <2>1, EarningIsPositive
<1>2. ledger[<<"EARNING", p>>] \in {0, EarningOf(p)} BY DEF EntriesAgree
<1>3. ledger[<<"EARNING", p>>] \in Nat BY <1>1, <1>2
<1> QED BY <1>3 DEF EntriesAgree, DebitReleased

\* Refunds and disputes only ever take away: a creator's net earnings are at most what
\* their calls earned.
LEMMA NetIsBounded ==
    ASSUME ledger \in [EntryKeys -> Int], EntriesAgree, NEW c \in Creators
    PROVE  /\ NetEarnings(c) \in Int /\ Sum(KeysOf("EARNING", PaymentsOf(c))) \in Int
           /\ NetEarnings(c) <= Sum(KeysOf("EARNING", PaymentsOf(c)))
<1> DEFINE E == KeysOf("EARNING", PaymentsOf(c))
           R == KeysOf("REFUND_REVERSAL", PaymentsOf(c))
           D == KeysOf("DISPUTE_DEBIT", PaymentsOf(c))
           L == KeysOf("DISPUTE_RELEASE", PaymentsOf(c))
<1>1. {k \in EntriesOf(c) : k[1] \in EarningKinds} = ((E \cup R) \cup D) \cup L
  BY KeyFacts DEF KeysOf, PaymentsOf, EntriesOf, ReservationKey
<1>2. /\ E \in SUBSET EntryKeys /\ R \in SUBSET EntryKeys
      /\ D \in SUBSET EntryKeys /\ L \in SUBSET EntryKeys
  BY KeyFacts DEF KeysOf, PaymentsOf
<1>3. E \cap R = {} /\ (E \cup R) \cap D = {} /\ ((E \cup R) \cup D) \cap L = {}
  BY DEF KeysOf
<1>4. \A p \in Payments :
        /\ ledger[<<"REFUND_REVERSAL", p>>] <= 0
        /\ ledger[<<"DISPUTE_DEBIT", p>>] <= 0
        /\ ledger[<<"DISPUTE_RELEASE", p>>] <= -ledger[<<"DISPUTE_DEBIT", p>>]
  BY EntryBounds
<1> DEFINE neg == [k \in D |-> -ledger[k]]
           zero == [k \in R |-> 0]
           m == [k \in L |-> <<"DISPUTE_DEBIT", k[2]>>]
<1>6. /\ \A k \in R : ledger[k] \in Int /\ zero[k] = 0 /\ ledger[k] <= zero[k]
      /\ \A k \in D : ledger[k] \in Int /\ neg[k] \in Nat /\ 0 = ledger[k] + neg[k]
      /\ \A k \in L : ledger[k] \in Int /\ m[k] \in D /\ ledger[k] <= neg[m[k]]
      /\ \A j, k \in L : m[j] = m[k] => j = k
  <2>1. \A k \in R : ledger[k] \in Int /\ ledger[k] <= 0
    BY <1>2, <1>4 DEF KeysOf, PaymentsOf
  <2>2. \A k \in D : ledger[k] \in Int /\ ledger[k] <= 0
    BY <1>2, <1>4 DEF KeysOf, PaymentsOf
  <2>3. \A k \in D : neg[k] \in Nat /\ 0 = ledger[k] + neg[k] BY <2>2
  <2>4. ASSUME NEW k \in L
        PROVE  ledger[k] \in Int /\ m[k] \in D /\ ledger[k] <= -ledger[m[k]]
    <3>1. PICK p \in PaymentsOf(c) : k = <<"DISPUTE_RELEASE", p>> BY DEF KeysOf
    <3>2. m[k] = <<"DISPUTE_DEBIT", p>> BY <3>1
    <3>3. p \in Payments /\ m[k] \in D BY <3>2 DEF KeysOf, PaymentsOf
    <3> QED BY <1>2, <1>4, <3>1, <3>2, <3>3
  <2>5. \A j, k \in L : m[j] = m[k] => j = k BY DEF KeysOf
  <2> QED BY <2>1, <2>2, <2>3, <2>4, <2>5
<1>7. m \in [L -> D] BY <1>6
<1>8. IsFiniteSet(R) /\ IsFiniteSet(D) /\ IsFiniteSet(L) BY <1>2, SumOfEntries
<1>9. /\ Sum(E) \in Int /\ Sum(R) \in Int /\ Sum(D) \in Int /\ Sum(L) \in Int
  BY <1>2, SumOfEntries
<1> HIDE DEF E, R, D, L, neg, zero, m
<1>10. Sum(R) <= 0
  <2>1. SumOver(zero, R) = 0 BY <1>6, <1>8, SumOfZeros
  <2>2. \A k \in R : ledger[k] \in Int /\ zero[k] \in Int /\ ledger[k] <= zero[k] BY <1>6
  <2>3. SumOver(ledger, R) <= SumOver(zero, R) BY <1>8, <2>2, SumIsMonotone
  <2> QED BY <2>1, <2>3 DEF Sum
<1>11. Sum(D) + Sum(L) <= 0
  <2>1. SumOver(ledger, L) <= SumOver(neg, D) BY <1>6, <1>7, <1>8, SumOfCounterparts
  <2> DEFINE none == [k \in D |-> 0]
  <2>2. SumOver(none, D) = SumOver(ledger, D) + SumOver(neg, D)
    BY <1>6, <1>8, SumOfSums
  <2>3. SumOver(none, D) = 0 BY <1>8, SumOfZeros
  <2>4. SumOver(neg, D) \in Int BY <1>6, <1>8, SumIsInt
  <2> QED BY <1>9, <2>1, <2>2, <2>3, <2>4 DEF Sum
<1>12. /\ Sum(E \cup R) = Sum(E) + Sum(R)
       /\ Sum((E \cup R) \cup D) = Sum(E \cup R) + Sum(D)
       /\ Sum(((E \cup R) \cup D) \cup L) = Sum((E \cup R) \cup D) + Sum(L)
  BY <1>2, <1>3, SumOfTwoParts
<1>13. NetEarnings(c) = Sum(((E \cup R) \cup D) \cup L) BY <1>1 DEF NetEarnings
<1> QED BY <1>9, <1>10, <1>11, <1>12, <1>13 DEF E

\* The total in its two parts.
LEMMA TotalInParts ==
    ASSUME ledger \in [EntryKeys -> Int], NEW c \in Creators
    PROVE  /\ Sum(EntriesOf(c)) = NetEarnings(c) + Sum(Reservations(c))
           /\ Sum(Reservations(c)) \in Int /\ NetEarnings(c) \in Int
<1> DEFINE N == {k \in EntriesOf(c) : k[1] \in EarningKinds}
<1>1. N \in SUBSET EntryKeys /\ Reservations(c) \in SUBSET EntryKeys
  BY DEF EntriesOf, Reservations
<1>2. N \cap Reservations(c) = {} BY DEF Reservations
<1>3. N \cup Reservations(c) = EntriesOf(c)
  BY KeyFacts DEF Reservations, EntriesOf, ReservationKey
<1> HIDE DEF N
<1>4. Sum(N \cup Reservations(c)) = Sum(N) + Sum(Reservations(c))
  BY <1>1, <1>2, SumOfTwoParts
<1>5. Sum(N) \in Int /\ Sum(Reservations(c)) \in Int BY <1>1, SumOfEntries
<1>6. NetEarnings(c) = Sum(N) BY DEF NetEarnings, N
<1> QED BY <1>3, <1>4, <1>5, <1>6

\* What balanceAt calls available is covered by earnings whose hold has ended.
LEMMA AvailableIsCovered ==
    ASSUME ledger \in [EntryKeys -> Int], total \in [Creators -> Int],
           held \subseteq Payments, EntriesAgree, TotalIsSum, NEW c \in Creators
    PROVE  /\ Available(c) \in Int /\ Cleared(c) \in Int /\ Sum(Reservations(c)) \in Int
           /\ Available(c) <= Cleared(c) + Sum(Reservations(c))
<1> DEFINE H == KeysOf("EARNING", {q \in held : CreatorOf[q] = c})
           C == KeysOf("EARNING", {q \in Payments \ held : CreatorOf[q] = c})
<1>1. H \in SUBSET EntryKeys /\ C \in SUBSET EntryKeys BY KeyFacts DEF KeysOf
<1>2. H \cap C = {} /\ H \cup C = KeysOf("EARNING", PaymentsOf(c))
  BY DEF KeysOf, PaymentsOf
<1>3. Available(c) = total[c] - Sum(H) /\ Cleared(c) = Sum(C)
  BY DEF Available, Cleared, KeysOf
<1> HIDE DEF H, C
<1>4. Sum(H) \in Int /\ Sum(C) \in Int BY <1>1, SumOfEntries
<1>5. Sum(KeysOf("EARNING", PaymentsOf(c))) = Sum(H) + Sum(C)
  BY <1>1, <1>2, SumOfTwoParts
<1>6. NetEarnings(c) <= Sum(KeysOf("EARNING", PaymentsOf(c))) /\ NetEarnings(c) \in Int
  BY NetIsBounded
<1>7. total[c] = NetEarnings(c) + Sum(Reservations(c)) /\ Sum(Reservations(c)) \in Int
  BY TotalInParts DEF TotalIsSum
<1> QED BY <1>3, <1>4, <1>5, <1>6, <1>7

-----------------------------------------------------------------------------
(* Steps of the books.                                                     *)

\* One entry is posted, unless there is one.
LEMMA EntryPosted ==
    ASSUME NEW key \in EntryKeys, NEW cents, PostEntry(key, cents)
    PROVE  \A k \in EntryKeys :
              ledger'[k] = IF k = key /\ ledger[k] = 0 THEN cents ELSE ledger[k]
BY DEF PostEntry, PostEntries

\* Cleared earnings only grow, as long as a cleared earning stays what and where it is.
LEMMA ClearedGrows ==
    ASSUME ledger \in [EntryKeys -> Int], (ledger \in [EntryKeys -> Int])',
           EntriesAgree', held' \subseteq Payments, NEW c \in Creators,
           \A q \in Payments \ held :
              \/ ledger[EarningKey(q)] = 0
              \/ q \notin held' /\ ledger'[EarningKey(q)] = ledger[EarningKey(q)]
    PROVE  Cleared(c) <= Cleared(c)' /\ Cleared(c) \in Int /\ Cleared(c)' \in Int
<1> DEFINE K == KeysOf("EARNING", {q \in Payments \ held : CreatorOf[q] = c})
           N == KeysOf("EARNING", {q \in Payments \ held' : CreatorOf[q] = c})
           B == K \cap N
<1>1. K \in SUBSET EntryKeys /\ N \in SUBSET EntryKeys BY KeyFacts DEF KeysOf
<1>2. IsFiniteSet(K) /\ IsFiniteSet(N) /\ IsFiniteSet(B) /\ IsFiniteSet(K \ B)
  BY <1>1, FiniteKeys, FS_Subset
<1>3. Cleared(c) = SumOver(ledger, K) BY DEF Cleared, Sum, KeysOf
<1>4. Cleared(c)' = SumOver(ledger', N) BY DEF Cleared, Sum, KeysOf
<1>5. \A k \in N : ledger'[k] \in Nat
  <2>1. \A p \in Payments : ledger'[<<"EARNING", p>>] \in Nat
    <3> SUFFICES ASSUME NEW p \in Payments PROVE ledger'[<<"EARNING", p>>] \in Nat
      OBVIOUS
    <3>1. EarningOf(p) \in Nat
      <4>1. Charged[p] \in Int BY PaymentAssumption, PricesAndRates
      <4> QED BY <4>1, EarningIsPositive
    <3>2. ledger'[<<"EARNING", p>>] \in {0, EarningOf(p)} BY DEF EntriesAgree, EarningOf
    <3> QED BY <3>1, <3>2
  <2> QED BY <2>1 DEF KeysOf
<1>6. \A k \in K \ B : ledger[k] = 0 BY DEF KeysOf, EarningKey
<1>7. \A k \in B : ledger[k] \in Int /\ ledger'[k] \in Int /\ ledger[k] <= ledger'[k]
  <2>1. ASSUME NEW k \in B PROVE ledger[k] = 0 \/ ledger'[k] = ledger[k]
    BY DEF KeysOf, EarningKey
  <2>2. \A k \in B : ledger[k] \in Int /\ ledger'[k] \in Nat BY <1>1, <1>5
  <2> HIDE DEF B
  <2> QED BY <2>1, <2>2
<1>8. B \cup (K \ B) = K /\ B \cap (K \ B) = {} /\ B \in SUBSET N OBVIOUS
<1>9. \A k \in B \cup (K \ B) : ledger[k] \in Int BY <1>1
<1>10. \A k \in N : ledger'[k] \in Int BY <1>5
<1>11. \A k \in N \ B : ledger'[k] \in Nat BY <1>5
<1> HIDE DEF K, N, B
<1>12. SumOver(ledger, B \cup (K \ B)) = SumOver(ledger, B) + SumOver(ledger, K \ B)
  BY <1>2, <1>8, <1>9, SumOfParts
<1>13. SumOver(ledger, K \ B) = 0 BY <1>2, <1>6, SumOfZeros
<1>14. SumOver(ledger, B) <= SumOver(ledger', B) BY <1>2, <1>7, SumIsMonotone
<1>15. SumOver(ledger', B) <= SumOver(ledger', N)
  BY <1>2, <1>8, <1>10, <1>11, SumOfSubset
<1>16. SumOver(ledger, B) \in Int /\ SumOver(ledger', B) \in Int
  BY <1>2, <1>7, SumIsInt
<1>17. SumOver(ledger', N) \in Int BY <1>2, <1>10, SumIsInt
<1>18. SumOver(ledger, K) = SumOver(ledger, B)
  <2>1. SumOver(ledger, K) = SumOver(ledger, B) + 0 BY <1>8, <1>12, <1>13, Zenon
  <2> QED BY <1>16, <2>1
<1> QED BY <1>3, <1>4, <1>14, <1>15, <1>16, <1>17, <1>18

\* Calls, refunds and disputes do not touch reservations and leave them covered.
LEMMA EarningStep ==
    ASSUME PayoutsTypeOK, BooksInv,
           NEW kind \in EarningKinds, NEW p \in Payments, NEW cents \in Int,
           PostEntry(<<kind, p>>, cents) \/ UNCHANGED <<ledger, total>>,
           EntriesAgree', held' \subseteq Payments, UNCHANGED item,
           \A q \in Payments \ held :
              \/ ledger[EarningKey(q)] = 0
              \/ q \notin held' /\ ledger'[EarningKey(q)] = ledger[EarningKey(q)]
    PROVE  ledger' \in [EntryKeys -> Int] /\ total' \in [Creators -> Int] /\ BooksInv'
<1> USE DEF BooksInv, LedgerInv
<1>1. ledger \in [EntryKeys -> Int] /\ total \in [Creators -> Int] BY DEF PayoutsTypeOK
<1>2. <<kind, p>> \in EntryKeys BY KeyFacts
<1>3. ledger' \in [EntryKeys -> Int] /\ total' \in [Creators -> Int] /\ TotalIsSum'
  <2>1. CASE UNCHANGED <<ledger, total>> BY <1>1, <2>1 DEF TotalIsSum, Sum
  <2>2. CASE PostEntry(<<kind, p>>, cents)
    <3> DEFINE new == [x \in {<<kind, p>>} |-> cents]
    <3>1. DOMAIN new \subseteq EntryKeys /\ \A k \in DOMAIN new : new[k] \in Int
      BY <1>2
    <3>2. PostEntries(new) BY <2>2 DEF PostEntry
    <3> HIDE DEF new
    <3> QED BY <1>1, <3>1, <3>2, PostingKeepsTotal
  <2> QED BY <2>1, <2>2
<1>4. \A i \in Items : ledger'[ReservationKey(i)] = ledger[ReservationKey(i)]
  <2>1. \A i \in Items : ReservationKey(i) \in EntryKeys /\ ReservationKey(i) # <<kind, p>>
    BY KeyFacts
  <2> QED BY <1>2, <2>1, EntryPosted
<1>5. ItemIsReserved' BY <1>4 DEF ItemIsReserved, ReservationKey
<1>6. ReservedIsCleared'
  <2> SUFFICES ASSUME NEW c \in Creators PROVE (-Sum(Reservations(c)))' <= Cleared(c)'
    BY DEF ReservedIsCleared
  <2>1. \A k \in Reservations(c) : k \in EntryKeys /\ ledger[k] = ledger'[k]
    BY <1>4, KeyFacts DEF Reservations, EntriesOf
  <2>2. Reservations(c) \in SUBSET EntryKeys BY <2>1
  <2>3. Sum(Reservations(c))' = Sum(Reservations(c)) /\ Sum(Reservations(c)) \in Int
    <3>1. IsFiniteSet(Reservations(c)) /\ Sum(Reservations(c)) \in Int
      BY <1>1, <2>2, SumOfEntries
    <3>2. SumOver(ledger, Reservations(c)) = SumOver(ledger', Reservations(c))
      BY <2>1, <3>1, SumOfEqual
    <3> QED BY <3>1, <3>2 DEF Sum, Reservations, EntriesOf, CreatorOfKey
  <2>4. Cleared(c) <= Cleared(c)' /\ Cleared(c) \in Int /\ Cleared(c)' \in Int
    BY <1>1, <1>3, ClearedGrows
  <2>5. -Sum(Reservations(c)) <= Cleared(c) BY DEF ReservedIsCleared
  <2> QED BY <2>3, <2>4, <2>5
<1> QED BY <1>3, <1>5, <1>6

\* What does not touch accounts, runs, items and transfers keeps what is said of them.
LEMMA RunsUntouched ==
    ASSUME RunsInv, UNCHANGED <<orderVars, run, item, jobs, sent>>
    PROVE  RunsInv'
BY DEF RunsInv, orderVars, OrderIsAccounts, SentIsOwed, JobHasItem, OneAtATime,
        FinishedRunIsQuiet

\* A call goes LIVE, a hold ends, a refund succeeds or a dispute comes along.
LEMMA BooksSteps ==
    ASSUME PayoutsInv, NEW p \in Payments,
           \/ CallGoesLive(p) \/ HoldEnds(p) \/ RefundSucceeds(p)
           \/ \E status \in {"open", "lost", "won"} : DisputeEvent(p, status)
    PROVE  PayoutsInv'
<1> USE DEF PayoutsInv, BooksInv, LedgerInv
<1> DEFINE key(kind) == <<kind, p>>
<1>1. /\ \A kind \in EarningKinds : key(kind) \in EntryKeys
      /\ \A q \in Payments, kind \in EarningKinds : <<kind, q>> \in EntryKeys
  BY KeyFacts
<1>2. UNCHANGED <<orderVars, month, payVars>>
  BY DEF CallGoesLive, HoldEnds, RefundSucceeds, DisputeEvent
<1>3. RunsInv' BY <1>2, RunsUntouched DEF payVars
<1>4. ASSUME ledger' \in [EntryKeys -> Int], total' \in [Creators -> Int],
             held' \subseteq Payments, refunded' \subseteq Refundable,
             disputed' \subseteq Disputable \X {"open", "lost", "won"}, BooksInv'
      PROVE  PayoutsInv'
  BY <1>2, <1>3, <1>4 DEF PayoutsTypeOK, orderVars, payVars
<1>5. ledger \in [EntryKeys -> Int] /\ EarningOf(p) \in Int
  <2>1. Charged[p] \in Int BY PaymentAssumption, PricesAndRates
  <2> QED BY <2>1, EarningIsPositive DEF PayoutsTypeOK
<1>6. CASE CallGoesLive(p)
  <2>1. /\ ledger[key("EARNING")] = 0 /\ PostEntry(key("EARNING"), EarningOf(p))
        /\ held' = held \cup {p} /\ UNCHANGED <<refunded, disputed, item>>
    BY <1>2, <1>6 DEF CallGoesLive, CreditEarning, Earned, earnedVars, payVars
  <2>2. \A k \in EntryKeys :
          ledger'[k] = IF k = key("EARNING") THEN EarningOf(p) ELSE ledger[k]
    BY <1>1, <2>1, EntryPosted
  <2>3. EntriesAgree'
    <3> SUFFICES ASSUME NEW q \in Payments
                 PROVE  LET e == ledger'[<<"EARNING", q>>]
                        IN /\ e \in {0, EarningOf(q)}
                           /\ ledger'[<<"REFUND_REVERSAL", q>>] \in {0, -e}
                           /\ ledger'[<<"DISPUTE_DEBIT", q>>] \in {0, -e}
                           /\ ledger'[<<"DISPUTE_RELEASE", q>>]
                                \in {0, -ledger'[<<"DISPUTE_DEBIT", q>>]}
      BY DEF EntriesAgree, DebitReleased, EarningOf
    <3>1. /\ ledger'[<<"REFUND_REVERSAL", q>>] = ledger[<<"REFUND_REVERSAL", q>>]
          /\ ledger'[<<"DISPUTE_DEBIT", q>>] = ledger[<<"DISPUTE_DEBIT", q>>]
          /\ ledger'[<<"DISPUTE_RELEASE", q>>] = ledger[<<"DISPUTE_RELEASE", q>>]
          /\ ledger'[<<"EARNING", q>>] = IF q = p THEN EarningOf(p)
                                                  ELSE ledger[<<"EARNING", q>>]
      BY <1>1, <2>2
    <3>2. q = p => /\ ledger[<<"REFUND_REVERSAL", q>>] = 0
                   /\ ledger[<<"DISPUTE_DEBIT", q>>] = 0
                   /\ ledger[<<"DISPUTE_RELEASE", q>>] = 0
      BY <2>1 DEF EntriesAgree, DebitReleased
    <3> QED BY <3>1, <3>2 DEF EntriesAgree, DebitReleased
  <2>4. held' \subseteq Payments BY <2>1 DEF PayoutsTypeOK
  <2>5. \A q \in Payments \ held :
              \/ ledger[EarningKey(q)] = 0
              \/ q \notin held' /\ ledger'[EarningKey(q)] = ledger[EarningKey(q)]
    BY <1>1, <2>1, <2>2 DEF EarningKey
  <2>6. ledger' \in [EntryKeys -> Int] /\ total' \in [Creators -> Int] /\ BooksInv'
    BY <1>5, <2>1, <2>3, <2>4, <2>5, EarningStep
  <2> QED BY <1>4, <2>1, <2>4, <2>6 DEF PayoutsTypeOK
<1>7. CASE HoldEnds(p)
  <2>1. held' = held \ {p} /\ UNCHANGED <<ledger, total, refunded, disputed, item>>
    BY <1>2, <1>7 DEF HoldEnds, earnedVars, payVars
  <2>2. EntriesAgree' BY <2>1 DEF EntriesAgree, DebitReleased, EarningOf
  <2>3. held' \subseteq Payments BY <2>1 DEF PayoutsTypeOK
  <2>4. \A q \in Payments \ held :
              \/ ledger[EarningKey(q)] = 0
              \/ q \notin held' /\ ledger'[EarningKey(q)] = ledger[EarningKey(q)]
    BY <2>1
  <2>5. ledger' \in [EntryKeys -> Int] /\ total' \in [Creators -> Int] /\ BooksInv'
    BY <1>5, <2>1, <2>2, <2>3, <2>4, EarningStep
  <2> QED BY <1>4, <2>1, <2>3, <2>5 DEF PayoutsTypeOK
\* The other entries of a payment, once it is earned.
<1>8. ASSUME NEW kind \in EarningKinds \ {"EARNING"}, NEW cents \in Int,
             PostEntry(key(kind), cents) \/ UNCHANGED <<ledger, total>>,
             UNCHANGED <<held, item>>,
             kind \in {"REFUND_REVERSAL", "DISPUTE_DEBIT"} =>
                cents = -ledger[key("EARNING")],
             kind = "DISPUTE_RELEASE" => cents = DebitReleased(p)
      PROVE  ledger' \in [EntryKeys -> Int] /\ total' \in [Creators -> Int] /\ BooksInv'
  <2>1. \A k \in EntryKeys :
          ledger'[k] \in {ledger[k], IF k = key(kind) /\ ledger[k] = 0 THEN cents ELSE ledger[k]}
    BY <1>1, <1>8, EntryPosted
  <2>2. EntriesAgree'
    <3> SUFFICES ASSUME NEW q \in Payments
                 PROVE  LET e == ledger'[<<"EARNING", q>>]
                        IN /\ e \in {0, EarningOf(q)}
                           /\ ledger'[<<"REFUND_REVERSAL", q>>] \in {0, -e}
                           /\ ledger'[<<"DISPUTE_DEBIT", q>>] \in {0, -e}
                           /\ ledger'[<<"DISPUTE_RELEASE", q>>]
                                \in {0, -ledger'[<<"DISPUTE_DEBIT", q>>]}
      BY DEF EntriesAgree, DebitReleased, EarningOf
    <3>1. /\ ledger[<<"EARNING", q>>] \in {0, EarningOf(q)}
          /\ ledger[<<"REFUND_REVERSAL", q>>] \in {0, -ledger[<<"EARNING", q>>]}
          /\ ledger[<<"DISPUTE_DEBIT", q>>] \in {0, -ledger[<<"EARNING", q>>]}
          /\ ledger[<<"DISPUTE_RELEASE", q>>] \in {0, -ledger[<<"DISPUTE_DEBIT", q>>]}
      BY DEF EntriesAgree, DebitReleased
    <3>2. ledger'[<<"EARNING", q>>] = ledger[<<"EARNING", q>>] BY <1>1, <2>1
    <3>3. \A x \in EarningKinds \ {"EARNING"} :
            ledger'[<<x, q>>] = ledger[<<x, q>>]
              \/ (x = kind /\ q = p /\ ledger[<<x, q>>] = 0 /\ ledger'[<<x, q>>] = cents)
      BY <1>1, <2>1
    <3>4. ledger'[<<"REFUND_REVERSAL", q>>] \in {0, -ledger[<<"EARNING", q>>]}
      BY <1>8, <3>1, <3>3
    <3>5. ledger'[<<"DISPUTE_DEBIT", q>>] \in {0, -ledger[<<"EARNING", q>>]}
      BY <1>8, <3>1, <3>3
    <3>6. ledger'[<<"DISPUTE_RELEASE", q>>] \in {0, -ledger'[<<"DISPUTE_DEBIT", q>>]}
      <4>1. CASE ledger'[<<"DISPUTE_DEBIT", q>>] = ledger[<<"DISPUTE_DEBIT", q>>]
        BY <1>8, <3>1, <3>3, <4>1 DEF DebitReleased
      <4>2. CASE ledger'[<<"DISPUTE_DEBIT", q>>] # ledger[<<"DISPUTE_DEBIT", q>>]
        <5>1. kind = "DISPUTE_DEBIT" /\ ledger[<<"DISPUTE_DEBIT", q>>] = 0 BY <3>3, <4>2
        <5>2. ledger'[<<"DISPUTE_RELEASE", q>>] = ledger[<<"DISPUTE_RELEASE", q>>]
          BY <3>3, <5>1
        <5> QED BY <3>1, <5>1, <5>2
      <4> QED BY <4>1, <4>2
    <3> QED BY <3>1, <3>2, <3>4, <3>5, <3>6
  <2>3. \A q \in Payments \ held :
              \/ ledger[EarningKey(q)] = 0
              \/ q \notin held' /\ ledger'[EarningKey(q)] = ledger[EarningKey(q)]
    BY <1>1, <1>8, <2>1 DEF EarningKey
  <2>4. held' \subseteq Payments BY <1>8 DEF PayoutsTypeOK
  <2> QED BY <1>8, <2>2, <2>3, <2>4, EarningStep
<1>9. ledger[key("EARNING")] \in Int /\ DebitReleased(p) \in Int
  BY <1>1, <1>5 DEF DebitReleased
<1>10. CASE RefundSucceeds(p)
  <2>1. /\ refunded' \subseteq Refundable /\ UNCHANGED <<held, disputed, item>>
        /\ PostEntry(key("REFUND_REVERSAL"), -ledger[key("EARNING")])
             \/ UNCHANGED <<ledger, total>>
    BY <1>2, <1>10 DEF RefundSucceeds, ReverseEarning, PayoutsTypeOK, payVars
  <2>2. ledger' \in [EntryKeys -> Int] /\ total' \in [Creators -> Int] /\ BooksInv'
    BY <1>8, <1>9, <2>1
  <2> QED BY <1>4, <2>1, <2>2 DEF PayoutsTypeOK
<1>11. ASSUME NEW status \in {"open", "lost", "won"}, DisputeEvent(p, status)
       PROVE  PayoutsInv'
  <2>1. /\ disputed' \subseteq Disputable \X {"open", "lost", "won"}
        /\ UNCHANGED <<held, refunded, item>>
        /\ \/ PostEntry(key("DISPUTE_DEBIT"), -ledger[key("EARNING")])
           \/ PostEntry(key("DISPUTE_RELEASE"), DebitReleased(p))
           \/ UNCHANGED <<ledger, total>>
    <3>1. /\ disputed' \subseteq Disputable \X {"open", "lost", "won"}
          /\ UNCHANGED <<held, refunded, item>>
      BY <1>2, <1>11 DEF DisputeEvent, AdjustForDispute, PayoutsTypeOK, payVars
    <3>2. AdjustForDispute(p, status) BY <1>11 DEF DisputeEvent
    <3> QED BY <3>1, <3>2 DEF AdjustForDispute
  <2>2. ledger' \in [EntryKeys -> Int] /\ total' \in [Creators -> Int] /\ BooksInv'
    BY <1>8, <1>9, <2>1
  <2> QED BY <1>4, <2>1, <2>2 DEF PayoutsTypeOK
<1> QED BY <1>6, <1>7, <1>10, <1>11

-----------------------------------------------------------------------------
(* Steps of transfers and runs.                                            *)

\* An item in flight moves on; the others stay as they are.
ItemMoves(i) ==
    /\ item[i].status \notin InFlight => item'[i] = item[i]
    /\ item[i].status \in InFlight =>
        item'[i].status # "NONE" /\ item'[i].amount = item[i].amount

\* Whatever transfers do to items, the books stay right.
LEMMA TransferStep ==
    ASSUME PayoutsInv, UNCHANGED <<ledgerVars, earnedVars, orderVars, month, run, reserves>>,
           item' \in [Items -> Item], \A i \in Items : ItemMoves(i),
           jobs' \subseteq Job, JobHasItem',
           \/ UNCHANGED sent
           \/ \E i \in Items : /\ item[i].status # "NONE"
                               /\ sent' = sent \cup {[key |-> <<i, 0>>, amount |-> item[i].amount]}
    PROVE  PayoutsInv'
<1> USE DEF PayoutsInv, BooksInv, LedgerInv, RunsInv
<1>1. UNCHANGED <<ledger, total, held, refunded, disputed, account, order, month, run, reserves>>
  BY DEF ledgerVars, earnedVars, orderVars
<1>2. \A i \in Items : item[i].status \in ItemStatuses /\ item[i].amount \in Nat
  BY DEF PayoutsTypeOK, Item
<1>3. \A i \in Items : /\ item'[i].amount = item[i].amount
                       /\ item'[i].status = "NONE" <=> item[i].status = "NONE"
                       /\ item[i].status \notin InFlight => item'[i] = item[i]
  BY <1>2 DEF ItemMoves
<1>4. EntriesAgree' /\ TotalIsSum' /\ OrderIsAccounts' /\ ReservedIsCleared'
  BY <1>1 DEF EntriesAgree, DebitReleased, TotalIsSum, OrderIsAccounts, ReservedIsCleared,
        Cleared, Sum
<1>5. ItemIsReserved'
  BY <1>1, <1>3 DEF ItemIsReserved
<1>6. SentIsOwed'
  <2>1. ASSUME NEW t \in sent'
        PROVE  \E i \in Items : /\ item'[i].status # "NONE"
                                /\ t = [key |-> <<i, 0>>, amount |-> item'[i].amount]
    <3>1. PICK i \in Items : item[i].status # "NONE" /\ t = [key |-> <<i, 0>>, amount |-> item[i].amount]
      BY <2>1 DEF SentIsOwed
    <3> QED BY <1>3, <3>1
  <2> QED BY <2>1 DEF SentIsOwed
<1>7. \A c \in Creators, m \in Months : <<c, m>> \in Items BY PayoutsAssumption
<1>8. OneAtATime' BY <1>3, <1>7 DEF OneAtATime
<1>9. FinishedRunIsQuiet' BY <1>1, <1>3, <1>7 DEF FinishedRunIsQuiet
<1>10. PayoutsTypeOK'
  <2>1. \A t \in sent' : t.key[1] \in Items /\ t.amount \in Nat
    BY <1>2, <1>3, <1>6 DEF SentIsOwed
  <2> QED BY <1>1, <2>1 DEF PayoutsTypeOK
<1> QED BY <1>4, <1>5, <1>6, <1>8, <1>9, <1>10

\* An action on the item of a job: claim, send, mark, retry; or it dies.
LEMMA JobSteps ==
    ASSUME PayoutsInv, NEW j \in jobs,
           \/ ClaimTransfer(j) \/ SendTransfer(j) \/ TransferFails(j)
           \/ MarkPaid(j) \/ RetryTransfer(j) \/ JobDies(j)
    PROVE  PayoutsInv' /\ \A i \in Items : ItemMoves(i)
<1> DEFINE i == j.item
<1>1. /\ j \in Job /\ i \in Items /\ item \in [Items -> Item] /\ item[i] \in Item
      /\ jobs \subseteq Job
  BY DEF PayoutsInv, PayoutsTypeOK, Job
<1>2. item[i].status # "NONE" /\ JobHasItem BY DEF PayoutsInv, RunsInv, JobHasItem
<1>3. UNCHANGED <<ledgerVars, earnedVars, orderVars, month, run, reserves>>
  BY DEF ClaimTransfer, SendTransfer, TransferFails, MarkPaid, RetryTransfer, JobDies
<1>4. ASSUME NEW new \in SUBSET Job, \A n \in new : n.item = i,
             jobs' = (jobs \ {j}) \cup new,
             NEW x \in Item, item' = [item EXCEPT ![i] = x],
             x.status # "NONE", x.amount = item[i].amount,
             item[i].status \in InFlight \/ x = item[i],
             \/ UNCHANGED sent
             \/ sent' = sent \cup {[key |-> <<i, 0>>, amount |-> item[i].amount]}
      PROVE  PayoutsInv' /\ \A k \in Items : ItemMoves(k)
  <2>1. item' \in [Items -> Item] /\ item'[i] = x /\ \A k \in Items \ {i} : item'[k] = item[k]
    BY <1>1, <1>4
  <2> HIDE DEF i
  <2>2. \A k \in Items : ItemMoves(k) BY <1>1, <1>4, <2>1 DEF ItemMoves
  <2>3. jobs' \subseteq Job BY <1>1, <1>4
  <2>4. JobHasItem'
    <3>1. \A n \in jobs : n.item \in Items BY <1>1 DEF Job
    <3> QED BY <1>1, <1>2, <1>4, <2>1, <3>1 DEF JobHasItem
  <2> QED BY <1>1, <1>2, <1>3, <1>4, <2>1, <2>2, <2>3, <2>4, TransferStep
<1>5. item = [item EXCEPT ![i] = item[i]] BY <1>1
<1>6. ASSUME NEW new \in SUBSET Job, \A n \in new : n.item = i,
             jobs' = (jobs \ {j}) \cup new, UNCHANGED item,
             \/ UNCHANGED sent
             \/ sent' = sent \cup {[key |-> <<i, 0>>, amount |-> item[i].amount]}
      PROVE  PayoutsInv' /\ \A k \in Items : ItemMoves(k)
  BY <1>1, <1>2, <1>4, <1>5, <1>6
<1>7. CASE ClaimTransfer(j) /\ TransferClaimable(i)
  <2> DEFINE x == [item[i] EXCEPT !.status = "SENDING", !.attempts = @ + 1, !.due = FALSE]
             n == [j EXCEPT !.phase = "calling", !.n = item[i].attempts + 1]
  <2>1. item[i].attempts + 1 \in 0..MaxTransfers /\ item[i].status \in InFlight
    <3>1. item[i].attempts \in 0..MaxTransfers BY <1>1 DEF Item
    <3>2. item[i].attempts < MaxTransfers /\ item[i].status \in InFlight
      BY <1>7 DEF TransferClaimable
    <3> QED BY <3>1, <3>2, PayoutsAssumption
  <2>2. x \in Item /\ x.status = "SENDING" /\ x.amount = item[i].amount
    BY <1>1, <2>1 DEF Item
  <2>3. n \in Job /\ n.item = i BY <1>1, <2>1 DEF Job
  <2>4. item' = [item EXCEPT ![i] = x] /\ jobs' = (jobs \ {j}) \cup {n} /\ UNCHANGED sent
    BY <1>7 DEF ClaimTransfer
  <2> HIDE DEF x, n, i
  <2>5. {n} \in SUBSET Job /\ \A y \in {n} : y.item = i BY <2>3
  <2> QED BY <1>4, <2>1, <2>2, <2>4, <2>5
<1>8. CASE jobs' = jobs \ {j} /\ UNCHANGED <<item, sent>>
  <2>1. jobs' = (jobs \ {j}) \cup {} /\ {} \in SUBSET Job /\ \A y \in {} : y.item = i BY <1>8
  <2> QED BY <1>6, <1>8, <2>1
<1>9. CASE SendTransfer(j) \/ TransferFails(j)
  <2>1. PICK phase \in {"answered", "refused"} :
          jobs' = (jobs \ {j}) \cup {[j EXCEPT !.phase = phase]}
    BY <1>9 DEF SendTransfer, TransferFails
  <2> DEFINE n == [j EXCEPT !.phase = phase]
  <2>2. n \in Job /\ n.item = i BY <1>1 DEF Job
  <2>3. /\ UNCHANGED item
        /\ \/ UNCHANGED sent
           \/ sent' = sent \cup {[key |-> <<i, 0>>, amount |-> item[i].amount]}
    BY <1>9 DEF SendTransfer, TransferFails, StripeTransfers, TransferKey
  <2> HIDE DEF i
  <2>4. {n} \in SUBSET Job /\ \A y \in {n} : y.item = i BY <2>2
  <2> QED BY <1>6, <2>1, <2>3, <2>4
<1>10. CASE (MarkPaid(j) \/ RetryTransfer(j)) /\ StillSending(i)
  <2>1. item[i].status = "SENDING" BY <1>10 DEF StillSending
  <2>2. PICK x \in Item : /\ item' = [item EXCEPT ![i] = x]
                          /\ x.status # "NONE" /\ x.amount = item[i].amount
    <3>1. CASE MarkPaid(j)
      <4> DEFINE x == [item[i] EXCEPT !.status = "PAID"]
      <4>1. x \in Item /\ x.status = "PAID" /\ x.amount = item[i].amount BY <1>1 DEF Item
      <4>2. item' = [item EXCEPT ![i] = x] BY <1>10, <3>1 DEF MarkPaid
      <4> QED BY <4>1, <4>2
    <3>2. CASE RetryTransfer(j) /\ item[i].attempts >= MaxTransfers
      <4> DEFINE x == [item[i] EXCEPT !.status = "FAILED"]
      <4>1. x \in Item /\ x.status = "FAILED" /\ x.amount = item[i].amount BY <1>1 DEF Item
      <4>2. item' = [item EXCEPT ![i] = x] BY <1>10, <3>2 DEF RetryTransfer
      <4> QED BY <4>1, <4>2
    <3>3. CASE RetryTransfer(j) /\ ~(item[i].attempts >= MaxTransfers)
      <4> DEFINE x == [item[i] EXCEPT !.status = "RETRY", !.due = FALSE]
      <4>1. x \in Item /\ x.status = "RETRY" /\ x.amount = item[i].amount BY <1>1 DEF Item
      <4>2. item' = [item EXCEPT ![i] = x] BY <1>10, <3>3 DEF RetryTransfer
      <4> QED BY <4>1, <4>2
    <3> QED BY <1>10, <3>1, <3>2, <3>3
  <2>3. jobs' = (jobs \ {j}) \cup {} /\ UNCHANGED sent
    BY <1>10 DEF MarkPaid, RetryTransfer
  <2>4. {} \in SUBSET Job /\ \A y \in {} : y.item = i OBVIOUS
  <2> HIDE DEF i
  <2> QED BY <1>4, <2>1, <2>2, <2>3, <2>4
<1>11. CASE (MarkPaid(j) \/ RetryTransfer(j)) /\ ~StillSending(i)
  <2>1. UNCHANGED item
    <3>1. CASE MarkPaid(j)
      <4>1. item' = [item EXCEPT ![i] = [item[i] EXCEPT !.status = item[i].status]]
        BY <1>11, <3>1 DEF MarkPaid
      <4>2. [item[i] EXCEPT !.status = item[i].status] = item[i] BY <1>1 DEF Item
      <4> QED BY <1>5, <4>1, <4>2
    <3>2. CASE RetryTransfer(j) BY <1>5, <1>11, <3>2 DEF RetryTransfer
    <3> QED BY <1>11, <3>1, <3>2
  <2>2. jobs' = jobs \ {j} /\ UNCHANGED sent BY <1>11 DEF MarkPaid, RetryTransfer
  <2> QED BY <1>8, <2>1, <2>2
<1> QED BY <1>7, <1>8, <1>9, <1>10, <1>11 DEF ClaimTransfer, JobDies

\* A lease ends, or the sweep starts a transfer again.
LEMMA SweepSteps ==
    ASSUME PayoutsInv, NEW i \in Items, LeaseEnds(i) \/ SweepTransfer(i)
    PROVE  PayoutsInv' /\ \A k \in Items : ItemMoves(k)
<1>1. item \in [Items -> Item] /\ item[i] \in Item /\ jobs \subseteq Job /\ JobHasItem
  BY DEF PayoutsInv, PayoutsTypeOK, RunsInv
<1>2. UNCHANGED <<ledgerVars, earnedVars, orderVars, month, run, reserves, sent>>
  BY DEF LeaseEnds, SweepTransfer
<1>3. /\ item[i].status \in InFlight
      /\ jobs' \subseteq jobs \cup {TransferJob(i)}
  BY DEF LeaseEnds, SweepTransfer, TransferDue
<1>4. PICK x \in Item : /\ item' = [item EXCEPT ![i] = x]
                        /\ x.status = item[i].status /\ x.amount = item[i].amount
  <2>1. CASE LeaseEnds(i)
    <3> DEFINE x == [item[i] EXCEPT !.due = TRUE]
    <3>1. x \in Item /\ x.status = item[i].status /\ x.amount = item[i].amount
      BY <1>1 DEF Item
    <3>2. item' = [item EXCEPT ![i] = x] BY <2>1 DEF LeaseEnds
    <3> QED BY <3>1, <3>2
  <2>2. CASE SweepTransfer(i)
    <3>1. item' = [item EXCEPT ![i] = item[i]] BY <1>1, <2>2 DEF SweepTransfer
    <3> QED BY <1>1, <3>1
  <2> QED BY <2>1, <2>2
<1>5. item' \in [Items -> Item] /\ item'[i] = x /\ \A k \in Items \ {i} : item'[k] = item[k]
  BY <1>1, <1>4
<1>6. \A k \in Items : ItemMoves(k) BY <1>1, <1>3, <1>4, <1>5 DEF ItemMoves
<1>7. TransferJob(i) \in Job /\ TransferJob(i).item = i
  BY PayoutsAssumption DEF TransferJob, Job
<1>8. JobHasItem'
  <2>1. \A n \in jobs : n.item \in Items BY <1>1 DEF Job
  <2> QED BY <1>1, <1>3, <1>4, <1>5, <1>7, <2>1 DEF JobHasItem
<1>9. jobs' \subseteq Job BY <1>1, <1>3, <1>7
<1> QED BY <1>2, <1>5, <1>6, <1>8, <1>9, TransferStep

\* There are at most as many accounts as creators.
LEMMA AccountsAreFew ==
    ASSUME NEW s \in Seq(Creators), \A m, n \in DOMAIN s : s[m] = s[n] => m = n
    PROVE  Len(s) \in Nat /\ Len(s) <= Cardinality(Creators)
<1>1. s \in [1..Len(s) -> Creators] /\ Len(s) \in Nat OBVIOUS
<1>2. s \in Injection(1..Len(s), Creators) BY <1>1 DEF Injection, IsInjective
<1>3. Cardinality(1..Len(s)) <= Cardinality(Creators)
  BY <1>2, PaymentAssumption, FS_Injection
<1>4. Cardinality(1..Len(s)) = Len(s)
  <2>1. 1 \in Int /\ Len(s) \in Int BY <1>1
  <2>2. Cardinality(1..Len(s)) = IF 1 > Len(s) THEN 0 ELSE Len(s) - 1 + 1
    BY <2>1, FS_Interval
  <2> QED BY <1>1, <2>2
<1> QED BY <1>1, <1>3, <1>4

\* The calendar, the cron, the end of a run, and accounts.
LEMMA RunSteps ==
    ASSUME PayoutsInv,
           \/ NextMonth \/ RunDue \/ FinishRuns
           \/ \E c \in Creators, status \in Capabilities : SaveAccount(c, status)
    PROVE  PayoutsInv'
<1> USE DEF PayoutsInv, BooksInv, LedgerInv, RunsInv
<1>1. UNCHANGED <<ledger, total, held, refunded, disputed, item, jobs, sent>>
  BY DEF NextMonth, RunDue, FinishRuns, SaveAccount, ledgerVars, earnedVars, payVars
<1>2. EntriesAgree' /\ TotalIsSum' /\ ItemIsReserved' /\ ReservedIsCleared'
  BY <1>1 DEF EntriesAgree, DebitReleased, TotalIsSum, ItemIsReserved, ReservedIsCleared,
        Cleared, Sum
<1>3. SentIsOwed' /\ JobHasItem' /\ OneAtATime'
  BY <1>1 DEF SentIsOwed, JobHasItem, OneAtATime
<1>4. Len(order) \in Nat BY DEF OrderIsAccounts
<1>5. CASE NextMonth
  <2>1. month' \in Months BY <1>5, PayoutsAssumption DEF NextMonth, PayoutsTypeOK
  <2>2. UNCHANGED <<account, order, run, reserves>> BY <1>5 DEF NextMonth, orderVars, payVars
  <2>3. PayoutsTypeOK' BY <1>1, <2>1, <2>2 DEF PayoutsTypeOK
  <2>4. OrderIsAccounts' /\ FinishedRunIsQuiet'
    BY <1>1, <2>2 DEF OrderIsAccounts, FinishedRunIsQuiet
  <2> QED BY <1>2, <1>3, <2>3, <2>4
<1>6. CASE RunDue
  <2> DEFINE first == [run |-> month, cursor |-> 0]
  <2>1. /\ run' = [run EXCEPT ![month] = IF @ = "NONE" THEN "PROCESSING" ELSE @]
        /\ reserves' = reserves \cup {first}
        /\ UNCHANGED <<account, order, month>>
    BY <1>6 DEF RunDue, orderVars
  <2>2. month \in Months /\ run \in [Months -> RunStatuses] BY DEF PayoutsTypeOK
  <2>3. run' \in [Months -> RunStatuses] BY <2>1, <2>2
  <2>4. reserves' \subseteq [run : Months, cursor : 0..Len(order)]
    <3>1. first \in [run : Months, cursor : 0..Len(order)] BY <1>4, <2>2
    <3> QED BY <2>1, <3>1 DEF PayoutsTypeOK
  <2>5. PayoutsTypeOK' BY <1>1, <2>1, <2>3, <2>4 DEF PayoutsTypeOK
  <2>6. FinishedRunIsQuiet'
    <3>1. \A m \in Months : run'[m] = run[m] \/ run'[m] = "PROCESSING" BY <2>1, <2>2
    <3> QED BY <1>1, <3>1 DEF FinishedRunIsQuiet
  <2>7. OrderIsAccounts' BY <2>1 DEF OrderIsAccounts
  <2> QED BY <1>2, <1>3, <2>5, <2>6, <2>7
<1>7. CASE FinishRuns
  <2>1. run' = Finished(run, item) /\ UNCHANGED <<account, order, month, reserves>>
    BY <1>7 DEF FinishRuns, orderVars
  <2>2. \A m \in Months, c \in Creators : item[<<c, m>>].status \in ItemStatuses
    BY PayoutsAssumption DEF PayoutsTypeOK, Item
  <2>3. run' \in [Months -> RunStatuses] BY <2>1 DEF Finished, PayoutsTypeOK
  <2>4. FinishedRunIsQuiet'
    <3> SUFFICES ASSUME NEW c \in Creators, NEW m \in Months
                 PROVE  /\ run'[m] = "COMPLETED" => item[<<c, m>>].status \in {"NONE", "PAID"}
                        /\ run'[m] = "PARTIAL_FAILED" =>
                            item[<<c, m>>].status \in {"NONE", "PAID", "FAILED"}
      BY <1>1 DEF FinishedRunIsQuiet
    <3>1. CASE run'[m] = run[m] BY <3>1 DEF FinishedRunIsQuiet
    <3>2. CASE run'[m] # run[m]
      <4>1. \A x \in Creators : item[<<x, m>>].status \notin InFlight
        BY <2>1, <3>2 DEF Finished
      <4>2. run'[m] = IF \E x \in Creators : item[<<x, m>>].status = "FAILED"
                      THEN "PARTIAL_FAILED" ELSE "COMPLETED"
        BY <2>1, <3>2 DEF Finished
      <4> QED BY <2>2, <4>1, <4>2
    <3> QED BY <3>1, <3>2
  <2>5. PayoutsTypeOK' BY <1>1, <2>1, <2>3 DEF PayoutsTypeOK
  <2>6. OrderIsAccounts' BY <2>1 DEF OrderIsAccounts
  <2> QED BY <1>2, <1>3, <2>4, <2>5, <2>6
<1>8. ASSUME NEW c \in Creators, NEW status \in Capabilities, SaveAccount(c, status)
      PROVE  PayoutsInv'
  <2>1. /\ account' = [account EXCEPT ![c] = status] /\ order' = Inserted(c)
        /\ UNCHANGED <<month, run, reserves>>
    BY <1>8 DEF SaveAccount, payVars
  <2>2. account' \in [Creators -> Capabilities \cup {NoAccount}]
    BY <2>1 DEF PayoutsTypeOK
  <2>3. status # NoAccount BY PayoutsAssumption
  <2>4. OrderIsAccounts' /\ Len(order) <= Len(order') /\ Len(order') \in Nat
    <3>1. CASE account[c] # NoAccount
      <4>1. order' = order BY <2>1, <3>1 DEF Inserted
      <4>2. \A n \in DOMAIN order : account'[order[n]] # NoAccount
        <5>1. \A n \in DOMAIN order : order[n] \in Creators BY DEF OrderIsAccounts
        <5> QED BY <2>1, <2>3, <5>1 DEF OrderIsAccounts, PayoutsTypeOK
      <4> QED BY <1>4, <4>1, <4>2 DEF OrderIsAccounts
    <3>2. CASE account[c] = NoAccount
      <4>1. order' = Append(order, c) BY <2>1, <3>2 DEF Inserted
      <4>2. /\ order' \in Seq(Creators) /\ Len(order') = Len(order) + 1
            /\ DOMAIN order' = 1..(Len(order) + 1) /\ DOMAIN order = 1..Len(order)
            /\ \A n \in 1..Len(order) : order'[n] = order[n] /\ order[n] \in Creators
            /\ order'[Len(order) + 1] = c
        BY <1>4, <4>1 DEF OrderIsAccounts
      <4>3. \A n \in 1..Len(order) : order[n] # c BY <3>2, <4>2 DEF OrderIsAccounts
      <4>4. \A n \in DOMAIN order' : n \in 1..Len(order) \/ n = Len(order) + 1
        BY <1>4, <4>2
      <4>5. \A m, n \in DOMAIN order' : order'[m] = order'[n] => m = n
        BY <4>2, <4>3, <4>4 DEF OrderIsAccounts
      <4>6. \A n \in DOMAIN order' : account'[order'[n]] # NoAccount
        BY <2>1, <2>3, <4>2, <4>4 DEF OrderIsAccounts, PayoutsTypeOK
      <4> QED BY <1>4, <4>2, <4>5, <4>6 DEF OrderIsAccounts
    <3> QED BY <3>1, <3>2
  <2>5. Len(order') <= Cardinality(Creators) BY <2>4, AccountsAreFew DEF OrderIsAccounts
  <2>6. reserves \subseteq [run : Months, cursor : 0..Len(order')]
    <3>1. 0..Len(order) \subseteq 0..Len(order') BY <1>4, <2>4
    <3> QED BY <3>1 DEF PayoutsTypeOK
  <2>7. PayoutsTypeOK' BY <1>1, <2>1, <2>2, <2>5, <2>6 DEF PayoutsTypeOK
  <2>8. FinishedRunIsQuiet' BY <1>1, <2>1 DEF FinishedRunIsQuiet
  <2> QED BY <1>2, <1>3, <2>4, <2>7, <2>8
<1> QED BY <1>5, <1>6, <1>7, <1>8

\* reserveBatch: it reserves what is available, which cleared earnings cover, for creators
\* who have no payout under way.
LEMMA ReserveStep ==
    ASSUME PayoutsInv, NEW b \in reserves, ReserveBatch(b)
    PROVE  PayoutsInv' /\ \A i \in Items : item[i].status # "NONE" => item'[i] = item[i]
<1> USE DEF PayoutsInv, BooksInv, LedgerInv, RunsInv
<1> DEFINE m == b.run
           walked == {order[n] : n \in {n \in DOMAIN order :
                        b.cursor < n /\ n <= b.cursor + BatchSize}}
           paid == {c \in walked : Eligible(c, m)}
           keys == {<<"PAYOUT_RESERVATION", <<c, m>>>> : c \in paid}
           new == [k \in keys |-> -Available(k[2][1])]
           fresh(c) == [status |-> "RESERVED", amount |-> Available(c),
                        attempts |-> 0, due |-> TRUE]
<1>1. /\ m \in Months /\ b.cursor \in 0..Len(order) /\ Len(order) \in Nat
      /\ paid \subseteq Creators /\ \A c \in Creators : <<c, m>> \in Items
  BY PayoutsAssumption DEF PayoutsTypeOK, OrderIsAccounts
<1>2. /\ item' = [i \in Items |-> IF i[1] \in paid /\ i[2] = m THEN fresh(i[1]) ELSE item[i]]
      /\ PostEntries(new)
      /\ run' = [run EXCEPT ![m] = Reopened(@, paid)]
      /\ jobs' = jobs \cup {TransferJob(<<c, m>>) : c \in paid}
      /\ reserves' = (reserves \ {b}) \cup
            (IF b.cursor + BatchSize < Len(order)
             THEN {[b EXCEPT !.cursor = @ + BatchSize]} ELSE {})
      /\ UNCHANGED <<held, refunded, disputed, account, order, month, sent>>
  BY DEF ReserveBatch, earnedVars, orderVars
<1>3. ASSUME NEW c \in paid
      PROVE  /\ item[<<c, m>>].status = "NONE" /\ Available(c) \in Nat \ {0}
             /\ \A k \in Months : item[<<c, k>>].status \notin UNSETTLED
             /\ Available(c) <= Cleared(c) + Sum(Reservations(c))
  <2>1. c \in Creators /\ Eligible(c, m) BY <1>1
  <2>2. Available(c) \in Int /\ Available(c) <= Cleared(c) + Sum(Reservations(c))
    BY <2>1, AvailableIsCovered DEF PayoutsTypeOK
  <2>3. Available(c) \in Nat \ {0} BY <2>1, <2>2, PayoutsAssumption DEF Eligible
  <2> QED BY <2>1, <2>2, <2>3 DEF Eligible
<1>4. ledger \in [EntryKeys -> Int] /\ total \in [Creators -> Int]
      /\ item \in [Items -> Item] /\ run \in [Months -> RunStatuses]
  BY DEF PayoutsTypeOK
<1> HIDE DEF m, walked, paid, fresh
<1>5. /\ DOMAIN new = keys /\ \A c \in paid : new[ReservationKey(<<c, m>>)] = -Available(c)
      /\ \A c \in paid : ReservationKey(<<c, m>>) \in keys
      /\ \A k \in keys : \E c \in paid : k = ReservationKey(<<c, m>>)
  BY DEF ReservationKey
<1> HIDE DEF new, keys
<1>6. /\ keys \subseteq EntryKeys /\ \A k \in keys : new[k] \in Int
      /\ \A k \in PaymentKeys : k \notin keys
  <2>1. \A c \in paid : /\ ReservationKey(<<c, m>>) \in EntryKeys
                        /\ ReservationKey(<<c, m>>) \notin PaymentKeys
    BY <1>1, KeyFacts
  <2>2. \A c \in paid : -Available(c) \in Int
    <3>1. SUFFICES ASSUME NEW c \in paid PROVE -Available(c) \in Int OBVIOUS
    <3>2. Available(c) \in Nat \ {0} BY <1>3, Zenon
    <3> QED BY <3>2
  <2> QED BY <1>5, <2>1, <2>2
<1>7. ledger' \in [EntryKeys -> Int] /\ total' \in [Creators -> Int] /\ TotalIsSum'
  BY <1>2, <1>4, <1>5, <1>6, PostingKeepsTotal
<1>8. \A k \in EntryKeys :
        ledger'[k] = IF k \in keys /\ ledger[k] = 0 THEN new[k] ELSE ledger[k]
  BY <1>2, <1>5 DEF PostEntries
<1>9. \A kind \in EarningKinds, p \in Payments : ledger'[<<kind, p>>] = ledger[<<kind, p>>]
  BY <1>6, <1>8, KeyFacts
<1>10. EntriesAgree' BY <1>9 DEF EntriesAgree, DebitReleased
<1>11. \A c \in paid : ledger[ReservationKey(<<c, m>>)] = 0
  BY <1>1, <1>3 DEF ItemIsReserved, NoItem
<1>12. \A i \in Items : \/ i[1] \in paid /\ i = <<i[1], m>> /\ item'[i] = fresh(i[1])
                        \/ ~(i[1] \in paid /\ i[2] = m) /\ item'[i] = item[i]
  BY <1>2, PayoutsAssumption
<1>13. \A c \in Creators : /\ fresh(c).status = "RESERVED" /\ fresh(c).amount = Available(c)
                           /\ Available(c) \in Nat => fresh(c) \in Item
  BY PayoutsAssumption DEF fresh, Item
<1>14. item' \in [Items -> Item] BY <1>1, <1>2, <1>3, <1>4, <1>12, <1>13
<1>15. ItemIsReserved'
  <2> SUFFICES ASSUME NEW i \in Items
               PROVE  /\ ledger'[ReservationKey(i)] = -item'[i].amount
                      /\ item'[i].status = "NONE" => item'[i] = NoItem
    BY DEF ItemIsReserved, ReservationKey
  <2>1. ReservationKey(i) \in EntryKeys BY KeyFacts
  <2>2. CASE i[1] \in paid /\ i = <<i[1], m>> /\ item'[i] = fresh(i[1])
    <3>1. ledger'[ReservationKey(i)] = -Available(i[1])
      BY <1>5, <1>8, <1>11, <2>1, <2>2
    <3> QED BY <1>1, <1>13, <2>2, <3>1
  <2>3. CASE ~(i[1] \in paid /\ i[2] = m) /\ item'[i] = item[i]
    <3>1. ReservationKey(i) \notin keys
      <4>1. ASSUME NEW c \in paid, ReservationKey(i) = ReservationKey(<<c, m>>) PROVE FALSE
        BY <2>3, <4>1 DEF ReservationKey
      <4> QED BY <1>5, <4>1
    <3> QED BY <1>8, <2>1, <2>3, <3>1 DEF ItemIsReserved
  <2> QED BY <1>12, <2>2, <2>3
<1>16. ReservedIsCleared'
  <2> SUFFICES ASSUME NEW c \in Creators PROVE (-Sum(Reservations(c)))' <= Cleared(c)'
    BY DEF ReservedIsCleared
  <2>1. Reservations(c) \in SUBSET EntryKeys BY DEF Reservations, EntriesOf
  <2>2. \A k \in DOMAIN new : new[k] \in Int BY <1>5, <1>6
  <2>3. /\ Sum(Reservations(c))' = Sum(Reservations(c)) + SumOver(new, FreshKeys(new) \cap Reservations(c))
        /\ Sum(Reservations(c)) \in Int
    BY <1>2, <1>4, <1>5, <1>6, <2>1, <2>2, PostedSum
        DEF Sum, Reservations, EntriesOf, CreatorOfKey
  <2>4. Cleared(c) <= Cleared(c)' /\ Cleared(c) \in Int /\ Cleared(c)' \in Int
    <3>1. held' \subseteq Payments BY <1>2 DEF PayoutsTypeOK
    <3>2. \A q \in Payments \ held :
              \/ ledger[EarningKey(q)] = 0
              \/ q \notin held' /\ ledger'[EarningKey(q)] = ledger[EarningKey(q)]
      BY <1>2, <1>9 DEF EarningKey
    <3> QED BY <1>4, <1>7, <1>10, <3>1, <3>2, ClearedGrows
  <2>5. FreshKeys(new) = keys
    BY <1>5, <1>11 DEF FreshKeys
  <2>6. CASE c \in paid
    <3>1. FreshKeys(new) \cap Reservations(c) = {ReservationKey(<<c, m>>)}
      <4>1. \A x \in paid : /\ ReservationKey(<<x, m>>) \in EntryKeys
                            /\ CreatorOfKey(ReservationKey(<<x, m>>)) = x
        BY <1>1, KeyFacts
      <4>2. \A x : ReservationKey(<<x, m>>)[1] = "PAYOUT_RESERVATION" BY DEF ReservationKey
      <4> QED BY <1>5, <2>5, <2>6, <4>1, <4>2 DEF Reservations, EntriesOf
    <3>2. SumOver(new, {ReservationKey(<<c, m>>)}) = -Available(c)
      BY <1>3, <1>5, <2>6, SumOfOne
    <3>5. Available(c) \in Nat \ {0} /\ Available(c) <= Cleared(c) + Sum(Reservations(c))
      BY <1>3, <2>6, Zenon
    <3>3. Available(c) \in Int /\ Available(c) <= Cleared(c) + Sum(Reservations(c))
      BY <3>5
    <3>4. Sum(Reservations(c))' = Sum(Reservations(c)) - Available(c)
      BY <2>3, <3>1, <3>2, <3>3
    <3> QED BY <2>3, <2>4, <3>3, <3>4
  <2>7. CASE c \notin paid
    <3>1. FreshKeys(new) \cap Reservations(c) = {}
      <4>1. \A x \in paid : CreatorOfKey(ReservationKey(<<x, m>>)) = x
        BY <1>1, KeyFacts
      <4> QED BY <1>5, <2>5, <2>7, <4>1 DEF Reservations, EntriesOf
    <3>2. Sum(Reservations(c))' = Sum(Reservations(c))
      BY <2>3, <3>1, SumOfNothing
    <3>3. -Sum(Reservations(c)) <= Cleared(c) BY DEF ReservedIsCleared
    <3> QED BY <2>3, <2>4, <3>2, <3>3
  <2> QED BY <2>6, <2>7
<1>17. \A i \in Items : item[i].status # "NONE" => item'[i] = item[i]
  BY <1>3, <1>12
<1>18. SentIsOwed'
  <2>1. ASSUME NEW t \in sent
        PROVE  \E i \in Items : /\ item'[i].status # "NONE"
                                /\ t = [key |-> <<i, 0>>, amount |-> item'[i].amount]
    <3>1. PICK i \in Items : item[i].status # "NONE" /\ t = [key |-> <<i, 0>>, amount |-> item[i].amount]
      BY <2>1 DEF SentIsOwed
    <3> QED BY <1>17, <3>1
  <2> QED BY <1>2, <2>1 DEF SentIsOwed
<1>19. jobs' \subseteq Job /\ JobHasItem'
  <2>1. \A n \in jobs : n \in Job /\ n.item \in Items BY DEF PayoutsTypeOK, Job
  <2>2. \A c \in paid : /\ TransferJob(<<c, m>>) \in Job
                        /\ TransferJob(<<c, m>>).item = <<c, m>>
    BY <1>1, PayoutsAssumption DEF TransferJob, Job
  <2>3. \A c \in paid : item'[<<c, m>>].status = "RESERVED"
    BY <1>1, <1>2, <1>13
  <2>4. \A n \in jobs : item'[n.item].status # "NONE" BY <1>17, <2>1 DEF JobHasItem
  <2>5. ASSUME NEW j \in jobs' PROVE j \in Job /\ item'[j.item].status # "NONE"
    <3>1. CASE j \in jobs BY <2>1, <2>4, <3>1
    <3>2. CASE j \notin jobs
      <4>1. PICK c \in paid : j = TransferJob(<<c, m>>) BY <1>2, <2>5, <3>2
      <4> QED BY <2>2, <2>3, <4>1
    <3> QED BY <3>1, <3>2
  <2> QED BY <2>5 DEF JobHasItem
<1>20. \A c \in Creators, k \in Months :
         \/ c \in paid /\ k = m /\ item'[<<c, k>>].status = "RESERVED"
         \/ ~(c \in paid /\ k = m) /\ item'[<<c, k>>] = item[<<c, k>>]
  BY <1>2, <1>13, PayoutsAssumption
<1>21. OneAtATime' BY <1>3, <1>20 DEF OneAtATime
<1>22. \A k \in Months : run'[k] = IF k = m /\ paid # {} THEN "PROCESSING" ELSE run[k]
  BY <1>2, <1>4 DEF Reopened
<1>23. FinishedRunIsQuiet' BY <1>20, <1>22 DEF FinishedRunIsQuiet
<1>24. run' \in [Months -> RunStatuses] BY <1>2, <1>4 DEF Reopened
<1>25. reserves' \subseteq [run : Months, cursor : 0..Len(order)]
  <2>1. CASE b.cursor + BatchSize < Len(order)
    <3> DEFINE y == [b EXCEPT !.cursor = @ + BatchSize]
    <3>1. b \in [run : Months, cursor : 0..Len(order)] BY DEF PayoutsTypeOK
    <3>2. b.cursor + BatchSize \in 0..Len(order) BY <1>1, <2>1, PayoutsAssumption
    <3>3. y \in [run : Months, cursor : 0..Len(order)] BY <3>1, <3>2
    <3> QED BY <1>2, <2>1, <3>3 DEF PayoutsTypeOK
  <2>2. CASE ~(b.cursor + BatchSize < Len(order)) BY <1>2, <2>2 DEF PayoutsTypeOK
  <2> QED BY <2>1, <2>2
<1>26. PayoutsTypeOK'
  BY <1>2, <1>7, <1>14, <1>19, <1>24, <1>25 DEF PayoutsTypeOK
<1>27. OrderIsAccounts' BY <1>2 DEF OrderIsAccounts
<1> QED BY <1>7, <1>10, <1>15, <1>16, <1>17, <1>18, <1>19, <1>21, <1>23, <1>26, <1>27

-----------------------------------------------------------------------------
(* The books hold from the first state on.                                 *)

\* Before the first step nothing is reserved, and what was earned before is there.
LEMMA InitHasInv == PayoutsInit => PayoutsInv
<1> SUFFICES ASSUME PayoutsInit PROVE PayoutsInv OBVIOUS
<1>1. /\ ledger = [k \in EntryKeys |-> IF k \in {"EARNING"} \X Earlier
                                       THEN EarningOf(k[2]) ELSE 0]
      /\ total = [c \in Creators |-> Sum(EntriesOf(c))] /\ held = {}
      /\ refunded = {} /\ disputed = {} /\ month = 1
      /\ run = [m \in Months |-> "NONE"] /\ reserves = {}
      /\ item = [i \in Items |-> NoItem] /\ jobs = {} /\ sent = {}
  BY DEF PayoutsInit, InitLedger
<1>2. \A p \in Payments : EarningOf(p) \in Nat \ {0}
  <2>1. \A p \in Payments : Charged[p] \in Int BY PaymentAssumption, PricesAndRates
  <2> QED BY <2>1, EarningIsPositive
<1>3. ledger \in [EntryKeys -> Int]
  <2>1. \A k \in EntryKeys : k \in {"EARNING"} \X Earlier => EarningOf(k[2]) \in Int
    BY <1>2, PayoutsAssumption
  <2> QED BY <1>1, <2>1
<1>4. /\ \A p \in Payments :
          /\ ledger[<<"EARNING", p>>] \in {0, EarningOf(p)}
          /\ ledger[<<"REFUND_REVERSAL", p>>] = 0
          /\ ledger[<<"DISPUTE_DEBIT", p>>] = 0
          /\ ledger[<<"DISPUTE_RELEASE", p>>] = 0
      /\ \A i \in Items : ledger[ReservationKey(i)] = 0
  <2>1. \A p \in Payments :
          /\ <<"EARNING", p>> \in EntryKeys /\ <<"REFUND_REVERSAL", p>> \in EntryKeys
          /\ <<"DISPUTE_DEBIT", p>> \in EntryKeys /\ <<"DISPUTE_RELEASE", p>> \in EntryKeys
    BY KeyFacts
  <2>2. \A i \in Items : ReservationKey(i) \in EntryKeys BY KeyFacts
  <2> QED BY <1>1, <2>1, <2>2 DEF ReservationKey
<1>5. EntriesAgree BY <1>4 DEF EntriesAgree
<1>6. TotalIsSum BY <1>1 DEF TotalIsSum
<1>7. ItemIsReserved BY <1>1, <1>4 DEF ItemIsReserved, NoItem
<1>8. ReservedIsCleared
  <2> SUFFICES ASSUME NEW c \in Creators PROVE -Sum(Reservations(c)) <= Cleared(c)
    BY DEF ReservedIsCleared
  <2> DEFINE R == Reservations(c)
             E == {<<"EARNING", p>> : p \in {q \in Payments \ held : CreatorOf[q] = c}}
  <2>1. R \in SUBSET EntryKeys /\ E \in SUBSET EntryKeys
    BY KeyFacts DEF Reservations, EntriesOf
  <2>2. IsFiniteSet(R) /\ IsFiniteSet(E) BY <1>3, <2>1, SumOfEntries
  <2>3. \A k \in R : ledger[k] = 0
    BY <1>4, KeyFacts DEF Reservations, EntriesOf
  <2>4. \A k \in E : ledger[k] \in Nat
    <3>1. \A p \in Payments : ledger[<<"EARNING", p>>] \in Nat BY <1>5, EntryBounds
    <3> QED BY <3>1
  <2> HIDE DEF R, E
  <2>5. SumOver(ledger, R) = 0 BY <2>2, <2>3, SumOfZeros
  <2>6. SumOver(ledger, E) \in Nat BY <2>2, <2>4, SumIsNat
  <2> QED BY <2>5, <2>6 DEF Sum, Cleared, R, E
<1>9. OrderIsAccounts /\ Len(order) <= Cardinality(Creators)
  <2>1. PICK n \in 0..Cardinality(Creators) : order \in [1..n -> Creators]
    BY DEF PayoutsInit
  <2>2. Cardinality(Creators) \in Nat BY PaymentAssumption, FS_CardinalityType
  <2>3. order \in Seq(Creators) /\ Len(order) = n BY <2>1, <2>2
  <2>4. \A i, j \in DOMAIN order : order[i] = order[j] => i = j BY DEF PayoutsInit
  <2>5. \A i \in DOMAIN order : order[i] \in Creators BY <2>1
  <2>6. \A i \in DOMAIN order : account[order[i]] = "active" BY <2>5 DEF PayoutsInit
  <2>7. "active" # NoAccount BY PayoutsAssumption DEF Capabilities
  <2> QED BY <2>2, <2>3, <2>4, <2>6, <2>7 DEF OrderIsAccounts
<1>10. account \in [Creators -> Capabilities \cup {NoAccount}]
  BY DEF PayoutsInit, Capabilities
<1>11. NoItem \in Item BY PayoutsAssumption DEF NoItem, Item
<1>12. total \in [Creators -> Int]
  <2>1. \A c \in Creators : EntriesOf(c) \in SUBSET EntryKeys BY DEF EntriesOf
  <2>2. \A c \in Creators : Sum(EntriesOf(c)) \in Int BY <1>3, <2>1, SumOfEntries
  <2> QED BY <1>1, <2>2
<1>13. PayoutsTypeOK
  BY <1>1, <1>3, <1>9, <1>10, <1>11, <1>12, PayoutsAssumption DEF PayoutsTypeOK
<1>14. SentIsOwed /\ JobHasItem BY <1>1 DEF SentIsOwed, JobHasItem
<1>15. \A c \in Creators, m \in Months : item[<<c, m>>].status = "NONE"
  BY <1>1, PayoutsAssumption DEF NoItem
<1>16. OneAtATime BY <1>15 DEF OneAtATime
<1>17. FinishedRunIsQuiet BY <1>1, <1>15 DEF FinishedRunIsQuiet
<1> QED BY <1>5, <1>6, <1>7, <1>8, <1>9, <1>13, <1>14, <1>16, <1>17
        DEF PayoutsInv, BooksInv, LedgerInv, RunsInv

\* Every step keeps the books, and leaves settled items alone.
LEMMA NextKeepsInv ==
    ASSUME PayoutsInv, [PayoutsNext]_payoutsVars
    PROVE  /\ PayoutsInv'
           /\ \A i \in Items : item[i].status \in {"PAID", "FAILED"} => item'[i] = item[i]
<1> DEFINE SettledStay == \A i \in Items : item[i].status \in {"PAID", "FAILED"} => item'[i] = item[i]
<1>1. CASE UNCHANGED item /\ PayoutsInv' BY <1>1
<1>2. ASSUME \A i \in Items : ItemMoves(i) PROVE SettledStay BY <1>2 DEF ItemMoves
<1>3. CASE UNCHANGED payoutsVars
  <2>1. PayoutsInv'
    BY <1>3 DEF payoutsVars, ledgerVars, earnedVars, orderVars, payVars, PayoutsInv,
        PayoutsTypeOK, BooksInv, LedgerInv, RunsInv, EntriesAgree, DebitReleased, TotalIsSum,
        EntriesOf, CreatorOfKey, Sum, ItemIsReserved, ReservedIsCleared, Reservations, Cleared,
        OrderIsAccounts, SentIsOwed, JobHasItem, OneAtATime, FinishedRunIsQuiet
  <2> QED BY <1>1, <1>3, <2>1 DEF payoutsVars, payVars
<1>4. CASE Disturbances
  <2>1. PayoutsInv' BY <1>4, BooksSteps, RunSteps DEF Disturbances
  <2>2. UNCHANGED item
    BY <1>4 DEF Disturbances, DisputeEvent, RefundSucceeds, SaveAccount, payVars
  <2> QED BY <1>1, <2>1, <2>2
<1>5. CASE Failures
  <2>1. PayoutsInv' /\ \A i \in Items : ItemMoves(i) BY <1>5, JobSteps, SweepSteps DEF Failures
  <2> QED BY <1>2, <2>1
<1>6. CASE Work
  <2>1. CASE \E p \in Payments : CallGoesLive(p) \/ HoldEnds(p)
    <3>1. PayoutsInv' BY <2>1, BooksSteps
    <3>2. UNCHANGED item BY <2>1 DEF CallGoesLive, HoldEnds, payVars
    <3> QED BY <1>1, <3>1, <3>2
  <2>2. CASE NextMonth \/ RunDue \/ FinishRuns
    <3>1. PayoutsInv' BY <2>2, RunSteps
    <3>2. UNCHANGED item BY <2>2 DEF NextMonth, RunDue, FinishRuns, payVars
    <3> QED BY <1>1, <3>1, <3>2
  <2>3. CASE \E b \in reserves : ReserveBatch(b)
    <3>1. PayoutsInv' /\ \A i \in Items : item[i].status # "NONE" => item'[i] = item[i]
      BY <2>3, ReserveStep
    <3> QED BY <3>1
  <2>4. CASE \E j \in jobs : \/ ClaimTransfer(j) \/ SendTransfer(j)
                             \/ MarkPaid(j) \/ RetryTransfer(j)
    <3>1. PayoutsInv' /\ \A i \in Items : ItemMoves(i) BY <2>4, JobSteps
    <3> QED BY <1>2, <3>1
  <2>5. CASE \E i \in Items : SweepTransfer(i)
    <3>1. PayoutsInv' /\ \A i \in Items : ItemMoves(i) BY <2>5, SweepSteps
    <3> QED BY <1>2, <3>1
  <2> QED BY <1>6, <2>1, <2>2, <2>3, <2>4, <2>5 DEF Work
<1> QED BY <1>3, <1>4, <1>5, <1>6 DEF PayoutsNext

-----------------------------------------------------------------------------
(* What the invariant says about money.                                    *)

\* What Stripe was told to send a creator is reserved, and what is reserved has cleared.
LEMMA SentIsCovered == PayoutsInv => OnlyClearedIsSent
<1> SUFFICES ASSUME PayoutsInv, NEW c \in Creators PROVE Transferred(c) <= Cleared(c)
  BY DEF OnlyClearedIsSent
<1> USE DEF PayoutsInv, BooksInv, LedgerInv, RunsInv
<1> DEFINE R == Reservations(c)
           S == {t \in sent : t.key[1][1] = c}
           f == [t \in sent |-> t.amount]
           g == [k \in R |-> -ledger[k]]
           none == [k \in R |-> 0]
           m == [t \in S |-> ReservationKey(t.key[1])]
           owed == [i \in Items |-> [key |-> <<i, 0>>, amount |-> item[i].amount]]
           all == {owed[i] : i \in Items}
<1>1. ledger \in [EntryKeys -> Int] /\ \A i \in Items : item[i].amount \in Nat
  BY DEF PayoutsTypeOK, Item
<1>2. R \in SUBSET EntryKeys BY DEF Reservations, EntriesOf
<1>3. IsFiniteSet(R) /\ Sum(R) \in Int BY <1>1, <1>2, SumOfEntries
<1>4. IsFiniteSet(S)
  <2>1. IsFiniteSet(Items) BY FiniteKeys
  <2>2. owed \in [Items -> all] /\ \A y \in all : \E i \in Items : owed[i] = y OBVIOUS
  <2>3. sent \subseteq all BY DEF SentIsOwed
  <2> HIDE DEF owed, all
  <2>4. IsFiniteSet(all) BY <2>1, <2>2, FiniteImage
  <2> QED BY <2>3, <2>4, FS_Subset
<1>5. ASSUME NEW t \in S
      PROVE  \E i \in Items : /\ i[1] = c /\ t = [key |-> <<i, 0>>, amount |-> item[i].amount]
                              /\ f[t] = item[i].amount /\ m[t] = ReservationKey(i)
  <2>1. PICK i \in Items : t = [key |-> <<i, 0>>, amount |-> item[i].amount]
    BY DEF SentIsOwed
  <2> QED BY <2>1
<1>6. \A i \in Items : i[1] = c => ReservationKey(i) \in R
  BY KeyFacts DEF Reservations, EntriesOf, ReservationKey
<1>7. \A k \in R : \E i \in Items : k = ReservationKey(i)
  BY KeyFacts DEF Reservations, EntriesOf
<1>8. \A i \in Items : ledger[ReservationKey(i)] = -item[i].amount BY DEF ItemIsReserved
<1>9. \A i, j \in Items : ReservationKey(i) = ReservationKey(j) => i = j BY DEF ReservationKey
<1>10. \A k \in R : /\ g[k] \in Nat /\ none[k] = 0 /\ g[k] = -ledger[k]
                    /\ ledger[k] \in Int /\ g[k] \in Int /\ none[k] = ledger[k] + g[k]
  <2> SUFFICES ASSUME NEW k \in R
               PROVE  /\ g[k] \in Nat /\ none[k] = 0 /\ g[k] = -ledger[k]
                      /\ ledger[k] \in Int /\ g[k] \in Int /\ none[k] = ledger[k] + g[k]
    OBVIOUS
  <2>1. PICK i \in Items : k = ReservationKey(i) BY <1>7
  <2>2. ledger[k] = -item[i].amount /\ item[i].amount \in Nat BY <1>1, <1>8, <2>1
  <2>3. g[k] = -ledger[k] /\ none[k] = 0 OBVIOUS
  <2> QED BY <2>2, <2>3
<1>11. DOMAIN m = S /\ m = [t \in S |-> m[t]] OBVIOUS
<1> HIDE DEF R, S, f, g, none, m
<1>12. m \in [S -> R] BY <1>5, <1>6, <1>11
<1>13. \A t, u \in S : m[t] = m[u] => t = u
  <2> SUFFICES ASSUME NEW t \in S, NEW u \in S, m[t] = m[u] PROVE t = u OBVIOUS
  <2>1. PICK i \in Items : t = [key |-> <<i, 0>>, amount |-> item[i].amount]
                           /\ m[t] = ReservationKey(i) BY <1>5
  <2>2. PICK j \in Items : u = [key |-> <<j, 0>>, amount |-> item[j].amount]
                           /\ m[u] = ReservationKey(j) BY <1>5
  <2>3. i = j BY <1>9, <2>1, <2>2
  <2> QED BY <2>1, <2>2, <2>3
<1>14. \A t \in S : f[t] \in Int /\ f[t] <= g[m[t]]
  <2> SUFFICES ASSUME NEW t \in S PROVE f[t] \in Int /\ f[t] <= g[m[t]] OBVIOUS
  <2>1. PICK i \in Items : /\ i[1] = c /\ f[t] = item[i].amount
                           /\ m[t] = ReservationKey(i) BY <1>5
  <2>2. g[m[t]] = -ledger[ReservationKey(i)] BY <1>6, <1>10, <2>1
  <2>3. ledger[ReservationKey(i)] = -item[i].amount /\ item[i].amount \in Nat BY <1>1, <1>8
  <2> QED BY <2>1, <2>2, <2>3
<1>15. SumOver(f, S) <= SumOver(g, R)
  BY <1>3, <1>4, <1>10, <1>12, <1>13, <1>14, SumOfCounterparts
<1>16. SumOver(none, R) = SumOver(ledger, R) + SumOver(g, R)
  BY <1>3, <1>10, SumOfSums
<1>17. SumOver(none, R) = 0 BY <1>3, <1>10, SumOfZeros
<1>18. SumOver(f, S) \in Int /\ SumOver(g, R) \in Int
  BY <1>3, <1>4, <1>10, <1>14, SumIsInt
<1>19. SumOver(g, R) = -Sum(R) BY <1>3, <1>16, <1>17, <1>18 DEF Sum
<1>20. -Sum(R) <= Cleared(c) BY DEF ReservedIsCleared, R
<1>21. Cleared(c) \in Int BY <1>1, AvailableIsCovered DEF PayoutsTypeOK
<1>22. Transferred(c) = SumOver(f, S) BY DEF Transferred, f, S
<1> QED BY <1>3, <1>15, <1>18, <1>19, <1>20, <1>21, <1>22

\* A creator has at most one payout that is not settled.
LEMMA OneIsUnsettled == PayoutsInv => OneUnsettledPayout
<1> SUFFICES ASSUME PayoutsInv, NEW c \in Creators
             PROVE  Cardinality({m \in Months : item[<<c, m>>].status \in UNSETTLED}) <= 1
  BY DEF OneUnsettledPayout
<1> DEFINE U == {m \in Months : item[<<c, m>>].status \in UNSETTLED}
<1>1. \A m, k \in U : m = k BY DEF PayoutsInv, RunsInv, OneAtATime
<1> HIDE DEF U
<1>2. ASSUME U = {} PROVE Cardinality(U) <= 1 BY <1>2, FS_EmptySet
<1>3. ASSUME U # {} PROVE Cardinality(U) <= 1
  <2>1. PICK m : m \in U BY <1>3
  <2>2. U = {m} BY <1>1, <2>1
  <2>3. Cardinality({m}) = 1 BY FS_Singleton
  <2> QED BY <2>2, <2>3
<1>4. Cardinality(U) <= 1 BY <1>2, <1>3
<1> QED BY <1>4 DEF U

\* The running total, disputes and fees, from the invariant.
LEMMA BooksAreRight == PayoutsInv => LedgerIsSound
<1> SUFFICES ASSUME PayoutsInv PROVE LedgerIsSound OBVIOUS
<1> USE DEF PayoutsInv, BooksInv, LedgerInv
<1>1. TotalInStep BY TotalInParts DEF TotalInStep, TotalIsSum, PayoutsTypeOK
<1>2. DisputeCostsOneEarning
  <2> SUFFICES ASSUME NEW p \in Payments
               PROVE  ledger[<<"DISPUTE_DEBIT", p>>] + ledger[<<"DISPUTE_RELEASE", p>>]
                        \in {0, -ledger[<<"EARNING", p>>]}
    BY DEF DisputeCostsOneEarning
  <2>1. ledger[<<"EARNING", p>>] \in Nat BY EntryBounds
  <2>2. /\ ledger[<<"DISPUTE_DEBIT", p>>] \in {0, -ledger[<<"EARNING", p>>]}
        /\ ledger[<<"DISPUTE_RELEASE", p>>] \in {0, -ledger[<<"DISPUTE_DEBIT", p>>]}
    BY DEF EntriesAgree, DebitReleased
  <2> QED BY <2>1, <2>2
<1>3. FeesAreFair
  <2>1. ASSUME NEW price \in TierPrices, NEW c \in Creators
        PROVE  /\ PlatformFee(price, FeeBps[c]) \in 0..(price - 1)
               /\ CreatorProcessingFee(price) <= BasicCardFee(price) - CreatorProcessingFee(price)
               /\ BasicCardFee(price) - CreatorProcessingFee(price)
                    <= CreatorProcessingFee(price) + 1
    <3>1. price \in Int /\ price >= 50 BY PayoutsAssumption, PricesAndRates
    <3>2. FeeBps[c] \in Int /\ FeeBps[c] >= 0 /\ FeeBps[c] <= 2000
      <4>1. FeeBps[c] \in 0..STANDARD_PLATFORM_FEE_BPS BY PaymentAssumption
      <4> QED BY <4>1, PricesAndRates
    <3>3. PlatformFee(price, FeeBps[c]) \in 1..(price - 1) BY <3>1, <3>2, FeeIsFair
    <3>4. PlatformFee(price, FeeBps[c]) \in 0..(price - 1) BY <3>1, <3>3
    <3> QED BY <3>1, <3>2, <3>4, FeeIsFair
  <2>2. ASSUME NEW p \in Payments PROVE ledger[<<"EARNING", p>>] < Charged[p]
    <3>1. Charged[p] \in Int BY PaymentAssumption, PricesAndRates
    <3>2. EarningOf(p) \in 1..(Charged[p] - 1) BY EarningIsPositive
    <3>3. ledger[<<"EARNING", p>>] \in {0, EarningOf(p)} BY DEF EntriesAgree
    <3> QED BY <3>1, <3>2, <3>3
  <2> QED BY <2>1, <2>2 DEF FeesAreFair
<1> QED BY <1>1, <1>2, <1>3 DEF LedgerIsSound

-----------------------------------------------------------------------------
(* Theorems.                                                               *)

\* The books and runs hold in every reachable state.
THEOREM PayoutsInvariant == PayoutsSpec => []PayoutsInv
<1>1. PayoutsInit => PayoutsInv BY InitHasInv
<1>2. PayoutsInv /\ [PayoutsNext]_payoutsVars => PayoutsInv' BY NextKeepsInv
<1> QED BY <1>1, <1>2, PTL DEF PayoutsSpec

\* lib/ledger.ts: however calls, refunds, disputes and payouts interleave, the running
\* total is the sum of the entries, a dispute costs one earning or nothing, and the split
\* of every price (lib/stripe.paymentFees) is fair.
THEOREM LedgerSafe == PayoutsSpec => []LedgerIsSound
<1>1. PayoutsInv => LedgerIsSound BY BooksAreRight
<1> QED BY <1>1, PayoutsInvariant, PTL

\* payouts.ts: across walks, retries, lost answers and dying actions, a creator is never
\* sent more than their cleared earnings and has one payout under way at most, and a
\* finished run has nothing in flight.
THEOREM PayoutsSafe == PayoutsSpec => []PayoutsAreSound
<1>1. PayoutsInv => PayoutsAreSound
  BY SentIsCovered, OneIsUnsettled, PeriodTurns DEF PayoutsInv, RunsInv, PayoutsAreSound
<1> QED BY <1>1, PayoutsInvariant, PTL

\* markPaid and retryTransfer: a payout that is PAID or FAILED never changes again.
THEOREM PaidIsFinal == PayoutsSpec => PaidStaysPaid
<1>1. PayoutsInv /\ [PayoutsNext]_payoutsVars =>
        [\A i \in Items : /\ item[i].status = "PAID" => item'[i] = item[i]
                          /\ item[i].status = "FAILED" => item'[i] = item[i]]_payoutsVars
  BY NextKeepsInv
<1> QED BY <1>1, PayoutsInvariant, PTL DEF PayoutsSpec, PaidStaysPaid

-----------------------------------------------------------------------------
(* Refunds and payouts side by side.                                       *)

\* No refund and no transfer that is settled is ever taken back (refunds.ts finalize,
\* payouts.ts markPaid and the webhooks that come late), whatever both parts do.
THEOREM MoneyIsFinal == MoneySpec => FinalIsFinal
BY SettledIsFinal, PaidIsFinal, PTL DEF MoneySpec, FinalIsFinal
=============================================================================
