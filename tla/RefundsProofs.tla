---------------------------- MODULE RefundsProofs ----------------------------
(***************************************************************************)
(* What the refunds of a payment may take back, for any price and any      *)
(* number of refunds, workers and attempts.                                *)
(***************************************************************************)
EXTENDS Refunds, SumTheorems

USE DEF callVars, stripeVars, Final, Statuses, StripeStatuses, Phases

\* The event with which Stripe reports that refund s has this status.
EventOf(s, status) == [refund |-> s, status |-> status]

\* A reversal belongs to a settled row.
ReversedIsSettled == \A r \in Rows : reversed[r] > 0 => row[r].status \in Final

\* The row that the webhook makes for a refund from outside is about that refund, and
\* so is every action that works on it.
RowsAreNamed ==
    /\ \A r \in Rows : row[r].status = "NONE" => row[r].stripe = None
    /\ \A s \in StripeRefunds : row[s].status # "NONE" => row[s].stripe = s
RunsAreNamed ==
    \A j \in runs :
        /\ row[j.row].status # "NONE"
        /\ j.phase \in {"calling", "failed", "answered"} /\ j.row # Request =>
            j.stripe = j.row

\* Stripe reports what it does, and its answers say nothing else.
StripeReports ==
    \A s \in StripeRefunds : stripe[s].status # "none" =>
        /\ EventOf(s, stripe[s].status) \in events
        /\ EventOf(s, stripe[s].first) \in events
AnswersAreReported ==
    \A j \in runs : j.phase = "answered" /\ j.status = "succeeded" =>
        EventOf(j.stripe, "succeeded") \in events

\* The inductive invariant.
RefundsInv ==
    /\ RefundsAreSound
    /\ ReversedIsSettled
    /\ RowsAreNamed /\ RunsAreNamed
    /\ StripeReports /\ AnswersAreReported

-----------------------------------------------------------------------------
(* The operators.                                                          *)

\* The sums are over finite sets.
LEMMA FiniteRows == IsFiniteSet(Rows) /\ IsFiniteSet(StripeRefunds)
BY AmountAssumption, FS_Singleton, FS_Union DEF Rows, StripeRefunds

\* The least of two numbers.
LEMMA MinOfTwo ==
    ASSUME NEW a \in Int, NEW b \in Int
    PROVE  /\ Min({a, b}) \in {a, b}
           /\ Min({a, b}) <= a /\ Min({a, b}) <= b
<1>1. \E x \in {a, b} : \A y \in {a, b} : x <= y OBVIOUS
<1> QED BY <1>1 DEF Min

\* A share of the earning is a whole number of cents.
LEMMA ShareIsInt == ASSUME NEW amount \in 0..Price PROVE Share(amount) \in Int
<1>1. \A a \in Int, b \in Nat \ {0} : a \div b \in Int OBVIOUS
<1>2. 2 * Price \in Nat \ {0} BY AmountAssumption
<1>3. 2 * Earning * amount + Price \in Int BY AmountAssumption
<1> QED BY <1>1, <1>2, <1>3, AmountAssumption DEF Share

\* Stripe has refunded some whole number of cents.
LEMMA RefundedIsNat == TypeOK => Refunded \in Nat
<1> DEFINE f == [s \in StripeRefunds |->
                   IF stripe[s].status = "failed" THEN 0 ELSE stripe[s].amount]
<1> SUFFICES ASSUME TypeOK PROVE Refunded \in Nat
  OBVIOUS
<1>1. \A s \in StripeRefunds : f[s] \in Nat
  BY AmountAssumption DEF TypeOK, StripeRefund
<1> HIDE DEF f
<1>2. SumOver(f, StripeRefunds) \in Nat BY <1>1, FiniteRows, SumIsNat
<1> QED BY <1>2 DEF Refunded, f

\* So has Bling taken back from the creator.
LEMMA TotalIsNat == TypeOK => TotalReversed \in Nat
<1> SUFFICES ASSUME TypeOK PROVE TotalReversed \in Nat
  OBVIOUS
<1>1. \A x \in Rows : reversed[x] \in Nat BY AmountAssumption DEF TypeOK
<1> QED BY <1>1, FiniteRows, SumIsNat DEF TotalReversed

\* Rounded as they are, and in whatever order they come, the reversals never add up to
\* more than the earning.
LEMMA ReversalIsCovered ==
    ASSUME TypeOK, NeverTakesMore, NEW r \in Rows, NEW amount \in 0..Price,
           ReverseForRefund(r, amount)
    PROVE  /\ reversed' \in [Rows -> 0..Price]
           /\ TotalReversed' <= (IF earned THEN Earning ELSE 0)
           /\ \A x \in Rows \ {r} : reversed'[x] = reversed[x]
<1> DEFINE cents == Min({Share(amount), LeftToReverse(r)})
<1>1. \A x \in Rows : reversed[x] \in Nat BY AmountAssumption DEF TypeOK
<1>2. TotalReversed \in Nat BY TotalIsNat
<1>3. CASE earned /\ cents > 0 /\ reversed[r] = 0
  <2>1. LeftToReverse(r) = Earning - TotalReversed
    BY <1>2, <1>3, AmountAssumption DEF LeftToReverse
  <2>2. LeftToReverse(r) \in Int BY <1>2, <2>1, AmountAssumption
  <2>3. cents \in Int /\ cents <= LeftToReverse(r) BY <2>2, ShareIsInt, MinOfTwo
  <2> HIDE DEF cents
  <2>4. reversed' = [reversed EXCEPT ![r] = cents] BY <1>3 DEF ReverseForRefund, cents
  <2>5. cents \in 0..Price BY <1>2, <1>3, <2>1, <2>3, AmountAssumption
  <2>6. reversed' \in [Rows -> 0..Price] BY <2>4, <2>5 DEF TypeOK
  <2>7. SumOver(reversed', Rows) = SumOver(reversed, Rows) - reversed[r] + reversed'[r]
    <3>1. \A x \in Rows : reversed[x] \in Int /\ reversed'[x] \in Int
      BY <1>1, <2>6, AmountAssumption
    <3>2. \A x \in Rows \ {r} : reversed[x] = reversed'[x] BY <2>4 DEF TypeOK
    <3> QED BY <3>1, <3>2, FiniteRows, SumReplaced
  <2>8. reversed'[r] = cents BY <2>4 DEF TypeOK
  <2>9. TotalReversed' = TotalReversed + cents
    BY <1>2, <1>3, <2>3, <2>7, <2>8 DEF TotalReversed
  <2>10. TotalReversed' <= Earning BY <1>2, <2>1, <2>3, <2>9, AmountAssumption
  <2> QED BY <1>3, <2>4, <2>6, <2>10 DEF TypeOK
<1>4. CASE ~(earned /\ cents > 0 /\ reversed[r] = 0)
  BY <1>4 DEF ReverseForRefund, TypeOK, NeverTakesMore, TotalReversed
<1> QED BY <1>3, <1>4

-----------------------------------------------------------------------------
(* The steps.                                                              *)

\* What Stripe does next keeps its reports complete.
LEMMA MakeReports ==
    ASSUME RefundsInv, NEW s \in StripeRefunds, NEW amount \in Int,
           NEW status \in {"pending", "succeeded"}, Make(s, amount, status)
    PROVE  /\ stripe' \in [StripeRefunds -> StripeRefund]
           /\ events' \subseteq Event /\ events \subseteq events'
           /\ EventOf(s, status) \in events'
           /\ \A x \in StripeRefunds : stripe'[x].status # "none" =>
                /\ EventOf(x, stripe'[x].status) \in events'
                /\ EventOf(x, stripe'[x].first) \in events'
<1> USE DEF RefundsInv, RefundsAreSound, TypeOK, StripeReports, EventOf
<1>1. Refunded \in Nat BY RefundedIsNat
<1>2. amount \in 0..Price BY <1>1, AmountAssumption DEF Make
<1>3. [status |-> status, first |-> status, amount |-> amount] \in StripeRefund
  BY <1>2 DEF StripeRefund
<1>4. stripe' \in [StripeRefunds -> StripeRefund] BY <1>3 DEF Make
<1>5. [refund |-> s, status |-> status] \in Event BY DEF Event
<1>6. events' = events \cup {EventOf(s, status)} BY DEF Make
<1>7. \A x \in StripeRefunds \ {s} : stripe'[x] = stripe[x] BY DEF Make
<1>8. stripe'[s].status = status /\ stripe'[s].first = status BY DEF Make
<1> QED BY <1>4, <1>5, <1>6, <1>7, <1>8

\* The call, the clock, the sweep and actions that die.
LEMMA QuietSteps ==
    ASSUME RefundsInv,
           \/ GoLive \/ Finish \/ (\E r \in Rows : Elapse(r) \/ Sweep(r))
           \/ \E j \in runs : RunDies(j)
    PROVE  RefundsInv'
<1> USE DEF RefundsInv, RefundsAreSound, TypeOK, RowsAreNamed, RunsAreNamed
<1>1. CASE GoLive
  <2>1. TotalReversed' = TotalReversed /\ TotalReversed \in Nat
    BY <1>1, TotalIsNat DEF GoLive, TotalReversed
  <2>2. NeverTakesMore' BY <1>1, <2>1, AmountAssumption DEF GoLive, NeverTakesMore
  <2> QED BY <1>1, <2>2 DEF GoLive, ReversedIsRefunded, ReversedIsSettled, StripeReports, AnswersAreReported
<1>2. CASE Finish /\ UNCHANGED <<row, runs>>
  BY <1>2 DEF Finish, ReversedIsRefunded, ReversedIsSettled, StripeReports, AnswersAreReported, NeverTakesMore, TotalReversed
<1>3. CASE Finish /\ ~UNCHANGED <<row, runs>>
  <2>1. /\ RequestRefund /\ call' = "over" /\ \A r \in Rows : row[r].status = "NONE"
        /\ UNCHANGED <<earned, reversed, stripe, events, applied>>
    BY <1>3 DEF Finish, RequestRefund
  <2>2. /\ row' = [row EXCEPT ![Request] =
                [status |-> "REQUESTED", stripe |-> None, attempts |-> 0,
                 due |-> TRUE, amount |-> Price]]
        /\ runs' = runs \cup {Waits(Request, "scheduled")}
    BY <2>1 DEF RequestRefund
  <2>3. Request \in Rows /\ Request \notin StripeRefunds BY NameAssumption DEF Rows
  <2>4. row' \in [Rows -> Row]
    <3>1. [status |-> "REQUESTED", stripe |-> None, attempts |-> 0,
                 due |-> TRUE, amount |-> Price] \in Row
      BY AmountAssumption, BoundAssumption DEF Row
    <3> QED BY <2>2, <3>1
  <2>5. Waits(Request, "scheduled") \in Run BY <2>3, BoundAssumption DEF Run, Waits
  <2>6. runs = {} BY <2>1 DEF Run
  <2>7. \A r \in Rows : reversed[r] = 0 BY <2>1, AmountAssumption DEF ReversedIsSettled
  <2>8. RunsAreNamed'
    BY <2>2, <2>3, <2>6 DEF Waits
  <2>9. TypeOK' BY <2>1, <2>2, <2>4, <2>5, <2>6
  <2>10. RowsAreNamed' BY <2>1, <2>2, <2>3 DEF Rows
  <2>11. StripeReports' /\ AnswersAreReported' BY <2>1, <2>2, <2>6 DEF StripeReports, AnswersAreReported, Waits
  <2>12. NeverTakesMore' BY <2>1 DEF NeverTakesMore, TotalReversed
  <2>13. ReversedIsRefunded' /\ ReversedIsSettled'
    BY <2>1, <2>7 DEF ReversedIsRefunded, ReversedIsSettled
  <2> QED BY <2>8, <2>9, <2>10, <2>11, <2>12, <2>13
<1>4. ASSUME NEW r \in Rows, Elapse(r) PROVE RefundsInv'
  <2>1. /\ row' = [row EXCEPT ![r].due = TRUE]
        /\ UNCHANGED <<call, earned, reversed, stripe, events, applied>>
    BY <1>4 DEF Elapse
  <2>2. row' \in [Rows -> Row]
    <3>1. row[r] \in Row OBVIOUS
    <3>2. [row[r] EXCEPT !.due = TRUE] \in Row BY <3>1 DEF Row
    <3> QED BY <2>1, <3>2
  <2>3. \A x \in Rows : row'[x].status = row[x].status /\ row'[x].stripe = row[x].stripe
    BY <2>1 DEF Row
  <2>4. ASSUME NEW j \in runs' PROVE
          \E i \in runs : /\ j.row = i.row /\ (j = i \/ j = Waits(r, "scheduled"))
                          /\ j \in Run
    <3>1. PICK i \in runs : j = IF i = Waits(r, "delayed") THEN Waits(r, "scheduled") ELSE i
      BY <1>4 DEF Elapse
    <3>2. CASE i = Waits(r, "delayed")
      <4>1. j = Waits(r, "scheduled") BY <3>1, <3>2
      <4>2. j.row = i.row BY <3>2, <4>1 DEF Waits
      <4>3. j \in Run BY <4>1, BoundAssumption DEF Waits, Run
      <4> QED BY <4>1, <4>2, <4>3
    <3>3. CASE i # Waits(r, "delayed") BY <3>1, <3>3
    <3> QED BY <3>2, <3>3
  <2>5. Waits(r, "scheduled").phase = "scheduled" BY DEF Waits
  <2>6. TypeOK' BY <2>1, <2>2, <2>4
  <2>7. RowsAreNamed' BY <2>1, <2>3 DEF Rows
  <2>8. RunsAreNamed'
    <3>1. \A j \in runs : j.row \in Rows BY DEF Run
    <3> QED BY <2>1, <2>3, <2>4, <2>5, <3>1
  <2>9. StripeReports' /\ AnswersAreReported' BY <2>1, <2>4, <2>5 DEF StripeReports, AnswersAreReported
  <2>10. NeverTakesMore' BY <2>1 DEF NeverTakesMore, TotalReversed
  <2>11. ReversedIsRefunded' /\ ReversedIsSettled'
    BY <2>1, <2>3 DEF ReversedIsRefunded, ReversedIsSettled
  <2> QED BY <2>6, <2>7, <2>8, <2>9, <2>10, <2>11
<1>5. ASSUME NEW r \in Rows, Sweep(r) PROVE RefundsInv'
  <2>1. /\ runs' = runs \cup {Waits(r, "scheduled")} /\ row[r].status # "NONE"
        /\ UNCHANGED <<call, earned, reversed, row, stripe, events, applied>>
    BY <1>5 DEF Sweep, Due
  <2>2. /\ Waits(r, "scheduled") \in Run /\ Waits(r, "scheduled").row = r
        /\ Waits(r, "scheduled").phase = "scheduled"
    BY BoundAssumption DEF Run, Waits
  <2>3. TypeOK' BY <2>1, <2>2
  <2>4. RunsAreNamed' BY <2>1, <2>2
  <2>5. StripeReports' /\ AnswersAreReported' BY <2>1, <2>2 DEF StripeReports, AnswersAreReported
  <2>6. NeverTakesMore' BY <2>1 DEF NeverTakesMore, TotalReversed
  <2> QED BY <2>1, <2>3, <2>4, <2>5, <2>6 DEF ReversedIsRefunded, ReversedIsSettled
<1>6. ASSUME NEW j \in runs, RunDies(j) PROVE RefundsInv'
  BY <1>6 DEF RunDies, ReversedIsRefunded, ReversedIsSettled, StripeReports, AnswersAreReported, NeverTakesMore, TotalReversed
<1> QED BY <1>1, <1>2, <1>3, <1>4, <1>5, <1>6

\* An action is replaced by others, or by none.
LEMMA RunReplaced ==
    ASSUME RefundsInv, NEW j \in runs, NEW new \in SUBSET Run,
           runs' = (runs \ {j}) \cup new, events \subseteq events',
           \A r \in Rows : row[r].status # "NONE" => row'[r].status # "NONE",
           \A i \in new :
              /\ i.row = j.row
              /\ i.phase \in {"calling", "failed", "answered"} /\ i.row # Request =>
                    i.stripe = i.row
              /\ i.phase = "answered" /\ i.status = "succeeded" =>
                    EventOf(i.stripe, "succeeded") \in events'
    PROVE  runs' \subseteq Run /\ RunsAreNamed' /\ AnswersAreReported'
<1>1. \A i \in runs : i.row \in Rows BY DEF RefundsInv, RefundsAreSound, TypeOK, Run
<1>2. runs' \subseteq Run BY DEF RefundsInv, RefundsAreSound, TypeOK
<1>3. RunsAreNamed' BY <1>1 DEF RefundsInv, RunsAreNamed
<1>4. AnswersAreReported' BY DEF RefundsInv, AnswersAreReported
<1> QED BY <1>2, <1>3, <1>4

\* The refund at Stripe.
LEMMA StripeSteps ==
    ASSUME RefundsInv,
           \/ \E s \in StripeRefunds, status \in StripeStatuses : Progress(s, status)
           \/ \E s \in Outside : Support(s)
           \/ \E j \in runs : CallStripe(j) \/ CallFails(j)
    PROVE  RefundsInv'
<1> USE DEF RefundsInv, RefundsAreSound, TypeOK
<1>1. ASSUME NEW s \in StripeRefunds, NEW status \in StripeStatuses, Progress(s, status)
      PROVE  RefundsInv'
  <2>1. /\ stripe' = [stripe EXCEPT ![s].status = status] /\ stripe[s].status # "none"
        /\ events' = events \cup {EventOf(s, status)}
        /\ UNCHANGED <<call, earned, reversed, row, runs, applied>>
    BY <1>1 DEF Progress, EventOf
  <2>2. stripe' \in [StripeRefunds -> StripeRefund] BY <2>1 DEF StripeRefund
  <2>3. EventOf(s, status) \in Event BY DEF EventOf, Event
  <2>4. TypeOK' BY <2>1, <2>2, <2>3
  <2>5. StripeReports' BY <2>1 DEF StripeReports, StripeRefund
  <2>6. NeverTakesMore' BY <2>1 DEF NeverTakesMore, TotalReversed
  <2>7. ReversedIsRefunded' BY <2>1 DEF ReversedIsRefunded
  <2>8. AnswersAreReported' BY <2>1 DEF AnswersAreReported
  <2> QED BY <2>1, <2>4, <2>5, <2>6, <2>7, <2>8
        DEF ReversedIsSettled, RowsAreNamed, RunsAreNamed
<1>2. ASSUME NEW s \in Outside, Support(s) PROVE RefundsInv'
  <2>1. PICK status \in {"pending", "succeeded"} : Make(s, Amount[s], status)
    BY <1>2 DEF Support
  <2>2. Amount[s] \in Int /\ s \in StripeRefunds BY AmountAssumption DEF StripeRefunds
  <2>3. /\ stripe' \in [StripeRefunds -> StripeRefund]
        /\ events' \subseteq Event /\ events \subseteq events' /\ StripeReports'
    BY <2>1, <2>2, MakeReports DEF StripeReports
  <2>4. UNCHANGED <<call, earned, reversed, row, runs, applied>> BY <1>2 DEF Support
  <2>5. TypeOK' BY <2>3, <2>4
  <2>6. NeverTakesMore' BY <2>4 DEF NeverTakesMore, TotalReversed
  <2>7. ReversedIsRefunded' BY <2>3, <2>4 DEF ReversedIsRefunded
  <2>8. AnswersAreReported' BY <2>3, <2>4 DEF AnswersAreReported
  <2> QED BY <2>3, <2>4, <2>5, <2>6, <2>7, <2>8
        DEF ReversedIsSettled, RowsAreNamed, RunsAreNamed
<1>3. ASSUME NEW j \in runs, CallStripe(j) \/ CallFails(j) PROVE RefundsInv'
  <2>1. /\ j \in Run /\ j.phase = "calling"
        /\ UNCHANGED <<call, earned, reversed, row, applied>>
    BY <1>3 DEF CallStripe, CallFails
  <2>2. Price - Refunded \in Int BY RefundedIsNat, AmountAssumption
  <2>3. Own \in StripeRefunds BY DEF StripeRefunds
  <2>4. /\ stripe' \in [StripeRefunds -> StripeRefund]
        /\ events' \subseteq Event /\ events \subseteq events' /\ StripeReports'
    <3>1. CASE UNCHANGED stripeVars BY <3>1 DEF StripeReports
    <3>2. CASE \E status \in {"pending", "succeeded"} : Make(Own, Price - Refunded, status)
      BY <2>2, <2>3, <3>2, MakeReports DEF StripeReports
    <3> QED BY <1>3, <3>1, <3>2 DEF CallStripe, CallFails
  <2>5. runs' \subseteq Run /\ RunsAreNamed' /\ AnswersAreReported'
    <3>0. \A r \in Rows : row[r].status # "NONE" => row'[r].status # "NONE" BY <2>1
    <3>1. ASSUME NEW s \in StripeRefunds, NEW status \in StripeStatuses,
                 Answered(j, s, status), j.stripe \in {s, None},
                 status = "succeeded" => EventOf(s, status) \in events'
          PROVE  runs' \subseteq Run /\ RunsAreNamed' /\ AnswersAreReported'
      <4> DEFINE i == [j EXCEPT !.phase = "answered", !.stripe = s, !.status = status]
      <4>1. /\ i \in Run /\ i.row = j.row /\ i.phase = "answered" /\ i.stripe = s
            /\ i.status = status
        BY <2>1 DEF Run
      <4>2. runs' = (runs \ {j}) \cup {i} BY <3>1 DEF Answered
      <4>3. j.row # Request => s = j.row
        <5>1. j.row # Request => j.stripe = j.row /\ j.row \in Rows
          BY <2>1 DEF RunsAreNamed, Run
        <5> QED BY <3>1, <5>1, NameAssumption
      <4> HIDE DEF i
      <4>4. {i} \in SUBSET Run BY <4>1
      <4>5. \A x \in {i} :
              /\ x.row = j.row
              /\ x.phase \in {"calling", "failed", "answered"} /\ x.row # Request =>
                    x.stripe = x.row
              /\ x.phase = "answered" /\ x.status = "succeeded" =>
                    EventOf(x.stripe, "succeeded") \in events'
        BY <3>1, <4>1, <4>3
      <4> QED BY <2>4, <3>0, <4>2, <4>4, <4>5, RunReplaced
    <3>2. CASE CallFails(j)
      <4> DEFINE i == [j EXCEPT !.phase = "failed"]
      <4>1. i \in Run /\ i.row = j.row /\ i.phase = "failed" /\ i.stripe = j.stripe
        BY <2>1 DEF Run
      <4>2. runs' = (runs \ {j}) \cup {i} BY <3>2 DEF CallFails
      <4>3. j.row # Request => j.stripe = j.row BY <2>1 DEF RunsAreNamed
      <4> HIDE DEF i
      <4>4. {i} \in SUBSET Run BY <4>1
      <4>5. \A x \in {i} :
              /\ x.row = j.row
              /\ x.phase \in {"calling", "failed", "answered"} /\ x.row # Request =>
                    x.stripe = x.row
              /\ x.phase = "answered" /\ x.status = "succeeded" =>
                    EventOf(x.stripe, "succeeded") \in events'
        BY <4>1, <4>3
      <4> QED BY <2>4, <3>0, <4>2, <4>4, <4>5, RunReplaced
    <3>3. CASE CallStripe(j) /\ j.stripe # None /\ UNCHANGED stripeVars
      <4>1. Answered(j, j.stripe, stripe[j.stripe].status)
        BY <3>3 DEF CallStripe
      <4>2. j.stripe \in StripeRefunds BY <2>1, <3>3 DEF Run
      <4>3. stripe[j.stripe].status \in StripeStatuses BY <4>2 DEF StripeRefund
      <4>4. stripe[j.stripe].status = "succeeded" =>
                EventOf(j.stripe, stripe[j.stripe].status) \in events'
        BY <3>3, <4>2 DEF StripeReports
      <4> QED BY <3>1, <4>1, <4>2, <4>3, <4>4
    <3>4. CASE CallStripe(j) /\ j.stripe = None /\ UNCHANGED stripeVars
      <4>1. Answered(j, Own, stripe[Own].first) /\ stripe[Own].status # "none"
        <5>1. \A s \in {"pending", "succeeded"} :
                ~(Make(Own, Price - Refunded, s) /\ UNCHANGED stripeVars)
          BY <2>3 DEF Make
        <5> QED BY <3>4, <5>1 DEF CallStripe
      <4>2. stripe[Own].first \in StripeStatuses BY <2>3 DEF StripeRefund
      <4>3. EventOf(Own, stripe[Own].first) \in events'
        BY <2>3, <3>4, <4>1 DEF StripeReports
      <4> QED BY <2>3, <3>1, <3>4, <4>1, <4>2, <4>3
    <3>5. CASE CallStripe(j) /\ ~UNCHANGED stripeVars
      <4>1. PICK status \in {"pending", "succeeded"} :
                /\ Make(Own, Price - Refunded, status) /\ Answered(j, Own, status)
                /\ j.stripe = None
        BY <3>5 DEF CallStripe
      <4>2. EventOf(Own, status) \in events' BY <2>2, <2>3, <4>1, MakeReports
      <4> QED BY <2>3, <3>1, <4>1, <4>2
    <3> QED BY <1>3, <3>2, <3>3, <3>4, <3>5
  <2>6. TypeOK' BY <2>1, <2>4, <2>5
  <2>7. NeverTakesMore' BY <2>1 DEF NeverTakesMore, TotalReversed
  <2>8. ReversedIsRefunded' BY <2>1, <2>4 DEF ReversedIsRefunded
  <2> QED BY <2>1, <2>4, <2>5, <2>6, <2>7, <2>8 DEF ReversedIsSettled, RowsAreNamed
<1> QED BY <1>1, <1>2, <1>3

\* The worker's mutations: claim, record and retry.
LEMMA WorkerSteps ==
    ASSUME RefundsInv, NEW j \in runs, Claim(j) \/ Record(j) \/ Retry(j)
    PROVE  RefundsInv'
<1> USE DEF RefundsInv, RefundsAreSound, TypeOK
<1> DEFINE r == j.row
<1>1. /\ j \in Run /\ r \in Rows /\ row[r] \in Row /\ row[r].status # "NONE"
      /\ UNCHANGED <<call, earned, stripe, events, applied>>
  BY DEF Claim, Record, Retry, Run, RunsAreNamed
<1>2. ASSUME NEW x \in Row, row' = [row EXCEPT ![r] = x], x.status # "NONE",
             x.stripe = row[r].stripe \/ (row[r].status \notin Final /\ x.stripe = j.stripe),
             row[r].status \in Final => x.status \in Final,
             j.row # Request => x.stripe \in {row[r].stripe, r}, UNCHANGED reversed
      PROVE  /\ row' \in [Rows -> Row] /\ RowsAreNamed' /\ ReversedIsSettled'
             /\ ReversedIsRefunded' /\ NeverTakesMore'
  <2>1. row' \in [Rows -> Row] BY <1>1, <1>2
  <2>2. \A y \in Rows \ {r} : row'[y] = row[y] BY <1>1, <1>2
  <2>3. row'[r] = x BY <1>1, <1>2
  <2> HIDE DEF r
  <2>4. RowsAreNamed'
    <3>1. StripeRefunds \subseteq Rows /\ Request \notin StripeRefunds
      BY NameAssumption DEF Rows
    <3> QED BY <1>1, <1>2, <2>2, <2>3, <3>1 DEF RowsAreNamed, r
  <2>5. ReversedIsSettled' BY <1>2, <2>2, <2>3 DEF ReversedIsSettled
  <2>6. ReversedIsRefunded'
    BY <1>1, <1>2, <2>2, <2>3 DEF ReversedIsRefunded, ReversedIsSettled
  <2>7. NeverTakesMore' BY <1>1, <1>2 DEF NeverTakesMore, TotalReversed
  <2> QED BY <2>1, <2>4, <2>5, <2>6, <2>7
<1>3. CASE UNCHANGED <<row, reversed>> /\ runs' = runs \ {j}
  BY <1>1, <1>3 DEF RowsAreNamed, RunsAreNamed, ReversedIsSettled, ReversedIsRefunded,
        NeverTakesMore, TotalReversed, StripeReports, AnswersAreReported
<1>4. ASSUME NEW new \in SUBSET Run, runs' = (runs \ {j}) \cup new,
             \A y \in Rows : row[y].status # "NONE" => row'[y].status # "NONE",
             \A i \in new : /\ i.row = r /\ i.phase \in {"delayed", "calling"}
                            /\ i.phase = "calling" /\ i.row # Request => i.stripe = i.row
      PROVE  runs' \subseteq Run /\ RunsAreNamed' /\ AnswersAreReported'
  <2>1. \A i \in new :
              /\ i.row = j.row
              /\ i.phase \in {"calling", "failed", "answered"} /\ i.row # Request =>
                    i.stripe = i.row
              /\ i.phase = "answered" /\ i.status = "succeeded" =>
                    EventOf(i.stripe, "succeeded") \in events'
    BY <1>4
  <2>2. events \subseteq events' BY <1>1
  <2> QED BY <1>4, <2>1, <2>2, RunReplaced
<1>5. StripeReports' BY <1>1 DEF StripeReports
<1>6. Waits(r, "delayed") \in Run /\ Waits(r, "delayed").row = r
      /\ Waits(r, "delayed").phase = "delayed"
  BY <1>1, BoundAssumption DEF Waits, Run
<1>7. CASE Claim(j) /\ Claimable(r)
  <2> DEFINE x == [row[r] EXCEPT !.status = "PROCESSING", !.attempts = @ + 1, !.due = FALSE]
             i == [j EXCEPT !.phase = "calling", !.n = row[r].attempts + 1,
                            !.stripe = row[r].stripe]
  <2>1. /\ x \in Row /\ x.status = "PROCESSING" /\ x.stripe = row[r].stripe
        /\ row[r].status \notin Final /\ row[r].attempts + 1 \in 0..MaxAttempts
        /\ row[r].stripe \in StripeRefunds \cup {None}
    <3>1. row[r].attempts \in 0..MaxAttempts BY <1>1 DEF Row
    <3>2. row[r].attempts < MaxAttempts /\ row[r].status \notin Final
      BY <1>7 DEF Claimable
    <3>3. row[r].attempts + 1 \in 0..MaxAttempts BY <3>1, <3>2, BoundAssumption
    <3> QED BY <1>1, <3>2, <3>3 DEF Row
  <2>2. i \in Run /\ i.row = r /\ i.phase = "calling" /\ i.stripe = row[r].stripe
    BY <1>1, <2>1 DEF Run
  <2>3. r # Request => row[r].stripe = r BY <1>1 DEF RowsAreNamed, Rows
  <2>4. row' = [row EXCEPT ![r] = x] /\ UNCHANGED reversed BY <1>7 DEF Claim
  <2>5. runs' = (runs \ {j}) \cup {i} BY <1>7 DEF Claim
  <2>6. /\ row' \in [Rows -> Row] /\ RowsAreNamed' /\ ReversedIsSettled'
        /\ ReversedIsRefunded' /\ NeverTakesMore'
    <3> HIDE DEF x
    <3> QED BY <1>2, <2>1, <2>4
  <2>7. runs' \subseteq Run /\ RunsAreNamed' /\ AnswersAreReported'
    <3>1. \A y \in Rows : row[y].status # "NONE" => row'[y].status # "NONE"
      BY <2>1, <2>4
    <3> HIDE DEF i
    <3>2. {i} \in SUBSET Run BY <2>2
    <3> QED BY <1>4, <2>2, <2>3, <2>5, <3>1, <3>2
  <2> QED BY <1>1, <1>5, <2>4, <2>6, <2>7
<1>8. CASE Retry(j) /\ row[r].status = "PROCESSING"
  <2>1. PICK x \in Row, new \in {{}, {Waits(r, "delayed")}} :
            /\ row' = [row EXCEPT ![r] = x] /\ runs' = (runs \ {j}) \cup new
            /\ x.status # "NONE" /\ x.stripe = row[r].stripe
    <3>1. CASE row[r].attempts >= MaxAttempts
      <4> DEFINE x == [row[r] EXCEPT !.status = "FAILED"]
      <4>1. x \in Row /\ x.status = "FAILED" /\ x.stripe = row[r].stripe
        BY <1>1 DEF Row
      <4>2. row' = [row EXCEPT ![r] = x] /\ runs' = (runs \ {j}) \cup {}
        BY <1>1, <1>8, <3>1, BoundAssumption DEF Retry, Row
      <4> QED BY <4>1, <4>2
    <3>2. CASE ~(row[r].attempts >= MaxAttempts)
      <4> DEFINE x == [row[r] EXCEPT !.status = "RETRY", !.due = FALSE]
      <4>1. x \in Row /\ x.status = "RETRY" /\ x.stripe = row[r].stripe
        BY <1>1 DEF Row
      <4>2. row' = [row EXCEPT ![r] = x] /\ runs' = (runs \ {j}) \cup {Waits(r, "delayed")}
        BY <1>8, <3>2 DEF Retry
      <4> QED BY <4>1, <4>2
    <3> QED BY <3>1, <3>2
  <2>2. UNCHANGED reversed BY <1>8 DEF Retry
  <2>3. /\ row' \in [Rows -> Row] /\ RowsAreNamed' /\ ReversedIsSettled'
        /\ ReversedIsRefunded' /\ NeverTakesMore'
    BY <1>2, <1>8, <2>1, <2>2
  <2>4. runs' \subseteq Run /\ RunsAreNamed' /\ AnswersAreReported'
    <3>1. \A y \in Rows : row[y].status # "NONE" => row'[y].status # "NONE"
      BY <2>1
    <3>2. new \in SUBSET Run BY <1>6
    <3> QED BY <1>4, <1>6, <2>1, <3>1, <3>2
  <2> QED BY <1>1, <1>5, <2>2, <2>3, <2>4
<1>9. CASE Record(j) /\ row[r].status \notin Final
  <2> DEFINE status == StatusFromStripe(j.status)
             x == [row[r] EXCEPT !.stripe = j.stripe, !.status = status, !.due = FALSE]
             new == IF status = "PENDING" THEN {Waits(r, "delayed")} ELSE {}
  <2>1. /\ status \in {"PENDING", "SUCCEEDED", "FAILED"}
        /\ status = "SUCCEEDED" => j.status = "succeeded"
    BY DEF StatusFromStripe
  <2>2. x \in Row /\ x.status = status /\ x.stripe = j.stripe
    BY <1>1, <2>1 DEF Row, Run
  <2>3. /\ row' = [row EXCEPT ![r] = x]
        /\ runs' = (runs \ {j}) \cup new
        /\ IF status = "SUCCEEDED" THEN ReverseForRefund(r, row[r].amount)
                                   ELSE UNCHANGED reversed
        /\ j.phase = "answered"
    BY <1>1, <1>9 DEF Record
  <2> HIDE DEF status, x
  <2>4. \A y \in Rows : row[y].status # "NONE" => row'[y].status # "NONE"
    BY <2>1, <2>2, <2>3
  <2>5. runs' \subseteq Run /\ RunsAreNamed' /\ AnswersAreReported'
    <3>1. new \in SUBSET Run BY <1>6
    <3>2. \A i \in new : i.row = r /\ i.phase = "delayed" BY <1>6
    <3> HIDE DEF new
    <3> QED BY <1>4, <2>3, <2>4, <3>1, <3>2
  <2>6. r # Request => j.stripe = r BY <1>1, <2>3 DEF RunsAreNamed
  <2>7. CASE UNCHANGED reversed
    <3>1. /\ row' \in [Rows -> Row] /\ RowsAreNamed' /\ ReversedIsSettled'
          /\ ReversedIsRefunded' /\ NeverTakesMore'
      BY <1>2, <1>9, <2>1, <2>2, <2>3, <2>6, <2>7
    <3> QED BY <1>1, <1>5, <2>5, <2>7, <3>1
  <2>8. CASE status = "SUCCEEDED"
    <3>1. row[r].amount \in 0..Price BY <1>1 DEF Row
    <3>2. /\ reversed' \in [Rows -> 0..Price]
          /\ TotalReversed' <= (IF earned THEN Earning ELSE 0)
          /\ \A y \in Rows \ {r} : reversed'[y] = reversed[y]
      BY <1>1, <2>3, <2>8, <3>1, ReversalIsCovered
    <3>3. \A y \in Rows \ {r} : row'[y] = row[y] BY <2>3
    <3>4. row' \in [Rows -> Row] /\ row'[r] = x BY <1>1, <2>2, <2>3
    <3>5. EventOf(j.stripe, "succeeded") \in events
      BY <2>1, <2>3, <2>8 DEF AnswersAreReported
    <3> HIDE DEF r
    <3>6. RowsAreNamed'
      <4>1. StripeRefunds \subseteq Rows /\ Request \notin StripeRefunds
        BY NameAssumption DEF Rows
      <4> QED BY <2>2, <2>6, <2>8, <3>3, <3>4, <4>1 DEF RowsAreNamed
    <3>7. ReversedIsSettled' BY <2>2, <2>8, <3>2, <3>3, <3>4 DEF ReversedIsSettled
    <3>8. ReversedIsRefunded'
      BY <1>1, <2>2, <3>2, <3>3, <3>4, <3>5 DEF ReversedIsRefunded, EventOf
    <3>9. NeverTakesMore' BY <1>1, <3>2 DEF NeverTakesMore
    <3> QED BY <1>1, <1>5, <2>5, <3>2, <3>4, <3>6, <3>7, <3>8, <3>9
  <2> QED BY <2>3, <2>7, <2>8
<1> QED BY <1>3, <1>7, <1>8, <1>9 DEF Claim, Record, Retry

\* The row that an event is applied to: the one about its refund, or the requested one
\* that does not know its refund yet.
LEMMA EventFindsRow ==
    ASSUME RefundsInv, NEW s \in StripeRefunds, NEW r \in Matches(s)
    PROVE  /\ r \in Rows /\ row[r].status # "NONE" /\ row[r].stripe \in {s, None}
           /\ r # Request => r = s
<1>1. r \in Rows /\ row[r].stripe \in {s, None} BY DEF Matches
<1>2. row[r].status # "NONE"
  <2>1. s # None BY NameAssumption DEF Rows
  <2> QED BY <1>1, <2>1 DEF Matches, RefundsInv, RowsAreNamed
<1>3. r # Request => r \in StripeRefunds /\ r # None BY <1>1, NameAssumption DEF Rows
<1> QED BY <1>1, <1>2, <1>3 DEF RefundsInv, RowsAreNamed

\* webhooks.apply.
LEMMA WebhookStep ==
    ASSUME RefundsInv, NEW e \in events, Webhook(e)
    PROVE  /\ RefundsInv'
           /\ \A r \in Rows : row[r].status \in Final => row'[r].status \in Final
<1> USE DEF RefundsInv, RefundsAreSound, TypeOK
<1> DEFINE s == e.refund
           next == StatusFromStripe(e.status)
           r == IF Matches(s) = {} THEN s ELSE CHOOSE x \in Matches(s) : TRUE
           found == IF Matches(s) # {} THEN row[r]
                    ELSE [status |-> "PENDING", stripe |-> s, attempts |-> 0,
                          due |-> TRUE, amount |-> stripe[s].amount]
           new == [found EXCEPT !.status = next, !.stripe = IF @ = None THEN s ELSE @]
<1>1. s \in StripeRefunds /\ e \in Event /\ s \in Rows BY DEF Event, Rows
<1>2. /\ UNCHANGED <<call, earned, runs, stripe, events>>
      /\ applied' = applied \cup {e}
      /\ IF Newer(found.status, next)
         THEN /\ row' = [row EXCEPT ![r] = new]
              /\ IF next = "SUCCEEDED" THEN ReverseForRefund(r, found.amount)
                                       ELSE UNCHANGED reversed
         ELSE UNCHANGED <<row, reversed>>
  BY DEF Webhook
<1>3. /\ next \in {"PENDING", "SUCCEEDED", "FAILED"}
      /\ next = "SUCCEEDED" => EventOf(s, "succeeded") \in events
  BY <1>1 DEF StatusFromStripe, EventOf, Event
<1>4. /\ r \in Rows /\ found \in Row /\ found.stripe \in {s, None}
      /\ found = row[r] \/ row[r].status = "NONE"
      /\ r # Request => r = s
  <2>1. CASE Matches(s) = {}
    <3>1. row[s].stripe # s BY <1>1, <2>1 DEF Matches
    <3>2. row[s].status = "NONE" BY <1>1, <3>1 DEF RowsAreNamed
    <3>3. stripe[s].amount \in 0..Price BY <1>1 DEF StripeRefund
    <3>4. found \in Row BY <1>1, <2>1, <3>3, BoundAssumption DEF Row
    <3> QED BY <1>1, <2>1, <3>2, <3>4
  <2>2. CASE Matches(s) # {}
    <3>1. r \in Matches(s) BY <2>2
    <3>2. /\ r \in Rows /\ row[r].stripe \in {s, None}
          /\ r # Request => r = s
      BY <1>1, <3>1, EventFindsRow
    <3>3. found = row[r] /\ row[r] \in Row BY <2>2, <3>2
    <3> QED BY <3>2, <3>3
  <2> QED BY <2>1, <2>2
<1> HIDE DEF found, r, next, s
<1>5. new \in Row /\ new.status = next /\ new.stripe = s
  BY <1>1, <1>3, <1>4 DEF Row
<1> HIDE DEF new
<1>6. CASE ~Newer(found.status, next)
  BY <1>2, <1>6 DEF RowsAreNamed, RunsAreNamed, ReversedIsSettled, ReversedIsRefunded,
        NeverTakesMore, TotalReversed, StripeReports, AnswersAreReported
<1>7. CASE Newer(found.status, next)
  <2>1. /\ row' = [row EXCEPT ![r] = new]
        /\ IF next = "SUCCEEDED" THEN ReverseForRefund(r, found.amount)
                                 ELSE UNCHANGED reversed
    BY <1>2, <1>7
  <2>2. \A x \in Rows \ {r} : row'[x] = row[x] BY <2>1
  <2>3. row' \in [Rows -> Row] /\ row'[r] = new BY <1>4, <1>5, <2>1
  <2>4. row[r].status \in Final => next \in Final
    BY <1>3, <1>4, <1>7 DEF Newer
  <2>5. /\ reversed' \in [Rows -> 0..Price] /\ NeverTakesMore'
        /\ \A x \in Rows \ {r} : reversed'[x] = reversed[x]
        /\ next # "SUCCEEDED" => reversed' = reversed
    <3>1. CASE next = "SUCCEEDED"
      <4>1. found.amount \in 0..Price BY <1>4 DEF Row
      <4> QED BY <1>2, <1>4, <2>1, <3>1, <4>1, ReversalIsCovered DEF NeverTakesMore
    <3>2. CASE next # "SUCCEEDED" BY <1>2, <2>1, <3>2 DEF NeverTakesMore, TotalReversed
    <3> QED BY <3>1, <3>2
  <2>6. RowsAreNamed'
    <3>1. StripeRefunds \subseteq Rows /\ Request \notin StripeRefunds
      BY NameAssumption DEF Rows
    <3> QED BY <1>3, <1>4, <1>5, <2>2, <2>3, <3>1 DEF RowsAreNamed
  <2>7. ReversedIsSettled' BY <1>3, <1>5, <2>2, <2>3, <2>4, <2>5 DEF ReversedIsSettled
  <2>8. ReversedIsRefunded'
    <3>1. ASSUME reversed'[r] > 0 PROVE EventOf(s, "succeeded") \in events
      <4>1. CASE next = "SUCCEEDED" BY <1>3, <4>1
      <4>2. CASE next # "SUCCEEDED"
        <5>1. reversed[r] > 0 BY <2>5, <3>1, <4>2
        <5>2. EventOf(row[r].stripe, "succeeded") \in events /\ row[r].status \in Final
          BY <1>4, <5>1 DEF ReversedIsRefunded, ReversedIsSettled, EventOf
        <5>3. row[r].stripe \in StripeRefunds BY <5>2 DEF Event, EventOf
        <5>4. row[r].stripe = s BY <1>4, <5>2, <5>3, NameAssumption DEF Rows
        <5> QED BY <5>2, <5>4
      <4> QED BY <4>1, <4>2
    <3> QED BY <1>2, <1>5, <2>2, <2>3, <2>5, <3>1 DEF ReversedIsRefunded, EventOf
  <2>9. RunsAreNamed'
    <3>1. \A j \in runs : j.row \in Rows BY DEF Run
    <3> QED BY <1>2, <1>3, <1>5, <2>2, <2>3, <3>1 DEF RunsAreNamed
  <2>10. StripeReports' /\ AnswersAreReported'
    BY <1>2 DEF StripeReports, AnswersAreReported
  <2>11. TypeOK' BY <1>2, <2>3, <2>5
  <2>12. \A x \in Rows : row[x].status \in Final => row'[x].status \in Final
    BY <1>5, <2>2, <2>3, <2>4
  <2> QED BY <2>5, <2>6, <2>7, <2>8, <2>9, <2>10, <2>11, <2>12
<1> QED BY <1>6, <1>7

-----------------------------------------------------------------------------
(* The theorems.                                                           *)

\* Every step keeps the invariant.
LEMMA StepKeepsInv == RefundsInv /\ [Next]_vars => RefundsInv'
<1> SUFFICES ASSUME RefundsInv, [Next]_vars PROVE RefundsInv'
  OBVIOUS
<1>1. CASE UNCHANGED vars
  BY <1>1 DEF vars, RefundsInv, RefundsAreSound, TypeOK, RowsAreNamed, RunsAreNamed,
        ReversedIsSettled, ReversedIsRefunded, NeverTakesMore, TotalReversed,
        StripeReports, AnswersAreReported
<1>2. CASE Books
  BY <1>2, QuietSteps, StripeSteps, WebhookStep DEF Books
<1>3. CASE Desk BY <1>3, StripeSteps DEF Desk
<1>4. CASE Worker BY <1>4, QuietSteps, StripeSteps, WorkerSteps DEF Worker
<1> QED BY <1>1, <1>2, <1>3, <1>4 DEF Next

\* The invariant holds before the first refund.
LEMMA RefundsInitInv == Init => RefundsInv
<1> SUFFICES ASSUME Init PROVE RefundsInv
  OBVIOUS
<1>1. TypeOK
  <2>1. NoRow \in Row BY AmountAssumption, BoundAssumption DEF NoRow, Row
  <2>2. [status |-> "none", first |-> "none", amount |-> 0] \in StripeRefund
    BY AmountAssumption DEF StripeRefund
  <2>3. 0 \in 0..Price BY AmountAssumption
  <2> QED BY <2>1, <2>2, <2>3 DEF Init, TypeOK
<1>2. TotalReversed = 0
  <2>1. \A r \in Rows : reversed[r] = 0 BY DEF Init
  <2> QED BY <2>1, FiniteRows, SumOfZeros DEF TotalReversed
<1>3. NeverTakesMore BY <1>2 DEF Init, NeverTakesMore
<1>4. RowsAreNamed BY DEF Init, RowsAreNamed, NoRow, Rows
<1> QED BY <1>1, <1>3, <1>4 DEF Init, RefundsInv, RefundsAreSound, ReversedIsRefunded,
        ReversedIsSettled, RunsAreNamed, StripeReports, AnswersAreReported

\* Whatever the price, the creator's share and the refunds support makes, and however
\* workers, retries and late or reordered events interleave: the reversals of a payment
\* never add up to more than was earned (reverseForRefund rounds each share), and a
\* reversal belongs to a refund that Stripe reported as succeeded.
THEOREM RefundsSafe == Spec => []RefundsAreSound
<1>1. RefundsInv => RefundsAreSound BY DEF RefundsInv
<1> QED BY <1>1, RefundsInitInv, StepKeepsInv, PTL DEF Spec

\* A settled refund stays settled: record keeps its hands off a final row, retry only
\* touches one that is PROCESSING, claim one that is due, and no older event reopens it.
THEOREM SettledIsFinal == Spec => SettledStaysSettled
<1> DEFINE Step == \A r \in Rows : row[r].status \in Final => row'[r].status \in Final
<1>1. RefundsInv /\ [Next]_vars => [Step]_vars
  <2> SUFFICES ASSUME RefundsInv, Next PROVE Step
    OBVIOUS
  <2> USE DEF RefundsInv, RefundsAreSound, TypeOK
  <2>1. CASE UNCHANGED row BY <2>1
  <2>2. CASE Finish BY <2>2 DEF Finish, RequestRefund
  <2>3. ASSUME NEW r \in Rows, Elapse(r) PROVE Step BY <2>3 DEF Elapse, Row
  <2>4. ASSUME NEW e \in events, Webhook(e) PROVE Step BY <2>4, WebhookStep
  <2>5. ASSUME NEW j \in runs, Claim(j) \/ Record(j) \/ Retry(j) PROVE Step
    <3>1. j.row \in Rows BY DEF Run
    <3>2. \A x \in Rows \ {j.row} : row'[x] = row[x]
      BY <2>5, <3>1 DEF Claim, Record, Retry
    <3>3. row[j.row].status \in Final => row' = row
      BY <2>5 DEF Claim, Record, Retry, Claimable
    <3> QED BY <3>1, <3>2, <3>3
  <2> QED BY <2>1, <2>2, <2>3, <2>4, <2>5
        DEF Next, Books, Desk, Worker, GoLive, Progress, Support, Sweep, CallStripe,
            CallFails, RunDies
<1>2. RefundsInv /\ [Next]_vars => RefundsInv' BY StepKeepsInv
<1> QED BY <1>1, <1>2, RefundsInitInv, PTL DEF Spec, SettledStaysSettled
=============================================================================
