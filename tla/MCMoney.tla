------------------------------- MODULE MCMoney -----------------------------
(***************************************************************************)
(* Money after the call, for TLC: the refund of a call and the monthly     *)
(* payouts.  They share nothing they change, so a behaviour follows one of *)
(* them: the scene, and the other stays as it is.  The refund is driven    *)
(* either by the worker or by support, and payouts see either changes of   *)
(* accounts, refunds and disputes or failing transfers: together they make *)
(* the state space too large.                                              *)
(***************************************************************************)
EXTENDS Money, TLC

VARIABLE scene
CONSTANTS o1, o2, c1, c2, p1, p2

\* Support refunds the price in two halves.
TwoParts == {o1, o2}
Half == [o \in Outside |-> Price \div 2]

TwoCreators == {c1, c2}
TwoPayments == {p1, p2}
OwnedBy == (p1 :> c1) @@ (p2 :> c1)
Prices == (p1 :> 3000) @@ (p2 :> 3335)
Rates == (c1 :> 1000) @@ (c2 :> 2000)
AllItems == TwoCreators \X (1..LastMonth)
SomePrices == {50, 51, 52, 99, 100, 117, 118, 200000}
SomeDays == {1, 2, 27, 28, 31}
First == {p1}
Second == {p2}
Mover == {c1}

moneyVars == <<scene, vars, payoutsVars>>

MCInit ==
    /\ Init /\ PayoutsInit
    /\ \/ scene \in {"worker", "support", "changes"} /\ order = <<c2>>
       \/ scene = "failures" /\ order = <<c1, c2>>

MCNext ==
    /\ UNCHANGED scene
    /\ \/ /\ \/ scene \in {"worker", "support"} /\ Books
             \/ scene = "worker" /\ Worker
             \/ scene = "support" /\ Desk
          /\ UNCHANGED payoutsVars
       \/ /\ \/ scene = "changes" /\ Disturbances
             \/ scene = "failures" /\ Failures
             \/ scene \in {"changes", "failures"} /\ Work
          /\ UNCHANGED vars

OfRefund == scene \in {"worker", "support"}
OfPayouts == scene \in {"changes", "failures"}

\* As Fairness of Refunds.
RefundFairness ==
    /\ \A r \in Rows :
        /\ WF_vars(OfRefund /\ Elapse(r)) /\ WF_vars(OfRefund /\ Sweep(r))
        /\ SF_vars(OfRefund /\ \E j \in runs : j.row = r /\ Claim(j))
        /\ WF_vars(OfRefund /\ \E j \in runs : j.row = r /\ RunStep(j))
    /\ WF_vars(OfRefund /\ \E e \in events : Webhook(e))

\* Scheduled mutations run; delays pass; the sweep is a cron; an action that has
\* started ends or dies, and does not die for ever before it claims.
PayoutsFairness ==
    /\ WF_payoutsVars(OfPayouts /\ FinishRuns)
    /\ WF_payoutsVars(OfPayouts /\ \E b \in reserves : ReserveBatch(b))
    /\ WF_payoutsVars(OfPayouts /\ \E i \in Items : LeaseEnds(i))
    /\ WF_payoutsVars(OfPayouts /\ \E i \in Items : SweepTransfer(i))
    /\ SF_payoutsVars(OfPayouts /\ \E j \in jobs : ClaimTransfer(j))
    /\ WF_payoutsVars(OfPayouts /\ \E j \in jobs : \/ SendTransfer(j) \/ TransferFails(j)
                                                   \/ MarkPaid(j) \/ RetryTransfer(j))

MCSpec == MCInit /\ [][MCNext]_moneyVars /\ RefundFairness /\ PayoutsFairness
=============================================================================
