-------------------------------- MODULE Money --------------------------------
(***************************************************************************)
(* The money after a call: the refund of its payment (convex/refunds.ts,   *)
(* convex/webhooks.ts) and the creators' ledger and monthly payouts        *)
(* (convex/payouts.ts), side by side.  They share nothing they change:     *)
(* what a refund takes from the ledger is an input of Payouts.             *)
(***************************************************************************)
EXTENDS Refunds, Payouts

MoneySpec == Spec /\ PayoutsSpec

\* What is settled stays settled, a refund as well as a transfer: no late answer, older
\* event or second worker takes it back.
FinalIsFinal == SettledStaysSettled /\ PaidStaysPaid
==============================================================================
