---------------------------- MODULE SettingsPages ----------------------------
(***************************************************************************)
(* The settings pages: a creator's payout account and earnings chart, and  *)
(* the saved cards.  They share nothing they change.                       *)
(***************************************************************************)
EXTENDS PayoutAccounts, EarningsChart, SavedCards

SettingsSpec == AccountSpec /\ ChartSpec /\ CardsSpec

\* A creator's settings, and a caller's, hold what Stripe and the ledger hold: the payout
\* account, the chart of earnings and the saved cards, each read in one request and
\* changed in another (payouts.ts, paymentMethods.ts).
SettingsAreSound ==
    /\ AccountTypeOK /\ OneStripeAccount /\ SettledAccountIsCurrent
    /\ ChartTypeOK /\ ChartIsComplete
    /\ CardsTypeOK /\ SavedCardsAreFound /\ ListIsCurrent
=============================================================================
