----------------------------- MODULE MCAccounts -----------------------------
(***************************************************************************)
(* The payout settings of one creator, and what they show of a session.    *)
(***************************************************************************)
EXTENDS PayoutAccounts

MCSpec == AccountInit /\ [][AccountNext]_accountVars
=============================================================================
