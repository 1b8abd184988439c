------------------------------ MODULE MCCaller ------------------------------
(***************************************************************************)
(* A caller's page when nothing fails: no error of Stripe or the network,  *)
(* no declined card and no reload.                                         *)
(***************************************************************************)
EXTENDS CallerPage

\* One paid tier, and one key for it.
OneKey == <<"short">>
=============================================================================
