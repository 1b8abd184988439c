-------------------------------- MODULE Sums --------------------------------
(***************************************************************************)
(* Sums over finite sets: balances, totals and counts of the books are     *)
(* sums of what the rows say.  SumTheorems has the facts about them.       *)
(***************************************************************************)
EXTENDS Integers, FiniteSets, FiniteSetsExt

\* The sum of f[x] over the elements x of the finite set S.
SumOver(f, S) == MapThenSumSet(LAMBDA x : f[x], S)
=============================================================================
