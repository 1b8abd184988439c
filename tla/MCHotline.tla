----------------------------- MODULE MCHotline -----------------------------
(* Instances of Hotline for TLC: one free tier below one paid tier.        *)
EXTENDS Hotline, TLC

CONSTANTS v1, v2, a1, a2, c1, c2, free, vip

MCTiers == {free, vip}
MCRank == free :> 0 @@ vip :> 100

\* Two attempts of one caller, who may leave and come back.
OnePayer == a1 :> v1 @@ a2 :> v1
OneAttempt == a1 :> v1

CallSymmetry == Permutations(Calls)
=============================================================================
