------------------------------ MODULE MCRefunds ------------------------------
(***************************************************************************)
(* Refunds for TLC.  In a behaviour either the worker drives Bling's own   *)
(* refund or support refunds in the dashboard; the scene says which.       *)
(***************************************************************************)
EXTENDS Refunds, TLC

VARIABLE scene
CONSTANTS o1, o2
NoSupport == {}
TwoParts == {o1, o2}
\* Half of the price each.
Half == [o \in Outside |-> Price \div 2]

MCInit == Init /\ scene \in {"worker", "support"}
MCNext ==
    \/ Books /\ UNCHANGED scene
    \/ scene = "worker" /\ Worker /\ UNCHANGED scene
    \/ scene = "support" /\ Desk /\ UNCHANGED scene
MCSpec == MCInit /\ [][MCNext]_<<vars, scene>> /\ Fairness
=============================================================================
