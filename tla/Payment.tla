------------------------------ MODULE Payment ------------------------------
(***************************************************************************)
(* What Bling promises a caller about one payment, without saying how: a   *)
(* hold is placed, and then either released or, once the creator has       *)
(* picked the caller, charged; a charge ends up with the creator or back   *)
(* with the caller, never both.  Hotline implements this.                  *)
(***************************************************************************)
CONSTANT Attempts

VARIABLES
    money,    \* where the payment stands
    picked    \* attempts whose caller the creator selected

States == {"unpaid", "held", "released", "charged", "earned", "refunded"}

Init == /\ money = [a \in Attempts |-> "unpaid"]
        /\ picked = {}

Move(a, from, to) ==
    /\ money[a] \in from
    /\ money' = [money EXCEPT ![a] = to]
    /\ UNCHANGED picked

Hold(a)    == Move(a, {"unpaid"}, "held")
Release(a) == Move(a, {"unpaid", "held"}, "released")
Charge(a)  == a \in picked /\ Move(a, {"held"}, "charged")
Earn(a)    == Move(a, {"charged"}, "earned")
Refund(a)  == Move(a, {"charged"}, "refunded")

\* The hold may lapse at Stripe before Bling hears of it, so a caller whose hold
\* is already gone can still be picked; they are then never charged.
Pick(a) ==
    /\ money[a] \in {"held", "released"}
    /\ picked' = picked \cup {a}
    /\ UNCHANGED money

Next == \E a \in Attempts : \/ Hold(a) \/ Release(a) \/ Pick(a)
                            \/ Charge(a) \/ Earn(a) \/ Refund(a)

Spec == Init /\ [][Next]_<<money, picked>>

=============================================================================
