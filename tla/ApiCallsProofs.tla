---------------------------- MODULE ApiCallsProofs ----------------------------
(***************************************************************************)
(* The Go API: its queue, calls and payments, for any number of viewers    *)
(* and payments, with what the handlers and the webhook agree on and that  *)
(* they implement module Payment; and what it keeps in Redis, the leases   *)
(* of those present and the index of those waiting.                        *)
(***************************************************************************)
EXTENDS ApiCalls, ApiRedis, FiniteSetTheorems, TLAPS

-----------------------------------------------------------------------------
(* The inductive invariant.                                                *)

\* A card has been accepted for the hold.
Confirmed == {"requires_capture", "succeeded", "canceled"}
Over == {"ENDED", "FAILED"}

\* What is known of a payment: its row, the events and the handlers under way never say
\* more than Stripe does, and what was captured was captured for its payer's call.
PaymentIsSound(p) ==
    /\ attempt[p] \in {"AUTHORIZED", "CAPTURING"} \/ p \in verified => intent[p] \in Confirmed
    /\ attempt[p] = "CAPTURED" => intent[p] = "succeeded"
    /\ attempt[p] = "CANCELED" => intent[p] = "canceled"
    /\ attempt[p] = "FAILED" => intent[p] = "canceled" \/ p \in declined
    /\ <<p, "succeeded">> \in events => intent[p] = "succeeded"
    /\ <<p, "canceled">> \in events => intent[p] = "canceled"
    /\ <<p, "payment_failed">> \in events => p \in declined
    /\ releasing[p] = "mark" => intent[p] = "canceled"
    /\ p \in refund \cup earning => attempt[p] = "CAPTURED"
    /\ intent[p] = "succeeded" => call[Payer[p]].pay = p

\* A selection keeps its payment until it is captured or released.
SelectionIsSound(v) ==
    /\ capturing[v] # "idle" => call[v].pay # None
    /\ capturing[v] = "complete" => intent[call[v].pay] = "succeeded"
    /\ capturing[v] = "fail" => intent[call[v].pay] = "canceled"

\* A call says what has happened to the payment it was opened with.
CallIsSound(v) ==
    /\ call[v].status = "NONE" => call[v].pay = None
    /\ call[v].status = "LIVE" => call[v].started
    /\ call[v].started => call[v].status \in Over \cup {"LIVE"}
    /\ call[v].status = "PAYMENT_PENDING" => call[v].pay # None

PaidCallIsSound(v) ==
    LET p == call[v].pay
        status == call[v].status
    IN p # None =>
        /\ Payer[p] = v
        /\ attempt[p] \notin {"NONE", "CREATED", "AUTHORIZED"}
        /\ intent[p] \in Confirmed
        /\ status \in {"CREATED", "CONNECTING", "LIVE"} => attempt[p] = "CAPTURED"
        /\ status = "PAYMENT_PENDING" => attempt[p] = "CAPTURING" \/ intent[p] = "canceled"
        /\ call[v].started <=> p \in earning
        /\ p \in refund => status \in Over

\* Where the money of an undeclined payment is after, and before, its capture.
ChargeIsTraced(v) ==
    LET p == call[v].pay
        status == call[v].status
    IN p # None /\ p \notin declined =>
        /\ intent[p] = "requires_capture" => status = "PAYMENT_PENDING" \/ show = "ENDED"
        /\ intent[p] = "succeeded" =>
            \/ p \in refund \cup earning
            \/ status \in {"CREATED", "CONNECTING"}
            \/ <<p, "succeeded">> \in events /\ (status = "PAYMENT_PENDING" \/ show = "ENDED")

EntryIsSound(v) ==
    /\ entry[v].pay # None => /\ Payer[entry[v].pay] = v
                              /\ attempt[entry[v].pay] \notin {"NONE", "CREATED"}
    /\ entry[v].status = "SELECTED" => call[v].status = "CREATED"
    /\ entry[v].status \in {"CONNECTING", "LIVE"} => call[v].status = entry[v].status
    /\ call[v].status \in {"CONNECTING", "LIVE"} => entry[v].status = call[v].status

OneIsActive ==
    \A v, w \in Viewers : call[v].status \in ActiveCall /\ call[w].status \in ActiveCall => v = w

ShowIsSound ==
    \A v \in Viewers :
        /\ show = "CREATED" => call[v].status = "NONE"
        /\ show = "ENDED" => call[v].status \notin ActiveCall /\ entry[v].status \notin ActiveEntry

CallsInv ==
    /\ CallsTypeOK
    /\ \A p \in Payments : PaymentIsSound(p)
    /\ \A v \in Viewers : /\ SelectionIsSound(v) /\ CallIsSound(v) /\ PaidCallIsSound(v)
                          /\ ChargeIsTraced(v) /\ EntryIsSound(v)
    /\ OneIsActive
    /\ ShowIsSound

-----------------------------------------------------------------------------
(* Steps that change nothing but what is known of one payment.             *)

\* The moves of a payment's row and of its intent while calls and entries stay as they are.
RowMoves(p) ==
    \/ attempt'[p] = attempt[p]
    \/ attempt[p] \in {"NONE", "CREATED"}
    \/ attempt'[p] = "CANCELED" /\ attempt[p] # "CAPTURED" /\ intent[p] = "canceled"
IntentMoves(p) ==
    \/ intent'[p] = intent[p]
    \/ intent[p] \in {"none", "requires_payment_method"}
    \/ intent[p] = "requires_capture" /\ intent'[p] = "canceled"
    \/ /\ intent[p] = "requires_capture" /\ intent'[p] = "succeeded"
       /\ <<p, "succeeded">> \in events'
DeclineMoves(p) ==
    /\ declined' \in {declined, declined \cup {p}}
    /\ p \in declined' \ declined => intent[p] = "requires_payment_method"
PaymentMoves(p) ==
    /\ UNCHANGED <<show, entry, call, refund, earning>>
    /\ \A q \in Payments \ {p} : attempt'[q] = attempt[q] /\ intent'[q] = intent[q]
    /\ RowMoves(p) /\ IntentMoves(p) /\ DeclineMoves(p) /\ events \subseteq events'

\* Such a move keeps what calls and entries say of their payments.
LEMMA MovesKeepCalls ==
    ASSUME CallsInv, NEW p \in Payments, PaymentMoves(p)
    PROVE  /\ \A v \in Viewers : /\ CallIsSound(v)' /\ PaidCallIsSound(v)'
                                 /\ ChargeIsTraced(v)' /\ EntryIsSound(v)'
           /\ OneIsActive' /\ ShowIsSound'
<1> USE DEF CallsInv, PaymentMoves
<1>1. OneIsActive' /\ ShowIsSound' BY DEF OneIsActive, ShowIsSound
<1>2. ASSUME NEW v \in Viewers
      PROVE  CallIsSound(v)' /\ PaidCallIsSound(v)' /\ ChargeIsTraced(v)' /\ EntryIsSound(v)'
  <2>1. CallIsSound(v)' BY DEF CallIsSound
  <2>2. call[v].pay \in Payments \cup {None} /\ entry[v].pay \in Payments \cup {None}
    BY DEF CallsTypeOK
  <2>3. PaidCallIsSound(v) /\ ChargeIsTraced(v) /\ EntryIsSound(v) OBVIOUS
  <2>4. PaidCallIsSound(v)' /\ ChargeIsTraced(v)'
    <3>1. CASE call[v].pay = p
      <4>1. intent[p] \in Confirmed /\ attempt[p] \notin {"NONE", "CREATED"}
        BY <2>3, <3>1, ApiCallsAssumption DEF PaidCallIsSound
      <4>2. PaidCallIsSound(v)'
        BY <2>3, <3>1, <4>1 DEF PaidCallIsSound, RowMoves, IntentMoves, Confirmed
      <4>3. declined' = declined BY <4>1 DEF DeclineMoves, Confirmed
      <4>4. ChargeIsTraced(v)'
        BY <2>3, <3>1, <4>1, <4>3 DEF ChargeIsTraced, IntentMoves, Confirmed
      <4> QED BY <4>2, <4>4
    <3>2. CASE call[v].pay # p /\ call[v].pay # None
      <4>1. call[v].pay \in Payments \ {p} BY <2>2, <3>2
      <4>2. call[v].pay \in declined' => call[v].pay \in declined
        BY <3>2 DEF DeclineMoves
      <4>3. declined \subseteq declined' BY DEF DeclineMoves
      <4> QED BY <2>3, <4>1, <4>2, <4>3 DEF PaidCallIsSound, ChargeIsTraced
    <3>3. CASE call[v].pay = None BY <3>3 DEF PaidCallIsSound, ChargeIsTraced
    <3> QED BY <3>1, <3>2, <3>3
  <2>5. EntryIsSound(v)'
    <3>1. CASE entry[v].pay = p BY <2>3, <3>1 DEF EntryIsSound, RowMoves
    <3>2. CASE entry[v].pay # p BY <2>2, <2>3, <3>2 DEF EntryIsSound
    <3> QED BY <3>1, <3>2
  <2> QED BY <2>1, <2>4, <2>5
<1> QED BY <1>1, <1>2

\* Paying and giving up a payment.
LEMMA RowSteps ==
    ASSUME CallsInv, NEW p \in Payments,
           \/ Prepare(p) \/ CreateAuthorization(p) \/ RetrieveIntent(p) \/ MarkAuthorized(p)
           \/ ReleaseCall(p) \/ MarkCanceled(p) \/ Confirm(p) \/ Decline(p) \/ HoldLapses(p)
    PROVE  CallsInv'
<1> USE DEF rows, jobs, stripe, Confirmed, IntentStatuses, EventKinds, AttemptStatuses
<1>0. CallsTypeOK /\ (\A q \in Payments : PaymentIsSound(q))
      /\ (\A v \in Viewers : SelectionIsSound(v)) BY DEF CallsInv
<1>1. ASSUME Prepare(p) PROVE CallsInv'
  <2>1. CallsTypeOK' BY <1>0, <1>1 DEF Prepare, CallsTypeOK
  <2>2. \A q \in Payments : PaymentIsSound(q)'
    BY <1>0, <1>1 DEF Prepare, PaymentIsSound, CallsTypeOK
  <2>3. \A v \in Viewers : SelectionIsSound(v)'
    BY <1>0, <1>1 DEF Prepare, SelectionIsSound, CallsTypeOK
  <2>4. PaymentMoves(p)
    BY <1>0, <1>1 DEF Prepare, PaymentMoves, RowMoves, IntentMoves, DeclineMoves,
        CallsTypeOK, PaymentIsSound
  <2> QED BY <2>1, <2>2, <2>3, <2>4, MovesKeepCalls DEF CallsInv
<1>2. ASSUME CreateAuthorization(p) PROVE CallsInv'
  <2>1. CallsTypeOK' BY <1>0, <1>2 DEF CreateAuthorization, CallsTypeOK
  <2>2. \A q \in Payments : PaymentIsSound(q)'
    BY <1>0, <1>2 DEF CreateAuthorization, PaymentIsSound, CallsTypeOK
  <2>3. \A v \in Viewers : SelectionIsSound(v)'
    BY <1>0, <1>2 DEF CreateAuthorization, SelectionIsSound, CallsTypeOK
  <2>4. PaymentMoves(p)
    BY <1>0, <1>2 DEF CreateAuthorization, PaymentMoves, RowMoves, IntentMoves, DeclineMoves,
        CallsTypeOK, PaymentIsSound
  <2> QED BY <2>1, <2>2, <2>3, <2>4, MovesKeepCalls DEF CallsInv
<1>3. ASSUME RetrieveIntent(p) PROVE CallsInv'
  <2>1. CallsTypeOK' BY <1>0, <1>3 DEF RetrieveIntent, CallsTypeOK
  <2>2. \A q \in Payments : PaymentIsSound(q)'
    BY <1>0, <1>3 DEF RetrieveIntent, PaymentIsSound, CallsTypeOK
  <2>3. \A v \in Viewers : SelectionIsSound(v)'
    BY <1>0, <1>3 DEF RetrieveIntent, SelectionIsSound, CallsTypeOK
  <2>4. PaymentMoves(p)
    BY <1>0, <1>3 DEF RetrieveIntent, PaymentMoves, RowMoves, IntentMoves, DeclineMoves,
        CallsTypeOK, PaymentIsSound
  <2> QED BY <2>1, <2>2, <2>3, <2>4, MovesKeepCalls DEF CallsInv
<1>4. ASSUME MarkAuthorized(p) PROVE CallsInv'
  <2>1. CallsTypeOK' BY <1>0, <1>4 DEF MarkAuthorized, CallsTypeOK
  <2>2. \A q \in Payments : PaymentIsSound(q)'
    BY <1>0, <1>4 DEF MarkAuthorized, PaymentIsSound, CallsTypeOK
  <2>3. \A v \in Viewers : SelectionIsSound(v)'
    BY <1>0, <1>4 DEF MarkAuthorized, SelectionIsSound, CallsTypeOK
  <2>4. PaymentMoves(p)
    BY <1>0, <1>4 DEF MarkAuthorized, PaymentMoves, RowMoves, IntentMoves, DeclineMoves,
        CallsTypeOK, PaymentIsSound
  <2> QED BY <2>1, <2>2, <2>3, <2>4, MovesKeepCalls DEF CallsInv
<1>5. ASSUME ReleaseCall(p) PROVE CallsInv'
  <2>1. CallsTypeOK' BY <1>0, <1>5 DEF ReleaseCall, Told, CancelAtStripe, CallsTypeOK
  <2>2. \A q \in Payments : PaymentIsSound(q)'
    <3>1. CASE CancelAtStripe(p)
      BY <1>0, <1>5, <3>1 DEF ReleaseCall, Told, CancelAtStripe, PaymentIsSound, CallsTypeOK
    <3>2. CASE UNCHANGED <<intent, events>> /\ releasing' = [releasing EXCEPT ![p] = "idle"]
      BY <1>0, <1>5, <3>2 DEF ReleaseCall, PaymentIsSound, CallsTypeOK
    <3> QED BY <1>5, <3>1, <3>2 DEF ReleaseCall
  <2>3. \A v \in Viewers : SelectionIsSound(v)'
    BY <1>0, <1>5 DEF ReleaseCall, Told, CancelAtStripe, SelectionIsSound, CallsTypeOK
  <2>4. PaymentMoves(p)
    BY <1>0, <1>5 DEF ReleaseCall, Told, CancelAtStripe, PaymentMoves, RowMoves, IntentMoves, DeclineMoves,
        CallsTypeOK, PaymentIsSound
  <2> QED BY <2>1, <2>2, <2>3, <2>4, MovesKeepCalls DEF CallsInv
<1>6. ASSUME MarkCanceled(p) PROVE CallsInv'
  <2>1. CallsTypeOK' BY <1>0, <1>6 DEF MarkCanceled, CallsTypeOK
  <2>2. \A q \in Payments : PaymentIsSound(q)'
    BY <1>0, <1>6 DEF MarkCanceled, PaymentIsSound, CallsTypeOK
  <2>3. \A v \in Viewers : SelectionIsSound(v)'
    BY <1>0, <1>6 DEF MarkCanceled, SelectionIsSound, CallsTypeOK
  <2>4. PaymentMoves(p)
    BY <1>0, <1>6 DEF MarkCanceled, PaymentMoves, RowMoves, IntentMoves, DeclineMoves,
        CallsTypeOK, PaymentIsSound
  <2> QED BY <2>1, <2>2, <2>3, <2>4, MovesKeepCalls DEF CallsInv
<1>7. ASSUME Confirm(p) PROVE CallsInv'
  <2>1. CallsTypeOK' BY <1>0, <1>7 DEF Confirm, CallsTypeOK
  <2>2. \A q \in Payments : PaymentIsSound(q)'
    BY <1>0, <1>7 DEF Confirm, PaymentIsSound, CallsTypeOK
  <2>3. \A v \in Viewers : SelectionIsSound(v)'
    BY <1>0, <1>7 DEF Confirm, SelectionIsSound, CallsTypeOK
  <2>4. PaymentMoves(p)
    BY <1>0, <1>7 DEF Confirm, PaymentMoves, RowMoves, IntentMoves, DeclineMoves,
        CallsTypeOK, PaymentIsSound
  <2> QED BY <2>1, <2>2, <2>3, <2>4, MovesKeepCalls DEF CallsInv
<1>8. ASSUME Decline(p) PROVE CallsInv'
  <2>1. CallsTypeOK' BY <1>0, <1>8 DEF Decline, Told, CallsTypeOK
  <2>2. \A q \in Payments : PaymentIsSound(q)'
    BY <1>0, <1>8 DEF Decline, Told, PaymentIsSound, CallsTypeOK
  <2>3. \A v \in Viewers : SelectionIsSound(v)'
    BY <1>0, <1>8 DEF Decline, Told, SelectionIsSound, CallsTypeOK
  <2>4. PaymentMoves(p)
    BY <1>0, <1>8 DEF Decline, Told, PaymentMoves, RowMoves, IntentMoves, DeclineMoves,
        CallsTypeOK, PaymentIsSound
  <2> QED BY <2>1, <2>2, <2>3, <2>4, MovesKeepCalls DEF CallsInv
<1>9. ASSUME HoldLapses(p) PROVE CallsInv'
  <2>1. CallsTypeOK' BY <1>0, <1>9 DEF HoldLapses, Told, CancelAtStripe, CallsTypeOK
  <2>2. \A q \in Payments : PaymentIsSound(q)'
    BY <1>0, <1>9 DEF HoldLapses, Told, CancelAtStripe, PaymentIsSound, CallsTypeOK
  <2>3. \A v \in Viewers : SelectionIsSound(v)'
    BY <1>0, <1>9 DEF HoldLapses, Told, CancelAtStripe, SelectionIsSound, CallsTypeOK
  <2>4. PaymentMoves(p)
    BY <1>0, <1>9 DEF HoldLapses, Told, CancelAtStripe, PaymentMoves, RowMoves, IntentMoves, DeclineMoves,
        CallsTypeOK, PaymentIsSound
  <2> QED BY <2>1, <2>2, <2>3, <2>4, MovesKeepCalls DEF CallsInv
<1> QED BY <1>1, <1>2, <1>3, <1>4, <1>5, <1>6, <1>7, <1>8, <1>9

\* Asking Stripe to capture a selected caller's payment, and dying at it.
LEMMA CaptureSteps ==
    ASSUME CallsInv,
           HandlerDies \/ \E v \in Viewers : CaptureCall(v) \/ CancelFailedCapture(v)
    PROVE  CallsInv'
<1> USE DEF rows, jobs, stripe, Confirmed, IntentStatuses, EventKinds, AttemptStatuses
<1>0. CallsTypeOK /\ (\A q \in Payments : PaymentIsSound(q))
      /\ (\A v \in Viewers : SelectionIsSound(v) /\ PaidCallIsSound(v)) BY DEF CallsInv
<1>1. ASSUME NEW v \in Viewers, CaptureCall(v) PROVE CallsInv'
  <2> DEFINE p == call[v].pay
  <2>1. p \in Payments /\ intent[p] \in Confirmed /\ Payer[p] = v
    BY <1>0, <1>1 DEF CaptureCall, SelectionIsSound, PaidCallIsSound, CallsTypeOK
  <2>6. /\ UNCHANGED <<show, entry, call, releasing, verified, declined, rows>>
        /\ capturing' \in [Viewers -> {"idle", "capture", "cancel", "fail", "complete"}]
        /\ \/ UNCHANGED <<intent, events>>
           \/ /\ intent[p] = "requires_capture" /\ intent' = [intent EXCEPT ![p] = "succeeded"]
              /\ events' = events \cup {<<p, "succeeded">>}
    <3>1. UNCHANGED <<show, entry, call, releasing, verified, declined, rows>>
      BY <1>1 DEF CaptureCall
    <3>2. capturing' \in [Viewers -> {"idle", "capture", "cancel", "fail", "complete"}]
      <4>1. \E next \in {"complete", "cancel", "fail"} :
              capturing' = [capturing EXCEPT ![v] = next]
        BY <1>1, Zenon DEF CaptureCall
      <4> QED BY <1>0, <4>1 DEF CallsTypeOK
    <3>3. \/ UNCHANGED <<intent, events>>
          \/ /\ intent[p] = "requires_capture" /\ intent' = [intent EXCEPT ![p] = "succeeded"]
             /\ events' = events \cup {<<p, "succeeded">>}
      BY <1>1, Zenon DEF CaptureCall, Told
    <3> QED BY <3>1, <3>2, <3>3
  <2>7. call[Payer[p]].pay = p BY <2>1
  <2> HIDE DEF p
  <2>2. CallsTypeOK' BY <1>0, <2>1, <2>6 DEF CallsTypeOK
  <2>3. \A q \in Payments : PaymentIsSound(q)'
    <3>1. CASE UNCHANGED <<intent, events>> BY <1>0, <2>6, <3>1 DEF PaymentIsSound
    <3>2. CASE /\ intent[p] = "requires_capture" /\ intent' = [intent EXCEPT ![p] = "succeeded"]
               /\ events' = events \cup {<<p, "succeeded">>}
      BY <1>0, <2>1, <2>6, <2>7, <3>2 DEF PaymentIsSound, CallsTypeOK
    <3> QED BY <2>6, <3>1, <3>2
  <2>4. \A w \in Viewers : SelectionIsSound(w)'
    BY <1>0, <1>1, <2>1 DEF CaptureCall, Told, SelectionIsSound, CallsTypeOK, p
  <2>5. PaymentMoves(p)
    BY <1>0, <2>1, <2>6 DEF PaymentMoves, RowMoves, IntentMoves, DeclineMoves, CallsTypeOK
  <2> QED BY <2>1, <2>2, <2>3, <2>4, <2>5, MovesKeepCalls DEF CallsInv
<1>2. ASSUME NEW v \in Viewers, CancelFailedCapture(v) PROVE CallsInv'
  <2> DEFINE p == call[v].pay
  <2>1. p \in Payments /\ intent[p] \in Confirmed /\ Payer[p] = v
    BY <1>0, <1>2 DEF CancelFailedCapture, SelectionIsSound, PaidCallIsSound, CallsTypeOK
  <2>2. CallsTypeOK' BY <1>0, <1>2, <2>1 DEF CancelFailedCapture, CancelAtStripe, Told, CallsTypeOK
  <2>3. \A q \in Payments : PaymentIsSound(q)'
    <3>1. UNCHANGED <<call, releasing, verified, declined, rows>>
      BY <1>2 DEF CancelFailedCapture
    <3>2. CASE CancelAtStripe(p)
      <4> HIDE DEF p
      <4> QED BY <1>0, <2>1, <3>1, <3>2 DEF CancelAtStripe, Told, PaymentIsSound, CallsTypeOK
    <3>3. CASE UNCHANGED <<intent, events>> BY <1>0, <3>1, <3>3 DEF PaymentIsSound
    <3> QED BY <1>2, <3>2, <3>3 DEF CancelFailedCapture
  <2>4. \A w \in Viewers : SelectionIsSound(w)'
    BY <1>0, <1>2, <2>1 DEF CancelFailedCapture, CancelAtStripe, Told, SelectionIsSound, CallsTypeOK
  <2>5. PaymentMoves(p)
    BY <1>0, <1>2, <2>1 DEF CancelFailedCapture, CancelAtStripe, Told, PaymentMoves, RowMoves,
        IntentMoves, DeclineMoves, CallsTypeOK
  <2> QED BY <2>1, <2>2, <2>3, <2>4, <2>5, MovesKeepCalls DEF CallsInv
<1>3. ASSUME HandlerDies PROVE CallsInv'
  <2>1. CallsTypeOK' BY <1>0, <1>3 DEF HandlerDies, CallsTypeOK
  <2>2. \A q \in Payments : PaymentIsSound(q)'
    BY <1>0, <1>3 DEF HandlerDies, PaymentIsSound, CallsTypeOK
  <2>3. \A w \in Viewers : SelectionIsSound(w)'
    BY <1>0, <1>3 DEF HandlerDies, SelectionIsSound, CallsTypeOK
  <2>4. UNCHANGED <<show, entry, call, rows, intent, events, declined>> BY <1>3 DEF HandlerDies
  <2> QED BY <2>1, <2>2, <2>3, <2>4
          DEF CallsInv, CallIsSound, PaidCallIsSound, ChargeIsTraced, EntryIsSound,
              OneIsActive, ShowIsSound
<1> QED BY <1>1, <1>2, <1>3

-----------------------------------------------------------------------------
(* The show and the queue.                                                 *)

\* Starting the show, and ending it with every call and entry it still has.
LEMMA ShowSteps ==
    ASSUME CallsInv, StartShow \/ EndShow PROVE CallsInv'
<1> USE DEF rows, jobs, stripe
<1>0. /\ CallsTypeOK /\ OneIsActive /\ ShowIsSound
      /\ \A q \in Payments : PaymentIsSound(q)
      /\ \A v \in Viewers : /\ SelectionIsSound(v) /\ CallIsSound(v) /\ PaidCallIsSound(v)
                            /\ ChargeIsTraced(v) /\ EntryIsSound(v)
  BY DEF CallsInv
<1>1. CASE StartShow
  <2>1. show = "CREATED" /\ show' = "LIVE" /\ UNCHANGED <<entry, call, rows, jobs, stripe>>
    BY <1>1 DEF StartShow
  <2>2. CallsTypeOK' BY <1>0, <2>1 DEF CallsTypeOK
  <2>3. ShowIsSound' BY <2>1 DEF ShowIsSound
  <2>4. \A v \in Viewers : ChargeIsTraced(v)' BY <1>0, <2>1 DEF ChargeIsTraced
  <2> QED BY <1>0, <2>1, <2>2, <2>3, <2>4
          DEF CallsInv, PaymentIsSound, SelectionIsSound, CallIsSound, PaidCallIsSound,
              EntryIsSound, OneIsActive
<1>2. CASE EndShow
  <2>1. /\ show = "LIVE" /\ show' = "ENDED"
        /\ refund' = refund \cup {call[v].pay : v \in UnopenedCalls}
        /\ UNCHANGED <<attempt, attached, claimed, earning, jobs, stripe>>
    BY <1>2 DEF EndShow
  <2>2. \A v \in Viewers :
          /\ call'[v].status = IF call[v].status \in ActiveCall THEN "ENDED" ELSE call[v].status
          /\ call'[v].pay = call[v].pay /\ call'[v].started = call[v].started
          /\ entry'[v].status = IF entry[v].status \in ActiveEntry THEN "ENDED" ELSE entry[v].status
          /\ entry'[v].pay = entry[v].pay
    BY <1>0, <1>2 DEF EndShow, ClosedByEnd, CallsTypeOK
  <2>3. \A p \in refund' : p \in refund \/ \E v \in UnopenedCalls : p = call[v].pay
    BY <2>1
  <2>4. CallsTypeOK'
    <3>1. refund' \subseteq Payments
      BY <1>0, <2>3 DEF UnopenedCalls, CallsTypeOK
    <3>2. /\ call' \in [Viewers -> [status : CallStatuses, pay : Payments \cup {None},
                                    started : BOOLEAN]]
          /\ entry' \in [Viewers -> [status : EntryStatuses, pay : Payments \cup {None}]]
      <4>1. "ENDED" \in CallStatuses /\ "ENDED" \in EntryStatuses
        BY DEF CallStatuses, EntryStatuses
      <4>2. ASSUME NEW w \in Viewers
            PROVE  /\ call[w] \in [status : CallStatuses, pay : Payments \cup {None},
                                   started : BOOLEAN]
                   /\ [call[w] EXCEPT !.status = "ENDED"]
                        \in [status : CallStatuses, pay : Payments \cup {None}, started : BOOLEAN]
                   /\ entry[w] \in [status : EntryStatuses, pay : Payments \cup {None}]
                   /\ [entry[w] EXCEPT !.status = "ENDED"]
                        \in [status : EntryStatuses, pay : Payments \cup {None}]
        BY <1>0, <4>1 DEF CallsTypeOK
      <4> QED BY <1>2, <4>2, Zenon DEF EndShow
    <3> QED BY <1>0, <2>1, <3>1, <3>2 DEF CallsTypeOK
  <2>5. \A p \in Payments : PaymentIsSound(p)'
    <3>1. \A p \in Payments : p \in refund' => p \in refund \/ attempt[p] = "CAPTURED"
      BY <2>3 DEF UnopenedCalls
    <3>2. \A p \in Payments : call'[Payer[p]].pay = call[Payer[p]].pay
      BY <2>2, ApiCallsAssumption
    <3> QED BY <1>0, <2>1, <3>1, <3>2 DEF PaymentIsSound
  <2>6. \A v \in Viewers : SelectionIsSound(v)' /\ CallIsSound(v)' /\ EntryIsSound(v)'
    BY <1>0, <2>1, <2>2
       DEF SelectionIsSound, CallIsSound, EntryIsSound, ActiveCall, ActiveEntry, Over
  <2>7. OneIsActive' /\ ShowIsSound'
    BY <2>1, <2>2 DEF OneIsActive, ShowIsSound, ActiveCall, ActiveEntry
  <2>8. ASSUME NEW v \in Viewers, call[v].pay # None
        PROVE  PaidCallIsSound(v)' /\ ChargeIsTraced(v)'
    <3> DEFINE p == call[v].pay
    <3>1. p \in Payments /\ Payer[p] = v
      BY <1>0, <2>8 DEF CallsTypeOK, PaidCallIsSound
    <3>2. \A w \in Viewers : call[w].pay = p => w = v
      BY <1>0, <2>8 DEF PaidCallIsSound
    <3>3. p \in refund' <=> p \in refund \/ v \in UnopenedCalls
      BY <2>1, <3>2 DEF UnopenedCalls
    <3>4. PaidCallIsSound(v)'
      BY <1>0, <2>1, <2>2, <3>1, <3>3
         DEF PaidCallIsSound, UnopenedCalls, ActiveCall, Over
    <3>5. call[v].status \in {"CREATED", "CONNECTING"} => p \in refund'
      BY <1>0, <2>8, <3>1, <3>3 DEF UnopenedCalls, PaidCallIsSound, CallIsSound, Over
    <3>6. ChargeIsTraced(v)'
      BY <1>0, <2>1, <2>2, <3>1, <3>3, <3>5 DEF ChargeIsTraced, ActiveCall
    <3> QED BY <3>4, <3>6
  <2>9. ASSUME NEW v \in Viewers, call[v].pay = None
        PROVE  PaidCallIsSound(v)' /\ ChargeIsTraced(v)'
    BY <2>2, <2>9 DEF PaidCallIsSound, ChargeIsTraced
  <2> QED BY <2>4, <2>5, <2>6, <2>7, <2>8, <2>9 DEF CallsInv
<1> QED BY <1>1, <1>2

\* Joining and leaving the queue.
LEMMA QueueSteps ==
    ASSUME CallsInv, NEW v \in Viewers,
           Leave(v) \/ \E p \in Payments \cup {None} : Join(v, p)
    PROVE  CallsInv'
<1> USE DEF rows, jobs, stripe
<1>0. /\ CallsTypeOK /\ OneIsActive /\ ShowIsSound
      /\ \A q \in Payments : PaymentIsSound(q)
      /\ \A w \in Viewers : /\ SelectionIsSound(w) /\ CallIsSound(w) /\ PaidCallIsSound(w)
                            /\ ChargeIsTraced(w) /\ EntryIsSound(w)
  BY DEF CallsInv
<1>1. UNCHANGED <<show, call, attempt, refund, earning, capturing, verified, stripe>>
  BY DEF Leave, Join
<1>2. /\ OneIsActive'
      /\ \A w \in Viewers : /\ SelectionIsSound(w)' /\ CallIsSound(w)'
                            /\ PaidCallIsSound(w)' /\ ChargeIsTraced(w)'
  BY <1>0, <1>1 DEF OneIsActive, SelectionIsSound, CallIsSound, PaidCallIsSound, ChargeIsTraced
<1>3. CASE Leave(v)
  <2>1. /\ entry' = [entry EXCEPT ![v].status = "LEFT"]
        /\ entry[v].status \in {"WAITING", "LEFT"}
        /\ releasing' = [p \in Payments |->
                            IF p = entry[v].pay /\ attempt[p] \notin {"CANCELED", "CAPTURED"}
                            THEN "cancel" ELSE releasing[p]]
        /\ UNCHANGED <<attached, claimed>>
    BY <1>3 DEF Leave
  <2>2. CallsTypeOK' BY <1>0, <1>1, <2>1 DEF CallsTypeOK, EntryStatuses
  <2>3. \A p \in Payments : PaymentIsSound(p)'
    BY <1>0, <1>1, <2>1 DEF PaymentIsSound
  <2>4. \A w \in Viewers : EntryIsSound(w)' BY <1>0, <1>1, <2>1 DEF EntryIsSound, CallsTypeOK
  <2>5. ShowIsSound' BY <1>0, <1>1, <2>1 DEF ShowIsSound, ActiveEntry, CallsTypeOK
  <2> QED BY <1>2, <2>2, <2>3, <2>4, <2>5 DEF CallsInv
<1>4. ASSUME NEW p \in Payments \cup {None}, Join(v, p) PROVE CallsInv'
  <2>1. /\ entry' = [entry EXCEPT ![v] = [status |-> "WAITING", pay |-> p]]
        /\ show = "LIVE" /\ entry[v].status \in {"NONE", "LEFT"}
        /\ claimed' = claimed \cup ({p} \ {None})
        /\ p # None => Payer[p] = v /\ attempt[p] = "AUTHORIZED"
        /\ UNCHANGED <<attached, releasing>>
    BY <1>4 DEF Join, Usable
  <2>2. CallsTypeOK' BY <1>0, <1>1, <2>1 DEF CallsTypeOK, EntryStatuses, ActiveEntry
  <2>3. \A q \in Payments : PaymentIsSound(q)'
    BY <1>0, <1>1, <2>1 DEF PaymentIsSound
  <2>4. \A w \in Viewers : EntryIsSound(w)' BY <1>0, <1>1, <2>1 DEF EntryIsSound, CallsTypeOK
  <2>5. ShowIsSound' BY <1>0, <1>1, <2>1 DEF ShowIsSound
  <2> QED BY <1>2, <2>2, <2>3, <2>4, <2>5 DEF CallsInv
<1> QED BY <1>3, <1>4

-----------------------------------------------------------------------------
(* Steps of one caller and their payment.                                  *)

\* What such a step leaves alone; p is the caller's payment, or None.
Elsewhere(v, p) ==
    /\ UNCHANGED <<show, intent, declined, releasing, verified, attached, claimed>>
    /\ \A w \in Viewers \ {v} : /\ call'[w] = call[w] /\ entry'[w] = entry[w]
                                /\ capturing'[w] = capturing[w]
    /\ \A q \in Payments \ {p} :
        /\ attempt'[q] = attempt[q]
        /\ q \in refund' <=> q \in refund
        /\ q \in earning' <=> q \in earning
        /\ \A kind \in EventKinds : <<q, kind>> \in events' <=> <<q, kind>> \in events
    /\ call[v].pay # None => call'[v].pay = call[v].pay

\* What is left alone stays sound, so that the caller and the payment are all there is to
\* look at.
LEMMA OneCallChanges ==
    ASSUME CallsInv, NEW v \in Viewers, NEW p \in Payments \cup {None},
           p # None => Payer[p] = v /\ PaymentIsSound(p)',
           Elsewhere(v, p), CallsTypeOK',
           SelectionIsSound(v)', CallIsSound(v)', PaidCallIsSound(v)', ChargeIsTraced(v)',
           EntryIsSound(v)',
           call'[v].status \in ActiveCall => call[v].status \in ActiveCall \/ NoActiveCall,
           show = "CREATED" => call'[v].status = "NONE",
           show = "ENDED" => call'[v].status \notin ActiveCall /\ entry'[v].status \notin ActiveEntry
    PROVE  CallsInv'
<1> USE DEF CallsInv, Elsewhere
<1>1. OneIsActive' BY DEF OneIsActive, NoActiveCall
<1>2. ShowIsSound' BY DEF ShowIsSound
<1>3. ASSUME NEW q \in Payments, q # p PROVE PaymentIsSound(q)'
  <2>1. PaymentIsSound(q) OBVIOUS
  <2>2. intent[q] = "succeeded" => call'[Payer[q]].pay = q
    BY <2>1, ApiCallsAssumption DEF PaymentIsSound
  <2> QED BY <1>3, <2>1, <2>2 DEF PaymentIsSound, EventKinds
<1>4. ASSUME NEW w \in Viewers, w # v
      PROVE  /\ SelectionIsSound(w)' /\ CallIsSound(w)' /\ PaidCallIsSound(w)'
             /\ ChargeIsTraced(w)' /\ EntryIsSound(w)'
  <2>1. /\ SelectionIsSound(w) /\ CallIsSound(w) /\ PaidCallIsSound(w)
        /\ ChargeIsTraced(w) /\ EntryIsSound(w)
    OBVIOUS
  <2>2. call'[w] = call[w] /\ entry'[w] = entry[w] /\ capturing'[w] = capturing[w]
    BY <1>4
  <2>3. call[w].pay \in Payments \cup {None} /\ entry[w].pay \in Payments \cup {None}
    BY DEF CallsTypeOK
  <2>4. call[w].pay # None => call[w].pay \in Payments \ {p}
    BY <1>4, <2>1, <2>3 DEF PaidCallIsSound
  <2>5. entry[w].pay # None => entry[w].pay \in Payments \ {p}
    BY <1>4, <2>1, <2>3 DEF EntryIsSound
  <2>6. SelectionIsSound(w)' BY <2>1, <2>2 DEF SelectionIsSound
  <2>7. CallIsSound(w)' BY <2>1, <2>2 DEF CallIsSound
  <2>8. PaidCallIsSound(w)' BY <2>1, <2>2, <2>4 DEF PaidCallIsSound
  <2>9. ChargeIsTraced(w)' BY <2>1, <2>2, <2>4 DEF ChargeIsTraced, EventKinds
  <2>10. EntryIsSound(w)' BY <2>1, <2>2, <2>5 DEF EntryIsSound
  <2> QED BY <2>6, <2>7, <2>8, <2>9, <2>10
<1>5. \A q \in Payments : PaymentIsSound(q)' BY <1>3, ApiCallsAssumption
<1>6. \A w \in Viewers : /\ SelectionIsSound(w)' /\ CallIsSound(w)' /\ PaidCallIsSound(w)'
                         /\ ChargeIsTraced(w)' /\ EntryIsSound(w)'
  BY <1>4
<1> QED BY <1>1, <1>2, <1>5, <1>6

\* What the invariant says of one caller.
LEMMA OneCaller ==
    ASSUME CallsInv, NEW v \in Viewers
    PROVE  /\ SelectionIsSound(v) /\ CallIsSound(v) /\ PaidCallIsSound(v)
           /\ ChargeIsTraced(v) /\ EntryIsSound(v)
           /\ call[v].pay \in Payments \cup {None} /\ entry[v].pay \in Payments \cup {None}
           /\ call[v].status \in CallStatuses /\ entry[v].status \in EntryStatuses
           /\ call[v].started \in BOOLEAN
           /\ call[v].pay # None => PaymentIsSound(call[v].pay) /\ Payer[call[v].pay] = v
           /\ show \in {"CREATED", "LIVE", "ENDED"}
           /\ show = "CREATED" => call[v].status = "NONE"
           /\ show = "ENDED" => call[v].status \notin ActiveCall /\ entry[v].status \notin ActiveEntry
<1>1. /\ SelectionIsSound(v) /\ CallIsSound(v) /\ PaidCallIsSound(v)
      /\ ChargeIsTraced(v) /\ EntryIsSound(v)
  BY DEF CallsInv
<1>2. /\ call[v].pay \in Payments \cup {None} /\ entry[v].pay \in Payments \cup {None}
      /\ call[v].status \in CallStatuses /\ entry[v].status \in EntryStatuses
      /\ call[v].started \in BOOLEAN /\ show \in {"CREATED", "LIVE", "ENDED"}
  BY DEF CallsInv, CallsTypeOK
<1>3. call[v].pay # None => PaymentIsSound(call[v].pay) /\ Payer[call[v].pay] = v
  BY <1>1, <1>2 DEF CallsInv, PaidCallIsSound
<1> QED BY <1>1, <1>2, <1>3 DEF CallsInv, ShowIsSound

\* applyTransition: from selected to connecting, live and over.
LEMMA TransitionStep ==
    ASSUME CallsInv, NEW v \in Viewers, NEW target \in CallStatuses, Transition(v, target)
    PROVE  CallsInv'
<1> USE DEF jobs, stripe
<1>0. PICK p \in Payments \cup {None} : p = call[v].pay BY OneCaller
<1>1. /\ CanTransition(call[v].status, target)
      /\ call' = [call EXCEPT ![v].status = target, ![v].started = @ \/ target = "LIVE"]
      /\ entry' = [entry EXCEPT ![v].status = EntryAfter(v, target)]
      /\ refund' = refund \cup (IF target \in {"ENDED", "FAILED"} /\ ~call[v].started
                                THEN RefundOf(p, attempt) ELSE {})
      /\ earning' = earning \cup (IF target = "LIVE" THEN RefundOf(p, attempt) ELSE {})
      /\ UNCHANGED <<show, attempt, attached, claimed, jobs, stripe>>
  BY <1>0 DEF Transition, ApplyTransition
<1>2. CallsTypeOK BY DEF CallsInv
<1>3. /\ call[v].status \in {"CREATED", "CONNECTING", "LIVE"}
      /\ target \in {"CONNECTING", "LIVE", "ENDED", "FAILED"}
      /\ target = "CONNECTING" => call[v].status = "CREATED"
      /\ target = "LIVE" => call[v].status = "CONNECTING"
  BY <1>1 DEF CanTransition
<1>4. RefundOf(p, attempt) = IF p # None THEN {p} ELSE {}
  BY <1>0, <1>3, OneCaller DEF RefundOf, PaidCallIsSound
<1>5. /\ call'[v].status = target /\ call'[v].pay = p
      /\ call'[v].started = (call[v].started \/ target = "LIVE")
      /\ entry'[v].status = (IF target = "FAILED" THEN "ENDED" ELSE target)
      /\ entry'[v].pay = entry[v].pay
      /\ \A w \in Viewers \ {v} : call'[w] = call[w] /\ entry'[w] = entry[w]
  BY <1>0, <1>1, <1>2 DEF CallsTypeOK, EntryAfter
<1>6. CallsTypeOK'
  <2>1. /\ call' \in [Viewers -> [status : CallStatuses, pay : Payments \cup {None},
                                  started : BOOLEAN]]
    <3> DEFINE Row == [status : CallStatuses, pay : Payments \cup {None}, started : BOOLEAN]
               new == [call[v] EXCEPT !.status = target, !.started = @ \/ target = "LIVE"]
    <3>1. call[v] \in Row BY <1>2 DEF CallsTypeOK
    <3>2. new \in Row BY <3>1
    <3>3. call' = [call EXCEPT ![v] = new] BY <1>1, <1>2 DEF CallsTypeOK
    <3>4. call \in [Viewers -> Row] BY <1>2 DEF CallsTypeOK
    <3> HIDE DEF Row, new
    <3>5. call' \in [Viewers -> Row] BY <3>2, <3>3, <3>4
    <3> QED BY <3>5 DEF Row
  <2>2. EntryAfter(v, target) \in EntryStatuses
    BY <1>3 DEF EntryAfter, EntryStatuses, ActiveEntry
  <2>3. entry' \in [Viewers -> [status : EntryStatuses, pay : Payments \cup {None}]]
    BY <1>1, <1>2, <2>2 DEF CallsTypeOK
  <2>4. refund' \subseteq Payments /\ earning' \subseteq Payments
    BY <1>1, <1>2, <1>4 DEF CallsTypeOK
  <2> QED BY <1>1, <1>2, <2>1, <2>3, <2>4 DEF CallsTypeOK
<1>7. Elsewhere(v, p) BY <1>0, <1>1, <1>4, <1>5 DEF Elsewhere
<1>8. p # None => PaymentIsSound(p)'
  <2>1. ASSUME p # None
        PROVE  PaymentIsSound(p) /\ attempt[p] = "CAPTURED" /\ Payer[p] = v
    BY <1>0, <1>3, <2>1, OneCaller DEF PaidCallIsSound
  <2>2. UNCHANGED <<attempt, intent, verified, declined, events, releasing>> BY <1>1
  <2> SUFFICES ASSUME p # None PROVE PaymentIsSound(p)' OBVIOUS
  <2>3. call'[Payer[p]].pay = p BY <1>5, <2>1
  <2>4. attempt'[p] = "CAPTURED" BY <2>1, <2>2
  <2> QED BY <2>1, <2>2, <2>3, <2>4 DEF PaymentIsSound
<1>9. CallIsSound(v)' /\ SelectionIsSound(v)'
  <2>1. CallIsSound(v)' BY <1>3, <1>5, OneCaller DEF CallIsSound, Over
  <2>2. UNCHANGED <<capturing, intent>> /\ call'[v].pay = call[v].pay BY <1>0, <1>1, <1>5
  <2>3. SelectionIsSound(v)' BY <2>2, OneCaller DEF SelectionIsSound
  <2> QED BY <2>1, <2>3
<1>10. PaidCallIsSound(v)'
  <2>1. CASE p = None BY <1>5, <2>1 DEF PaidCallIsSound
  <2>2. CASE p # None
    <3>1. /\ Payer[p] = v /\ attempt[p] = "CAPTURED" /\ intent[p] \in Confirmed
          /\ call[v].started <=> p \in earning
          /\ p \notin refund
      BY <1>0, <1>3, <2>2, OneCaller DEF PaidCallIsSound, Over
    <3>2. call'[v].started <=> p \in earning'
      <4>1. RefundOf(p, attempt) = {p} BY <1>4, <2>2
      <4>2. CASE target = "LIVE"
        <5>1. earning' = earning \cup {p} BY <1>1, <4>1, <4>2
        <5>2. call'[v].started BY <1>5, <4>2
        <5> QED BY <5>1, <5>2
      <4>3. CASE target # "LIVE"
        <5>1. earning' = earning BY <1>1, <4>3
        <5>2. call'[v].started <=> call[v].started BY <1>5, <4>3
        <5> QED BY <3>1, <5>1, <5>2
      <4> QED BY <4>2, <4>3
    <3>3. p \in refund' => target \in Over BY <1>1, <3>1 DEF Over
    <3>4. UNCHANGED <<attempt, intent>> BY <1>1
    <3> QED BY <1>3, <1>5, <3>1, <3>2, <3>3, <3>4 DEF PaidCallIsSound
  <2> QED BY <2>1, <2>2
<1>11. ChargeIsTraced(v)'
  <2>1. CASE p = None BY <1>5, <2>1 DEF ChargeIsTraced
  <2>2. CASE p # None
    <3>1. attempt[p] = "CAPTURED" /\ intent[p] = "succeeded" /\ UNCHANGED intent
      BY <1>0, <1>1, <1>3, <2>2, OneCaller DEF PaidCallIsSound, PaymentIsSound
    <3>2. p \in refund' \cup earning' \/ target = "CONNECTING"
      <4>1. call[v].started => p \in earning BY <1>0, <2>2, OneCaller DEF PaidCallIsSound
      <4>2. RefundOf(p, attempt) = {p} BY <1>4, <2>2
      <4>3. CASE target \in {"ENDED", "FAILED"} BY <1>1, <4>1, <4>2, <4>3
      <4>4. CASE target = "LIVE" BY <1>1, <4>2, <4>4
      <4> QED BY <1>3, <4>3, <4>4
    <3> QED BY <1>5, <3>1, <3>2 DEF ChargeIsTraced
  <2> QED BY <2>1, <2>2
<1>12. EntryIsSound(v)' BY <1>1, <1>3, <1>5, OneCaller DEF EntryIsSound
<1>13. call[v].status \in ActiveCall /\ show \notin {"CREATED", "ENDED"}
  BY <1>3, OneCaller DEF ActiveCall
<1>14. p # None => Payer[p] = v BY <1>0, OneCaller
<1> QED BY <1>6, <1>7, <1>8, <1>9, <1>10, <1>11, <1>12, <1>13, <1>14, OneCallChanges

\* The handlers and the webhook move a caller's call, entry and payment by their statuses.
CallRow == [status : CallStatuses, pay : Payments \cup {None}, started : BOOLEAN]
EntryRow == [status : EntryStatuses, pay : Payments \cup {None}]
Statuses(v, p, s, e, a) ==
    /\ call' = [call EXCEPT ![v].status = s]
    /\ entry' = [entry EXCEPT ![v].status = e]
    /\ attempt' = [attempt EXCEPT ![p] = a]

\* What such a move leaves in the rows.
LEMMA StatusesChange ==
    ASSUME CallsTypeOK, NEW v \in Viewers, NEW p \in Payments,
           NEW s \in CallStatuses, NEW e \in EntryStatuses, NEW a \in AttemptStatuses,
           Statuses(v, p, s, e, a)
    PROVE  /\ call' \in [Viewers -> CallRow] /\ entry' \in [Viewers -> EntryRow]
           /\ attempt' \in [Payments -> AttemptStatuses]
           /\ call'[v].status = s /\ call'[v].pay = call[v].pay
           /\ call'[v].started = call[v].started
           /\ entry'[v].status = e /\ entry'[v].pay = entry[v].pay
           /\ \A w \in Viewers \ {v} : call'[w] = call[w] /\ entry'[w] = entry[w]
           /\ attempt'[p] = a /\ \A q \in Payments \ {p} : attempt'[q] = attempt[q]
<1> DEFINE newCall == [call[v] EXCEPT !.status = s]
           newEntry == [entry[v] EXCEPT !.status = e]
<1>1. call \in [Viewers -> CallRow] /\ entry \in [Viewers -> EntryRow]
  BY DEF CallsTypeOK, CallRow, EntryRow
<1>2. /\ newCall \in CallRow /\ newCall.status = s /\ newCall.pay = call[v].pay
      /\ newCall.started = call[v].started
  <2>1. call[v] \in CallRow BY <1>1
  <2> QED BY <2>1 DEF CallRow
<1>3. newEntry \in EntryRow /\ newEntry.status = e /\ newEntry.pay = entry[v].pay
  <2>1. entry[v] \in EntryRow BY <1>1
  <2> QED BY <2>1 DEF EntryRow
<1>4. call' = [call EXCEPT ![v] = newCall] /\ entry' = [entry EXCEPT ![v] = newEntry]
  BY DEF Statuses
<1>5. attempt' \in [Payments -> AttemptStatuses] /\ attempt'[p] = a
      /\ \A q \in Payments \ {p} : attempt'[q] = attempt[q]
  BY DEF Statuses, CallsTypeOK
<1> HIDE DEF newCall, newEntry
<1> QED BY <1>1, <1>2, <1>3, <1>4, <1>5

\* A status that is written as it was changes nothing.
LEMMA SameStatuses ==
    ASSUME CallsTypeOK, NEW v \in Viewers, NEW p \in Payments
    PROVE  /\ call = [call EXCEPT ![v].status = call[v].status]
           /\ entry = [entry EXCEPT ![v].status = entry[v].status]
           /\ attempt = [attempt EXCEPT ![p] = attempt[p]]
  BY DEF CallsTypeOK

\* Select: a caller who waits, while no call is active.
LEMMA SelectStep ==
    ASSUME CallsInv, NEW v \in Viewers, Select(v)
    PROVE  CallsInv'
<1> USE DEF stripe
<1>0. CallsTypeOK BY DEF CallsInv
<1>1. /\ show = "LIVE" /\ NoActiveCall /\ entry[v].status = "WAITING"
      /\ UNCHANGED <<show, attached, claimed, refund, earning, releasing, verified, stripe>>
  BY DEF Select, Waiting
<1>2. call[v].status = "NONE" /\ call[v].pay = None /\ capturing[v] = "idle"
  <2>1. call[v].status = "NONE" BY DEF Select, SelectFree, SelectPaid, Opens
  <2> QED BY <2>1, OneCaller DEF CallIsSound, SelectionIsSound
<1>3. PICK p \in Payments \cup {None} : p = entry[v].pay BY OneCaller
<1>4. CASE SelectFree(v)
  <2>1. /\ p = None /\ UNCHANGED <<attempt, capturing>>
        /\ call' = [call EXCEPT ![v] = [status |-> "CREATED", pay |-> None, started |-> FALSE]]
        /\ entry' = [entry EXCEPT ![v].status = "SELECTED"]
    BY <1>3, <1>4 DEF SelectFree, Opens
  <2>2. /\ call'[v].status = "CREATED" /\ call'[v].pay = None /\ call'[v].started = FALSE
        /\ entry'[v].status = "SELECTED" /\ entry'[v].pay = entry[v].pay
        /\ \A w \in Viewers \ {v} : call'[w] = call[w] /\ entry'[w] = entry[w]
    BY <1>0, <2>1 DEF CallsTypeOK
  <2>3. CallsTypeOK'
    BY <1>0, <1>1, <2>1 DEF CallsTypeOK, CallStatuses, EntryStatuses, ActiveCall, ActiveEntry
  <2>4. Elsewhere(v, p) BY <1>1, <1>2, <2>1, <2>2 DEF Elsewhere
  <2>5. SelectionIsSound(v)' /\ CallIsSound(v)' /\ PaidCallIsSound(v)' /\ ChargeIsTraced(v)'
    BY <1>2, <2>1, <2>2
       DEF SelectionIsSound, CallIsSound, PaidCallIsSound, ChargeIsTraced, Over
  <2>6. EntryIsSound(v)' BY <1>1, <1>2, <2>1, <2>2, OneCaller DEF EntryIsSound
  <2> QED BY <1>1, <2>1, <2>3, <2>4, <2>5, <2>6, OneCallChanges
<1>5. CASE SelectPaid(v)
  <2>1. /\ p # None /\ attempt[p] = "AUTHORIZED" /\ UNCHANGED entry
        /\ call' = [call EXCEPT ![v] = [status |-> "PAYMENT_PENDING", pay |-> p,
                                        started |-> FALSE]]
        /\ attempt' = [attempt EXCEPT ![p] = "CAPTURING"]
        /\ capturing' = [capturing EXCEPT ![v] = "capture"]
    BY <1>3, <1>5 DEF SelectPaid, Opens
  <2>2. p \in Payments /\ Payer[p] = v /\ PaymentIsSound(p)
    BY <1>3, <2>1, OneCaller DEF EntryIsSound, CallsInv
  <2>3. /\ call'[v].status = "PAYMENT_PENDING" /\ call'[v].pay = p /\ call'[v].started = FALSE
        /\ \A w \in Viewers \ {v} : call'[w] = call[w] /\ capturing'[w] = capturing[w]
        /\ attempt'[p] = "CAPTURING" /\ capturing'[v] = "capture"
        /\ \A q \in Payments \ {p} : attempt'[q] = attempt[q]
    BY <1>0, <2>1, <2>2 DEF CallsTypeOK
  <2>4. CallsTypeOK'
    BY <1>0, <1>1, <2>1, <2>2 DEF CallsTypeOK, CallStatuses, ActiveCall, AttemptStatuses
  <2>5. Elsewhere(v, p) BY <1>1, <1>2, <2>1, <2>3 DEF Elsewhere
  <2>6. /\ intent[p] \in Confirmed \ {"succeeded"} /\ p \notin refund \cup earning
    BY <1>2, <2>1, <2>2 DEF PaymentIsSound, Confirmed
  <2>7. PaymentIsSound(p)'
    BY <1>1, <2>1, <2>2, <2>3, <2>6 DEF PaymentIsSound
  <2>8. SelectionIsSound(v)' /\ CallIsSound(v)'
    BY <2>1, <2>3 DEF SelectionIsSound, CallIsSound
  <2>9. PaidCallIsSound(v)' /\ ChargeIsTraced(v)'
    BY <1>1, <2>1, <2>2, <2>3, <2>6 DEF PaidCallIsSound, ChargeIsTraced
  <2>10. EntryIsSound(v)'
    BY <1>1, <1>3, <2>1, <2>2, <2>3, OneCaller DEF EntryIsSound
  <2> QED BY <1>1, <2>2, <2>4, <2>5, <2>7, <2>8, <2>9, <2>10, OneCallChanges
<1> QED BY <1>4, <1>5 DEF Select

\* failPaidSelection: the hold is gone, and so are the selection and the place in line.
LEMMA FailStep ==
    ASSUME CallsInv, NEW v \in Viewers, FailPaidSelection(v)
    PROVE  CallsInv'
<1> USE DEF stripe
<1>0. CallsTypeOK BY DEF CallsInv
<1>1. PICK p \in Payments \cup {None} : p = call[v].pay BY OneCaller
<1>2. /\ capturing[v] = "fail" /\ capturing' = [capturing EXCEPT ![v] = "idle"]
      /\ UNCHANGED <<show, attached, claimed, refund, earning, releasing, verified, stripe>>
  BY DEF FailPaidSelection
<1>3. /\ p \in Payments /\ p # None /\ intent[p] = "canceled" /\ Payer[p] = v
      /\ PaymentIsSound(p)
  BY <1>1, <1>2, OneCaller DEF SelectionIsSound
<1>4. /\ call[v].status \notin {"CREATED", "CONNECTING", "LIVE"}
      /\ attempt[p] # "CAPTURED" /\ attempt[p] \notin {"NONE", "CREATED", "AUTHORIZED"}
  BY <1>1, <1>3, OneCaller DEF PaidCallIsSound, PaymentIsSound
<1>5. \/ UNCHANGED <<call, attempt, entry>>
      \/ /\ entry[v].status = "WAITING"
         /\ call' = [call EXCEPT ![v].status = IF @ = "PAYMENT_PENDING" THEN "FAILED" ELSE @]
         /\ attempt' = [attempt EXCEPT ![p] = IF @ = "CAPTURING" THEN "FAILED" ELSE @]
         /\ entry' = [entry EXCEPT ![v].status = "LEFT"]
  BY <1>1 DEF FailPaidSelection
<1>6. /\ call' \in [Viewers -> CallRow] /\ entry' \in [Viewers -> EntryRow]
      /\ attempt' \in [Payments -> AttemptStatuses]
      /\ call'[v].status \in {call[v].status, "FAILED"} /\ call'[v].pay = p
      /\ call'[v].status = "PAYMENT_PENDING" => UNCHANGED <<call, attempt, entry>>
      /\ call'[v].status = "FAILED" => call[v].status \in {"PAYMENT_PENDING", "FAILED"}
      /\ call'[v].started = call[v].started
      /\ entry'[v].status \in {entry[v].status, "LEFT"} /\ entry'[v].pay = entry[v].pay
      /\ attempt'[p] \in {attempt[p], "FAILED"}
      /\ \A w \in Viewers \ {v} : /\ call'[w] = call[w] /\ entry'[w] = entry[w]
                                  /\ capturing'[w] = capturing[w]
      /\ \A q \in Payments \ {p} : attempt'[q] = attempt[q]
      /\ capturing'[v] = "idle"
  <2>1. capturing'[v] = "idle" /\ \A w \in Viewers \ {v} : capturing'[w] = capturing[w]
    BY <1>0, <1>2 DEF CallsTypeOK
  <2>2. CASE UNCHANGED <<call, attempt, entry>>
    BY <1>0, <1>1, <2>1, <2>2 DEF CallsTypeOK, CallRow, EntryRow
  <2>3. CASE ~UNCHANGED <<call, attempt, entry>>
    <3>1. PICK s \in CallStatuses :
            s = IF call[v].status = "PAYMENT_PENDING" THEN "FAILED" ELSE call[v].status
      BY OneCaller DEF CallStatuses
    <3>2. PICK a \in AttemptStatuses :
            a = IF attempt[p] = "CAPTURING" THEN "FAILED" ELSE attempt[p]
      BY <1>0, <1>3 DEF CallsTypeOK, AttemptStatuses
    <3>3. "LEFT" \in EntryStatuses BY DEF EntryStatuses
    <3>4. Statuses(v, p, s, "LEFT", a) BY <1>5, <2>3, <3>1, <3>2, Zenon DEF Statuses
    <3> QED BY <1>0, <1>1, <1>3, <2>1, <3>1, <3>2, <3>3, <3>4, StatusesChange
  <2> QED BY <2>2, <2>3
<1>7. CallsTypeOK'
  BY <1>0, <1>2, <1>6 DEF CallsTypeOK, CallRow, EntryRow
<1>8. Elsewhere(v, p) BY <1>1, <1>2, <1>6 DEF Elsewhere
<1>9. PaymentIsSound(p)'
  BY <1>1, <1>2, <1>3, <1>4, <1>6 DEF PaymentIsSound, Confirmed
<1>10. SelectionIsSound(v)' BY <1>6 DEF SelectionIsSound
<1>11. CallIsSound(v)' BY <1>1, <1>3, <1>6, OneCaller DEF CallIsSound, Over
<1>12. PaidCallIsSound(v)'
  BY <1>1, <1>2, <1>3, <1>4, <1>6, OneCaller DEF PaidCallIsSound, Over
<1>13. ChargeIsTraced(v)' BY <1>2, <1>3, <1>6 DEF ChargeIsTraced
<1>14. EntryIsSound(v)'
  <2>1. CASE entry[v].pay = p BY <1>3, <1>4, <1>6, <2>1, OneCaller DEF EntryIsSound
  <2>2. CASE entry[v].pay # p BY <1>3, <1>4, <1>6, <2>2, OneCaller DEF EntryIsSound
  <2> QED BY <2>1, <2>2
<1> QED BY <1>3, <1>6, <1>7, <1>8, <1>9, <1>10, <1>11, <1>12, <1>13, <1>14,
           OneCaller, OneCallChanges DEF ActiveCall, ActiveEntry

\* completePaidSelection: the payment was captured; the call opens, unless the show is over.
LEMMA CompleteStep ==
    ASSUME CallsInv, NEW v \in Viewers, CompletePaidSelection(v)
    PROVE  CallsInv'
<1> USE DEF stripe
<1>0. CallsTypeOK BY DEF CallsInv
<1>1. PICK p \in Payments \cup {None} : p = call[v].pay BY OneCaller
<1>2. /\ capturing[v] = "complete" /\ capturing' = [capturing EXCEPT ![v] = "idle"]
      /\ UNCHANGED <<show, attached, claimed, earning, releasing, verified, stripe>>
  BY DEF CompletePaidSelection
<1>3. /\ p \in Payments /\ p # None /\ intent[p] = "succeeded" /\ Payer[p] = v
      /\ PaymentIsSound(p)
  BY <1>1, <1>2, OneCaller DEF SelectionIsSound
<1>4. /\ attempt[p] \in {"CAPTURING", "CAPTURED", "FAILED"}
      /\ attempt[p] = "FAILED" => p \in declined
      /\ call[v].status = "PAYMENT_PENDING" => attempt[p] = "CAPTURING"
      /\ p \in refund => call[v].status \in Over /\ attempt[p] = "CAPTURED"
      /\ p \in earning => attempt[p] = "CAPTURED"
      /\ show # "CREATED"
  <2>1. attempt[p] \in AttemptStatuses BY <1>0, <1>3 DEF CallsTypeOK
  <2> QED BY <1>1, <1>3, <2>1, OneCaller
          DEF PaidCallIsSound, PaymentIsSound, CallIsSound, AttemptStatuses
<1>5. capturing'[v] = "idle" /\ (\A w \in Viewers \ {v} : capturing'[w] = capturing[w])
      /\ capturing' \in [Viewers -> {"idle", "capture", "cancel", "fail", "complete"}]
  BY <1>0, <1>2 DEF CallsTypeOK
<1>6. PICK a \in AttemptStatuses :
        a = IF attempt[p] \in {"CAPTURING", "CAPTURED"} THEN "CAPTURED" ELSE attempt[p]
  BY <1>4 DEF AttemptStatuses
<1>7. PICK s \in CallStatuses, e \in EntryStatuses, b \in AttemptStatuses :
        /\ Statuses(v, p, s, e, b)
        /\ \/ /\ show = "ENDED" /\ s = "FAILED" /\ e = entry[v].status /\ b = a
              /\ refund' = refund \cup (IF a = "CAPTURED" THEN {p} ELSE {})
           \/ /\ show = "LIVE" /\ call[v].status = "PAYMENT_PENDING" /\ s = "CREATED"
              /\ e = (IF entry[v].status = "WAITING" THEN "SELECTED" ELSE entry[v].status)
              /\ b = a /\ refund' = refund
           \/ /\ s = call[v].status /\ e = entry[v].status /\ b = attempt[p]
              /\ refund' = refund
  <2> DEFINE books == [attempt EXCEPT ![p] =
                          IF @ \in {"CAPTURING", "CAPTURED"} THEN "CAPTURED" ELSE @]
  <2>1. books = [attempt EXCEPT ![p] = a] /\ books[p] = a
    BY <1>0, <1>3, <1>6 DEF CallsTypeOK
  <2>2. /\ "FAILED" \in CallStatuses /\ "CREATED" \in CallStatuses
        /\ "SELECTED" \in EntryStatuses
        /\ call[v].status \in CallStatuses /\ entry[v].status \in EntryStatuses
        /\ attempt[p] \in AttemptStatuses
    BY <1>4, OneCaller
       DEF CallStatuses, EntryStatuses, ActiveCall, ActiveEntry, AttemptStatuses
  <2>3. CASE show # "LIVE"
    <3>1. /\ attempt' = books /\ call' = [call EXCEPT ![v].status = "FAILED"]
          /\ refund' = refund \cup RefundOf(p, books) /\ UNCHANGED entry
      BY <1>1, <2>3, Zenon DEF CompletePaidSelection
    <3>2. Statuses(v, p, "FAILED", entry[v].status, a)
      BY <1>0, <1>3, <2>1, <3>1, SameStatuses DEF Statuses
    <3>3. refund' = refund \cup (IF a = "CAPTURED" THEN {p} ELSE {})
      BY <1>3, <2>1, <3>1 DEF RefundOf
    <3>4. show = "ENDED" BY <1>4, <2>3, OneCaller
    <3> HIDE DEF books
    <3> QED BY <2>2, <3>2, <3>3, <3>4
  <2>4. CASE show = "LIVE" /\ call[v].status = "PAYMENT_PENDING"
    <3>1. /\ attempt' = books /\ call' = [call EXCEPT ![v].status = "CREATED"]
          /\ entry' = [entry EXCEPT ![v].status = IF @ = "WAITING" THEN "SELECTED" ELSE @]
          /\ UNCHANGED refund
      BY <1>1, <2>4, Zenon DEF CompletePaidSelection
    <3>2. PICK e \in EntryStatuses :
            e = IF entry[v].status = "WAITING" THEN "SELECTED" ELSE entry[v].status
      BY <2>2
    <3>3. Statuses(v, p, "CREATED", e, a) BY <2>1, <3>1, <3>2, Zenon DEF Statuses
    <3> HIDE DEF books
    <3> QED BY <2>2, <2>4, <3>1, <3>2, <3>3
  <2>5. CASE show = "LIVE" /\ call[v].status # "PAYMENT_PENDING"
    <3>1. UNCHANGED <<attempt, call, entry, refund>>
      BY <2>5 DEF CompletePaidSelection
    <3>2. Statuses(v, p, call[v].status, entry[v].status, attempt[p])
      BY <1>0, <1>3, <3>1, SameStatuses, Zenon DEF Statuses
    <3> HIDE DEF books
    <3> QED BY <2>2, <3>1, <3>2
  <2> QED BY <2>3, <2>4, <2>5
<1>8. /\ call' \in [Viewers -> CallRow] /\ entry' \in [Viewers -> EntryRow]
      /\ attempt' \in [Payments -> AttemptStatuses]
      /\ call'[v].status = s /\ call'[v].pay = p
      /\ call'[v].started = call[v].started
      /\ entry'[v].status = e /\ entry'[v].pay = entry[v].pay
      /\ \A w \in Viewers \ {v} : call'[w] = call[w] /\ entry'[w] = entry[w]
      /\ attempt'[p] = b /\ \A q \in Payments \ {p} : attempt'[q] = attempt[q]
  BY <1>0, <1>1, <1>3, <1>7, StatusesChange
<1>9. CallsTypeOK'
  <2>1. refund' \subseteq Payments BY <1>0, <1>3, <1>7 DEF CallsTypeOK
  <2> QED BY <1>0, <1>2, <1>5, <1>8, <2>1 DEF CallsTypeOK, CallRow, EntryRow
<1>10. Elsewhere(v, p)
  <2>1. \A q \in Payments \ {p} : q \in refund' <=> q \in refund BY <1>7
  <2> QED BY <1>1, <1>2, <1>5, <1>8, <2>1 DEF Elsewhere
<1>11. /\ b \in {attempt[p], "CAPTURED"} /\ (p \in refund' => b = "CAPTURED")
       /\ (p \in earning => b = "CAPTURED") /\ b \in {"CAPTURING", "CAPTURED", "FAILED"}
  BY <1>4, <1>6, <1>7
<1>12. PaymentIsSound(p)'
  BY <1>1, <1>2, <1>3, <1>8, <1>11 DEF PaymentIsSound, Confirmed
<1>13. SelectionIsSound(v)' BY <1>5 DEF SelectionIsSound
<1>14. CallIsSound(v)'
  <2>1. CallIsSound(v) BY OneCaller
  <2>2. \/ s = "FAILED"
        \/ s = "CREATED" /\ call[v].status = "PAYMENT_PENDING"
        \/ s = call[v].status
    BY <1>7
  <2>3. call[v].started \in BOOLEAN BY OneCaller
  <2> QED BY <1>1, <1>3, <1>8, <2>1, <2>2, <2>3 DEF CallIsSound, Over
<1>15. PaidCallIsSound(v)'
  BY <1>1, <1>2, <1>3, <1>4, <1>6, <1>7, <1>8, <1>11, OneCaller
     DEF PaidCallIsSound, CallIsSound, Over, Confirmed
<1>16. ChargeIsTraced(v)'
  BY <1>1, <1>2, <1>3, <1>4, <1>6, <1>7, <1>8, OneCaller DEF ChargeIsTraced
<1>17. EntryIsSound(v)'
  <2>1. entry[v].pay # None => attempt'[entry[v].pay] \notin {"NONE", "CREATED"}
    <3>1. CASE entry[v].pay = p BY <1>8, <1>11, <3>1
    <3>2. CASE entry[v].pay # p BY <1>8, <3>2, OneCaller DEF EntryIsSound
    <3> QED BY <3>1, <3>2
  <2> QED BY <1>7, <1>8, <2>1, OneCaller DEF EntryIsSound, ActiveCall, ActiveEntry
<1>18. call'[v].status \in ActiveCall => call[v].status \in ActiveCall
  BY <1>7, <1>8 DEF ActiveCall
<1>19. show = "ENDED" => call'[v].status \notin ActiveCall /\ entry'[v].status \notin ActiveEntry
  BY <1>7, <1>8, OneCaller DEF ActiveCall
<1> QED BY <1>3, <1>4, <1>9, <1>10, <1>12, <1>13, <1>14, <1>15, <1>16, <1>17, <1>18, <1>19,
           OneCallChanges

-----------------------------------------------------------------------------
(* The webhook.                                                            *)

\* What an event about p leaves alone, whether its handler dies or not.
EventMoves(p, kind) ==
    /\ UNCHANGED <<show, attached, claimed, earning, intent, declined, jobs>>
    /\ <<p, kind>> \in events /\ events' \in {events, events \ {<<p, kind>>}}

\* Capturing is confirmed: the call that waited for it opens, and one that the end of the
\* show closed is given back.
LEMMA CapturedStep ==
    ASSUME CallsInv, NEW p \in Payments, EventMoves(p, "succeeded"), ReconcileCaptured(p)
    PROVE  CallsInv'
<1> USE DEF jobs, EventMoves
<1>0. CallsTypeOK BY DEF CallsInv
<1>1. PICK v \in Viewers : v = Payer[p] BY ApiCallsAssumption
<1>2. /\ p # None /\ intent[p] = "succeeded" /\ call[v].pay = p /\ PaymentIsSound(p)
  BY <1>1, ApiCallsAssumption DEF CallsInv, PaymentIsSound
<1>3. /\ attempt[p] \in {"CAPTURING", "CAPTURED", "FAILED"}
      /\ p \in refund => call[v].status \in Over
      /\ call[v].started => p \in earning
      /\ show # "CREATED" /\ call[v].status # "NONE"
      /\ call[v].status = "PAYMENT_PENDING" => show = "LIVE" /\ ~call[v].started
      /\ show = "ENDED" => call[v].status \in Over /\ entry[v].status \notin ActiveEntry
      /\ call[v].started => call[v].status \in Over \cup {"LIVE"}
  <2>1. attempt[p] \in AttemptStatuses BY <1>0 DEF CallsTypeOK
  <2>2. call[v].status # "NONE" /\ show # "CREATED" BY <1>2, OneCaller DEF CallIsSound
  <2>3. call[v].started => call[v].status \in Over \cup {"LIVE"} BY OneCaller DEF CallIsSound
  <2>4. attempt[p] \in {"CAPTURING", "CAPTURED", "FAILED"}
    BY <1>2, <2>1, OneCaller DEF PaidCallIsSound, PaymentIsSound, AttemptStatuses
  <2>5. show = "ENDED" => call[v].status \in Over /\ entry[v].status \notin ActiveEntry
    BY <2>2, OneCaller DEF Over, CallStatuses
  <2> QED BY <1>2, <2>2, <2>3, <2>4, <2>5, OneCaller DEF PaidCallIsSound, Over
<1>4. PICK s \in CallStatuses, e \in EntryStatuses :
        /\ Statuses(v, p, s, e, "CAPTURED")
        /\ \/ call[v].status = "PAYMENT_PENDING" /\ s = "CREATED" /\ e = "SELECTED"
           \/ /\ call[v].status # "PAYMENT_PENDING"
              /\ s = call[v].status /\ e = entry[v].status
  <2>1. PICK s \in CallStatuses :
          s = IF call[v].status = "PAYMENT_PENDING" THEN "CREATED" ELSE call[v].status
    BY OneCaller DEF CallStatuses, ActiveCall
  <2>2. PICK e \in EntryStatuses :
          e = IF call[v].status = "PAYMENT_PENDING" THEN "SELECTED" ELSE entry[v].status
    BY OneCaller DEF EntryStatuses, ActiveEntry
  <2>3. attempt' = [attempt EXCEPT ![p] = "CAPTURED"] BY DEF ReconcileCaptured
  <2>4. call' = [call EXCEPT ![v].status = s]
    BY <1>1, <1>2, <1>3, <2>1 DEF ReconcileCaptured, ShouldRefund
  <2>5. entry' = [entry EXCEPT ![v].status = e]
    <3> DEFINE pending == call[v].pay = p /\ call[v].status = "PAYMENT_PENDING"
               late == call[v].pay = p /\ ShouldRefund(v)
               next == CASE late /\ entry[v].status \in ActiveEntry -> "ENDED"
                         [] pending /\ ~late -> "SELECTED"
                         [] OTHER -> entry[v].status
    <3>1. entry' = [entry EXCEPT ![v].status = next] BY <1>1, Zenon DEF ReconcileCaptured
    <3>2. late => entry[v].status \notin ActiveEntry BY <1>3, OneCaller DEF ShouldRefund
    <3>3. pending <=> call[v].status = "PAYMENT_PENDING" BY <1>2
    <3>4. pending => ~late BY <1>3 DEF ShouldRefund
    <3> HIDE DEF pending, late
    <3>5. next = e BY <2>2, <3>2, <3>3, <3>4
    <3> HIDE DEF next
    <3> QED BY <3>1, <3>5
  <2>6. Statuses(v, p, s, e, "CAPTURED") BY <2>3, <2>4, <2>5, Zenon DEF Statuses
  <2> QED BY <2>1, <2>2, <2>6
<1>5. refund' = refund \cup (IF ~call[v].started /\ show # "LIVE" THEN {p} ELSE {})
  BY <1>1, <1>2, Zenon DEF ReconcileCaptured, ShouldRefund
<1>6. /\ call' \in [Viewers -> CallRow] /\ entry' \in [Viewers -> EntryRow]
      /\ attempt' \in [Payments -> AttemptStatuses]
      /\ call'[v].status = s /\ call'[v].pay = p
      /\ call'[v].started = call[v].started
      /\ entry'[v].status = e /\ entry'[v].pay = entry[v].pay
      /\ \A w \in Viewers \ {v} : call'[w] = call[w] /\ entry'[w] = entry[w]
      /\ attempt'[p] = "CAPTURED" /\ \A q \in Payments \ {p} : attempt'[q] = attempt[q]
  <2>1. "CAPTURED" \in AttemptStatuses BY DEF AttemptStatuses
  <2> QED BY <1>0, <1>2, <1>4, <2>1, StatusesChange
<1>7. CallsTypeOK'
  <2>1. refund' \subseteq Payments /\ events' \subseteq Payments \X EventKinds
    BY <1>0, <1>5 DEF CallsTypeOK
  <2> QED BY <1>0, <1>6, <2>1 DEF CallsTypeOK, CallRow, EntryRow
<1>8. Elsewhere(v, p)
  <2>1. \A q \in Payments \ {p} :
          /\ q \in refund' <=> q \in refund
          /\ \A kind \in EventKinds : <<q, kind>> \in events' <=> <<q, kind>> \in events
    BY <1>5
  <2> QED BY <1>2, <1>6, <2>1 DEF Elsewhere
<1>9. PaymentIsSound(p)'
  <2>1. \A kind \in EventKinds : <<p, kind>> \in events' => <<p, kind>> \in events OBVIOUS
  <2> QED BY <1>1, <1>2, <1>6, <2>1 DEF PaymentIsSound, EventKinds, Confirmed
<1>10. SelectionIsSound(v)' BY <1>2, <1>6, OneCaller DEF SelectionIsSound
<1>11. CallIsSound(v)'
  <2>1. CallIsSound(v) BY OneCaller
  <2> QED BY <1>2, <1>3, <1>4, <1>6, <2>1 DEF CallIsSound, Over
<1>12. PaidCallIsSound(v)'
  <2>1. PaidCallIsSound(v) BY OneCaller
  <2> QED BY <1>1, <1>2, <1>3, <1>4, <1>5, <1>6, <2>1, OneCaller
          DEF PaidCallIsSound, Over, Confirmed
<1>13. ChargeIsTraced(v)'
  <2>1. ChargeIsTraced(v) BY OneCaller
  <2>2. CASE show = "ENDED" BY <1>2, <1>3, <1>5, <1>6, <2>2 DEF ChargeIsTraced
  <2>3. CASE show = "LIVE" BY <1>2, <1>3, <1>4, <1>5, <1>6, <2>1, <2>3 DEF ChargeIsTraced
  <2> QED BY <1>3, <2>2, <2>3, OneCaller
<1>14. EntryIsSound(v)'
  <2>1. entry[v].pay # None => attempt'[entry[v].pay] \notin {"NONE", "CREATED"}
    <3>1. CASE entry[v].pay = p BY <1>6, <3>1
    <3>2. CASE entry[v].pay # p BY <1>6, <3>2, OneCaller DEF EntryIsSound
    <3> QED BY <3>1, <3>2
  <2> QED BY <1>4, <1>6, <2>1, OneCaller DEF EntryIsSound
<1>15. call'[v].status \in ActiveCall => call[v].status \in ActiveCall
  BY <1>4, <1>6 DEF ActiveCall
<1>16. show = "ENDED" => call'[v].status \notin ActiveCall /\ entry'[v].status \notin ActiveEntry
  BY <1>3, <1>4, <1>6, OneCaller
<1> QED BY <1>1, <1>3, <1>7, <1>8, <1>9, <1>10, <1>11, <1>12, <1>13, <1>14, <1>15, <1>16,
           OneCallChanges

\* The hold is gone or a card was refused: the selection and the place in line go with it.
LEMMA NotCapturedStep ==
    ASSUME CallsInv, NEW p \in Payments, NEW status \in {"CANCELED", "FAILED"},
           EventMoves(p, IF status = "CANCELED" THEN "canceled" ELSE "payment_failed"),
           ReconcileNotCaptured(p, status)
    PROVE  CallsInv'
<1> USE DEF jobs, EventMoves
<1>0. CallsTypeOK BY DEF CallsInv
<1>1. PICK v \in Viewers : v = Payer[p] BY ApiCallsAssumption
<1>2. /\ p # None /\ PaymentIsSound(p)
      /\ status = "CANCELED" => intent[p] = "canceled"
      /\ status = "FAILED" => p \in declined
  BY ApiCallsAssumption DEF CallsInv, PaymentIsSound
<1>3. /\ \A q \in Payments \ {p} :
           \A kind \in EventKinds : <<q, kind>> \in events' <=> <<q, kind>> \in events
      /\ <<p, "succeeded">> \in events' <=> <<p, "succeeded">> \in events
      /\ \A kind \in EventKinds : <<p, kind>> \in events' => <<p, kind>> \in events
      /\ events' \subseteq Payments \X EventKinds
  BY <1>0 DEF CallsTypeOK
<1>4. CASE attempt[p] = "CAPTURED"
  <2>1. UNCHANGED <<attempt, call, entry, refund>> BY <1>4 DEF ReconcileNotCaptured
  <2>2. CallsTypeOK' BY <1>0, <1>3, <2>1 DEF CallsTypeOK
  <2>3. \A q \in Payments : PaymentIsSound(q)'
    BY <1>3, <2>1 DEF CallsInv, PaymentIsSound, EventKinds
  <2>4. \A w \in Viewers : ChargeIsTraced(w)'
    <3> SUFFICES ASSUME NEW w \in Viewers PROVE ChargeIsTraced(w)' OBVIOUS
    <3>1. ChargeIsTraced(w) /\ call[w].pay \in Payments \cup {None} BY OneCaller
    <3>2. call[w].pay # None
            => (<<call[w].pay, "succeeded">> \in events' <=> <<call[w].pay, "succeeded">> \in events)
      BY <1>3, <3>1 DEF EventKinds
    <3> QED BY <2>1, <3>1, <3>2 DEF ChargeIsTraced
  <2> QED BY <2>1, <2>2, <2>3, <2>4
          DEF CallsInv, SelectionIsSound, CallIsSound, PaidCallIsSound, EntryIsSound,
              OneIsActive, ShowIsSound
<1>5. CASE attempt[p] # "CAPTURED"
  <2>1. PICK s \in CallStatuses :
          s = IF call[v].pay = p /\ call[v].status = "PAYMENT_PENDING"
              THEN "FAILED" ELSE call[v].status
    BY OneCaller DEF CallStatuses
  <2>2. PICK e \in EntryStatuses :
          e = IF entry[v].pay = p /\ entry[v].status = "WAITING"
              THEN "LEFT" ELSE entry[v].status
    BY OneCaller DEF EntryStatuses
  <2>3. Statuses(v, p, s, e, status) /\ UNCHANGED refund
    BY <1>1, <1>5, <2>1, <2>2, Zenon DEF ReconcileNotCaptured, Statuses
  <2>4. status \in AttemptStatuses BY DEF AttemptStatuses
  <2>5. /\ call' \in [Viewers -> CallRow] /\ entry' \in [Viewers -> EntryRow]
        /\ attempt' \in [Payments -> AttemptStatuses]
        /\ call'[v].status = s /\ call'[v].pay = call[v].pay
        /\ call'[v].started = call[v].started
        /\ entry'[v].status = e /\ entry'[v].pay = entry[v].pay
        /\ \A w \in Viewers \ {v} : call'[w] = call[w] /\ entry'[w] = entry[w]
        /\ attempt'[p] = status /\ \A q \in Payments \ {p} : attempt'[q] = attempt[q]
    BY <1>0, <2>3, <2>4, StatusesChange
  <2>6. CallsTypeOK' BY <1>0, <1>3, <2>3, <2>5 DEF CallsTypeOK, CallRow, EntryRow
  <2>7. Elsewhere(v, p) BY <1>3, <2>3, <2>5 DEF Elsewhere
  <2>8. PaymentIsSound(p)'
    BY <1>1, <1>2, <1>3, <1>5, <2>3, <2>5 DEF PaymentIsSound, EventKinds
  <2>9. SelectionIsSound(v)' BY <2>5, OneCaller DEF SelectionIsSound
  <2>10. CallIsSound(v)'
    <3>1. CallIsSound(v) /\ call[v].started \in BOOLEAN BY OneCaller
    <3> QED BY <1>2, <2>1, <2>5, <3>1 DEF CallIsSound, Over
  <2>11. PaidCallIsSound(v)' /\ ChargeIsTraced(v)'
    <3>1. PaidCallIsSound(v) /\ ChargeIsTraced(v) /\ call[v].pay \in Payments \cup {None}
      BY OneCaller
    <3>2. CASE call[v].pay = p
      <4>1. PaidCallIsSound(v)'
        BY <1>1, <1>2, <1>5, <2>1, <2>3, <2>5, <3>1, <3>2 DEF PaidCallIsSound, Over
      <4>2. ChargeIsTraced(v)' BY <1>2, <2>5, <3>2 DEF ChargeIsTraced
      <4> QED BY <4>1, <4>2
    <3>3. CASE call[v].pay # p
      <4>1. call[v].pay # None => call[v].pay \in Payments \ {p} BY <3>1, <3>3
      <4>2. s = call[v].status BY <2>1, <3>3
      <4>3. PaidCallIsSound(v)' BY <2>3, <2>5, <3>1, <4>1, <4>2 DEF PaidCallIsSound
      <4>4. ChargeIsTraced(v)'
        BY <1>3, <2>3, <2>5, <3>1, <4>1, <4>2 DEF ChargeIsTraced, EventKinds
      <4> QED BY <4>3, <4>4
    <3> QED BY <3>2, <3>3
  <2>12. EntryIsSound(v)'
    <3>1. EntryIsSound(v) /\ entry[v].pay \in Payments \cup {None} BY OneCaller
    <3>2. entry[v].pay # None => attempt'[entry[v].pay] \notin {"NONE", "CREATED"}
      <4>1. CASE entry[v].pay = p BY <2>5, <4>1
      <4>2. CASE entry[v].pay # p BY <2>5, <3>1, <4>2 DEF EntryIsSound
      <4> QED BY <4>1, <4>2
    <3> QED BY <2>1, <2>2, <2>5, <3>1, <3>2 DEF EntryIsSound
  <2>13. /\ call'[v].status \in ActiveCall => call[v].status \in ActiveCall
         /\ show = "CREATED" => call'[v].status = "NONE"
         /\ show = "ENDED" => call'[v].status \notin ActiveCall
                              /\ entry'[v].status \notin ActiveEntry
    BY <2>1, <2>2, <2>5, OneCaller DEF ActiveCall, ActiveEntry
  <2> QED BY <1>1, <2>6, <2>7, <2>8, <2>9, <2>10, <2>11, <2>12, <2>13, OneCallChanges
<1> QED BY <1>4, <1>5

\* An event, answered or to be delivered again.
LEMMA EventStep ==
    ASSUME CallsInv, NEW p \in Payments, NEW kind \in EventKinds,
           Webhook(p, kind) \/ WebhookDies(p, kind)
    PROVE  CallsInv'
<1>1. ProcessEvent(p, kind) /\ EventMoves(p, kind)
  BY DEF Webhook, WebhookDies, ProcessEvent, EventMoves
<1>2. CASE kind = "succeeded" /\ ReconcileCaptured(p) BY <1>1, <1>2, CapturedStep
<1>3. CASE kind = "canceled" /\ ReconcileNotCaptured(p, "CANCELED")
  <2>1. EventMoves(p, IF "CANCELED" = "CANCELED" THEN "canceled" ELSE "payment_failed")
    BY <1>1, <1>3
  <2> QED BY <1>3, <2>1, NotCapturedStep
<1>4. CASE kind = "payment_failed" /\ ReconcileNotCaptured(p, "FAILED")
  <2>1. EventMoves(p, IF "FAILED" = "CANCELED" THEN "canceled" ELSE "payment_failed")
    BY <1>1, <1>4
  <2> QED BY <1>4, <2>1, NotCapturedStep
<1> QED BY <1>1, <1>2, <1>3, <1>4 DEF ProcessEvent

-----------------------------------------------------------------------------
(* The invariant holds, and says what ApiCalls promises.                   *)

\* A show that has just been created.
LEMMA InitHasInv == CallsInit => CallsInv
<1> SUFFICES ASSUME CallsInit PROVE CallsInv OBVIOUS
<1> USE DEF CallsInit
<1>1. CallsTypeOK
  BY DEF CallsTypeOK, EntryStatuses, CallStatuses, AttemptStatuses, IntentStatuses
<1>2. \A p \in Payments : PaymentIsSound(p) BY DEF PaymentIsSound
<1>3. \A v \in Viewers : /\ SelectionIsSound(v) /\ CallIsSound(v) /\ PaidCallIsSound(v)
                         /\ ChargeIsTraced(v) /\ EntryIsSound(v)
  BY DEF SelectionIsSound, CallIsSound, PaidCallIsSound, ChargeIsTraced, EntryIsSound
<1>4. OneIsActive /\ ShowIsSound BY DEF OneIsActive, ShowIsSound, ActiveCall
<1> QED BY <1>1, <1>2, <1>3, <1>4 DEF CallsInv

\* Every handler, event and death of a handler keeps it.
LEMMA NextKeepsInv == CallsInv /\ [CallsNext]_callsVars => CallsInv'
<1> SUFFICES ASSUME CallsInv, [CallsNext]_callsVars PROVE CallsInv' OBVIOUS
<1>1. CASE UNCHANGED callsVars
  <2>1. UNCHANGED <<show, entry, call, attempt, attached, claimed, refund, earning,
                    capturing, releasing, verified, intent, events, declined>>
    BY <1>1 DEF callsVars, rows, jobs, stripe
  <2> QED BY <2>1
          DEF CallsInv, CallsTypeOK, PaymentIsSound, SelectionIsSound, CallIsSound,
              PaidCallIsSound, ChargeIsTraced, EntryIsSound, OneIsActive, ShowIsSound
<1>2. CASE StartShow \/ EndShow BY <1>2, ShowSteps
<1>3. CASE HandlerDies BY <1>3, CaptureSteps
<1>4. CASE SelectRandom BY <1>4, SelectStep DEF SelectRandom, HighestRanked, Waiting
<1>5. ASSUME NEW p \in Payments,
             \/ Prepare(p) \/ CreateAuthorization(p) \/ RetrieveIntent(p)
             \/ MarkAuthorized(p) \/ ReleaseCall(p) \/ MarkCanceled(p)
             \/ Confirm(p) \/ Decline(p) \/ HoldLapses(p)
      PROVE  CallsInv'
  BY <1>5, RowSteps
<1>6. ASSUME NEW p \in Payments, NEW kind \in EventKinds,
             Webhook(p, kind) \/ WebhookDies(p, kind)
      PROVE  CallsInv'
  BY <1>6, EventStep
<1>7. ASSUME NEW v \in Viewers, Leave(v) \/ \E p \in Payments \cup {None} : Join(v, p)
      PROVE  CallsInv'
  BY <1>7, QueueSteps
<1>8. ASSUME NEW v \in Viewers, CaptureCall(v) \/ CancelFailedCapture(v) PROVE CallsInv'
  BY <1>8, CaptureSteps
<1>9. ASSUME NEW v \in Viewers,
             \/ Select(v) \/ FailPaidSelection(v) \/ CompletePaidSelection(v)
             \/ \E target \in CallStatuses : Transition(v, target)
      PROVE  CallsInv'
  BY <1>9, SelectStep, FailStep, CompleteStep, TransitionStep
<1> QED BY <1>1, <1>2, <1>3, <1>4, <1>5, <1>6, <1>7, <1>8, <1>9, Zenon DEF CallsNext

\* Two active calls would be one caller's.
LEMMA OneCallIsActive == CallsInv => ApiOneActiveCall
<1> SUFFICES ASSUME CallsInv PROVE ApiOneActiveCall OBVIOUS
<1> DEFINE A == {v \in Viewers : call[v].status \in ActiveCall}
<1>1. \A v, w \in A : v = w BY DEF CallsInv, OneIsActive
<1> HIDE DEF A
<1>2. ASSUME A = {} PROVE Cardinality(A) <= 1 BY <1>2, FS_EmptySet
<1>3. ASSUME A # {} PROVE Cardinality(A) <= 1
  <2>1. PICK v : v \in A BY <1>3
  <2>2. A = {v} BY <1>1, <2>1
  <2>3. Cardinality({v}) = 1 BY FS_Singleton
  <2> QED BY <2>2, <2>3
<1> QED BY <1>2, <1>3 DEF A, ApiOneActiveCall

\* What the invariant says of queue, calls, payments and Stripe together.
LEMMA InvIsSound == CallsInv => ApiCallsAreSound
<1> SUFFICES ASSUME CallsInv PROVE ApiCallsAreSound OBVIOUS
<1>1. CallsTypeOK /\ ApiOneActiveCall BY OneCallIsActive DEF CallsInv
<1>2. ApiBooksMatchStripe BY DEF CallsInv, ApiBooksMatchStripe, PaymentIsSound
<1>3. ApiOpenCallIsPaid
  <2> SUFFICES ASSUME NEW v \in Viewers, call[v].pay # None,
                      call[v].status \in {"CREATED", "CONNECTING", "LIVE"}
               PROVE  intent[call[v].pay] = "succeeded" /\ attempt[call[v].pay] = "CAPTURED"
    BY DEF ApiOpenCallIsPaid
  <2> QED BY OneCaller DEF PaidCallIsSound, PaymentIsSound
<1>4. ApiEntryFollowsCall BY DEF CallsInv, ApiEntryFollowsCall, EntryIsSound
<1>5. ApiEndedShowIsQuiet BY DEF CallsInv, ApiEndedShowIsQuiet, ShowIsSound
<1>6. ApiChargeIsSettled
  <2> SUFFICES ASSUME NEW v \in Viewers, NEW p \in Payments \ declined,
                      intent[p] = "succeeded", call[v].pay = p, <<p, "succeeded">> \notin events
               PROVE  p \in refund \cup earning \/ call[v].status \in {"CREATED", "CONNECTING"}
    BY DEF ApiChargeIsSettled
  <2> QED BY OneCaller, ApiCallsAssumption DEF ChargeIsTraced
<1> QED BY <1>1, <1>2, <1>3, <1>4, <1>5, <1>6 DEF ApiCallsAreSound

\* The queue, calls and payments of the Go API keep the invariant.
THEOREM CallsInvariant == CallsSpec => []CallsInv
<1>1. CallsInit => CallsInv BY InitHasInv
<1>2. CallsInv /\ [CallsNext]_callsVars => CallsInv' BY NextKeepsInv
<1> QED BY <1>1, <1>2, PTL DEF CallsSpec

\* internal/call, internal/payment, internal/queue and internal/show: whatever their
\* handlers interleave, and wherever one dies, one call is active at most, the books say
\* what Stripe does, an open call was paid for, entries and calls stay in step, an ended
\* show is quiet, and the charge of an undeclined payment is earned, given back or in an
\* open call once its event was processed.
THEOREM ApiCallsSafe == CallsSpec => []ApiCallsAreSound
<1>1. CallsInv => ApiCallsAreSound BY InvIsSound
<1> QED BY <1>1, CallsInvariant, PTL

-----------------------------------------------------------------------------
(* Every payment follows module Payment.                                   *)

\* The ApiMoney of a payment, by what Stripe says and by the books.
Stands == [none |-> "unpaid", requires_payment_method |-> "unpaid",
           requires_capture |-> "held", succeeded |-> "charged", canceled |-> "released"]
StandsAt(p) == IF p \in refund THEN "refunded"
               ELSE IF p \in earning THEN "earned" ELSE Stands[intent[p]]

\* Nothing is earned or refunded before Stripe captured it.
LEMMA MoneyStands ==
    CallsInv => \A p \in Payments : /\ MoneyOf(p) = StandsAt(p)
                                    /\ p \in refund \cup earning => intent[p] = "succeeded"
<1> SUFFICES ASSUME CallsInv, NEW p \in Payments
             PROVE  /\ MoneyOf(p) = StandsAt(p)
                    /\ p \in refund \cup earning => intent[p] = "succeeded"
  OBVIOUS
<1>1. p \in refund \cup earning => intent[p] = "succeeded" BY DEF CallsInv, PaymentIsSound
<1>2. intent[p] \in IntentStatuses BY DEF CallsInv, CallsTypeOK
<1> QED BY <1>1, <1>2 DEF MoneyOf, StandsAt, Stands, IntentStatuses

\* A payment that changes alone makes one step of Payment.
LEMMA OneMoves ==
    ASSUME NEW p \in Payments, NEW from, NEW to,
           MoneyOf(p) \in from, MoneyOf(p)' = to,
           \A q \in Payments \ {p} : MoneyOf(q)' = MoneyOf(q),
           ApiPicked' = ApiPicked
    PROVE  Abstract!Move(p, from, to)
<1>1. ApiMoney' = [ApiMoney EXCEPT ![p] = to] BY DEF ApiMoney
<1> QED BY <1>1 DEF Abstract!Move, ApiMoney, ApiPicked

\* Calls keep the payments they were opened with.
PaysStay == \A v \in Viewers : call'[v].pay = call[v].pay

\* A step of the handlers that no payment sees.
LEMMA NothingMoves ==
    ASSUME PaysStay, UNCHANGED <<intent, refund, earning>>
    PROVE  UNCHANGED <<ApiMoney, ApiPicked>>
<1>1. UNCHANGED ApiMoney BY DEF ApiMoney, MoneyOf
<1>2. UNCHANGED ApiPicked BY DEF ApiPicked, PaysStay
<1> QED BY <1>1, <1>2

\* A step of Stripe on one intent; it captures only what a caller was picked with.
LEMMA StripeRefines ==
    ASSUME CallsInv, NEW p \in Payments, UNCHANGED <<call, refund, earning>>,
           NEW to \in IntentStatuses, intent' = [intent EXCEPT ![p] = to],
           \/ intent[p] = "none" /\ to = "requires_payment_method"
           \/ intent[p] = "requires_payment_method" /\ to = "requires_capture"
           \/ intent[p] \in {"requires_payment_method", "requires_capture"} /\ to = "canceled"
           \/ intent[p] = "requires_capture" /\ to = "succeeded" /\ p \in ApiPicked
    PROVE  [Abstract!Next]_<<ApiMoney, ApiPicked>>
<1>1. ApiPicked' = ApiPicked BY DEF ApiPicked
<1>2. intent \in [Payments -> IntentStatuses] BY DEF CallsInv, CallsTypeOK
<1>3. intent'[p] = to /\ \A q \in Payments \ {p} : intent'[q] = intent[q] BY <1>2
<1>4. \A q \in Payments \ {p} : MoneyOf(q)' = MoneyOf(q) BY <1>3 DEF MoneyOf
<1>5. MoneyOf(p) = Stands[intent[p]] /\ p \notin refund \cup earning
  BY MoneyStands DEF StandsAt
<1>6. MoneyOf(p)' = Stands[to] BY <1>3, <1>5 DEF MoneyOf, Stands, IntentStatuses
<1>7. CASE intent[p] = "none" /\ to = "requires_payment_method"
  <2>1. MoneyOf(p)' = MoneyOf(p) BY <1>5, <1>6, <1>7 DEF Stands
  <2>2. ApiMoney' = ApiMoney BY <1>4, <2>1 DEF ApiMoney
  <2> QED BY <1>1, <2>2
<1>8. CASE intent[p] = "requires_payment_method" /\ to = "requires_capture"
  <2>1. MoneyOf(p) \in {"unpaid"} /\ MoneyOf(p)' = "held" BY <1>5, <1>6, <1>8 DEF Stands
  <2>2. Abstract!Hold(p) BY <1>1, <1>4, <2>1, OneMoves DEF Abstract!Hold
  <2> QED BY <2>2 DEF Abstract!Next
<1>9. CASE intent[p] \in {"requires_payment_method", "requires_capture"} /\ to = "canceled"
  <2>1. MoneyOf(p) \in {"unpaid", "held"} /\ MoneyOf(p)' = "released"
    BY <1>5, <1>6, <1>9 DEF Stands
  <2>2. Abstract!Release(p) BY <1>1, <1>4, <2>1, OneMoves DEF Abstract!Release
  <2> QED BY <2>2 DEF Abstract!Next
<1>10. CASE intent[p] = "requires_capture" /\ to = "succeeded" /\ p \in ApiPicked
  <2>1. MoneyOf(p) \in {"held"} /\ MoneyOf(p)' = "charged" BY <1>5, <1>6, <1>10 DEF Stands
  <2>2. Abstract!Charge(p)
    BY <1>1, <1>4, <1>10, <2>1, OneMoves DEF Abstract!Charge, ApiPicked
  <2> QED BY <2>2 DEF Abstract!Next
<1> QED BY <1>7, <1>8, <1>9, <1>10

\* A captured payment becomes an earning or a refund.
LEMMA SettleRefines ==
    ASSUME CallsInv, NEW p \in Payments, PaysStay, UNCHANGED intent, intent[p] = "succeeded",
           \/ earning' = earning /\ refund' = refund
           \/ earning' = earning /\ p \notin earning /\ refund' = refund \cup {p}
           \/ refund' = refund /\ p \notin refund /\ earning' \in {earning, earning \cup {p}}
    PROVE  [Abstract!Next]_<<ApiMoney, ApiPicked>>
<1>1. ApiPicked' = ApiPicked BY DEF ApiPicked, PaysStay
<1>2. \A q \in Payments \ {p} : MoneyOf(q)' = MoneyOf(q) BY DEF MoneyOf
<1>3. CASE MoneyOf(p)' = MoneyOf(p)
  <2>1. ApiMoney' = ApiMoney BY <1>2, <1>3 DEF ApiMoney
  <2> QED BY <1>1, <2>1
<1>4. CASE p \notin refund \cup earning /\ earning' = earning /\ refund' = refund \cup {p}
  <2>1. MoneyOf(p) \in {"charged"} /\ MoneyOf(p)' = "refunded" BY <1>4 DEF MoneyOf
  <2>2. Abstract!Refund(p) BY <1>1, <1>2, <2>1, OneMoves DEF Abstract!Refund
  <2> QED BY <2>2 DEF Abstract!Next
<1>5. CASE p \notin refund \cup earning /\ refund' = refund /\ earning' = earning \cup {p}
  <2>1. MoneyOf(p) \in {"charged"} /\ MoneyOf(p)' = "earned" BY <1>5 DEF MoneyOf
  <2>2. Abstract!Earn(p) BY <1>1, <1>2, <2>1, OneMoves DEF Abstract!Earn
  <2> QED BY <2>2 DEF Abstract!Next
<1>6. \/ MoneyOf(p)' = MoneyOf(p)
      \/ p \notin refund \cup earning /\ earning' = earning /\ refund' = refund \cup {p}
      \/ p \notin refund \cup earning /\ refund' = refund /\ earning' = earning \cup {p}
  <2>1. CASE p \in refund BY <2>1 DEF MoneyOf
  <2>2. CASE p \in earning \ refund BY <2>2 DEF MoneyOf
  <2>3. CASE p \notin refund \cup earning BY <2>3 DEF MoneyOf
  <2> QED BY <2>1, <2>2, <2>3
<1> QED BY <1>3, <1>4, <1>5, <1>6

\* What was earned was earned by its call, which has been LIVE.
LEMMA EarnedHasStarted ==
    ASSUME CallsInv, NEW p \in earning
    PROVE  p \in Payments /\ call[Payer[p]].pay = p /\ call[Payer[p]].started
<1>1. p \in Payments BY DEF CallsInv, CallsTypeOK
<1>2. Payer[p] \in Viewers BY <1>1, ApiCallsAssumption
<1>3. call[Payer[p]].pay = p BY <1>1 DEF CallsInv, PaymentIsSound
<1>4. p # None BY <1>1, ApiCallsAssumption
<1> QED BY <1>1, <1>2, <1>3, <1>4 DEF CallsInv, PaidCallIsSound

\* Selecting a paid caller is the pick of Payment; the hold was placed, though it may have
\* lapsed since.
LEMMA SelectRefines ==
    ASSUME CallsInv, NEW v \in Viewers, Select(v)
    PROVE  [Abstract!Next]_<<ApiMoney, ApiPicked>>
<1>0. CallsTypeOK BY DEF CallsInv
<1>1. ApiMoney' = ApiMoney BY DEF Select, stripe, ApiMoney, MoneyOf
<1>2. call[v].pay = None
  <2>1. call[v].status = "NONE" BY DEF Select, SelectFree, SelectPaid, Opens
  <2> QED BY <2>1, OneCaller DEF CallIsSound
<1>3. PICK p \in Payments \cup {None} : p = entry[v].pay BY OneCaller
<1>4. call'[v].pay = p /\ \A w \in Viewers \ {v} : call'[w].pay = call[w].pay
  <2>1. PICK status \in {"CREATED", "PAYMENT_PENDING"} :
          call' = [call EXCEPT ![v] = [status |-> status, pay |-> p, started |-> FALSE]]
    BY <1>3 DEF Select, SelectFree, SelectPaid, Opens
  <2> QED BY <1>0, <2>1 DEF CallsTypeOK
<1>5. CASE SelectFree(v)
  <2>1. p = None BY <1>3, <1>5 DEF SelectFree
  <2>2. ApiPicked' = ApiPicked BY <1>2, <1>4, <2>1 DEF ApiPicked
  <2> QED BY <1>1, <2>2
<1>6. CASE SelectPaid(v)
  <2>1. p # None /\ attempt[p] = "AUTHORIZED" BY <1>3, <1>6 DEF SelectPaid
  <2>2. p \in Payments /\ Payer[p] = v /\ PaymentIsSound(p)
    BY <1>3, <2>1, OneCaller DEF EntryIsSound, CallsInv
  <2>3. intent[p] \in {"requires_capture", "canceled"}
    BY <1>2, <2>1, <2>2 DEF PaymentIsSound, Confirmed
  <2>4. MoneyOf(p) \in {"held", "released"}
    BY <2>2, <2>3, MoneyStands DEF StandsAt, Stands
  <2>5. ApiPicked' = ApiPicked \cup {p} BY <1>2, <1>4, <2>1, <2>2, ApiCallsAssumption DEF ApiPicked
  <2>6. Abstract!Pick(p) BY <1>1, <2>2, <2>4, <2>5 DEF Abstract!Pick, ApiMoney, ApiPicked
  <2> QED BY <2>2, <2>6 DEF Abstract!Next
<1> QED BY <1>5, <1>6 DEF Select

\* The end of the show gives back at most one payment: one call is active at most.
LEMMA EndRefines ==
    ASSUME CallsInv, EndShow
    PROVE  [Abstract!Next]_<<ApiMoney, ApiPicked>>
<1>0. CallsTypeOK BY DEF CallsInv
<1>1. UNCHANGED <<earning, intent>> /\ refund' = refund \cup {call[v].pay : v \in UnopenedCalls}
  BY DEF EndShow, stripe
<1>2. PaysStay BY <1>0 DEF EndShow, PaysStay, CallsTypeOK
<1>3. CASE UnopenedCalls = {}
  <2>1. refund' = refund BY <1>1, <1>3
  <2> QED BY <1>1, <1>2, <2>1, NothingMoves
<1>4. CASE UnopenedCalls # {}
  <2>1. PICK v \in UnopenedCalls : TRUE BY <1>4
  <2>2. UnopenedCalls = {v} BY <2>1 DEF UnopenedCalls, CallsInv, OneIsActive, ActiveCall
  <2>3. PICK p : p = call[v].pay OBVIOUS
  <2>4. p \in Payments /\ intent[p] = "succeeded"
    BY <2>1, <2>3, OneCaller DEF UnopenedCalls, PaymentIsSound
  <2>5. refund' = refund \cup {p} BY <1>1, <2>2, <2>3
  <2>6. p \notin earning BY <2>1, <2>3, <2>4, OneCaller DEF UnopenedCalls, PaidCallIsSound
  <2> QED BY <1>1, <1>2, <2>4, <2>5, <2>6, SettleRefines
<1> QED BY <1>3, <1>4

\* A call that goes LIVE earns its payment; one that is over before gives it back.
LEMMA TransitionRefines ==
    ASSUME CallsInv, NEW v \in Viewers, NEW target \in CallStatuses, Transition(v, target)
    PROVE  [Abstract!Next]_<<ApiMoney, ApiPicked>>
<1>0. CallsTypeOK BY DEF CallsInv
<1>1. PICK p \in Payments \cup {None} : p = call[v].pay BY OneCaller
<1>2. /\ call[v].status \in {"CREATED", "CONNECTING", "LIVE"}
      /\ refund' = refund \cup (IF target \in {"ENDED", "FAILED"} /\ ~call[v].started
                                THEN RefundOf(p, attempt) ELSE {})
      /\ earning' = earning \cup (IF target = "LIVE" THEN RefundOf(p, attempt) ELSE {})
      /\ UNCHANGED intent
  BY <1>1 DEF Transition, ApplyTransition, CanTransition, stripe
<1>3. PaysStay
  <2>1. call' = [call EXCEPT ![v].status = target, ![v].started = @ \/ target = "LIVE"]
    BY DEF Transition, ApplyTransition
  <2> QED BY <1>0, <2>1 DEF PaysStay, CallsTypeOK
<1>4. CASE p = None
  <2>1. RefundOf(p, attempt) = {} BY <1>4 DEF RefundOf
  <2>2. UNCHANGED <<refund, earning>> BY <1>2, <2>1
  <2> QED BY <1>2, <1>3, <2>2, NothingMoves
<1>5. CASE p # None
  <2>1. p \in Payments /\ intent[p] = "succeeded" /\ p \notin refund
    BY <1>1, <1>2, <1>5, OneCaller DEF PaidCallIsSound, PaymentIsSound, Over
  <2>2. RefundOf(p, attempt) \in {{}, {p}} BY DEF RefundOf
  <2>3. ~call[v].started => p \notin earning
    BY <1>1, <1>5, OneCaller DEF PaidCallIsSound
  <2>4. \/ earning' = earning /\ refund' = refund
        \/ earning' = earning /\ p \notin earning /\ refund' = refund \cup {p}
        \/ refund' = refund /\ earning' \in {earning, earning \cup {p}}
    BY <1>2, <2>2, <2>3
  <2> QED BY <1>2, <1>3, <2>1, <2>4, SettleRefines
<1> QED BY <1>4, <1>5

\* What was captured after the show had ended is given back by its event, unless it was
\* earned.
LEMMA EventRefines ==
    ASSUME CallsInv, NEW p \in Payments, NEW kind \in EventKinds, ProcessEvent(p, kind)
    PROVE  [Abstract!Next]_<<ApiMoney, ApiPicked>>
<1>0. CallsTypeOK BY DEF CallsInv
<1>1. UNCHANGED <<earning, intent>> BY DEF ProcessEvent
<1>2. CASE kind = "succeeded" /\ ReconcileCaptured(p)
  <2>1. intent[p] = "succeeded" BY <1>2 DEF ProcessEvent, CallsInv, PaymentIsSound
  <2>2. \/ refund' = refund
        \/ refund' = refund \cup {p} /\ ~call[Payer[p]].started
    BY <1>2 DEF ReconcileCaptured, ShouldRefund
  <2>3. PaysStay BY <1>0, <1>2 DEF ReconcileCaptured, PaysStay, CallsTypeOK
  <2> QED BY <1>1, <2>1, <2>2, <2>3, SettleRefines, EarnedHasStarted
<1>3. ASSUME NEW status, ReconcileNotCaptured(p, status)
      PROVE  [Abstract!Next]_<<ApiMoney, ApiPicked>>
  <2>1. refund' = refund BY <1>3 DEF ReconcileNotCaptured
  <2>2. PaysStay BY <1>0, <1>3 DEF ReconcileNotCaptured, PaysStay, CallsTypeOK
  <2> QED BY <1>1, <2>1, <2>2, NothingMoves
<1> QED BY <1>2, <1>3 DEF ProcessEvent

\* The handler gives back what was captured after the show had ended, earned or not.
LEMMA CompleteRefines ==
    ASSUME CallsInv, NEW v \in Viewers, CompletePaidSelection(v)
    PROVE  [Abstract!Next \/ TakesBack]_<<ApiMoney, ApiPicked>>
<1>0. CallsTypeOK BY DEF CallsInv
<1>1. PICK p : p = call[v].pay OBVIOUS
<1>2. p \in Payments /\ intent[p] = "succeeded" /\ capturing[v] = "complete"
  BY <1>1, OneCaller DEF CompletePaidSelection, SelectionIsSound
<1>3. /\ UNCHANGED <<earning, intent>>
      /\ refund' = refund \/ (show # "LIVE" /\ refund' = refund \cup {p})
  BY <1>1 DEF CompletePaidSelection, RefundOf, stripe
<1>4. PaysStay BY <1>0 DEF CompletePaidSelection, PaysStay, CallsTypeOK
<1>5. CASE p \in earning \ refund /\ show # "LIVE" /\ refund' = refund \cup {p}
  <2>1. \A q \in Payments \ {p} : MoneyOf(q)' = MoneyOf(q) BY <1>3, <1>5 DEF MoneyOf
  <2>2. MoneyOf(p) \in {"earned"} /\ MoneyOf(p)' = "refunded"
    BY <1>2, <1>3, <1>5 DEF MoneyOf
  <2>3. ApiPicked' = ApiPicked BY <1>4 DEF ApiPicked, PaysStay
  <2>4. Abstract!Move(p, {"earned"}, "refunded") BY <1>2, <2>1, <2>2, <2>3, OneMoves
  <2>5. show = "ENDED"
    <3>1. show # "CREATED"
      BY <1>2, <1>1, ApiCallsAssumption DEF CallsInv, ShowIsSound, CallIsSound
    <3> QED BY <1>0, <1>5, <3>1 DEF CallsTypeOK
  <2>6. TakesBack BY <1>1, <1>2, <2>4, <2>5 DEF TakesBack
  <2> QED BY <2>6
<1>6. CASE ~(p \in earning \ refund /\ show # "LIVE" /\ refund' = refund \cup {p})
  <2>1. \/ refund' = refund
        \/ p \notin earning /\ refund' = refund \cup {p}
    BY <1>3, <1>6
  <2>2. [Abstract!Next]_<<ApiMoney, ApiPicked>> BY <1>2, <1>3, <1>4, <2>1, SettleRefines
  <2> QED BY <2>2
<1> QED BY <1>5, <1>6

\* Asking Stripe to capture or to release, and what the caller and time do to a hold.
LEMMA IntentRefines ==
    ASSUME CallsInv,
           \/ \E p \in Payments : \/ CreateAuthorization(p) \/ ReleaseCall(p)
                                  \/ Confirm(p) \/ HoldLapses(p)
           \/ \E v \in Viewers : CaptureCall(v) \/ CancelFailedCapture(v)
    PROVE  [Abstract!Next]_<<ApiMoney, ApiPicked>>
<1> USE DEF rows, stripe, IntentStatuses
<1>0. UNCHANGED <<call, refund, earning>>
  BY DEF CreateAuthorization, ReleaseCall, Confirm, HoldLapses, CaptureCall,
         CancelFailedCapture
<1>1. ASSUME UNCHANGED intent PROVE [Abstract!Next]_<<ApiMoney, ApiPicked>>
  BY <1>0, <1>1, NothingMoves DEF PaysStay
<1>2. ASSUME NEW p \in Payments, CancelAtStripe(p) PROVE [Abstract!Next]_<<ApiMoney, ApiPicked>>
  BY <1>0, <1>2, StripeRefines DEF CancelAtStripe
<1>3. ASSUME NEW p \in Payments, CreateAuthorization(p)
      PROVE  [Abstract!Next]_<<ApiMoney, ApiPicked>>
  BY <1>0, <1>1, <1>3, StripeRefines DEF CreateAuthorization
<1>4. ASSUME NEW p \in Payments, Confirm(p) PROVE [Abstract!Next]_<<ApiMoney, ApiPicked>>
  BY <1>0, <1>4, StripeRefines DEF Confirm
<1>5. ASSUME NEW p \in Payments, ReleaseCall(p) \/ HoldLapses(p)
      PROVE  [Abstract!Next]_<<ApiMoney, ApiPicked>>
  BY <1>1, <1>2, <1>5 DEF ReleaseCall, HoldLapses
<1>6. ASSUME NEW v \in Viewers, CaptureCall(v) \/ CancelFailedCapture(v)
      PROVE  [Abstract!Next]_<<ApiMoney, ApiPicked>>
  <2>1. PICK p : p = call[v].pay OBVIOUS
  <2>2. p \in Payments
    BY <1>6, <2>1, OneCaller DEF CaptureCall, CancelFailedCapture, SelectionIsSound
  <2>3. p \in ApiPicked BY <2>1, <2>2 DEF ApiPicked
  <2>4. \/ UNCHANGED intent
        \/ CancelAtStripe(p)
        \/ intent[p] = "requires_capture" /\ intent' = [intent EXCEPT ![p] = "succeeded"]
    BY <1>6, <2>1, Zenon DEF CaptureCall, CancelFailedCapture
  <2>5. CASE intent[p] = "requires_capture" /\ intent' = [intent EXCEPT ![p] = "succeeded"]
    BY <1>0, <2>2, <2>3, <2>5, StripeRefines
  <2> QED BY <1>1, <1>2, <2>2, <2>4, <2>5
<1> QED BY <1>3, <1>4, <1>5, <1>6

\* Every step of the API is a step of Payment, leaves it alone or takes an earning back.
LEMMA NextRefines ==
    ASSUME CallsInv, [CallsNext]_callsVars
    PROVE  [Abstract!Next \/ TakesBack]_<<ApiMoney, ApiPicked>>
<1> DEFINE Refines == [Abstract!Next \/ TakesBack]_<<ApiMoney, ApiPicked>>
<1>0. CallsTypeOK BY DEF CallsInv
<1>w. [Abstract!Next]_<<ApiMoney, ApiPicked>> => Refines OBVIOUS
<1>1. ASSUME UNCHANGED <<call, intent, refund, earning>>
      PROVE  Refines
  BY <1>w, <1>1, NothingMoves DEF PaysStay
<1>2. ASSUME UNCHANGED callsVars \/ StartShow \/ HandlerDies PROVE Refines
  BY <1>1, <1>2 DEF callsVars, rows, jobs, stripe, StartShow, HandlerDies
<1>3. ASSUME EndShow PROVE Refines BY <1>w, <1>3, EndRefines
<1>4. ASSUME SelectRandom PROVE Refines
  BY <1>w, <1>4, SelectRefines DEF SelectRandom, HighestRanked, Waiting
<1>5. ASSUME NEW p \in Payments,
             \/ Prepare(p) \/ RetrieveIntent(p) \/ MarkAuthorized(p) \/ MarkCanceled(p)
             \/ Decline(p)
      PROVE  Refines
  BY <1>1, <1>5 DEF Prepare, RetrieveIntent, MarkAuthorized, MarkCanceled, Decline, rows,
                    stripe
<1>6. ASSUME NEW p \in Payments,
             CreateAuthorization(p) \/ ReleaseCall(p) \/ Confirm(p) \/ HoldLapses(p)
      PROVE  Refines
  BY <1>w, <1>6, IntentRefines
<1>7. ASSUME NEW p \in Payments, NEW kind \in EventKinds,
             Webhook(p, kind) \/ WebhookDies(p, kind)
      PROVE  Refines
  BY <1>w, <1>7, EventRefines DEF Webhook, WebhookDies
<1>8. ASSUME NEW v \in Viewers, Leave(v) \/ \E p \in Payments \cup {None} : Join(v, p)
      PROVE  Refines
  BY <1>1, <1>8 DEF Leave, Join, rows, stripe
<1>9. ASSUME NEW v \in Viewers, FailPaidSelection(v) PROVE Refines
  <2>1. PaysStay BY <1>0, <1>9 DEF FailPaidSelection, PaysStay, CallsTypeOK
  <2> QED BY <1>w, <1>9, <2>1, NothingMoves DEF FailPaidSelection, stripe
<1>10. ASSUME NEW v \in Viewers,
              \/ Select(v) \/ CaptureCall(v) \/ CancelFailedCapture(v)
              \/ \E target \in CallStatuses : Transition(v, target)
       PROVE  Refines
  BY <1>w, <1>10, SelectRefines, IntentRefines, TransitionRefines
<1>11. ASSUME NEW v \in Viewers, CompletePaidSelection(v) PROVE Refines
  BY <1>11, CompleteRefines
<1> HIDE DEF Refines
<1>12. Refines
  BY <1>2, <1>3, <1>4, <1>5, <1>6, <1>7, <1>8, <1>9, <1>10, <1>11, Zenon DEF CallsNext
<1> QED BY <1>12 DEF Refines

\* The Go API implements module Payment but for one step, for any number of viewers and
\* payments: a caller is charged only after the creator picked them, a charge becomes an
\* earning or a refund, what was refunded is never earned, and what was earned is refunded
\* only by a completePaidSelection that runs after the show has ended (call/store.go 234).
THEOREM ApiRefinesPayment == CallsSpec => ApiImplementsPayment
<1>1. CallsInit => Abstract!Init
  <2> SUFFICES ASSUME CallsInit PROVE Abstract!Init OBVIOUS
  <2>1. \A p \in Payments : MoneyOf(p) = "unpaid" BY DEF CallsInit, MoneyOf
  <2>2. \A p \in Payments : \A v \in Viewers : call[v].pay # p
    BY ApiCallsAssumption DEF CallsInit
  <2> QED BY <2>1, <2>2 DEF Abstract!Init, ApiMoney, ApiPicked
<1>2. CallsInv /\ [CallsNext]_callsVars => [Abstract!Next \/ TakesBack]_<<ApiMoney, ApiPicked>>
  BY NextRefines
<1> QED BY <1>1, <1>2, CallsInvariant, PTL DEF CallsSpec, ApiImplementsPayment

-----------------------------------------------------------------------------
(* Presence: who keeps a lease. *)

\* What every step keeps: the shape of the state, and the leases of those who renew.
PresenceInv == PresenceTypeOK /\ RenewedIsKept

\* No one is connected at first.
LEMMA PresenceStarts == PresenceInit => PresenceInv
BY ApiPresenceAssumption DEF PresenceInit, PresenceInv, PresenceTypeOK, RenewedIsKept, SocketStates

\* Each step of a socket, of the sweep and of time keeps it: a removal spares the leases
\* that have time left, and the sweep removes only one that has run out.
LEMMA PresenceKept == PresenceInv /\ [PresenceNext]_presenceVars => PresenceInv'
<1> SUFFICES ASSUME PresenceInv, [PresenceNext]_presenceVars PROVE PresenceInv'
  OBVIOUS
<1> USE ApiPresenceAssumption DEF PresenceInv, PresenceTypeOK, RenewedIsKept, SocketStates, Goes
<1>1. CASE List
  BY <1>1 DEF List, Expired
<1>2. CASE SweepStops
  BY <1>2 DEF SweepStops
<1>3. CASE ExpireDisconnected
  BY <1>3 DEF ExpireDisconnected
<1>4. CASE Tick
  <2>1. UNCHANGED <<socket, deadlines, leases, callOpen, sweep, lost>> BY <1>4 DEF Tick
  <2>2. \A k \in Sockets : left'[k] = IF left[k] > 0 THEN left[k] - 1 ELSE 0 BY <1>4 DEF Tick
  <2>3. left' \in [Sockets -> 0..Ttl] BY <1>4 DEF Tick
  <2>4. away' \in [Roles -> {Unset} \cup 0..Grace]
    <3>1. \A r \in Roles : (IF away[r] # Unset /\ away[r] > 0
                                THEN away[r] - 1 ELSE away[r]) \in {Unset} \cup 0..Grace
      OBVIOUS
    <3> QED BY <3>1, <1>4 DEF Tick
  <2>5. PresenceTypeOK' BY <2>1, <2>3, <2>4
  <2>6. RenewedIsKept' BY <2>1, <2>2
  <2> QED BY <2>5, <2>6
<1>5. ASSUME NEW r \in Roles, RecordGone(r) PROVE PresenceInv'
  BY <1>5 DEF RecordGone, MarkDisconnected
<1>6. ASSUME NEW r \in Roles, RecordGoneFails(r) PROVE PresenceInv'
  BY <1>6 DEF RecordGoneFails
<1>7. ASSUME NEW k \in Sockets, Register(k) PROVE PresenceInv'
  BY <1>7 DEF Register, Touch
<1>8. ASSUME NEW k \in Sockets, Admit(k) PROVE PresenceInv'
  BY <1>8 DEF Admit, MarkConnected
<1>9. ASSUME NEW k \in Sockets, AdmitFails(k) PROVE PresenceInv'
  BY <1>9 DEF AdmitFails, Drop, Remaining, Of
<1>10. ASSUME NEW k \in Sockets, Beat(k) PROVE PresenceInv'
  BY <1>10 DEF Beat, Touch
<1>11. ASSUME NEW k \in Sockets, Close(k) PROVE PresenceInv'
  BY <1>11 DEF Close, Drop, Remaining, Of
<1>12. ASSUME NEW k \in Sockets, RecordLast(k) PROVE PresenceInv'
  BY <1>12 DEF RecordLast, MarkDisconnected
<1>13. ASSUME NEW k \in Sockets, HandlerStops(k) PROVE PresenceInv'
  BY <1>13 DEF HandlerStops
<1>14. ASSUME NEW k \in Sockets, Reap(k) PROVE PresenceInv'
  <2>1. UNCHANGED <<socket, left, away, callOpen, lost>> BY <1>14 DEF Reap
  <2>2. PresenceTypeOK'
    <3>1. deadlines' \subseteq Sockets /\ leases' \subseteq Sockets
      BY <1>14 DEF Reap, Drop, Remaining, Of
    <3>2. RoleOf[k] \in Roles OBVIOUS
    <3>3. sweep' \in [step : {"idle", "reap"}, due : SUBSET Sockets, gone : SUBSET Roles]
      <4> DEFINE g == IF Remaining(k) = {} THEN sweep.gone \cup {RoleOf[k]} ELSE sweep.gone
      <4>1. g \in SUBSET Roles /\ sweep.due \ {k} \in SUBSET Sockets BY <3>2
      <4>2. \/ sweep' = [sweep EXCEPT !.due = sweep.due \ {k}, !.gone = g]
            \/ sweep' = [sweep EXCEPT !.due = sweep.due \ {k}]
        BY <1>14 DEF Reap
      <4>3. sweep \in [step : {"idle", "reap"}, due : SUBSET Sockets, gone : SUBSET Roles]
        OBVIOUS
      <4> HIDE DEF g, PresenceInv, PresenceTypeOK, RenewedIsKept
      <4>4. CASE sweep' = [sweep EXCEPT !.due = sweep.due \ {k}, !.gone = g]
        BY <4>1, <4>3, <4>4
      <4>5. CASE sweep' = [sweep EXCEPT !.due = sweep.due \ {k}]
        BY <4>1, <4>3, <4>5
      <4> QED BY <4>2, <4>4, <4>5
    <3> QED BY <2>1, <3>1, <3>3
  <2>3. RenewedIsKept'
    <3>1. CASE StillExpired(k)
      <4>1. left[k] = 0 BY <3>1 DEF StillExpired, Expired
      <4>2. \A j \in Sockets : j # k /\ left[j] > 0 =>
              (j \in deadlines => j \in deadlines') /\ (j \in leases => j \in leases')
        BY <3>1, <1>14 DEF Reap, Drop, Remaining, Of
      <4> QED BY <2>1, <4>1, <4>2
    <3>2. CASE ~StillExpired(k)
      BY <2>1, <3>2, <1>14 DEF Reap
    <3> QED BY <3>1, <3>2
  <2> QED BY <2>2, <2>3
<1>15. CASE UNCHANGED presenceVars
  BY <1>15 DEF presenceVars
<1> QED BY <1>1, <1>2, <1>3, <1>4, <1>5, <1>6, <1>7, <1>8, <1>9, <1>10, <1>11, <1>12,
           <1>13, <1>14, <1>15 DEF PresenceNext

\* For any number of sockets of either participant, a connection that renews its lease in
\* time keeps it, whatever the sweep had listed before.
THEOREM PresenceSafe == PresenceSpec => [](PresenceTypeOK /\ RenewedIsKept)
BY PresenceStarts, PresenceKept, PTL DEF PresenceSpec, PresenceInv

-----------------------------------------------------------------------------
(* The index of waiting callers. *)

\* An event of the outbox.
Event == {"add", "remove", "clear"} \X Callers \X Ranks

\* Of a caller who has not joined there is no event and no index change under way.
UnknownHasNoEvents ==
    \A c \in Callers : joins[c] = 0 =>
        /\ line[c].status = "NONE"
        /\ \A i \in 1..Len(outbox) : outbox[i][2] = c => outbox[i][1] = "clear"
        /\ \A d \in direct : d[2] # c

\* A caller who waits since their only join.
FirstWait(c) == line[c].status = "WAITING" /\ joins[c] = 1

\* Nothing is about to remove such a caller.
FirstWaitIsSafe ==
    \A c \in Callers : FirstWait(c) =>
        /\ \A i \in 1..Len(outbox) : outbox[i][2] = c => outbox[i][1] # "remove"
        /\ \A d \in direct : d[2] = c => d[1] # "remove"

\* The index is cleared only once no one waits.
ClearedWhenOver ==
    /\ over => \A c \in Callers : line[c].status # "WAITING"
    /\ \A i \in 1..Len(outbox) : outbox[i][1] = "clear" => over

\* An event is done once it is published or a worker has applied it.
Done == published \cup UNION {flush[w].applied : w \in Workers}

\* A done join of such a caller is in the index.
DoneIsIndexed ==
    \A c \in Callers : FirstWait(c) =>
        \A i \in Done : outbox[i][1] = "add" /\ outbox[i][2] = c => <<c, outbox[i][3]>> \in index

\* Every join has its event in the outbox.
EventsAreBounded == Len(outbox) <= MaxEvents /\ \A c \in Callers : joins[c] <= Len(outbox)

\* What every step keeps.
IndexInv ==
    /\ IndexTypeOK
    /\ UnknownHasNoEvents
    /\ FirstWaitIsSafe
    /\ ClearedWhenOver
    /\ DoneIsIndexed
    /\ EventsAreBounded

\* The events done are of the outbox.
LEMMA DoneIsWritten == IndexTypeOK => Done \subseteq 1..Len(outbox)
<1> SUFFICES ASSUME IndexTypeOK PROVE Done \subseteq 1..Len(outbox)
  OBVIOUS
<1>1. published \subseteq 1..Len(outbox) BY DEF IndexTypeOK
<1>2. \A w \in Workers : flush[w].applied \subseteq 1..Len(outbox) BY DEF IndexTypeOK
<1> QED BY <1>1, <1>2 DEF Done

\* What an event of the transaction does to the outbox: it grows by one that no worker
\* has seen.
LEMMA Emitted ==
    ASSUME IndexInv, NEW kind \in {"add", "remove", "clear"}, NEW c \in Callers, NEW r \in Ranks,
           Emit(kind, c, r), published' = published, flush' = flush
    PROVE  /\ outbox' \in Seq(Event) /\ Len(outbox') = Len(outbox) + 1 /\ Len(outbox) \in Nat
           /\ Len(outbox') <= MaxEvents
           /\ \A i \in 1..Len(outbox) : outbox'[i] = outbox[i]
           /\ outbox'[Len(outbox) + 1] = <<kind, c, r>>
           /\ 1..Len(outbox') = (1..Len(outbox)) \cup {Len(outbox) + 1}
           /\ published' \subseteq 1..Len(outbox')
           /\ flush' \in [Workers -> [read : SUBSET (1..Len(outbox')),
                                      applied : SUBSET (1..Len(outbox'))]]
           /\ Done' = Done /\ Done \subseteq 1..Len(outbox)
<1>1. outbox \in Seq(Event) /\ <<kind, c, r>> \in Event BY DEF IndexInv, IndexTypeOK, Event
<1>2. outbox' = Append(outbox, <<kind, c, r>>) /\ Len(outbox) < MaxEvents BY DEF Emit
<1>3. /\ outbox' \in Seq(Event) /\ Len(outbox') = Len(outbox) + 1 /\ Len(outbox) \in Nat
      /\ Len(outbox') <= MaxEvents
      /\ \A i \in 1..Len(outbox) : outbox'[i] = outbox[i]
      /\ outbox'[Len(outbox) + 1] = <<kind, c, r>>
      /\ 1..Len(outbox') = (1..Len(outbox)) \cup {Len(outbox) + 1}
  BY <1>1, <1>2, QueueIndexAssumption
<1>4. \A w \in Workers : flush[w] \in [read : SUBSET (1..Len(outbox')),
                                      applied : SUBSET (1..Len(outbox'))]
  BY <1>3 DEF IndexInv, IndexTypeOK
<1>5. flush' \in [Workers -> [read : SUBSET (1..Len(outbox')), applied : SUBSET (1..Len(outbox'))]]
  BY <1>4 DEF IndexInv, IndexTypeOK
<1>6. published' \subseteq 1..Len(outbox') BY <1>3 DEF IndexInv, IndexTypeOK
<1>7. Done' = Done /\ Done \subseteq 1..Len(outbox) BY DoneIsWritten DEF Done, IndexInv
<1> QED BY <1>3, <1>5, <1>6, <1>7

\* No one has joined at first.
LEMMA IndexStarts == IndexInit => IndexInv
<1> SUFFICES ASSUME IndexInit PROVE IndexInv
  OBVIOUS
<1> DEFINE r0 == CHOOSE r \in Ranks : TRUE
<1>1. r0 \in Ranks BY QueueIndexAssumption
<1>2. Len(outbox) = 0 /\ outbox = <<>> /\ published = {} /\ index = {} /\ direct = {} /\ stops = 0
      /\ over = FALSE /\ joins = [c \in Callers |-> 0]
  BY DEF IndexInit
<1>3. line = [c \in Callers |-> [status |-> "NONE", rank |-> r0]] BY DEF IndexInit
<1>4. flush = [w \in Workers |-> [read |-> {}, applied |-> {}]] BY DEF IndexInit, NotFlushing
<1> HIDE DEF r0
<1>5. IndexTypeOK
  <2>1. line \in [Callers -> [status : {"NONE", "WAITING", "LEFT", "SELECTED", "ENDED"}, rank : Ranks]]
    BY <1>1, <1>3
  <2>2. joins \in [Callers -> 0..MaxEvents] BY <1>2, QueueIndexAssumption
  <2>3. outbox \in Seq(Event) BY <1>2
  <2>4. flush \in [Workers -> [read : SUBSET (1..Len(outbox)), applied : SUBSET (1..Len(outbox))]]
        /\ \A w \in Workers : flush[w].applied \subseteq flush[w].read
    BY <1>4
  <2>5. over \in BOOLEAN BY DEF IndexInit
  <2>7. stops \in 0..MaxStops BY <1>2, QueueIndexAssumption
  <2>6. published \subseteq 1..Len(outbox) /\ index \subseteq Callers \X Ranks /\ direct \subseteq Change
    BY <1>2
  <2> QED BY <2>1, <2>2, <2>3, <2>4, <2>5, <2>6, <2>7 DEF IndexTypeOK, Event
<1>6. UnknownHasNoEvents /\ ClearedWhenOver BY <1>2, <1>3 DEF UnknownHasNoEvents, ClearedWhenOver
<1>7. FirstWaitIsSafe /\ DoneIsIndexed
  BY <1>2, <1>3 DEF FirstWaitIsSafe, FirstWait, DoneIsIndexed
<1>8. EventsAreBounded BY <1>2, QueueIndexAssumption DEF EventsAreBounded
<1> QED BY <1>5, <1>6, <1>7, <1>8 DEF IndexInv

\* A change applied for someone else, or an addition, leaves a caller in the index.
LEMMA AppliedKeeps ==
    ASSUME NEW kind \in {"add", "remove", "clear"}, NEW c \in Callers, NEW r \in Ranks,
           NEW b \in Callers, NEW q \in Ranks, <<b, q>> \in index,
           kind # "clear", kind = "remove" => c # b
    PROVE  <<b, q>> \in Applied(kind, c, r)
BY DEF Applied

\* The index names callers with their ranks.
LEMMA AppliedType ==
    ASSUME IndexTypeOK, NEW kind \in {"add", "remove", "clear"}, NEW c \in Callers, NEW r \in Ranks
    PROVE  Applied(kind, c, r) \subseteq Callers \X Ranks
BY DEF Applied, IndexTypeOK

\* A join: before the first one nothing about the caller is under way.
LEMMA JoinKeeps ==
    ASSUME IndexInv, NEW c \in Callers, NEW r \in Ranks, QueueJoin(c, r)
    PROVE  IndexInv'
<1>1. /\ over = FALSE /\ over' = over /\ published' = published /\ index' = index /\ flush' = flush
      /\ stops' = stops /\ line[c].status \in {"NONE", "LEFT"}
  BY DEF QueueJoin, IndexInv, IndexTypeOK
<1>2. line' = [line EXCEPT ![c] = [status |-> "WAITING", rank |-> r]] BY DEF QueueJoin
<1>3. joins' = [joins EXCEPT ![c] = joins[c] + 1] BY DEF QueueJoin
<1>4. direct' = direct \cup {<<"add", c, r>>} BY DEF QueueJoin, Owes
<1> DEFINE n == Len(outbox)
<1>5. /\ outbox' \in Seq(Event) /\ Len(outbox') = n + 1 /\ n \in Nat /\ Len(outbox') <= MaxEvents
      /\ \A i \in 1..n : outbox'[i] = outbox[i]
      /\ outbox'[n + 1] = <<"add", c, r>>
      /\ 1..Len(outbox') = (1..n) \cup {n + 1}
  BY <1>1, Emitted DEF QueueJoin
<1>6. /\ published' \subseteq 1..Len(outbox')
      /\ flush' \in [Workers -> [read : SUBSET (1..Len(outbox')), applied : SUBSET (1..Len(outbox'))]]
      /\ Done' = Done /\ Done \subseteq 1..n
  BY <1>1, Emitted DEF QueueJoin
<1> HIDE DEF n
<1>n. n = Len(outbox) BY DEF n
<1>7. IndexTypeOK'
  <2>1. line' \in [Callers -> [status : {"NONE", "WAITING", "LEFT", "SELECTED", "ENDED"}, rank : Ranks]]
    BY <1>2 DEF IndexInv, IndexTypeOK
  <2>2. joins' \in [Callers -> 0..MaxEvents]
    BY <1>3, <1>5, <1>n, QueueIndexAssumption DEF IndexInv, IndexTypeOK, EventsAreBounded
  <2>3. direct' \subseteq Change BY <1>4 DEF IndexInv, IndexTypeOK, Change
  <2> QED BY <1>1, <1>5, <1>6, <2>1, <2>2, <2>3 DEF IndexInv, IndexTypeOK, Event
<1>8. \A b \in Callers : b # c => line'[b] = line[b] /\ joins'[b] = joins[b]
  BY <1>2, <1>3 DEF IndexInv, IndexTypeOK
<1>9. line'[c].status = "WAITING" /\ joins'[c] = joins[c] + 1 /\ joins[c] \in Nat
  BY <1>2, <1>3 DEF IndexInv, IndexTypeOK
<1>10. UnknownHasNoEvents'
  BY <1>4, <1>5, <1>n, <1>8, <1>9 DEF IndexInv, UnknownHasNoEvents
<1>11. FirstWaitIsSafe'
  BY <1>4, <1>5, <1>n, <1>8, <1>9 DEF IndexInv, UnknownHasNoEvents, FirstWaitIsSafe, FirstWait
<1>12. ClearedWhenOver'
  BY <1>1, <1>5, <1>n DEF IndexInv, ClearedWhenOver
<1>13. DoneIsIndexed'
  BY <1>1, <1>5, <1>6, <1>n, <1>8, <1>9
  DEF IndexInv, UnknownHasNoEvents, DoneIsIndexed, FirstWait
<1>14. EventsAreBounded'
  <2>1. \A b \in Callers : joins[b] \in Nat /\ joins[b] <= n /\ joins'[b] <= joins[b] + 1
    BY <1>n, <1>8, <1>9 DEF IndexInv, EventsAreBounded, IndexTypeOK
  <2>2. \A b \in Callers : joins'[b] \in Nat BY <1>7 DEF IndexTypeOK
  <2>3. \A b \in Callers : joins'[b] <= n + 1 BY <1>5, <2>1, <2>2
  <2> QED BY <1>5, <2>3 DEF EventsAreBounded
<1> QED BY <1>7, <1>10, <1>11, <1>12, <1>13, <1>14 DEF IndexInv

\* A caller leaves the line, by their own choice or the creator's.
LEMMA RemovedKeeps ==
    ASSUME IndexInv, NEW c \in Callers, line[c].status = "WAITING", Emit("remove", c, line[c].rank),
           NEW state \in {"LEFT", "SELECTED"}, line' = [line EXCEPT ![c].status = state],
           direct' = direct \/ direct' = direct \cup {<<"remove", c, line[c].rank>>},
           joins' = joins, over' = over, published' = published, index' = index, flush' = flush,
           stops' = stops
    PROVE  IndexInv'
<1> DEFINE n == Len(outbox)
           r == line[c].rank
<1>1. r \in Ranks BY DEF IndexInv, IndexTypeOK
<1>5. /\ outbox' \in Seq(Event) /\ Len(outbox') = n + 1 /\ n \in Nat /\ Len(outbox') <= MaxEvents
      /\ \A i \in 1..n : outbox'[i] = outbox[i]
      /\ outbox'[n + 1] = <<"remove", c, r>>
      /\ 1..Len(outbox') = (1..n) \cup {n + 1}
  BY <1>1, Emitted
<1>6. /\ published' \subseteq 1..Len(outbox')
      /\ flush' \in [Workers -> [read : SUBSET (1..Len(outbox')), applied : SUBSET (1..Len(outbox'))]]
      /\ Done' = Done /\ Done \subseteq 1..n
  BY <1>1, Emitted
<1>4. direct' \subseteq direct \cup {<<"remove", c, r>>} OBVIOUS
<1> HIDE DEF n, r
<1>n. n = Len(outbox) BY DEF n
<1>7. IndexTypeOK'
  <2>1. line' \in [Callers -> [status : {"NONE", "WAITING", "LEFT", "SELECTED", "ENDED"}, rank : Ranks]]
    BY DEF IndexInv, IndexTypeOK
  <2>3. direct' \subseteq Change BY <1>1, <1>4 DEF IndexInv, IndexTypeOK, Change
  <2> QED BY <1>5, <1>6, <2>1, <2>3 DEF IndexInv, IndexTypeOK, Event
<1>8. \A b \in Callers : b # c => line'[b] = line[b]
  BY DEF IndexInv, IndexTypeOK
<1>9. line'[c].status # "WAITING" /\ joins[c] # 0
  BY DEF IndexInv, IndexTypeOK, UnknownHasNoEvents
<1>10. UnknownHasNoEvents'
  BY <1>4, <1>5, <1>n, <1>8, <1>9 DEF IndexInv, UnknownHasNoEvents
<1>11. FirstWaitIsSafe'
  BY <1>4, <1>5, <1>n, <1>8, <1>9 DEF IndexInv, FirstWaitIsSafe, FirstWait
<1>12. ClearedWhenOver'
  BY <1>5, <1>n, <1>8, <1>9 DEF IndexInv, ClearedWhenOver
<1>13. DoneIsIndexed'
  BY <1>5, <1>6, <1>n, <1>8, <1>9 DEF IndexInv, DoneIsIndexed, FirstWait
<1>14. EventsAreBounded'
  <2>1. \A b \in Callers : joins[b] \in Nat /\ joins[b] <= n
    BY <1>n DEF IndexInv, EventsAreBounded, IndexTypeOK
  <2> QED BY <1>5, <2>1 DEF EventsAreBounded
<1> QED BY <1>7, <1>10, <1>11, <1>12, <1>13, <1>14 DEF IndexInv

\* The show ends, and with it every wait.
LEMMA EndKeeps ==
    ASSUME IndexInv, QueueEnd
    PROVE  IndexInv'
<1> DEFINE n == Len(outbox)
           c0 == CHOOSE c \in Callers : TRUE
           r == line[c0].rank
<1>1. c0 \in Callers /\ r \in Ranks BY QueueIndexAssumption DEF IndexInv, IndexTypeOK
<1>2. /\ joins' = joins /\ over' = TRUE /\ published' = published /\ index' = index /\ flush' = flush
      /\ stops' = stops /\ direct' = direct /\ over = FALSE
      /\ Emit("clear", c0, r)
  BY DEF QueueEnd, RankOf, IndexInv, IndexTypeOK
<1>5. /\ outbox' \in Seq(Event) /\ Len(outbox') = n + 1 /\ n \in Nat /\ Len(outbox') <= MaxEvents
      /\ \A i \in 1..n : outbox'[i] = outbox[i]
      /\ outbox'[n + 1] = <<"clear", c0, r>>
      /\ 1..Len(outbox') = (1..n) \cup {n + 1}
  BY <1>1, <1>2, Emitted
<1>6. /\ published' \subseteq 1..Len(outbox')
      /\ flush' \in [Workers -> [read : SUBSET (1..Len(outbox')), applied : SUBSET (1..Len(outbox'))]]
  BY <1>1, <1>2, Emitted
<1> HIDE DEF n, r, c0
<1>n. n = Len(outbox) BY DEF n
<1>3. line' = [c \in Callers |-> IF line[c].status = "WAITING"
                                THEN [line[c] EXCEPT !.status = "ENDED"] ELSE line[c]]
  BY DEF QueueEnd, InLine
<1>7. IndexTypeOK'
  <2>1. line' \in [Callers -> [status : {"NONE", "WAITING", "LEFT", "SELECTED", "ENDED"}, rank : Ranks]]
    BY <1>3 DEF IndexInv, IndexTypeOK
  <2> QED BY <1>2, <1>5, <1>6, <2>1 DEF IndexInv, IndexTypeOK, Event
<1>8. \A b \in Callers : line'[b].status # "WAITING" /\ (line[b].status # "WAITING" => line'[b] = line[b])
  <2> TAKE b \in Callers
  <2>1. line[b] \in [status : {"NONE", "WAITING", "LEFT", "SELECTED", "ENDED"}, rank : Ranks]
    BY DEF IndexInv, IndexTypeOK
  <2>2. line'[b] = IF line[b].status = "WAITING"
                   THEN [line[b] EXCEPT !.status = "ENDED"] ELSE line[b] BY <1>3
  <2> QED BY <2>1, <2>2
<1>10. UnknownHasNoEvents'
  BY <1>2, <1>5, <1>n, <1>8 DEF IndexInv, UnknownHasNoEvents
<1>11. FirstWaitIsSafe' /\ DoneIsIndexed'
  BY <1>8 DEF FirstWaitIsSafe, FirstWait, DoneIsIndexed
<1>12. ClearedWhenOver'
  BY <1>2, <1>8 DEF ClearedWhenOver
<1>14. EventsAreBounded'
  <2>1. \A b \in Callers : joins[b] \in Nat /\ joins[b] <= n
    BY <1>n DEF IndexInv, EventsAreBounded, IndexTypeOK
  <2> QED BY <1>2, <1>5, <2>1 DEF EventsAreBounded
<1> QED BY <1>7, <1>10, <1>11, <1>12, <1>14 DEF IndexInv

\* A handler's own change.
LEMMA ChangeKeeps ==
    ASSUME IndexInv, NEW d \in Change, ChangeIndex(d)
    PROVE  IndexInv'
<1>1. /\ d \in direct /\ direct' = direct \ {d} /\ UNCHANGED <<line, joins, over, outbox, published, flush, stops>>
      /\ index' = index \/ index' = Applied(d[1], d[2], d[3])
  BY DEF ChangeIndex, queueTables
<1>2. d[1] \in {"add", "remove"} /\ d[2] \in Callers /\ d[3] \in Ranks BY DEF Change
<1>3. index' \subseteq Callers \X Ranks BY <1>1, <1>2, AppliedType DEF IndexInv, IndexTypeOK
<1>4. IndexTypeOK' BY <1>1, <1>3 DEF IndexInv, IndexTypeOK
<1>5. UnknownHasNoEvents' /\ FirstWaitIsSafe' /\ ClearedWhenOver' /\ EventsAreBounded'
  BY <1>1 DEF IndexInv, UnknownHasNoEvents, FirstWaitIsSafe, FirstWait, ClearedWhenOver, EventsAreBounded
<1>6. \A c \in Callers, r \in Ranks : FirstWait(c) /\ <<c, r>> \in index => <<c, r>> \in index'
  <2> SUFFICES ASSUME NEW c \in Callers, NEW r \in Ranks, FirstWait(c), <<c, r>> \in index
               PROVE  <<c, r>> \in index'
    OBVIOUS
  <2>1. d[1] = "remove" => d[2] # c BY <1>1 DEF IndexInv, FirstWaitIsSafe
  <2>2. <<c, r>> \in Applied(d[1], d[2], d[3]) BY <1>2, <2>1, AppliedKeeps
  <2> QED BY <1>1, <2>2
<1>7. Done \subseteq 1..Len(outbox) /\ \A i \in 1..Len(outbox) : outbox[i][3] \in Ranks
  BY DoneIsWritten DEF IndexInv, IndexTypeOK
<1>8. Done' = Done BY <1>1 DEF Done
<1>9. DoneIsIndexed'
  BY <1>1, <1>6, <1>7, <1>8 DEF IndexInv, DoneIsIndexed, FirstWait
<1> QED BY <1>4, <1>5, <1>9 DEF IndexInv

\* A worker reads, applies, marks or stops.
LEMMA FlushKeeps ==
    ASSUME IndexInv, NEW w \in Workers,
           FlushRead(w) \/ FlushApply(w) \/ FlushMark(w) \/ FlushStops(w)
    PROVE  IndexInv'
<1> DEFINE Batch == [read : SUBSET (1..Len(outbox)), applied : SUBSET (1..Len(outbox))]
<1>1. UNCHANGED <<line, joins, over, outbox, direct>>
  BY DEF FlushRead, FlushApply, FlushMark, FlushStops, queueTables
<1>2. UnknownHasNoEvents' /\ FirstWaitIsSafe' /\ ClearedWhenOver' /\ EventsAreBounded'
  BY <1>1 DEF IndexInv, UnknownHasNoEvents, FirstWaitIsSafe, FirstWait, ClearedWhenOver, EventsAreBounded
<1>3. /\ flush \in [Workers -> Batch] /\ \A v \in Workers : flush[v].applied \subseteq flush[v].read
      /\ published \subseteq 1..Len(outbox) /\ index \subseteq Callers \X Ranks /\ stops \in 0..MaxStops
  BY DEF IndexInv, IndexTypeOK
<1>4. SUFFICES /\ flush' \in [Workers -> Batch] /\ \A v \in Workers : flush'[v].applied \subseteq flush'[v].read
               /\ published' \subseteq 1..Len(outbox) /\ index' \subseteq Callers \X Ranks
               /\ stops' \in 0..MaxStops
               /\ DoneIsIndexed'
  BY <1>1, <1>2 DEF IndexInv, IndexTypeOK
<1>5. CASE FlushRead(w)
  <2>1. UNCHANGED <<published, index, stops>> /\ flush[w] = NotFlushing
        /\ flush' = [flush EXCEPT ![w].read = PendingOutbox]
    BY <1>5 DEF FlushRead
  <2>2. PendingOutbox \in SUBSET (1..Len(outbox)) BY DEF PendingOutbox, Pending
  <2>3. flush' \in [Workers -> Batch] BY <1>3, <2>1, <2>2
  <2>4. \A v \in Workers : flush'[v].applied = flush[v].applied BY <1>3, <2>1
  <2>5. \A v \in Workers : flush'[v].applied \subseteq flush'[v].read
    BY <1>3, <2>1 DEF NotFlushing
  <2>6. Done' = Done BY <2>1, <2>4 DEF Done
  <2>7. DoneIsIndexed' BY <1>1, <2>1, <2>6 DEF IndexInv, DoneIsIndexed, FirstWait
  <2> QED BY <1>3, <2>1, <2>3, <2>5, <2>7
<1>6. CASE FlushApply(w)
  <2>1. UNCHANGED <<published, stops>> BY <1>6 DEF FlushApply
  <2>2. PICK i \in Unapplied(w) : /\ index' = Applied(outbox[i][1], outbox[i][2], outbox[i][3])
                                  /\ flush' = [flush EXCEPT ![w].applied = flush[w].applied \cup {i}]
    BY <1>6 DEF FlushApply
  <2>3. i \in 1..Len(outbox) /\ i \in flush[w].read BY <1>3, <2>2 DEF Unapplied
  <2>4. /\ outbox[i][1] \in {"add", "remove", "clear"} /\ outbox[i][2] \in Callers /\ outbox[i][3] \in Ranks
        /\ outbox[i] \in Event
    BY <2>3 DEF IndexInv, IndexTypeOK, Event
  <2>5. flush' \in [Workers -> Batch] BY <1>3, <2>2, <2>3
  <2>6. \A v \in Workers : flush'[v].applied \subseteq flush'[v].read
    BY <1>3, <2>2, <2>3
  <2>7. index' \subseteq Callers \X Ranks BY <2>2, <2>4, AppliedType DEF IndexInv
  <2>8. Done' \subseteq Done \cup {i}
    <3>1. \A v \in Workers : flush'[v].applied \subseteq flush[v].applied \cup {i} BY <1>3, <2>2
    <3> QED BY <2>1, <3>1 DEF Done
  <2>9. \A c \in Callers, r \in Ranks : FirstWait(c) /\ <<c, r>> \in index => <<c, r>> \in index'
    <3> SUFFICES ASSUME NEW c \in Callers, NEW r \in Ranks, FirstWait(c), <<c, r>> \in index
                 PROVE  <<c, r>> \in index'
      OBVIOUS
    <3>1. outbox[i][1] = "remove" => outbox[i][2] # c BY <2>3 DEF IndexInv, FirstWaitIsSafe
    <3>2. outbox[i][1] # "clear" BY <2>3 DEF IndexInv, ClearedWhenOver, FirstWait
    <3>3. <<c, r>> \in Applied(outbox[i][1], outbox[i][2], outbox[i][3])
      BY <2>4, <3>1, <3>2, AppliedKeeps
    <3> QED BY <2>2, <3>3
  <2>10. outbox[i][1] = "add" => <<outbox[i][2], outbox[i][3]>> \in index'
    BY <2>2 DEF Applied
  <2>11. Done \subseteq 1..Len(outbox) /\ \A k \in 1..Len(outbox) : outbox[k][3] \in Ranks
    BY DoneIsWritten DEF IndexInv, IndexTypeOK
  <2>12. DoneIsIndexed'
    <3> SUFFICES ASSUME NEW c \in Callers, FirstWait(c)', NEW k \in Done', outbox[k][1] = "add",
                        outbox[k][2] = c
                 PROVE  <<c, outbox[k][3]>> \in index'
      BY <1>1 DEF DoneIsIndexed
    <3>1. FirstWait(c) BY <1>1 DEF FirstWait
    <3>2. CASE k = i BY <2>10, <3>2
    <3>3. CASE k \in Done
      <4>1. <<c, outbox[k][3]>> \in index BY <3>1, <3>3 DEF IndexInv, DoneIsIndexed
      <4> QED BY <2>9, <2>11, <3>1, <3>3, <4>1
    <3> QED BY <2>8, <3>2, <3>3
  <2> QED BY <1>3, <2>1, <2>5, <2>6, <2>7, <2>12
<1>7. CASE FlushMark(w)
  <2>1. /\ UNCHANGED <<index, stops>> /\ flush' = [flush EXCEPT ![w] = NotFlushing]
        /\ published' = published \cup flush[w].read /\ flush[w].read \subseteq flush[w].applied
    BY <1>7 DEF FlushMark, Unapplied, Acknowledged
  <2>2. NotFlushing \in Batch BY DEF NotFlushing
  <2>3. flush' \in [Workers -> Batch] BY <1>3, <2>1, <2>2
  <2>4. \A v \in Workers : flush'[v].applied \subseteq flush'[v].read /\ flush'[v].applied \subseteq flush[v].applied
    BY <1>3, <2>1 DEF NotFlushing
  <2>5. flush[w].read \subseteq 1..Len(outbox) BY <1>3
  <2>6. Done' \subseteq Done BY <2>1, <2>4 DEF Done
  <2>7. DoneIsIndexed' BY <1>1, <2>1, <2>6 DEF IndexInv, DoneIsIndexed, FirstWait
  <2> QED BY <1>3, <2>1, <2>3, <2>4, <2>5, <2>7
<1>8. CASE FlushStops(w)
  <2>1. /\ UNCHANGED <<index, published>> /\ flush' = [flush EXCEPT ![w] = NotFlushing]
        /\ stops' = stops + 1 /\ stops < MaxStops
    BY <1>8 DEF FlushStops
  <2>2. NotFlushing \in Batch BY DEF NotFlushing
  <2>3. flush' \in [Workers -> Batch] BY <1>3, <2>1, <2>2
  <2>4. \A v \in Workers : flush'[v].applied \subseteq flush'[v].read /\ flush'[v].applied \subseteq flush[v].applied
    BY <1>3, <2>1 DEF NotFlushing
  <2>5. stops' \in 0..MaxStops BY <1>3, <2>1, QueueIndexAssumption
  <2>6. Done' \subseteq Done BY <2>1, <2>4 DEF Done
  <2>7. DoneIsIndexed' BY <1>1, <2>1, <2>6 DEF IndexInv, DoneIsIndexed, FirstWait
  <2> QED BY <1>3, <2>1, <2>3, <2>4, <2>5, <2>7
<1> QED BY <1>5, <1>6, <1>7, <1>8

\* Every step keeps the invariant.
LEMMA IndexKept == IndexInv /\ [IndexNext]_indexVars => IndexInv'
<1> SUFFICES ASSUME IndexInv, [IndexNext]_indexVars PROVE IndexInv'
  OBVIOUS
<1>1. CASE QueueEnd BY <1>1, EndKeeps
<1>2. ASSUME NEW c \in Callers, QueueJoinAgain(c) PROVE IndexInv'
  <2>1. /\ UNCHANGED <<line, joins, over, outbox, published, index, flush, stops>> /\ ~over
        /\ direct' = direct \cup {<<"add", c, line[c].rank>>}
        /\ line[c].status # "NONE"
    BY <1>2 DEF QueueJoinAgain, Owes, RankOf, queueTables
  <2>2. line[c].rank \in Ranks BY DEF IndexInv, IndexTypeOK
  <2>3. direct' \subseteq Change BY <2>1, <2>2 DEF IndexInv, IndexTypeOK, Change
  <2>4. IndexTypeOK' BY <2>1, <2>3 DEF IndexInv, IndexTypeOK
  <2>5. UnknownHasNoEvents' /\ FirstWaitIsSafe' /\ ClearedWhenOver' /\ EventsAreBounded'
    BY <2>1 DEF IndexInv, UnknownHasNoEvents, FirstWaitIsSafe, FirstWait, ClearedWhenOver, EventsAreBounded
  <2>6. DoneIsIndexed' BY <2>1 DEF IndexInv, DoneIsIndexed, FirstWait, Done
  <2> QED BY <2>4, <2>5, <2>6 DEF IndexInv
<1>3. ASSUME NEW c \in Callers, QueueLeave(c) PROVE IndexInv'
  BY <1>3, RemovedKeeps DEF QueueLeave, InLine, RankOf, Owes
<1>4. ASSUME NEW c \in Callers, QueueSelect(c) PROVE IndexInv'
  BY <1>4, RemovedKeeps DEF QueueSelect, InLine, RankOf
<1>5. ASSUME NEW c \in Callers, NEW r \in Ranks, QueueJoin(c, r) PROVE IndexInv'
  BY <1>5, JoinKeeps
<1>6. ASSUME NEW d \in Change, ChangeIndex(d) PROVE IndexInv'
  BY <1>6, ChangeKeeps
<1>7. ASSUME NEW w \in Workers, FlushRead(w) \/ FlushApply(w) \/ FlushMark(w) \/ FlushStops(w)
      PROVE  IndexInv'
  BY <1>7, FlushKeeps
<1>8. CASE UNCHANGED indexVars
  BY <1>8 DEF indexVars, IndexInv, IndexTypeOK, UnknownHasNoEvents, FirstWaitIsSafe, FirstWait,
              ClearedWhenOver, EventsAreBounded, DoneIsIndexed, Done
<1> QED BY <1>1, <1>2, <1>3, <1>4, <1>5, <1>6, <1>7, <1>8 DEF IndexNext

\* The list is read from the index as long as it names anyone.
LEMMA IndexedIsListed == IndexInv => PublishedIsListed
<1> SUFFICES ASSUME IndexInv, NEW c \in InLine, joins[c] = 1, NEW i \in published,
                    outbox[i] = <<"add", c, RankOf(c)>>
             PROVE  c \in Listed
  BY DEF PublishedIsListed
<1>1. c \in Callers /\ FirstWait(c) /\ RankOf(c) \in Ranks
  BY DEF InLine, FirstWait, IndexInv, IndexTypeOK, RankOf
<1>2. <<c, RankOf(c)>> \in index BY <1>1 DEF IndexInv, DoneIsIndexed, Done
<1> QED BY <1>1, <1>2 DEF Listed

\* For any number of callers, ranks and workers, a first join whose event is published is in
\* the creator's list while the caller waits.
THEOREM IndexSafe == IndexSpec => [](IndexTypeOK /\ PublishedIsListed)
<1>1. IndexInv => IndexTypeOK /\ PublishedIsListed BY IndexedIsListed DEF IndexInv
<1> QED BY IndexStarts, IndexKept, <1>1, PTL DEF IndexSpec

\* What Redis holds follows PostgreSQL and the sockets: the leases of those present and
\* the index of those waiting, for every number of sockets, callers and workers.
THEOREM RedisSafe == RedisSpec => []RedisIsSound
<1>1. /\ PresenceTypeOK /\ RenewedIsKept /\ IndexTypeOK /\ PublishedIsListed => RedisIsSound
  BY DEF RedisIsSound
<1> QED BY PresenceSafe, IndexSafe, <1>1, PTL DEF RedisSpec
=============================================================================
