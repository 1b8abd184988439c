--------------------------- MODULE HotlineProofs ---------------------------
(***************************************************************************)
(* Proofs about module Hotline, for any number of callers, payments and    *)
(* calls: its safety invariants, through one inductive invariant IInv, and *)
(* that it implements module Payment.                                      *)
(***************************************************************************)
EXTENDS Hotline, TLAPS

-----------------------------------------------------------------------------
(***************************************************************************)
(* The inductive invariant: the properties themselves and what keeps them. *)
(***************************************************************************)

\* The rows of a call: who it is with, and that only LIVE marks it started.
CallRows ==
    \A c \in Calls :
        /\ callStatus[c] = "NONE" => callPayment[c] = None
        /\ callStatus[c] # "NONE" => callViewer[c] \in Viewers
        /\ callStarted[c] => callStatus[c] \in {"LIVE", "ENDED", "FAILED"}
        /\ callStatus[c] = "LIVE" => callStarted[c]

\* An attempt backs one call, made for the entry the attempt names, and none
\* before it was AUTHORIZED.
OneCallPerAttempt ==
    /\ \A c, d \in Calls : callPayment[c] = callPayment[d] /\ callPayment[c] # None
                           => c = d
    /\ \A c \in Calls : callPayment[c] # None =>
          /\ payEntry[callPayment[c]] = callViewer[c]
          /\ payStatus[callPayment[c]] \notin {"NONE", "CREATED", "AUTHORIZED"}

\* Past CREATED, and in any job, an attempt has its intent id, and an attempt is
\* AUTHORIZED only after its hold was placed.
IntentRecorded ==
    /\ \A a \in Attempts : payStatus[a] \notin {"NONE", "CREATED"} => payIntent[a]
    /\ \A a \in verifying : payIntent[a]
    /\ \A j \in cancelJobs : payIntent[j.attempt]
    /\ \A a \in Attempts : payStatus[a] = "AUTHORIZED" \/ a \in verifying
          => intent[a] \in {"requires_capture", "succeeded", "canceled"}

\* What a job learned from Stripe, and what an event says, stays true.
NewsIsTrue ==
    /\ \A j \in captureJobs : /\ callPayment[j.call] # None
                              /\ j.phase = "succeeded" => intent[callPayment[j.call]] = "succeeded"
                              /\ j.phase = "released" => intent[callPayment[j.call]] = "canceled"
    /\ \A j \in cancelJobs : j.phase = "canceled" => intent[j.attempt] = "canceled"
    /\ \A e \in events : /\ e.type = "succeeded" => intent[e.attempt] = "succeeded"
                         /\ e.type = "canceled" => intent[e.attempt] = "canceled"

\* The entry of a call still being charged: SELECTED, unless the show is over.
PendingEntry ==
    \A c \in Calls : callStatus[c] = "PAYMENT_PENDING" =>
        \/ entryStatus[callViewer[c]] = "SELECTED"
        \/ showStatus = "ENDED" /\ entryStatus[callViewer[c]] = "ENDED"

\* No call precedes the show, and its queue is closed only after it.
ShowRows == /\ showStatus = "CREATED" => \A c \in Calls : callStatus[c] = "NONE"
            /\ closing => showStatus = "ENDED"

\* Earnings come from calls that started, refunds from calls that never did.
MoneyRows ==
    /\ \A c \in Calls : callStarted[c] /\ callPayment[c] # None
                        => callPayment[c] \in earned
    /\ \A a \in earned : /\ payStatus[a] = "CAPTURED"
                         /\ \E c \in Calls : callPayment[c] = a /\ callStarted[c]
    /\ \A a \in refunds : /\ payStatus[a] = "CAPTURED"
                          /\ \E c \in Calls : /\ callPayment[c] = a
                                              /\ ~callStarted[c]
                                              /\ callStatus[c] \in FinishedStatuses

\* A call that was over before its payment was captured had its hold released,
\* or a decline applied to it.
FailedCallReleased ==
    \A c \in Calls :
        /\ callStatus[c] \in FinishedStatuses
        /\ callPayment[c] # None
        /\ payStatus[callPayment[c]] # "CAPTURED"
        => DeclineApplied(callPayment[c]) \/ intent[callPayment[c]] = "canceled"

IInv ==
    /\ TypeOK
    /\ CallRows
    /\ OneCallPerAttempt
    /\ IntentRecorded
    /\ NewsIsTrue
    /\ BooksMatchStripe
    /\ OneActiveCall
    /\ PendingIsCapturing
    /\ OpenPaidCallIsCharged
    /\ WaitingIsAuthorized
    /\ PendingEntry
    /\ EntryFollowsCall
    /\ ShowRows
    /\ EndedShowIsQuiet
    /\ MoneyRows
    /\ FailedCallReleased
    /\ UndeclinedIsSettled

-----------------------------------------------------------------------------
USE DEF queueVars, callVars, payVars, moneyVars, jobVars, stripeVars

USE PayerAssumption, TierAssumption, NoneAssumption, BoundAssumption

(***************************************************************************)
(* A show that was just created (shows.create), without callers, calls or  *)
(* payments, satisfies the invariant.                                      *)
(***************************************************************************)
LEMMA InitIInv == Init => IInv
<1> SUFFICES ASSUME Init PROVE IInv
  OBVIOUS
<1>1. TypeOK
  BY DEF Init, TypeOK, ShowStatuses, IntentStatuses
<1> QED
  BY <1>1 DEF Init, IInv, CallRows, OneCallPerAttempt, IntentRecorded, NewsIsTrue,
     BooksMatchStripe, OneActiveCall, PendingIsCapturing, OpenPaidCallIsCharged,
     WaitingIsAuthorized, PendingEntry, EntryFollowsCall, ShowRows,
     EndedShowIsQuiet,
     MoneyRows, FailedCallReleased, UndeclinedIsSettled, Settled, CallsFor,
     OpenCalls,
     ActiveCalls, ActiveCallStatuses, ConnectableStatuses, FinishedStatuses

(***************************************************************************)
(* calls.createCall keeps the invariant: the hold it starts to capture is  *)
(* AUTHORIZED, so no earlier call was made on it.                          *)
(***************************************************************************)
LEMMA CreateCallStep ==
    ASSUME IInv, NEW v \in Viewers, NEW c \in Calls,
           PrepareSelection, v \in Waiting, CreateCall(v, c)
    PROVE  IInv'
<1> USE DEF IInv, PrepareSelection, Waiting
<1> DEFINE paid == entryTier[v] \in PaidTiers
           a == IF paid THEN entryPayment[v] ELSE None
<1>1. TypeOK'
  BY DEF CreateCall, FirstStatus, TypeOK, CaptureJob, CapturePhases,
       EntryStatuses,
         CallStatuses, PayStatuses
<1> USE DEF TypeOK
<1>2. /\ callStatus[c] = "NONE" /\ entryStatus[v] = "WAITING"
      /\ \A d \in Calls : callStatus[d] \in {"NONE", "ENDED", "FAILED"}
  BY DEF CreateCall, ActiveCalls, ActiveCallStatuses, CallStatuses
<1>3. /\ ~paid => a = None
      /\ paid => /\ a \in Attempts /\ payStatus[a] = "AUTHORIZED" /\ payEntry[a] = v
                 /\ payIntent[a]
                 /\ \A d \in Calls : callPayment[d] # a
  BY <1>2 DEF WaitingIsAuthorized, OneCallPerAttempt, IntentRecorded
<1>4. /\ entryStatus' = [entryStatus EXCEPT ![v] = "SELECTED"]
      /\ callStatus' = [callStatus EXCEPT ![c] = IF paid THEN "PAYMENT_PENDING" ELSE "CREATED"]
      /\ callViewer' = [callViewer EXCEPT ![c] = v]
      /\ callPayment' = [callPayment EXCEPT ![c] = a]
      /\ payStatus' = IF paid THEN [payStatus EXCEPT ![a] = "CAPTURING"] ELSE payStatus
      /\ captureJobs' = IF paid THEN captureJobs \cup
                                {[call |-> c, phase |-> "scheduled", tries |-> 0]}
                         ELSE captureJobs
      /\ UNCHANGED <<showStatus, closing, entryTier, entryPayment, callStarted,
                      payTier, payIntent, payEntry, moneyVars, cancelJobs,
                      verifying, stripeVars, stripeEvents>>
  BY DEF CreateCall, FirstStatus
<1> HIDE DEF a
<1>5. CallRows' BY <1>2, <1>3, <1>4 DEF CallRows
<1>6. OneCallPerAttempt' BY <1>2, <1>3, <1>4 DEF OneCallPerAttempt, CallRows
<1>7. IntentRecorded' BY <1>2, <1>3, <1>4 DEF IntentRecorded
<1>8. NewsIsTrue'
  BY <1>2, <1>3, <1>4 DEF NewsIsTrue, CaptureJob, CallRows
<1>9. BooksMatchStripe' BY <1>2, <1>3, <1>4 DEF BooksMatchStripe, CallsFor,
                           CallRows
<1>10. OneActiveCall' /\ ShowRows' /\ PendingEntry'
  BY <1>2, <1>3, <1>4 DEF OneActiveCall, ShowRows, PendingEntry, ActiveCalls,
       ActiveCallStatuses
<1>11. PendingIsCapturing'
  BY <1>2, <1>3, <1>4 DEF PendingIsCapturing
<1>12. OpenPaidCallIsCharged'
  BY <1>2, <1>3, <1>4 DEF OpenPaidCallIsCharged, OpenCalls, ConnectableStatuses
<1>13. WaitingIsAuthorized'
  BY <1>2, <1>3, <1>4 DEF WaitingIsAuthorized
<1>14. EntryFollowsCall'
  BY <1>2, <1>3, <1>4 DEF EntryFollowsCall, OpenCalls, ActiveCalls,
       ConnectableStatuses, ActiveCallStatuses
<1>15. EndedShowIsQuiet'
  BY <1>2, <1>3, <1>4 DEF EndedShowIsQuiet, ShowRows
<1>16. MoneyRows'
  BY <1>2, <1>3, <1>4 DEF MoneyRows, FinishedStatuses, CallRows
<1>17. FailedCallReleased' /\ UndeclinedIsSettled'
  BY <1>2, <1>3, <1>4 DEF FailedCallReleased, UndeclinedIsSettled, Settled,
       FinishedStatuses, DeclineApplied
<1> QED BY <1>1, <1>5, <1>6, <1>7, <1>8, <1>9, <1>10, <1>11, <1>12, <1>13,
           <1>14, <1>15, <1>16, <1>17

(***************************************************************************)
(* lib/calls.applyTransition keeps the invariant, alone or with the end of *)
(* the show: it moves the one open call of the show, whose payment, if it  *)
(* has one, is CAPTURED, so going LIVE earns it and ending before refunds. *)
(***************************************************************************)
LEMMA TransitionStep ==
    ASSUME IInv, NEW c \in Calls, NEW target \in CallStatuses,
           ApplyTransition(c, target),
           \/ UNCHANGED <<showStatus, closing>>
           \/ showStatus' = "ENDED" /\ closing' = TRUE /\ target = "ENDED",
           UNCHANGED <<entryTier, entryPayment, payVars, jobVars, stripeVars,
                       stripeEvents>>
    PROVE  IInv'
<1> USE DEF IInv
<1> DEFINE a == callPayment[c]
           v == callViewer[c]
<1>1. /\ callStatus[c] \in {"CREATED", "CONNECTING", "LIVE"}
      /\ target \in {"CONNECTING", "LIVE", "ENDED", "FAILED"}
      /\ target # callStatus[c]
      /\ callStatus[c] = "LIVE" => target \in {"ENDED", "FAILED"}
  BY DEF ApplyTransition, CanTransition
<1>2. TypeOK'
  BY <1>1 DEF ApplyTransition, EntryFor, RequestRefund, TypeOK, ShowStatuses,
       EntryStatuses,
         CallStatuses, FinishedStatuses
<1> USE DEF TypeOK
<1>3. /\ v \in Viewers /\ showStatus = "LIVE" /\ closing = FALSE
      /\ \A d \in Calls \ {c} : callStatus[d] \in {"NONE", "ENDED", "FAILED"}
      /\ callStarted[c] <=> callStatus[c] = "LIVE"
  <2>1. v \in Viewers /\ (callStarted[c] <=> callStatus[c] = "LIVE")
    BY <1>1 DEF CallRows
  <2>2. showStatus = "LIVE"
    BY <1>1 DEF EndedShowIsQuiet, ShowRows, OpenCalls, ConnectableStatuses,
         ShowStatuses
  <2>3. \A d \in Calls \ {c} : callStatus[d] \in {"NONE", "ENDED", "FAILED"}
    BY <1>1 DEF OneActiveCall, ActiveCalls, ActiveCallStatuses, CallStatuses
  <2> QED BY <2>1, <2>2, <2>3 DEF ShowRows
<1>4. a # None => /\ a \in Attempts /\ payStatus[a] = "CAPTURED" /\ payIntent[a]
                  /\ intent[a] = "succeeded" /\ payEntry[a] = v
                  /\ \A d \in Calls \ {c} : callPayment[d] # a
  BY <1>1 DEF OpenPaidCallIsCharged, OpenCalls, ConnectableStatuses,
       IntentRecorded,
              OneCallPerAttempt
<1>5. \A w \in Viewers : entryStatus[w] \in {"SELECTED", "CONNECTING", "LIVE"} => w = v
  BY <1>3 DEF EntryFollowsCall, ActiveCalls, ActiveCallStatuses
<1>6. /\ callStatus' = [callStatus EXCEPT ![c] = target]
      /\ callStarted' = [callStarted EXCEPT ![c] = @ \/ target = "LIVE"]
      /\ entryStatus' = [entryStatus EXCEPT ![v] =
             IF target \in {"ENDED", "FAILED"} THEN "ENDED" ELSE target]
      /\ UNCHANGED <<callViewer, callPayment>>
  BY DEF ApplyTransition, EntryFor, FinishedStatuses
<1>7. /\ earned' = IF target = "LIVE" /\ a # None THEN earned \cup {a} ELSE earned
      /\ refunds' = IF target \in {"ENDED", "FAILED"} /\ callStatus[c] # "LIVE" /\ a # None
                    THEN refunds \cup {a} ELSE refunds
  BY <1>1, <1>3, <1>4 DEF ApplyTransition, RefundsOn, RequestRefund,
       FinishedStatuses
<1> HIDE DEF a, v
<1> USE <1>1, <1>3, <1>6
<1>8. CallRows'
  BY DEF CallRows
<1>9. OneCallPerAttempt' /\ IntentRecorded' /\ NewsIsTrue' /\ BooksMatchStripe'
  BY DEF OneCallPerAttempt, IntentRecorded, NewsIsTrue, BooksMatchStripe, CallsFor
<1>10. OneActiveCall' /\ ShowRows'
  BY DEF OneActiveCall, ShowRows, ActiveCalls, ActiveCallStatuses
<1>11. PendingIsCapturing' /\ PendingEntry'
  BY DEF PendingIsCapturing, PendingEntry
<1>12. OpenPaidCallIsCharged'
  BY DEF OpenPaidCallIsCharged, OpenCalls, ConnectableStatuses
<1>13. WaitingIsAuthorized'
  BY DEF WaitingIsAuthorized
<1>14. EntryFollowsCall'
  BY <1>5 DEF EntryFollowsCall, OpenCalls, ActiveCalls, ConnectableStatuses,
         ActiveCallStatuses, v
<1>15. EndedShowIsQuiet'
  BY DEF EndedShowIsQuiet, OpenCalls, ConnectableStatuses
<1>16. MoneyRows'
  <2>1. \A d \in Calls : callStarted'[d] /\ callPayment'[d] # None
                         => callPayment'[d] \in earned'
    BY <1>4, <1>7 DEF MoneyRows, a
  <2>2. ASSUME NEW b \in earned'
        PROVE  payStatus'[b] = "CAPTURED" /\ \E d \in Calls : callPayment'[d] = b /\ callStarted'[d]
    BY <2>2, <1>4, <1>7 DEF MoneyRows, a
  <2>3. ASSUME NEW b \in refunds'
        PROVE  /\ payStatus'[b] = "CAPTURED"
               /\ \E d \in Calls : /\ callPayment'[d] = b /\ ~callStarted'[d]
                                   /\ callStatus'[d] \in FinishedStatuses
    BY <2>3, <1>4, <1>7 DEF MoneyRows, a, FinishedStatuses
  <2> QED BY <2>1, <2>2, <2>3 DEF MoneyRows
<1>17. FailedCallReleased'
  BY <1>4 DEF FailedCallReleased, FinishedStatuses, DeclineApplied, a
<1>18. UndeclinedIsSettled'
  BY <1>4, <1>7 DEF UndeclinedIsSettled, Settled, FinishedStatuses,
       DeclineApplied, a, MoneyRows
<1> QED
  BY <1>2, <1>8, <1>9, <1>10, <1>11, <1>12, <1>13, <1>14, <1>15, <1>16, <1>17,
       <1>18

(***************************************************************************)
(* lib/payments.recordCaptured keeps the invariant, whoever calls it and   *)
(* however late: what it hears is true at Stripe, so the attempt has its   *)
(* one call.  A call it finds finished had a decline applied.              *)
(***************************************************************************)
LEMMA CapturedStep ==
    ASSUME IInv, NEW a \in Attempts, intent[a] = "succeeded", RecordCaptured(a),
           captureJobs' \subseteq captureJobs, stripeEvents \subseteq stripeEvents',
           stripeEvents' \subseteq Event,
           UNCHANGED <<showStatus, closing, entryTier, entryPayment, callViewer,
                       callPayment, callStarted, payTier, payIntent, payEntry,
                       earned, cancelJobs, verifying, stripeVars>>
    PROVE  IInv'
<1> USE DEF IInv
<1>1. TypeOK'
  BY DEF RecordCaptured, RequestRefund, TypeOK, EntryStatuses, CallStatuses,
       PayStatuses
<1> USE DEF TypeOK
<1>2. PICK c \in Calls : callPayment[c] = a
  BY DEF BooksMatchStripe, CallsFor
<1>3. /\ callViewer[c] \in Viewers /\ payEntry[a] = callViewer[c] /\ payIntent[a]
      /\ \A d \in Calls \ {c} : callPayment[d] # a
      /\ payStatus[a] \in {"CAPTURING", "CAPTURED", "FAILED"}
      /\ callStatus[c] # "NONE"
  BY <1>2 DEF CallRows, OneCallPerAttempt, BooksMatchStripe, IntentRecorded,
       PayStatuses
<1>4. /\ callStatus[c] = "PAYMENT_PENDING" <=> payStatus[a] = "CAPTURING"
      /\ callStatus[c] = "PAYMENT_PENDING" => ~callStarted[c]
      /\ showStatus # "LIVE" => /\ showStatus = "ENDED"
                                /\ callStatus[c] \in {"PAYMENT_PENDING", "ENDED", "FAILED"}
  BY <1>2, <1>3 DEF PendingIsCapturing, CallRows, ShowRows, ShowStatuses,
       EndedShowIsQuiet, OpenCalls, ConnectableStatuses,
              CallStatuses
<1>5. payStatus' = [payStatus EXCEPT ![a] = "CAPTURED"]
  BY DEF RecordCaptured
<1>6. callStatus' = [callStatus EXCEPT ![c] =
          IF @ # "PAYMENT_PENDING" THEN @
          ELSE IF showStatus = "LIVE" THEN "CREATED" ELSE "FAILED"]
  BY <1>2, <1>3, <1>4 DEF RecordCaptured, PendingCalls, CallsFor, TooLate,
       ShowLive
<1>7. entryStatus' = [entryStatus EXCEPT ![callViewer[c]] =
          IF callStatus[c] = "PAYMENT_PENDING" /\ showStatus # "LIVE" THEN "ENDED" ELSE @]
  BY <1>2, <1>3, <1>4 DEF RecordCaptured, PendingCalls, CallsFor, TooLate,
       ShowLive
<1>8. refunds' = IF showStatus # "LIVE" /\ ~callStarted[c] THEN refunds \cup {a} ELSE refunds
  BY <1>2, <1>3, <1>4 DEF RecordCaptured, CallsFor, TooLate, ShowLive,
       RequestRefund
<1> USE <1>2, <1>3, <1>4, <1>5, <1>6
<1>9. CallRows' /\ OneCallPerAttempt' /\ IntentRecorded' /\ NewsIsTrue'
  BY DEF CallRows, OneCallPerAttempt, IntentRecorded, NewsIsTrue, CaptureJob
<1>10. BooksMatchStripe' BY DEF BooksMatchStripe, CallsFor
<1>11. OneActiveCall' /\ ShowRows'
  BY DEF OneActiveCall, ShowRows, ActiveCalls, ActiveCallStatuses
<1>12. PendingIsCapturing' BY DEF PendingIsCapturing
<1>13. PendingEntry' BY <1>7 DEF PendingEntry
<1>14. OpenPaidCallIsCharged'
  BY DEF OpenPaidCallIsCharged, OpenCalls, ConnectableStatuses
<1>15. WaitingIsAuthorized' BY <1>7 DEF WaitingIsAuthorized
<1>16. EntryFollowsCall'
  BY <1>7 DEF EntryFollowsCall, OpenCalls, ActiveCalls, ConnectableStatuses,
       OneActiveCall,
         ActiveCallStatuses, PendingEntry
<1>17. EndedShowIsQuiet'
  BY <1>7 DEF EndedShowIsQuiet, OpenCalls, ConnectableStatuses, ActiveEntries,
       ActiveEntryStatuses
<1>18. MoneyRows'
  BY <1>8 DEF MoneyRows, FinishedStatuses
<1>19. FailedCallReleased'
  BY DEF FailedCallReleased, DeclineApplied
<1>20. UndeclinedIsSettled'
  BY <1>8 DEF UndeclinedIsSettled, FailedCallReleased, Settled,
       FinishedStatuses, DeclineApplied
<1> QED
  BY <1>1, <1>9, <1>10, <1>11, <1>12, <1>13, <1>14, <1>15, <1>16, <1>17, <1>18,
       <1>19, <1>20

(***************************************************************************)
(* lib/payments.recordNotCaptured keeps the invariant: the entry it        *)
(* releases is the one of the call that fails, or is WAITING.              *)
(***************************************************************************)
LEMMA NotCapturedStep ==
    ASSUME IInv, NEW a \in Attempts, NEW status \in {"CANCELED", "FAILED"},
           payIntent[a],
           status = "CANCELED" => intent[a] = "canceled",
           intent[a] = "canceled" \/ \E e \in stripeEvents' : e.type = "payment_failed" /\ e.attempt = a,
           RecordNotCaptured(a, status),
           captureJobs' \subseteq captureJobs, cancelJobs' \subseteq cancelJobs,
           stripeEvents \subseteq stripeEvents', stripeEvents' \subseteq Event,
           UNCHANGED <<showStatus, closing, entryTier, entryPayment, callViewer,
                       callPayment, callStarted, payTier, payIntent, payEntry,
                       moneyVars, verifying, stripeVars>>
    PROVE  IInv'
<1> USE DEF IInv
<1>1. TypeOK'
  BY DEF RecordNotCaptured, TypeOK, EntryStatuses, CallStatuses, PayStatuses
<1> USE DEF TypeOK
<1>2. CASE payStatus[a] = "CAPTURED"
  <2>1. UNCHANGED <<payStatus, callStatus, entryStatus>>
    BY <1>2 DEF RecordNotCaptured
  <2> QED
    BY <1>1, <2>1 DEF CallRows, OneCallPerAttempt, IntentRecorded, NewsIsTrue,
     BooksMatchStripe, OneActiveCall, PendingIsCapturing, OpenPaidCallIsCharged,
     WaitingIsAuthorized, PendingEntry, EntryFollowsCall, ShowRows,
     EndedShowIsQuiet,
     MoneyRows, FailedCallReleased, UndeclinedIsSettled, Settled,
     DeclineApplied, CallsFor, OpenCalls,
     ActiveCalls, ActiveEntries
<1>3. CASE payStatus[a] # "CAPTURED"
  <2> DEFINE fails(c) == callPayment[c] = a /\ callStatus[c] = "PAYMENT_PENDING"
  <2>1. /\ payStatus' = [payStatus EXCEPT ![a] = status]
        /\ callStatus' = [c \in Calls |-> IF fails(c) THEN "FAILED" ELSE callStatus[c]]
        /\ \A v \in Viewers : \/ entryStatus'[v] = entryStatus[v]
                              \/ /\ entryStatus'[v] = "LEFT"
                                 /\ entryStatus[v] \in {"WAITING", "SELECTED"}
    BY <1>3 DEF RecordNotCaptured, FailsWith, WaitsOn, PendingCalls, CallsFor
  <2>2. \A v \in Viewers : entryStatus[v] = "WAITING" /\ payEntry[a] = v
                           => entryStatus'[v] = "LEFT"
    BY <1>3 DEF RecordNotCaptured, WaitsOn
  <2>3. \A c \in Calls : fails(c) => /\ callViewer[c] \in Viewers
                                     /\ payEntry[a] = callViewer[c]
                                     /\ entryStatus[callViewer[c]] \in {"SELECTED", "ENDED"}
                                     /\ entryStatus'[callViewer[c]] \in {"LEFT", "ENDED"}
    BY <1>3 DEF RecordNotCaptured, WaitsOn, PendingCalls, CallsFor, CallRows,
                OneCallPerAttempt, PendingEntry
  <2>4. \A v \in Viewers : entryStatus[v] \in {"SELECTED", "CONNECTING", "LIVE"}
                           /\ entryStatus'[v] # entryStatus[v]
                           => \E c \in Calls : fails(c) /\ callViewer[c] = v
    BY <1>3 DEF RecordNotCaptured, WaitsOn, PendingCalls, CallsFor, CallRows,
                OneCallPerAttempt
  <2>5. \A c \in Calls : callPayment[c] = a => callStatus[c] \in {"PAYMENT_PENDING", "ENDED", "FAILED"}
    BY <1>3 DEF OpenPaidCallIsCharged, OpenCalls, ConnectableStatuses,
         CallRows, CallStatuses
  <2> HIDE DEF fails
  <2>6. CallRows'
    BY <2>1 DEF CallRows, fails
  <2>7. OneCallPerAttempt' /\ IntentRecorded' /\ NewsIsTrue' /\ BooksMatchStripe'
    BY <2>1 DEF OneCallPerAttempt, IntentRecorded, NewsIsTrue,
         BooksMatchStripe, CallsFor
  <2>8. OneActiveCall' /\ ShowRows'
    BY <2>1 DEF OneActiveCall, ShowRows, ActiveCalls, ActiveCallStatuses, fails
  <2>9. PendingIsCapturing'
    BY <2>1 DEF PendingIsCapturing, fails
  <2>10. OpenPaidCallIsCharged'
    BY <2>1, <2>5 DEF OpenPaidCallIsCharged, OpenCalls, ConnectableStatuses
  <2>11. WaitingIsAuthorized'
    BY <2>1, <2>2 DEF WaitingIsAuthorized
  <2>12. ASSUME NEW c \in ActiveCalls, ~fails(c)
         PROVE  entryStatus'[callViewer[c]] = entryStatus[callViewer[c]] \/ entryStatus[callViewer[c]] = "WAITING"
    BY <2>1, <2>4, <2>12 DEF OneActiveCall, ActiveCalls, ActiveCallStatuses,
         CallRows, fails
  <2>17. PendingEntry'
    BY <2>1, <2>12 DEF PendingEntry, ActiveCalls, ActiveCallStatuses, CallRows,
         fails
  <2>13. EntryFollowsCall'
    <3>1. ASSUME NEW c \in OpenCalls'
          PROVE  c \in OpenCalls /\ ~fails(c) /\ callStatus'[c] = callStatus[c]
      BY <2>1 DEF OpenCalls, ConnectableStatuses, fails
    <3>2. ASSUME NEW c \in OpenCalls'
          PROVE  entryStatus'[callViewer'[c]] =
                   IF callStatus'[c] = "CREATED" THEN "SELECTED" ELSE callStatus'[c]
      BY <3>1, <2>12 DEF EntryFollowsCall, OpenCalls, ConnectableStatuses,
           ActiveCalls,
                         ActiveCallStatuses
    <3>3. ASSUME NEW v \in Viewers, entryStatus'[v] \in {"SELECTED", "CONNECTING", "LIVE"}
          PROVE  \E c \in ActiveCalls' : callViewer'[c] = v
      <4>1. entryStatus[v] = entryStatus'[v]
        BY <2>1, <3>3
      <4>2. PICK c \in ActiveCalls : callViewer[c] = v
        BY <3>3, <4>1 DEF EntryFollowsCall
      <4>3. c \in Calls /\ ~fails(c)
        BY <2>3, <3>3, <4>2 DEF ActiveCalls
      <4>4. c \in ActiveCalls'
        BY <2>1, <4>2, <4>3 DEF ActiveCalls
      <4> QED BY <4>2, <4>4
    <3> QED BY <3>2, <3>3 DEF EntryFollowsCall
  <2>14. EndedShowIsQuiet'
    BY <2>1 DEF EndedShowIsQuiet, OpenCalls, ConnectableStatuses, ActiveEntries,
                ActiveEntryStatuses
  <2>15. MoneyRows'
    BY <1>3, <2>1 DEF MoneyRows, FinishedStatuses, fails
  <2>16. FailedCallReleased' /\ UndeclinedIsSettled'
    BY <2>1 DEF FailedCallReleased, UndeclinedIsSettled, Settled,
         FinishedStatuses, DeclineApplied, fails
  <2> QED
    BY <1>1, <2>6, <2>7, <2>8, <2>9, <2>10, <2>11, <2>17, <2>13, <2>14, <2>15,
         <2>16
<1> QED BY <1>2, <1>3

(***************************************************************************)
(* What Stripe does to one intent keeps the invariant, together with the   *)
(* step of the job or the caller that made it do so: an intent that        *)
(* succeeded or was canceled stays so, and only a call's payment succeeds. *)
(***************************************************************************)
LEMMA StripeStep ==
    ASSUME IInv,
           intent' \in [Attempts -> IntentStatuses],
           \A a \in Attempts :
              /\ intent[a] \in {"succeeded", "canceled"} => intent'[a] = intent[a]
              /\ intent[a] = "requires_capture" => intent'[a] \in {"requires_capture", "succeeded", "canceled"}
              /\ intent'[a] = "succeeded" /\ intent[a] # "succeeded" => CallsFor(a) # {},
           events' \subseteq Event,
           \A e \in events' \ events : e.type \in {"succeeded", "canceled"}
                                       => intent'[e.attempt] = e.type,
           captureJobs' \subseteq CaptureJob,
           \A j \in captureJobs' \ captureJobs :
              /\ callPayment[j.call] # None
              /\ j.phase = "succeeded" => intent'[callPayment[j.call]] = "succeeded"
              /\ j.phase = "released" => intent'[callPayment[j.call]] = "canceled",
           cancelJobs' \subseteq CancelJob,
           \A j \in cancelJobs' \ cancelJobs :
              /\ payIntent[j.attempt]
              /\ j.phase = "canceled" => intent'[j.attempt] = "canceled",
           verifying' \subseteq Attempts,
           \A a \in verifying' \ verifying : payIntent[a] /\ intent[a] = "requires_capture",
           UNCHANGED <<showStatus, closing, queueVars, callVars, payVars, moneyVars,
                       stripeEvents>>
    PROVE  IInv'
<1> USE DEF IInv
<1>1. TypeOK'
  BY DEF TypeOK
<1>2. CallRows' /\ OneCallPerAttempt' /\ OneActiveCall' /\ PendingIsCapturing'
  BY DEF CallRows, OneCallPerAttempt, OneActiveCall, ActiveCalls,
       PendingIsCapturing
<1>3. WaitingIsAuthorized' /\ PendingEntry' /\ EntryFollowsCall' /\ ShowRows'
  BY DEF WaitingIsAuthorized, PendingEntry, EntryFollowsCall, ShowRows,
       OpenCalls, ActiveCalls
<1>4. EndedShowIsQuiet' /\ MoneyRows' /\ UndeclinedIsSettled'
  BY DEF EndedShowIsQuiet, OpenCalls, ActiveEntries, MoneyRows,
       UndeclinedIsSettled,
         DeclineApplied, Settled
<1> USE DEF TypeOK
<1>5. IntentRecorded'
  BY DEF IntentRecorded, CancelJob
<1>6. NewsIsTrue'
  <2>1. ASSUME NEW j \in captureJobs'
        PROVE /\ callPayment[j.call] # None
              /\ j.phase = "succeeded" => intent'[callPayment[j.call]] = "succeeded"
              /\ j.phase = "released" => intent'[callPayment[j.call]] = "canceled"
    BY DEF NewsIsTrue, CaptureJob
  <2>2. ASSUME NEW j \in cancelJobs', j.phase = "canceled"
        PROVE intent'[j.attempt] = "canceled"
    BY <2>2 DEF NewsIsTrue, CancelJob
  <2>3. ASSUME NEW e \in events'
        PROVE /\ e.type = "succeeded" => intent'[e.attempt] = "succeeded"
              /\ e.type = "canceled" => intent'[e.attempt] = "canceled"
    BY DEF NewsIsTrue, Event
  <2> QED BY <2>1, <2>2, <2>3 DEF NewsIsTrue
<1>7. BooksMatchStripe'
  BY DEF BooksMatchStripe, CallsFor
<1>8. OpenPaidCallIsCharged' /\ FailedCallReleased'
  BY DEF OpenPaidCallIsCharged, OpenCalls, FailedCallReleased, DeclineApplied
<1> QED BY <1>1, <1>2, <1>3, <1>4, <1>5, <1>6, <1>7, <1>8

(***************************************************************************)
(* shows.closeQueue keeps the invariant: entries leave the queue, and a    *)
(* call still being charged is left to its capture.                        *)
(***************************************************************************)
LEMMA CloseQueueStep == ASSUME IInv, CloseQueue PROVE IInv'
<1> USE DEF IInv
<1>1. PICK B \in SUBSET ActiveEntries :
        /\ Batch(B)
        /\ entryStatus' = [v \in Viewers |->
                             IF v \in B THEN "ENDED" ELSE entryStatus[v]]
        /\ ScheduleCancel({a \in Attempts : \E v \in B :
                entryStatus[v] = "WAITING" /\ entryPayment[v] = a})
        /\ closing' = MoreToClose(B)
  BY DEF CloseQueue
<1>2. /\ closing /\ showStatus = "ENDED" /\ OpenCalls = {}
      /\ UNCHANGED <<showStatus, entryTier, entryPayment, callVars, payVars,
                   moneyVars, captureJobs, verifying, stripeVars, stripeEvents>>
  BY DEF CloseQueue, ShowRows, EndedShowIsQuiet
<1>3. TypeOK'
  BY <1>1, <1>2 DEF TypeOK, ScheduleCancel, MoreToClose, CancelJob,
       CancelPhases, EntryStatuses
<1>4. \A j \in cancelJobs' \ cancelJobs : /\ payIntent[j.attempt]
                                          /\ j.phase = "scheduled"
  BY <1>1 DEF ScheduleCancel, Cancellable
<1>5. closing' \/ ActiveEntries' = {}
  <2>1. CASE Cardinality(B) = CloseBatch
    BY <1>1, <2>1 DEF MoreToClose
  <2>2. CASE B = ActiveEntries
    BY <1>1, <2>2 DEF ActiveEntries, ActiveEntryStatuses
  <2> QED BY <1>1, <2>1, <2>2 DEF Batch
<1> USE <1>1, <1>2 DEF TypeOK
<1>6. CallRows' /\ OneCallPerAttempt' /\ BooksMatchStripe' /\ OneActiveCall' /\ PendingIsCapturing'
  BY DEF CallRows, OneCallPerAttempt, BooksMatchStripe, CallsFor,
       OneActiveCall, ActiveCalls, PendingIsCapturing
<1>7. IntentRecorded' /\ NewsIsTrue'
  BY <1>4 DEF IntentRecorded, NewsIsTrue
<1>8. OpenPaidCallIsCharged' /\ WaitingIsAuthorized' /\ ShowRows'
  BY DEF OpenPaidCallIsCharged, WaitingIsAuthorized, ShowRows, OpenCalls
<1>9. PendingEntry' /\ EntryFollowsCall'
  BY DEF PendingEntry, EntryFollowsCall, OpenCalls, ActiveCalls, CallRows
<1>10. EndedShowIsQuiet'
  BY <1>5 DEF EndedShowIsQuiet, OpenCalls
<1>11. MoneyRows' /\ FailedCallReleased' /\ UndeclinedIsSettled'
  BY DEF MoneyRows, FailedCallReleased, UndeclinedIsSettled, DeclineApplied,
       Settled
<1> QED BY <1>3, <1>6, <1>7, <1>8, <1>9, <1>10, <1>11

(***************************************************************************)
(* The mutations around the queue and the authorization keep the           *)
(* invariant.  A caller can join with an attempt only while it is          *)
(* AUTHORIZED, so before any call was made on it.                          *)
(***************************************************************************)
LEMMA QueueStep ==
    ASSUME IInv,
           \/ Start
           \/ \E a \in Attempts, t \in Tiers : Prepare(a, t)
           \/ \E a \in Attempts : AttachIntent(a) \/ MarkAuthorized(a)
           \/ \E v \in Viewers, t \in Tiers :
                 Join(v, t) \/ \E a \in Attempts : JoinWithPayment(v, t, a)
           \/ \E v \in Viewers : Leave(v)
    PROVE  IInv'
<1> USE DEF IInv, CallRows, OneCallPerAttempt, IntentRecorded, NewsIsTrue,
     BooksMatchStripe,
        OneActiveCall, PendingIsCapturing, OpenPaidCallIsCharged,
        WaitingIsAuthorized,
        PendingEntry, EntryFollowsCall, ShowRows, EndedShowIsQuiet, MoneyRows,
        FailedCallReleased, UndeclinedIsSettled, Settled, DeclineApplied, CallsFor,
        OpenCalls, ActiveCalls, ActiveEntries, TypeOK, ShowStatuses, EntryStatuses,
        PayStatuses
<1>1. CASE Start
  BY <1>1 DEF Start
<1>2. ASSUME NEW a \in Attempts, NEW t \in Tiers, Prepare(a, t) PROVE IInv'
  BY <1>2 DEF Prepare
<1>3. ASSUME NEW a \in Attempts, AttachIntent(a) PROVE IInv'
  BY <1>3 DEF AttachIntent
<1>4. ASSUME NEW a \in Attempts, MarkAuthorized(a) PROVE IInv'
  BY <1>4 DEF MarkAuthorized
<1>5. ASSUME NEW v \in Viewers, NEW t \in Tiers, Join(v, t) PROVE IInv'
  <2>1. TypeOK' /\ WaitingIsAuthorized'
    BY <1>5 DEF Join, JoinQueue
  <2>2. PendingEntry' /\ EntryFollowsCall' /\ EndedShowIsQuiet'
    BY <1>5 DEF Join, JoinQueue, ConnectableStatuses
  <2> QED BY <1>5, <2>1, <2>2 DEF Join, JoinQueue
<1>6. ASSUME NEW v \in Viewers, NEW t \in Tiers, NEW a \in Attempts,
             JoinWithPayment(v, t, a)
      PROVE  IInv'
  <2>1. TypeOK' /\ WaitingIsAuthorized'
    BY <1>6 DEF JoinWithPayment, JoinQueue, Usable
  <2>2. PendingEntry' /\ EntryFollowsCall' /\ EndedShowIsQuiet'
    BY <1>6 DEF JoinWithPayment, JoinQueue, ConnectableStatuses
  <2>3. OneCallPerAttempt'
    BY <1>6 DEF JoinWithPayment, JoinQueue, Usable
  <2> QED BY <1>6, <2>1, <2>2, <2>3 DEF JoinWithPayment, JoinQueue
<1>7. ASSUME NEW v \in Viewers, Leave(v) PROVE IInv'
  <2>1. TypeOK' /\ WaitingIsAuthorized'
    BY <1>7 DEF Leave, ScheduleCancel, CancelJob, CancelPhases
  <2>2. PendingEntry' /\ EntryFollowsCall' /\ EndedShowIsQuiet'
    BY <1>7 DEF Leave, ConnectableStatuses, ActiveEntryStatuses
  <2>3. IntentRecorded' /\ NewsIsTrue'
    BY <1>7 DEF Leave, ScheduleCancel, Cancellable
  <2> QED BY <1>7, <2>1, <2>2, <2>3 DEF Leave
<1> QED BY <1>1, <1>2, <1>3, <1>4, <1>5, <1>6, <1>7

(***************************************************************************)
(* Stripe's own steps and the steps of payments.capture and cancelIntent   *)
(* before their closing mutation, a job that dies, and the sweep.          *)
(***************************************************************************)
LEMMA JobStep ==
    ASSUME IInv,
           \/ \E a \in Attempts : \/ CreateIntent(a) \/ VerifyAuthorization(a)
                                  \/ ConfirmCard(a) \/ HoldLapses(a)
           \/ \E c \in Calls : Sweep(c)
           \/ \E j \in captureJobs :
                \/ CaptureBegin(j) \/ CaptureAnswered(j) \/ CaptureUnanswered(j)
                \/ CaptureRelease(j) \/ CaptureReleaseFails(j)
           \/ \E j \in cancelJobs : CancelBegin(j) \/ CancelCall(j)
           \/ JobDies
    PROVE  IInv'
<1> USE DEF IInv, TypeOK, IntentStatuses
<1>1. ASSUME NEW a \in Attempts, CreateIntent(a) PROVE IInv'
  BY <1>1, StripeStep DEF CreateIntent
<1>2. ASSUME NEW a \in Attempts, VerifyAuthorization(a) PROVE IInv'
  BY <1>2, StripeStep DEF VerifyAuthorization
<1>3. ASSUME NEW a \in Attempts, ConfirmCard(a) PROVE IInv'
  <2>1. \A e \in events' \ events : e \in Event /\ e.type = "payment_failed"
    <3>1. CASE UNCHANGED events
      BY <3>1
    <3>2. CASE \E n \in 1..MaxDeclines :
                  events' = events \cup {[type |-> "payment_failed", attempt |-> a, n |-> n]}
      BY <3>2 DEF Event
    <3> QED BY <1>3, <3>1, <3>2 DEF ConfirmCard
  <2> QED BY <1>3, <2>1, StripeStep DEF ConfirmCard
<1>4. ASSUME NEW a \in Attempts, HoldLapses(a) PROVE IInv'
  BY <1>4, StripeStep DEF HoldLapses, StripeCancels, Event, Ev
<1>5. ASSUME NEW c \in Calls, Sweep(c) PROVE IInv'
  BY <1>5, StripeStep DEF Sweep, Stalled, PendingIsCapturing, CaptureJob,
       CapturePhases
<1>6. ASSUME NEW j \in captureJobs
      PROVE  /\ j \in CaptureJob /\ j.call \in Calls
             /\ callPayment[j.call] \in Attempts
             /\ j.call \in CallsFor(callPayment[j.call])
  BY DEF NewsIsTrue, CaptureJob, CallsFor
<1>7. ASSUME NEW a \in Attempts, StripeCaptures(a), CallsFor(a) # {}
      PROVE  /\ intent' = [intent EXCEPT ![a] = "succeeded"] /\ intent[a] = "requires_capture"
             /\ events' \subseteq Event
             /\ \A e \in events' \ events : e.type = "succeeded" /\ e.attempt = a
  BY <1>7 DEF StripeCaptures, Event, Ev
<1>8. ASSUME NEW a \in Attempts, StripeCancels(a)
      PROVE  /\ intent' = [intent EXCEPT ![a] = "canceled"]
             /\ intent[a] \in {"requires_payment_method", "requires_capture"}
             /\ events' \subseteq Event
             /\ \A e \in events' \ events : e.type = "canceled" /\ e.attempt = a
  BY <1>8 DEF StripeCancels, Event, Ev
<1>9. ASSUME NEW j \in captureJobs, CaptureBegin(j) PROVE IInv'
  BY <1>6, <1>9, StripeStep DEF CaptureBegin, CaptureJob, CapturePhases
<1>10. ASSUME NEW j \in captureJobs, CaptureAnswered(j) PROVE IInv'
  BY <1>6, <1>7, <1>10, StripeStep DEF CaptureAnswered, MoveCapture,
       CaptureJob, CapturePhases
<1>11. ASSUME NEW j \in captureJobs, CaptureUnanswered(j) PROVE IInv'
  <2>1. \A k \in captureJobs' \ captureJobs :
            k \in CaptureJob /\ k.call = j.call /\ k.phase = "scheduled"
    BY <1>6, <1>11 DEF CaptureUnanswered, CaptureJob, CapturePhases
  <2>2. captureJobs' \subseteq CaptureJob
    BY <2>1
  <2>3. CASE StripeCaptures(callPayment[j.call])
    BY <1>6, <1>7, <1>11, <2>1, <2>2, <2>3, StripeStep DEF CaptureUnanswered
  <2>4. CASE UNCHANGED stripeVars
    BY <1>6, <1>11, <2>1, <2>2, <2>4, StripeStep DEF CaptureUnanswered
  <2> QED BY <1>11, <2>3, <2>4 DEF CaptureUnanswered
<1>12. ASSUME NEW j \in captureJobs, CaptureRelease(j) PROVE IInv'
  BY <1>6, <1>8, <1>12, StripeStep DEF CaptureRelease, MoveCapture, CaptureJob,
       CapturePhases
<1>13. ASSUME NEW j \in captureJobs, CaptureReleaseFails(j) PROVE IInv'
  BY <1>6, <1>8, <1>13, StripeStep DEF CaptureReleaseFails, MoveCapture
<1>14. ASSUME NEW j \in cancelJobs, CancelBegin(j) PROVE IInv'
  BY <1>14, StripeStep DEF CancelBegin, MoveCancel, Cancellable, CancelJob,
       CancelPhases
<1>15. ASSUME NEW j \in cancelJobs, CancelCall(j) PROVE IInv'
  BY <1>8, <1>15, StripeStep DEF CancelCall, MoveCancel, ReleasedAtStripe,
       CancelJob, CancelPhases, IntentRecorded
<1>16. CASE JobDies
  BY <1>16, StripeStep DEF JobDies
<1> QED BY <1>1, <1>2, <1>3, <1>4, <1>5, <1>9, <1>10, <1>11, <1>12, <1>13,
           <1>14, <1>15, <1>16

(***************************************************************************)
(* Every mutation, every step of an action and every step of Stripe keeps  *)
(* the invariant: one case per disjunct of Next.                           *)
(***************************************************************************)
LEMMA NextIInv == IInv /\ [Next]_vars => IInv'
<1> SUFFICES ASSUME IInv, [Next]_vars PROVE IInv'
  OBVIOUS
<1> USE DEF IInv, TypeOK
<1>1. CASE UNCHANGED vars
  BY <1>1 DEF vars, CallRows, OneCallPerAttempt, IntentRecorded, NewsIsTrue,
     BooksMatchStripe, OneActiveCall, PendingIsCapturing, OpenPaidCallIsCharged,
     WaitingIsAuthorized, PendingEntry, EntryFollowsCall, ShowRows,
     EndedShowIsQuiet,
     MoneyRows, FailedCallReleased, UndeclinedIsSettled, Settled, DeclineApplied,
     CallsFor, OpenCalls, ActiveCalls, ActiveEntries
<1>2. CASE Start \/ CloseQueue
  BY <1>2, QueueStep, CloseQueueStep
<1>3. CASE End
  <2>1. CASE \E c \in OpenCalls : ApplyTransition(c, "ENDED")
    BY <1>3, <2>1, TransitionStep DEF End, OpenCalls, CallStatuses
  <2>2. CASE OpenCalls = {} /\ UNCHANGED <<entryStatus, callVars, moneyVars>>
    BY <1>3, <2>2 DEF End, CallRows, OneCallPerAttempt, IntentRecorded,
         NewsIsTrue,
     BooksMatchStripe, OneActiveCall, PendingIsCapturing, OpenPaidCallIsCharged,
     WaitingIsAuthorized, PendingEntry, EntryFollowsCall, ShowRows,
     EndedShowIsQuiet,
     MoneyRows, FailedCallReleased, UndeclinedIsSettled, Settled, DeclineApplied,
     CallsFor, OpenCalls, ActiveCalls, ActiveEntries, ShowStatuses
  <2> QED BY <1>3, <2>1, <2>2 DEF End
<1>4. ASSUME NEW a \in Attempts,
             \/ \E t \in Tiers : Prepare(a, t)
             \/ CreateIntent(a) \/ AttachIntent(a)
             \/ VerifyAuthorization(a) \/ MarkAuthorized(a)
             \/ ConfirmCard(a) \/ HoldLapses(a)
      PROVE  IInv'
  BY <1>4, QueueStep, JobStep
<1>5. ASSUME NEW v \in Viewers,
             \/ \E t \in Tiers : Join(v, t)
             \/ \E t \in Tiers, a \in Attempts : JoinWithPayment(v, t, a)
             \/ Leave(v)
      PROVE  IInv'
  BY <1>5, QueueStep
<1>6. ASSUME NEW c \in Calls, SelectRandom(c) \/ \E v \in Viewers : Select(v, c)
      PROVE  IInv'
  <2> PICK v \in Waiting : PrepareSelection /\ CreateCall(v, c)
    BY <1>6 DEF Select, SelectRandom, Waiting
  <2> QED BY CreateCallStep DEF Waiting
<1>7. ASSUME NEW c \in Calls,
             \/ Expire(c)
             \/ \E role \in {"creator", "viewer"}, target \in CallStatuses :
                   Transition(c, role, target)
      PROVE  IInv'
  <2>1. "ENDED" \in CallStatuses
    BY DEF CallStatuses
  <2> QED BY <1>7, <2>1, TransitionStep DEF Expire, Transition
<1>8. ASSUME NEW c \in Calls, Sweep(c) PROVE IInv'
  BY <1>8, JobStep
<1>9. ASSUME NEW j \in captureJobs,
             \/ CaptureBegin(j) \/ CaptureAnswered(j) \/ CaptureUnanswered(j)
             \/ CaptureRelease(j) \/ CaptureReleaseFails(j)
      PROVE  IInv'
  BY <1>9, JobStep
<1>10. ASSUME NEW j \in captureJobs, CaptureFinish(j) PROVE IInv'
  <2>1. /\ callPayment[j.call] \in Attempts
        /\ j.phase = "succeeded" => intent[callPayment[j.call]] = "succeeded"
        /\ j.phase = "released" => intent[callPayment[j.call]] = "canceled"
        /\ payIntent[callPayment[j.call]]
    BY DEF NewsIsTrue, CaptureJob, OneCallPerAttempt, IntentRecorded
  <2>2. captureJobs' \subseteq captureJobs
    BY <1>10 DEF CaptureFinish, MoveCapture
  <2>3. CASE j.phase = "succeeded" /\ RecordCaptured(callPayment[j.call])
    BY <1>10, <2>1, <2>2, <2>3, CapturedStep DEF CaptureFinish
  <2>4. CASE /\ j.phase = "released" /\ RecordNotCaptured(callPayment[j.call], "FAILED")
             /\ UNCHANGED refunds
    BY <1>10, <2>1, <2>2, <2>4, NotCapturedStep DEF CaptureFinish
  <2> QED BY <1>10, <2>3, <2>4 DEF CaptureFinish
<1>11. ASSUME NEW j \in cancelJobs, CancelBegin(j) \/ CancelCall(j) PROVE IInv'
  BY <1>11, JobStep
<1>12. ASSUME NEW j \in cancelJobs, CancelFinish(j) PROVE IInv'
  <2>1. /\ j.attempt \in Attempts /\ payIntent[j.attempt]
        /\ intent[j.attempt] = "canceled"
    BY <1>12 DEF CancelFinish, NewsIsTrue, IntentRecorded, CancelJob
  <2>2. cancelJobs' \subseteq cancelJobs
    BY <1>12 DEF CancelFinish, MoveCancel
  <2> QED BY <1>12, <2>1, <2>2, NotCapturedStep DEF CancelFinish
<1>13. CASE JobDies
  BY <1>13, JobStep
<1>14. ASSUME NEW e \in events, Webhook(e) PROVE IInv'
  <2>1. /\ e \in Event /\ e.attempt \in Attempts /\ payIntent[e.attempt]
        /\ e.type \in {"succeeded", "canceled", "payment_failed"}
        /\ e.type = "succeeded" => intent[e.attempt] = "succeeded"
        /\ e.type = "canceled" => intent[e.attempt] = "canceled"
        /\ stripeEvents' = stripeEvents \cup {e}
    BY <1>14 DEF Webhook, NewsIsTrue, Event
  <2>2. CASE e.type = "succeeded" /\ RecordCaptured(e.attempt)
    BY <1>14, <2>1, <2>2, CapturedStep DEF Webhook
  <2>3. CASE e.type = "canceled" /\ RecordNotCaptured(e.attempt, "CANCELED")
             /\ UNCHANGED refunds
    BY <1>14, <2>1, <2>3, NotCapturedStep DEF Webhook
  <2>4. CASE e.type = "payment_failed" /\ RecordNotCaptured(e.attempt, "FAILED")
             /\ UNCHANGED refunds
    BY <1>14, <2>1, <2>4, NotCapturedStep DEF Webhook
  <2> QED BY <1>14, <2>1, <2>2, <2>3, <2>4 DEF Webhook
<1> QED
  BY <1>1, <1>2, <1>3, <1>4, <1>5, <1>6, <1>7, <1>8, <1>9, <1>10, <1>11, <1>12,
     <1>13, <1>14 DEF Next

(***************************************************************************)
(* The invariant holds in every state the backend can reach.               *)
(***************************************************************************)
THEOREM Invariance == Spec => []IInv
  BY InitIInv, NextIInv, PTL DEF Spec

(***************************************************************************)
(* A new show maps to the initial state of Payment: nothing held, nobody   *)
(* picked.                                                                 *)
(***************************************************************************)
LEMMA MoneyInit == Init => P!Init
<1> SUFFICES ASSUME Init PROVE P!Init
  OBVIOUS
<1> QED BY DEF Init, P!Init, Money, Stands, CallsFor

\* The state of module Payment that a state of Hotline stands for.
money == [a \in Attempts |-> Money(a)]
picked == {a \in Attempts : CallsFor(a) # {}}

(***************************************************************************)
(* No payment is both earned and refunded, and none is either before       *)
(* Stripe captured it.                                                     *)
(***************************************************************************)
LEMMA MoneyStands ==
    ASSUME IInv, NEW a \in Attempts
    PROVE  /\ a \notin earned \cap refunds
           /\ intent[a] # "succeeded" => a \notin earned \cup refunds
           /\ Money(a) = IF a \in earned THEN "earned"
                         ELSE IF a \in refunds THEN "refunded" ELSE Stands[intent[a]]
<1>1. a \notin earned \cap refunds
  BY DEF IInv, MoneyRows, OneCallPerAttempt, TypeOK
<1>2. intent[a] # "succeeded" => a \notin earned \cup refunds
  BY DEF IInv, MoneyRows, BooksMatchStripe, TypeOK
<1> QED BY <1>1, <1>2 DEF Money

(***************************************************************************)
(* A payment that changes alone makes one step of Payment.                 *)
(***************************************************************************)
LEMMA OneMoves ==
    ASSUME NEW a \in Attempts, NEW from, NEW to,
           Money(a) \in from, Money(a)' = to,
           \A b \in Attempts \ {a} : Money(b)' = Money(b),
           picked' = picked
    PROVE  P!Move(a, from, to)
<1>1. money' = [money EXCEPT ![a] = to]
  BY DEF money
<1> QED BY <1>1 DEF P!Move, money, picked

(***************************************************************************)
(* A step of Stripe on one intent is a step of Payment or changes nothing  *)
(* there.                                                                  *)
(***************************************************************************)
LEMMA StripeRefines ==
    ASSUME IInv, NEW a \in Attempts,
           UNCHANGED <<earned, refunds, callPayment>>,
           \/ StripeCaptures(a) /\ CallsFor(a) # {}
           \/ StripeCancels(a)
           \/ CreateIntent(a)
           \/ ConfirmCard(a)
    PROVE  [P!Next]_<<money, picked>>
<1> USE DEF IInv, TypeOK
<1>1. picked' = picked
  BY DEF picked, CallsFor
<1>2. \A b \in Attempts :
         /\ Money(b) = IF b \in earned THEN "earned"
                       ELSE IF b \in refunds THEN "refunded" ELSE Stands[intent[b]]
         /\ intent[b] # "succeeded" => b \notin earned \cup refunds
  BY MoneyStands
<1>3. \A b \in Attempts :
         Money(b)' = IF b \in earned THEN "earned"
                     ELSE IF b \in refunds THEN "refunded" ELSE Stands[intent'[b]]
  BY MoneyStands DEF Money
<1>4. CASE StripeCaptures(a) /\ CallsFor(a) # {}
  <2>1. Money(a) = "held" /\ Money(a)' = "charged" /\ a \in picked
    BY <1>2, <1>3, <1>4 DEF StripeCaptures, picked, Stands
  <2>2. \A b \in Attempts \ {a} : Money(b)' = Money(b)
    BY <1>2, <1>3, <1>4 DEF StripeCaptures
  <2>3. P!Charge(a)
    BY <1>1, <2>1, <2>2, OneMoves DEF P!Charge, picked
  <2> QED BY <2>3 DEF P!Next
<1>5. CASE StripeCancels(a)
  <2>1. Money(a) \in {"unpaid", "held"} /\ Money(a)' = "released"
    BY <1>2, <1>3, <1>5 DEF StripeCancels, Stands
  <2>2. \A b \in Attempts \ {a} : Money(b)' = Money(b)
    BY <1>2, <1>3, <1>5 DEF StripeCancels
  <2>3. P!Release(a)
    BY <1>1, <2>1, <2>2, OneMoves DEF P!Release
  <2> QED BY <2>3 DEF P!Next
<1>6. CASE CreateIntent(a)
  BY <1>1, <1>2, <1>3, <1>6 DEF CreateIntent, money, Stands
<1>7. CASE ConfirmCard(a) /\ intent' = intent
  BY <1>1, <1>2, <1>3, <1>7 DEF money
<1>8. CASE ConfirmCard(a) /\ intent' # intent
  <2>1. Money(a) = "unpaid" /\ Money(a)' = "held"
    BY <1>2, <1>3, <1>8 DEF ConfirmCard, Stands
  <2>2. \A b \in Attempts \ {a} : Money(b)' = Money(b)
    BY <1>2, <1>3, <1>8 DEF ConfirmCard
  <2>3. P!Hold(a)
    BY <1>1, <2>1, <2>2, OneMoves DEF P!Hold
  <2> QED BY <2>3 DEF P!Next
<1> QED BY <1>4, <1>5, <1>6, <1>7, <1>8

(***************************************************************************)
(* Selecting a paid caller is the pick of Payment; the hold was placed,    *)
(* even if it has lapsed since.                                            *)
(***************************************************************************)
LEMMA SelectRefines ==
    ASSUME IInv, NEW v \in Viewers, NEW c \in Calls, v \in Waiting, CreateCall(v, c)
    PROVE  [P!Next]_<<money, picked>>
<1> USE DEF IInv, TypeOK
<1>1. money' = money
  BY DEF CreateCall, money, Money
<1>2. callPayment[c] = None
  BY DEF CreateCall, CallRows
<1>3. CASE entryTier[v] \notin PaidTiers
  <2>1. callPayment' = callPayment
    BY <1>2, <1>3 DEF CreateCall
  <2> QED BY <1>1, <2>1 DEF money, picked, CallsFor
<1>4. CASE entryTier[v] \in PaidTiers
  <2> DEFINE a == entryPayment[v]
  <2>1. /\ a \in Attempts /\ payStatus[a] = "AUTHORIZED"
        /\ callPayment' = [callPayment EXCEPT ![c] = a]
    BY <1>4 DEF CreateCall
  <2>2. intent[a] \in {"requires_capture", "canceled"}
    BY <2>1 DEF IntentRecorded, BooksMatchStripe, CallsFor, OneCallPerAttempt
  <2> HIDE DEF a
  <2>3. Money(a) \in {"held", "released"}
    BY <2>1, <2>2, MoneyStands DEF Stands
  <2>4. picked' = picked \cup {a}
    BY <1>2, <2>1 DEF picked, CallsFor
  <2>5. P!Pick(a)
    BY <1>1, <2>1, <2>3, <2>4 DEF P!Pick, money, picked
  <2> QED BY <2>1, <2>5 DEF P!Next
<1> QED BY <1>3, <1>4

(***************************************************************************)
(* A call going LIVE earns its payment, a call over before that refunds    *)
(* it, and so does a capture recorded after the end of the show.           *)
(***************************************************************************)
LEMMA SettleRefines ==
    ASSUME IInv, IInv', UNCHANGED <<callPayment, intent>>,
           NEW a \in Attempts, intent[a] = "succeeded",
           \/ earned' = earned /\ refunds' \in {refunds, refunds \cup {a}}
           \/ refunds' = refunds /\ earned' \in {earned, earned \cup {a}}
    PROVE  [P!Next]_<<money, picked>>
<1>1. picked' = picked
  BY DEF picked, CallsFor
<1>2. \A b \in Attempts \ {a} : Money(b)' = Money(b)
  BY DEF Money
<1>3. CASE UNCHANGED <<earned, refunds>>
  <2>1. Money(a)' = Money(a)
    BY <1>3 DEF Money
  <2> QED BY <1>1, <1>2, <2>1 DEF money
<1>4. CASE a \notin refunds /\ refunds' = refunds \cup {a} /\ earned' = earned
  <2>1. a \notin earned' \cap refunds'
    BY DEF IInv, MoneyRows, OneCallPerAttempt, TypeOK
  <2>2. Money(a) = "charged" /\ Money(a)' = "refunded"
    BY <1>4, <2>1 DEF Money, Stands
  <2>3. P!Refund(a)
    BY <1>1, <1>2, <2>2, OneMoves DEF P!Refund
  <2> QED BY <2>3 DEF P!Next
<1>5. CASE a \notin earned /\ earned' = earned \cup {a} /\ refunds' = refunds
  <2>1. a \notin earned' \cap refunds'
    BY DEF IInv, MoneyRows, OneCallPerAttempt, TypeOK
  <2>2. Money(a) = "charged" /\ Money(a)' = "earned"
    BY <1>5, <2>1 DEF Money, Stands
  <2>3. P!Earn(a)
    BY <1>1, <1>2, <2>2, OneMoves DEF P!Earn
  <2> QED BY <2>3 DEF P!Next
<1> QED BY <1>3, <1>4, <1>5

(***************************************************************************)
(* Every step of the backend is a step of Payment or leaves it alone.      *)
(***************************************************************************)
LEMMA NextRefines == IInv /\ IInv' /\ [Next]_vars => [P!Next]_<<money, picked>>
<1> SUFFICES ASSUME IInv, IInv', [Next]_vars PROVE [P!Next]_<<money, picked>>
  OBVIOUS
<1>1. ASSUME UNCHANGED <<earned, refunds, callPayment, intent>>
      PROVE  [P!Next]_<<money, picked>>
  BY <1>1 DEF money, picked, Money, CallsFor
<1>2. ASSUME NEW a \in Attempts, CreateIntent(a) \/ ConfirmCard(a) \/ HoldLapses(a)
      PROVE  [P!Next]_<<money, picked>>
  BY <1>2, StripeRefines DEF CreateIntent, ConfirmCard, HoldLapses
<1>3. ASSUME NEW c \in Calls, SelectRandom(c) \/ \E v \in Viewers : Select(v, c)
      PROVE  [P!Next]_<<money, picked>>
  <2> PICK v \in Waiting : CreateCall(v, c)
    BY <1>3 DEF Select, SelectRandom, Waiting
  <2> QED BY SelectRefines DEF Waiting
<1>4. ASSUME NEW c \in Calls, NEW target \in CallStatuses, ApplyTransition(c, target),
             UNCHANGED stripeVars
      PROVE  [P!Next]_<<money, picked>>
  <2>1. callStatus[c] \in ConnectableStatuses
    BY <1>4 DEF ApplyTransition, CanTransition, ConnectableStatuses
  <2>2. CASE callPayment[c] = None
    BY <1>1, <1>4, <2>2 DEF ApplyTransition
  <2>3. CASE callPayment[c] # None
    <3> DEFINE a == callPayment[c]
    <3>1. a \in Attempts /\ intent[a] = "succeeded"
      BY <2>1, <2>3 DEF IInv, TypeOK, OpenPaidCallIsCharged, OpenCalls
    <3>2. /\ UNCHANGED <<callPayment, intent>>
          /\ \/ earned' = earned /\ refunds' \in {refunds, refunds \cup {a}}
             \/ refunds' = refunds /\ earned' \in {earned, earned \cup {a}}
      BY <1>4 DEF ApplyTransition, RefundsOn, RequestRefund, FinishedStatuses
    <3> QED BY <3>1, <3>2, SettleRefines
  <2> QED BY <2>2, <2>3
<1>5. CASE End
  <2>1. "ENDED" \in CallStatuses
    BY DEF CallStatuses
  <2>2. CASE \E c \in OpenCalls : ApplyTransition(c, "ENDED")
    BY <1>4, <1>5, <2>1, <2>2 DEF End, OpenCalls
  <2>3. CASE UNCHANGED <<callVars, moneyVars>>
    BY <1>1, <1>5, <2>3 DEF End
  <2> QED BY <1>5, <2>2, <2>3 DEF End
<1>6. ASSUME NEW c \in Calls,
             \/ Expire(c)
             \/ \E role \in {"creator", "viewer"}, target \in CallStatuses :
                   Transition(c, role, target)
      PROVE  [P!Next]_<<money, picked>>
  <2>1. "ENDED" \in CallStatuses
    BY DEF CallStatuses
  <2> QED BY <1>4, <1>6, <2>1 DEF Expire, Transition
<1>7. ASSUME NEW a \in Attempts, intent[a] = "succeeded", RecordCaptured(a),
             UNCHANGED <<earned, callPayment, intent>>
      PROVE  [P!Next]_<<money, picked>>
  BY <1>7, SettleRefines DEF RecordCaptured, RequestRefund
<1>8. ASSUME NEW j \in captureJobs,
             \/ CaptureBegin(j) \/ CaptureAnswered(j) \/ CaptureUnanswered(j)
             \/ CaptureRelease(j) \/ CaptureReleaseFails(j) \/ CaptureFinish(j)
      PROVE  [P!Next]_<<money, picked>>
  <2> DEFINE a == callPayment[j.call]
  <2>1. /\ a \in Attempts /\ CallsFor(a) # {}
        /\ j.phase = "succeeded" => intent[a] = "succeeded"
    BY DEF IInv, TypeOK, NewsIsTrue, CaptureJob, CallsFor
  <2>2. CASE CaptureBegin(j)
    BY <1>1, <2>2 DEF CaptureBegin
  <2>3. CASE CaptureAnswered(j) \/ CaptureUnanswered(j)
    BY <1>1, <2>1, <2>3, StripeRefines DEF CaptureAnswered, CaptureUnanswered
  <2>4. CASE CaptureRelease(j) \/ CaptureReleaseFails(j)
    BY <1>1, <2>1, <2>4, StripeRefines DEF CaptureRelease, CaptureReleaseFails
  <2>5. CASE CaptureFinish(j)
    BY <1>1, <1>7, <2>1, <2>5 DEF CaptureFinish
  <2> QED BY <1>8, <2>2, <2>3, <2>4, <2>5
<1>9. ASSUME NEW j \in cancelJobs, CancelBegin(j) \/ CancelCall(j) \/ CancelFinish(j)
      PROVE  [P!Next]_<<money, picked>>
  <2>1. j.attempt \in Attempts
    BY DEF IInv, TypeOK, CancelJob
  <2>2. CASE CancelBegin(j) \/ CancelFinish(j)
    BY <1>1, <2>2 DEF CancelBegin, CancelFinish
  <2>3. CASE CancelCall(j)
    BY <1>1, <2>1, <2>3, StripeRefines DEF CancelCall
  <2> QED BY <1>9, <2>2, <2>3
<1>10. ASSUME NEW e \in events, Webhook(e) PROVE [P!Next]_<<money, picked>>
  <2>1. e.attempt \in Attempts /\ (e.type = "succeeded" => intent[e.attempt] = "succeeded")
    BY DEF IInv, TypeOK, NewsIsTrue, Event
  <2> QED BY <1>1, <1>7, <1>10, <2>1 DEF Webhook
<1>11. CASE UNCHANGED vars \/ Start \/ CloseQueue \/ JobDies \/ \E c \in Calls : Sweep(c)
  BY <1>1, <1>11 DEF vars, Start, CloseQueue, JobDies, Sweep
<1>12. ASSUME NEW a \in Attempts,
              \/ \E t \in Tiers : Prepare(a, t)
              \/ AttachIntent(a) \/ VerifyAuthorization(a) \/ MarkAuthorized(a)
       PROVE  [P!Next]_<<money, picked>>
  BY <1>1, <1>12 DEF Prepare, AttachIntent, VerifyAuthorization, MarkAuthorized
<1>13. ASSUME NEW v \in Viewers,
              \/ \E t \in Tiers : Join(v, t)
              \/ \E t \in Tiers, a \in Attempts : JoinWithPayment(v, t, a)
              \/ Leave(v)
       PROVE  [P!Next]_<<money, picked>>
  BY <1>1, <1>13 DEF Join, JoinWithPayment, JoinQueue, Leave
<1> QED
  BY <1>2, <1>3, <1>5, <1>6, <1>8, <1>9, <1>10, <1>11, <1>12, <1>13 DEF Next

-----------------------------------------------------------------------------
(***************************************************************************)
(* Every payment of a show follows the promise of module Payment, whatever *)
(* the number of callers, payments and calls: payments.ts, webhooks.ts and *)
(* lib/calls.ts charge only a picked caller, and a charge is earned by the *)
(* creator or refunded, never both and never undone.                       *)
(***************************************************************************)
THEOREM Refinement == Spec => ImplementsPayment
<1>1. Init => P!Init
  BY MoneyInit
<1>2. IInv /\ IInv' /\ [Next]_vars => [P!Next]_<<money, picked>>
  BY NextRefines
<1> QED BY <1>1, <1>2, Invariance, PTL DEF Spec, ImplementsPayment, P!Spec,
           money, picked

(***************************************************************************)
(* Every column, job and event keeps its schema type (schema.ts).          *)
(***************************************************************************)
THEOREM TypeCorrect == Spec => []TypeOK
<1>1. IInv => TypeOK
  BY DEF IInv
<1> QED BY <1>1, Invariance, PTL


(***************************************************************************)
(* calls.prepareSelection keeps a show to one active call, although a paid *)
(* call spends several transactions between its selection and its first    *)
(* ring.                                                                   *)
(***************************************************************************)
THEOREM OneCallAtATime == Spec => []OneActiveCall
<1>1. IInv => OneActiveCall
  BY DEF IInv
<1> QED BY <1>1, Invariance, PTL


(***************************************************************************)
(* A PAYMENT_PENDING call and the CAPTURING attempt behind it come and go  *)
(* together (lib/payments.ts), so payments.pendingCapture always finds     *)
(* both.                                                                   *)
(***************************************************************************)
THEOREM PendingCallsCapture == Spec => []PendingIsCapturing
<1>1. IInv => PendingIsCapturing
  BY DEF IInv
<1> QED BY <1>1, Invariance, PTL


(***************************************************************************)
(* A paid call is open only with its payment CAPTURED and succeeded at     *)
(* Stripe (lib/payments.recordCaptured is what opens it).                  *)
(***************************************************************************)
THEOREM OpenPaidCallsAreCharged == Spec => []OpenPaidCallIsCharged
<1>1. IInv => OpenPaidCallIsCharged
  BY DEF IInv
<1> QED BY <1>1, Invariance, PTL


(***************************************************************************)
(* The hold of a caller waiting on a paid tier is AUTHORIZED and names     *)
(* their entry, through every leave, rejoin, cancellation and webhook      *)
(* (queue.joinQueue, lib/payments.recordNotCaptured).                      *)
(***************************************************************************)
THEOREM WaitingCallersCanBePicked == Spec => []WaitingIsAuthorized
<1>1. IInv => WaitingIsAuthorized
  BY DEF IInv
<1> QED BY <1>1, Invariance, PTL


(***************************************************************************)
(* A caller's entry mirrors their open call, and nobody is SELECTED        *)
(* without a call (lib/calls.applyTransition, lib/payments.ts).            *)
(***************************************************************************)
THEOREM EntriesFollowCalls == Spec => []EntryFollowsCall
<1>1. IInv => EntryFollowsCall
  BY DEF IInv
<1> QED BY <1>1, Invariance, PTL


(***************************************************************************)
(* After shows.end no call is open or opens again, and after the last      *)
(* batch of shows.closeQueue no entry is active.                           *)
(***************************************************************************)
THEOREM EndedShowsAreQuiet == Spec => []EndedShowIsQuiet
<1>1. IInv => EndedShowIsQuiet
  BY DEF IInv
<1> QED BY <1>1, Invariance, PTL


(***************************************************************************)
(* CAPTURED and CANCELED in paymentAttempts are what Stripe says, and      *)
(* Stripe charges only for a call.                                         *)
(***************************************************************************)
THEOREM BooksAreTrue == Spec => []BooksMatchStripe
<1>1. IInv => BooksMatchStripe
  BY DEF IInv
<1> QED BY <1>1, Invariance, PTL


(***************************************************************************)
(* A captured payment whose call is over was earned or has a refund        *)
(* requested, unless a payment_failed event was applied to it              *)
(* (lib/calls.applyTransition, lib/payments.recordCaptured).               *)
(***************************************************************************)
THEOREM UndeclinedChargesSettle == Spec => []UndeclinedIsSettled
<1>1. IInv => UndeclinedIsSettled
  BY DEF IInv
<1> QED BY <1>1, Invariance, PTL

=============================================================================
