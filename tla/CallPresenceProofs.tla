------------------------- MODULE CallPresenceProofs -------------------------
(***************************************************************************)
(* Theorems about a call's participants: their presence, for every length  *)
(* of the timers, any time at which they fall silent and an unbounded      *)
(* clock; and their handshake, for any number of offers and troubles.      *)
(***************************************************************************)
EXTENDS CallPresence, Signaling, TLAPS

(***************************************************************************)
(* What a row of callPresence says is in the past, a disconnection is not  *)
(* older than the last heartbeat, and only an open call has rows: the      *)
(* order that a check relies on when it compares times for equality.       *)
(***************************************************************************)
RowsInOrder ==
    \A r \in Roles :
        /\ lastSeen[r] # None => Open /\ lastSeen[r] <= now
        /\ disconnectedAt[r] # None =>
              /\ lastSeen[r] # None
              /\ lastSeen[r] <= disconnectedAt[r] /\ disconnectedAt[r] <= now

(***************************************************************************)
(* The clock waits for a steady participant's next heartbeat.              *)
(***************************************************************************)
SteadyIsRecent ==
    \A r \in steady : lastSeen[r] # None => now - lastSeen[r] <= Heartbeat

(***************************************************************************)
(* A call that expires was given its time when it went LIVE.               *)
(***************************************************************************)
ExpiryIsSet == expireCheck => expiresAt \in Nat

IInv ==
    /\ TypeOK
    /\ RowsInOrder
    /\ SteadyIsRecent
    /\ ExpiryIsSet
    /\ AbsenceIsWatched
    /\ SteadyIsKept

(***************************************************************************)
(* A call starts with no presence and no timers.                           *)
(***************************************************************************)
LEMMA InitIInv == Init => IInv
<1> SUFFICES ASSUME Init PROVE IInv
  OBVIOUS
<1> QED
  BY TimeAssumption, NoneAssumption
  DEF Init, IInv, TypeOK, RowsInOrder, SteadyIsRecent, ExpiryIsSet,
      AbsenceIsWatched, SteadyIsKept, Open, ConnectableStatuses, Roles,
      SeenCheck, GraceCheck

(***************************************************************************)
(* Heartbeats and departures keep the row and its check in step, and a     *)
(* page that falls silent only makes fewer participants steady.            *)
(***************************************************************************)
LEMMA PageStep ==
    ASSUME IInv, NEW r \in Roles, HeartbeatFrom(r) \/ Leave(r) \/ GoSilent(r)
    PROVE  IInv'
<1> USE TimeAssumption, NoneAssumption
<1>1. CASE HeartbeatFrom(r)
  BY <1>1
  DEF IInv, TypeOK, RowsInOrder, SteadyIsRecent, ExpiryIsSet, AbsenceIsWatched,
      SteadyIsKept, HeartbeatFrom, Reconnected, Open, callVars, SeenCheck, Roles
<1>2. CASE Leave(r)
  BY <1>2
  DEF IInv, TypeOK, RowsInOrder, SteadyIsRecent, ExpiryIsSet, AbsenceIsWatched,
      SteadyIsKept, Leave, MarkDisconnected, GraceScheduled, Open, callVars,
      GraceCheck, Roles
<1>3. CASE GoSilent(r)
  BY <1>3
  DEF IInv, TypeOK, RowsInOrder, SteadyIsRecent, ExpiryIsSet, AbsenceIsWatched,
      SteadyIsKept, GoSilent, Open, callVars, presenceVars, checkVars
<1> QED
  BY <1>1, <1>2, <1>3

(***************************************************************************)
(* The check of a heartbeat hands over to the check of a disconnection, or *)
(* is stale: then it is not the one that the row still relies on.          *)
(***************************************************************************)
LEMMA SeenStep ==
    ASSUME IInv, NEW k \in seenChecks, CheckSeen(k)
    PROVE  IInv'
<1> USE TimeAssumption, NoneAssumption
<1>1. k \in SeenCheck /\ k = [role |-> k.role, seenAt |-> k.seenAt]
  BY DEF IInv, TypeOK, SeenCheck
<1>2. CASE StillSilent(k)
  BY <1>1, <1>2
  DEF IInv, TypeOK, RowsInOrder, SteadyIsRecent, ExpiryIsSet, AbsenceIsWatched,
      SteadyIsKept, CheckSeen, StillSilent, MarkDisconnected, GraceScheduled,
      Open, callVars, SeenCheck, GraceCheck, Roles
<1>3. CASE ~StillSilent(k)
  BY <1>1, <1>3
  DEF IInv, TypeOK, RowsInOrder, SteadyIsRecent, ExpiryIsSet, AbsenceIsWatched,
      SteadyIsKept, CheckSeen, StillSilent, Open, callVars, SeenCheck,
      GraceCheck, Roles
<1> QED
  BY <1>2, <1>3

(***************************************************************************)
(* A check that fails the call does so for a participant whose last        *)
(* heartbeat is at least Grace ago.                                        *)
(***************************************************************************)
LEMMA GoneForGrace ==
    ASSUME IInv, NEW k \in graceChecks, CheckGrace(k), StillGone(k)
    PROVE  lastSeen[k.role] # None /\ lastSeen[k.role] + Grace <= now
BY TimeAssumption, NoneAssumption
DEF IInv, TypeOK, RowsInOrder, CheckGrace, StillGone, GraceCheck

(***************************************************************************)
(* Hence it is never a steady participant's; a stale check changes nothing *)
(* that is relied on.                                                      *)
(***************************************************************************)
LEMMA GraceStep ==
    ASSUME IInv, NEW k \in graceChecks, CheckGrace(k)
    PROVE  IInv'
<1> USE TimeAssumption, NoneAssumption
<1>1. k \in GraceCheck /\ k = [role |-> k.role, disconnectedAt |-> k.disconnectedAt]
  BY DEF IInv, TypeOK, GraceCheck
<1>2. CASE StillGone(k) /\ Open
  <2>1. k.role \notin steady
    BY <1>1, <1>2, GoneForGrace DEF IInv, TypeOK, SteadyIsRecent, GraceCheck
  <2> QED
    BY <1>1, <1>2, <2>1
    DEF IInv, TypeOK, RowsInOrder, SteadyIsRecent, ExpiryIsSet,
        AbsenceIsWatched, SteadyIsKept, CheckGrace, ApplyTransition,
        CanTransition, Open, ConnectableStatuses, GraceCheck, Roles
<1>3. CASE ~(StillGone(k) /\ Open)
  BY <1>1, <1>3
  DEF IInv, TypeOK, RowsInOrder, SteadyIsRecent, ExpiryIsSet, AbsenceIsWatched,
      SteadyIsKept, CheckGrace, StillGone, Open, presenceVars, GraceCheck, Roles
<1> QED
  BY <1>2, <1>3

(***************************************************************************)
(* Participants, the show and the expiry timer move the call.              *)
(***************************************************************************)
LEMMA CallStep ==
    ASSUME IInv,
           \/ \E target \in {"CONNECTING", "LIVE", "ENDED", "FAILED"} :
                 Transition(target)
           \/ Expire
    PROVE  IInv'
<1> USE TimeAssumption, NoneAssumption
<1>1. ASSUME NEW target \in {"CONNECTING", "LIVE", "ENDED", "FAILED"},
             Transition(target)
      PROVE  IInv'
  <2> USE DEF IInv, TypeOK, RowsInOrder, SteadyIsRecent, ExpiryIsSet,
        AbsenceIsWatched, SteadyIsKept, Transition, Expires, ApplyTransition,
        CanTransition, Open, ConnectableStatuses, checkVars, Roles
  <2>1. CASE target = "CONNECTING"
    <3>1. expireCheck' = expireCheck /\ expiresAt' = expiresAt
      BY <1>1, <2>1
    <3>2. lastSeen' = lastSeen /\ disconnectedAt' = disconnectedAt
      BY <1>1, <2>1
    <3>3. status = "CREATED" /\ status' = "CONNECTING"
      BY <1>1, <2>1
    <3> QED
      BY <1>1, <3>1, <3>2, <3>3
  <2>2. CASE target = "LIVE"
    <3>1. expireCheck' = TRUE
      BY <1>1, <2>2
    <3>2. expiresAt' \in Nat
      BY <1>1, <2>2
    <3>3. lastSeen' = lastSeen /\ disconnectedAt' = disconnectedAt
      BY <1>1, <2>2
    <3>4. status = "CONNECTING" /\ status' = "LIVE"
      BY <1>1, <2>2
    <3> QED
      BY <1>1, <3>1, <3>2, <3>3, <3>4
  <2>3. CASE target \in {"ENDED", "FAILED"}
    BY <1>1, <2>3
  <2> QED
    BY <2>1, <2>2, <2>3
<1>2. CASE Expire
  BY <1>2
  DEF IInv, TypeOK, RowsInOrder, SteadyIsRecent, ExpiryIsSet, AbsenceIsWatched,
      SteadyIsKept, Expire, ApplyTransition, CanTransition, Open,
      ConnectableStatuses, checkVars, presenceVars, SeenCheck, GraceCheck, Roles
<1> QED
  BY <1>1, <1>2

(***************************************************************************)
(* The clock moves only while no steady participant is due.                *)
(***************************************************************************)
LEMMA TickStep == IInv /\ Tick => IInv'
<1> SUFFICES ASSUME IInv, Tick PROVE IInv'
  OBVIOUS
<1> QED
  BY TimeAssumption, NoneAssumption
  DEF IInv, TypeOK, RowsInOrder, SteadyIsRecent, ExpiryIsSet, AbsenceIsWatched,
      SteadyIsKept, Tick, HeartbeatDue, Open, callVars, presenceVars, checkVars,
      SeenCheck, GraceCheck, Roles

\* Every step of presence.ts and of the scheduler preserves the inductive invariant.
LEMMA NextIInv == IInv /\ [Next]_vars => IInv'
<1> SUFFICES ASSUME IInv, [Next]_vars PROVE IInv'
  OBVIOUS
<1>1. CASE UNCHANGED vars
  BY <1>1 DEF IInv, TypeOK, RowsInOrder, SteadyIsRecent, ExpiryIsSet,
      AbsenceIsWatched, SteadyIsKept, Open, vars, callVars, presenceVars,
      checkVars
<1>2. CASE Next
  BY <1>2, PageStep, SeenStep, GraceStep, CallStep, TickStep DEF Next
<1> QED
  BY <1>1, <1>2

\* The inductive invariant holds throughout: rows, checks and the call stay in step.
THEOREM Invariance == Spec => []IInv
<1>1. Init => IInv
  BY InitIInv
<1>2. IInv /\ [Next]_vars => IInv'
  BY NextIInv
<1> QED
  BY <1>1, <1>2, PTL DEF Spec

(***************************************************************************)
(* The schema's types hold of every state.                                 *)
(***************************************************************************)
THEOREM TypeCorrect == Spec => []TypeOK
<1>1. IInv => TypeOK
  BY DEF IInv
<1> QED
  BY <1>1, Invariance, PTL

(***************************************************************************)
(* presence.ts never loses track of a participant: whoever is connected or *)
(* disconnected has the check pending that will notice.                    *)
(***************************************************************************)
THEOREM AbsenceIsAlwaysWatched == Spec => []AbsenceIsWatched
<1>1. IInv => AbsenceIsWatched
  BY DEF IInv
<1> QED
  BY <1>1, Invariance, PTL

(***************************************************************************)
(* Whenever HEARTBEAT_MS < DISCONNECT_GRACE_MS, a participant who keeps    *)
(* sending heartbeats never loses the call to presence.checkGrace.         *)
(***************************************************************************)
THEOREM SteadyParticipantsAreKept == Spec => []SteadyIsKept
<1>1. IInv => SteadyIsKept
  BY DEF IInv
<1> QED
  BY <1>1, Invariance, PTL

(***************************************************************************)
(* presence.checkGrace fails a call only after a whole grace period of     *)
(* silence, whatever stale checks are pending.                             *)
(***************************************************************************)
THEOREM NoHastyFailure == Spec => FailsOnlyAfterGrace
<1> DEFINE Act == \A r \in Roles : missing' = r /\ missing # r =>
                     lastSeen[r] # None /\ lastSeen[r] + Grace <= now
<1>1. IInv /\ [Next]_vars => [Act]_vars
  <2> SUFFICES ASSUME IInv, Next, NEW r \in Roles, missing' = r, missing # r
               PROVE  lastSeen[r] # None /\ lastSeen[r] + Grace <= now
    BY DEF Act
  <2>1. PICK k \in graceChecks : CheckGrace(k) /\ StillGone(k) /\ k.role = r
    BY DEF Next, HeartbeatFrom, Leave, GoSilent, CheckSeen, CheckGrace, Transition,
           Expire, Tick
  <2> QED
    BY <2>1, GoneForGrace
<1> QED
  BY <1>1, Invariance, PTL DEF Spec, FailsOnlyAfterGrace

-----------------------------------------------------------------------------
(* The handshake: the shape of its state and the table after a purge.      *)

\* A finished call has its purge, an open one has none, and the purge is through when
\* nothing is left.
PurgeIsRight ==
    /\ (purge = "none") <=> ~callDone
    /\ PurgedStaysEmpty

\* What is left of a sequence behind its first n elements.
LEMMA RestIsSeq ==
    ASSUME NEW S, NEW q \in Seq(S), NEW n \in Nat
    PROVE  /\ SubSeq(q, n + 1, Len(q)) \in Seq(S)
           /\ Len(SubSeq(q, n + 1, Len(q))) = IF n < Len(q) THEN Len(q) - n ELSE 0
           /\ \A i \in 1..(Len(q) - n) : SubSeq(q, n + 1, Len(q))[i] = q[i + n]
<1>1. CASE n < Len(q) BY <1>1
<1>2. CASE ~(n < Len(q)) BY <1>2
<1> QED BY <1>1, <1>2

\* A sequence of no length is empty.
LEMMA NoLength == ASSUME NEW S, NEW q \in Seq(S), Len(q) = 0 PROVE q = <<>>
OBVIOUS

\* What the table holds behind n rows, for a socket and for the one after it.
LEMMA AfterType ==
    ASSUME SignalTypeOK, NEW s \in Sides, NEW n \in Nat
    PROVE  /\ After(s, n) \in Seq(Signal)
           /\ Len(After(s, n)) = IF n < Len(inbox[s]) THEN Len(inbox[s]) - n ELSE 0
           /\ \A i \in 1..(Len(inbox[s]) - n) : After(s, n)[i] = inbox[s][i + n]
<1>1. inbox[s] \in Seq(Signal) BY DEF SignalTypeOK
<1> QED BY <1>1, RestIsSeq DEF After

\* A signal of a kind, about an offer.
LEMMA MsgType ==
    ASSUME NEW k \in Kinds, NEW n \in 0..MaxOffers PROVE Msg(k, n) \in Signal
BY DEF Msg, Signal

\* Sending keeps the shape.
LEMMA SendsType ==
    ASSUME SignalTypeOK, NEW s \in Sides, NEW m \in Signal, Sends(s, m)
    PROVE  posting' \in [Sides -> Seq(Signal)]
<1>1. posting \in [Sides -> Seq(Signal)] BY DEF SignalTypeOK
<1>2. Append(posting[s], m) \in Seq(Signal) BY <1>1
<1> QED BY <1>1, <1>2 DEF Sends

\* Acknowledging keeps the shape.
LEMMA AcknowledgeType ==
    ASSUME SignalTypeOK, NEW s \in Sides, Acknowledge(s)
    PROVE  /\ inbox' \in [Sides -> Seq(Signal)] /\ seen' \in [Sides -> Nat]
           /\ \A t \in Sides : seen'[t] <= Len(inbox'[t])
           /\ (\A t \in Sides : inbox[t] = <<>>) => \A t \in Sides : inbox'[t] = <<>>
<1>1. /\ inbox \in [Sides -> Seq(Signal)] /\ seen \in [Sides -> Nat]
      /\ \A t \in Sides : seen[t] <= Len(inbox[t])
  BY DEF SignalTypeOK
<1>2. seen[s] \in Nat BY <1>1
<1>3. /\ After(s, seen[s]) \in Seq(Signal)
      /\ Len(After(s, seen[s])) = IF seen[s] < Len(inbox[s]) THEN Len(inbox[s]) - seen[s] ELSE 0
  BY <1>2, AfterType
<1>4. inbox'[s] = After(s, seen[s]) /\ seen'[s] = 0 BY <1>1 DEF Acknowledge
<1>5. \A t \in Sides \ {s} : inbox'[t] = inbox[t] /\ seen'[t] = seen[t]
  BY <1>1 DEF Acknowledge
<1>6. inbox' \in [Sides -> Seq(Signal)] BY <1>1, <1>3 DEF Acknowledge
<1>7. seen' \in [Sides -> Nat] BY <1>1 DEF Acknowledge
<1>8. \A t \in Sides : seen'[t] <= Len(inbox'[t])
  <2>1. Len(After(s, seen[s])) \in Nat BY <1>3
  <2> QED BY <1>1, <1>4, <1>5, <2>1
<1>9. ASSUME inbox[s] = <<>> PROVE After(s, seen[s]) = <<>>
  BY <1>2, <1>3, <1>9, NoLength
<1> QED BY <1>4, <1>5, <1>6, <1>7, <1>8, <1>9

\* What a step does to shape and purge.
ShapeInv == SignalTypeOK /\ PurgeIsRight

\* The sequence without its head keeps its type.
LEMMA TailType == ASSUME NEW S, NEW q \in Seq(S), q # <<>> PROVE Tail(q) \in Seq(S) /\ Head(q) \in S
OBVIOUS

\* Taking a signal keeps the shape.
LEMMA TakesType ==
    ASSUME SignalTypeOK, NEW s \in Sides, NEW k, Has(s, k)
    PROVE  /\ Head(chain[s]) \in Signal /\ Head(chain[s]).of \in 0..MaxOffers
           /\ [chain EXCEPT ![s] = Tail(@)] \in [Sides -> Seq(Signal)]
<1>1. chain \in [Sides -> Seq(Signal)] BY DEF SignalTypeOK
<1>2. chain[s] # <<>> BY DEF Has
<1>3. Tail(chain[s]) \in Seq(Signal) /\ Head(chain[s]) \in Signal BY <1>1, <1>2, TailType
<1> QED BY <1>1, <1>3 DEF Signal

\* A manager that stops keeps the shape.
LEMMA StopType ==
    ASSUME SignalTypeOK, NEW s \in Sides, NEW phase \in {"failed", "ended"}, Stop(s, phase)
    PROVE  /\ manager' \in [Sides -> {"idle", "running", "failed", "ended"}]
           /\ sock' \in [Sides -> {"none", "open", "closed"}]
           /\ chain' \in [Sides -> Seq(Signal)]
           /\ inbox' \in [Sides -> Seq(Signal)] /\ seen' \in [Sides -> Nat]
           /\ \A t \in Sides : seen'[t] <= Len(inbox'[t])
           /\ (\A t \in Sides : inbox[t] = <<>>) => \A t \in Sides : inbox'[t] = <<>>
<1>1. Acknowledge(s) BY DEF Stop
<1>2. manager' \in [Sides -> {"idle", "running", "failed", "ended"}] BY DEF Stop, SignalTypeOK
<1>3. sock' \in [Sides -> {"none", "open", "closed"}] BY DEF Stop, SignalTypeOK
<1>4. chain' \in [Sides -> Seq(Signal)]
  <2>1. <<>> \in Seq(Signal) OBVIOUS
  <2>2. chain \in [Sides -> Seq(Signal)] BY DEF SignalTypeOK
  <2> QED BY <2>1, <2>2 DEF Stop
<1> QED BY <1>1, <1>2, <1>3, <1>4, AcknowledgeType

\* An offer keeps the shape.
LEMMA OfferType ==
    ASSUME SignalTypeOK, NEW n \in 0..MaxOffers, Offer(n)
    PROVE  /\ posting' \in [Sides -> Seq(Signal)]
           /\ offered' \in 0..MaxOffers /\ awaiting' \in BOOLEAN
<1>1. "creator" \in Sides /\ "offer" \in Kinds BY DEF Sides, Kinds
<1>2. offered \in 0..MaxOffers /\ awaiting \in BOOLEAN BY DEF SignalTypeOK
<1>3. offered' \in 0..MaxOffers /\ awaiting' = TRUE BY <1>2 DEF Offer
<1>4. Msg("offer", offered') \in Signal BY <1>1, <1>3, MsgType
<1> QED BY <1>1, <1>3, <1>4, SendsType DEF Offer

\* The table: what is committed, delivered, acknowledged and purged.
LEMMA TableShape ==
    ASSUME ShapeInv, \/ \E s \in Sides : Commit(s) \/ Deliver(s) \/ Ack(s)
                     \/ Finish \/ Purge
    PROVE  ShapeInv'
<1> USE DEF peers, sockets, server, history
<1>0. /\ SignalTypeOK /\ PurgeIsRight
      /\ posting \in [Sides -> Seq(Signal)] /\ chain \in [Sides -> Seq(Signal)]
      /\ inbox \in [Sides -> Seq(Signal)] /\ seen \in [Sides -> Nat]
      /\ \A s \in Sides : seen[s] <= Len(inbox[s])
      /\ PurgeBatch \in Nat \ {0}
  BY SignalingAssumption DEF ShapeInv, SignalTypeOK
<1>1. ASSUME NEW s \in Sides, Commit(s) PROVE ShapeInv'
  <2>1. Other(s) \in Sides BY DEF Other, Sides
  <2>2. Tail(posting[s]) \in Seq(Signal) /\ Head(posting[s]) \in Signal
    BY <1>0, <1>1, TailType DEF Commit
  <2>3. posting' \in [Sides -> Seq(Signal)] BY <1>0, <1>1, <2>2 DEF Commit
  <2> DEFINE o == Other(s)
             m == Head(posting[s])
             more == Append(inbox[o], m)
  <2>4. more \in Seq(Signal) /\ Len(more) = Len(inbox[o]) + 1 BY <1>0, <2>1, <2>2
  <2>5. \/ UNCHANGED inbox
        \/ ~callDone /\ inbox' = [inbox EXCEPT ![o] = more]
    BY <1>1 DEF Commit, Connectable
  <2> HIDE DEF o, m, more
  <2>6. /\ inbox' \in [Sides -> Seq(Signal)]
        /\ \A t \in Sides : Len(inbox'[t]) >= Len(inbox[t])
    <3>1. \A t \in Sides : Len(inbox[t]) \in Nat BY <1>0
    <3>2. CASE UNCHANGED inbox BY <1>0, <3>1, <3>2
    <3>3. CASE inbox' = [inbox EXCEPT ![o] = more]
      <4>1. o \in Sides BY <2>1 DEF o
      <4>2. inbox' \in [Sides -> Seq(Signal)] BY <1>0, <2>4, <3>3
      <4>3. inbox'[o] = more /\ \A t \in Sides \ {o} : inbox'[t] = inbox[t]
        BY <1>0, <3>3, <4>1
      <4>4. Len(inbox'[o]) >= Len(inbox[o]) BY <2>4, <3>1, <4>1, <4>3
      <4>5. \A t \in Sides \ {o} : Len(inbox'[t]) >= Len(inbox[t]) BY <3>1, <4>3
      <4> QED BY <4>2, <4>4, <4>5
    <3> QED BY <2>5, <3>2, <3>3
  <2>7. /\ sock' \in [Sides -> {"none", "open", "closed"}] /\ seen' \in [Sides -> Nat]
        /\ \A t \in Sides : seen'[t] <= seen[t]
    <3>1. sock \in [Sides -> {"none", "open", "closed"}] BY <1>0 DEF SignalTypeOK
    <3>2. CASE UNCHANGED sockets BY <1>0, <3>1, <3>2
    <3>3. CASE Fail(s) BY <1>0, <3>1, <3>3 DEF Fail
    <3> QED BY <1>1, <3>2, <3>3 DEF Commit
  <2>8. \A t \in Sides : seen'[t] <= Len(inbox'[t])
    <3> SUFFICES ASSUME NEW t \in Sides PROVE seen'[t] <= Len(inbox'[t])
      OBVIOUS
    <3>1. seen'[t] \in Nat /\ seen[t] \in Nat /\ Len(inbox[t]) \in Nat /\ Len(inbox'[t]) \in Nat
      BY <1>0, <2>6, <2>7
    <3>2. seen'[t] <= seen[t] /\ seen[t] <= Len(inbox[t]) /\ Len(inbox'[t]) >= Len(inbox[t])
      BY <1>0, <2>6, <2>7
    <3> QED BY <3>1, <3>2
  <2>9. SignalTypeOK' BY <1>0, <1>1, <2>3, <2>6, <2>7, <2>8 DEF Commit, SignalTypeOK
  <2>10. PurgeIsRight' BY <1>0, <1>1, <2>5 DEF Commit, PurgeIsRight, PurgedStaysEmpty
  <2> QED BY <2>9, <2>10 DEF ShapeInv
<1>2. ASSUME NEW s \in Sides, Deliver(s) PROVE ShapeInv'
  <2>1. seen[s] \in Nat /\ Len(inbox[s]) \in Nat BY <1>0
  <2>2. chain[s] \o After(s, seen[s]) \in Seq(Signal) BY <1>0, <2>1, AfterType
  <2>3. chain' \in [Sides -> Seq(Signal)] BY <1>0, <1>2, <2>2 DEF Deliver
  <2>4. /\ seen' \in [Sides -> Nat] /\ inbox' = inbox
        /\ \A t \in Sides : seen'[t] <= Len(inbox'[t])
    BY <1>0, <1>2, <2>1 DEF Deliver
  <2>5. SignalTypeOK' BY <1>0, <1>2, <2>3, <2>4 DEF Deliver, SignalTypeOK
  <2>6. PurgeIsRight' BY <1>0, <1>2 DEF Deliver, PurgeIsRight, PurgedStaysEmpty
  <2> QED BY <2>5, <2>6 DEF ShapeInv
<1>3. ASSUME NEW s \in Sides, Ack(s) PROVE ShapeInv'
  <2>1. Acknowledge(s) BY <1>3 DEF Ack
  <2>2. SignalTypeOK' BY <1>0, <1>3, <2>1, AcknowledgeType DEF Ack, SignalTypeOK
  <2>3. PurgeIsRight' BY <1>0, <1>3, <2>1, AcknowledgeType DEF Ack, PurgeIsRight, PurgedStaysEmpty
  <2> QED BY <2>2, <2>3 DEF ShapeInv
<1>4. CASE Finish
  BY <1>0, <1>4 DEF Finish, ShapeInv, SignalTypeOK, PurgeIsRight, PurgedStaysEmpty
<1>5. CASE Purge
  <2> DEFINE own == Len(inbox["creator"])
             taken == [s \in Sides |-> IF s = "creator" THEN PurgeBatch ELSE Less(PurgeBatch, own)]
  <2>1. "creator" \in Sides /\ "viewer" \in Sides /\ Sides = {"creator", "viewer"} BY DEF Sides
  <2>2. own \in Nat /\ Len(inbox["viewer"]) \in Nat BY <1>0, <2>1
  <2>3. Less(PurgeBatch, own) \in Nat
    BY <1>0, <2>2 DEF Less
  <2>4. \A s \in Sides : taken[s] \in Nat BY <1>0, <2>3
  <2>5. /\ inbox' = [s \in Sides |-> After(s, taken[s])]
        /\ seen' = [s \in Sides |-> Less(seen[s], taken[s])]
        /\ purge = "scheduled"
        /\ purge' = IF own + Len(inbox["viewer"]) >= PurgeBatch THEN "scheduled" ELSE "done"
    BY <1>5 DEF Purge
  <2>6. taken["creator"] = PurgeBatch /\ taken["viewer"] = Less(PurgeBatch, own)
    BY <2>1
  <2> HIDE DEF taken
  <2>7. \A s \in Sides : /\ After(s, taken[s]) \in Seq(Signal)
                         /\ Len(After(s, taken[s])) = IF taken[s] < Len(inbox[s])
                                                      THEN Len(inbox[s]) - taken[s] ELSE 0
    BY <1>0, <2>4, AfterType
  <2>8. inbox' \in [Sides -> Seq(Signal)] BY <2>5, <2>7
  <2>9. /\ seen' \in [Sides -> Nat]
        /\ \A s \in Sides : seen'[s] <= Len(inbox'[s])
    <3>1. \A s \in Sides : /\ Less(seen[s], taken[s]) \in Nat
                           /\ Less(seen[s], taken[s]) <= Len(After(s, taken[s]))
      <4> SUFFICES ASSUME NEW s \in Sides
                   PROVE  /\ Less(seen[s], taken[s]) \in Nat
                          /\ Less(seen[s], taken[s]) <= Len(After(s, taken[s]))
        OBVIOUS
      <4>1. seen[s] \in Nat /\ Len(inbox[s]) \in Nat /\ seen[s] <= Len(inbox[s]) BY <1>0
      <4> QED BY <2>4, <2>7, <4>1 DEF Less
    <3> QED BY <2>5, <3>1
  <2>10. SignalTypeOK' BY <1>0, <1>5, <2>5, <2>8, <2>9 DEF Purge, SignalTypeOK
  <2>11. ASSUME purge' = "done" PROVE \A s \in Sides : inbox'[s] = <<>>
    <3>1. own + Len(inbox["viewer"]) < PurgeBatch
      <4>1. ~(own + Len(inbox["viewer"]) >= PurgeBatch) BY <2>5, <2>11, Zenon
      <4> HIDE DEF own
      <4> QED BY <1>0, <2>2, <4>1
    <3>2. \A s \in Sides : ~(taken[s] < Len(inbox[s]))
      BY <1>0, <2>1, <2>2, <2>6, <3>1 DEF Less
    <3>3. \A s \in Sides : Len(After(s, taken[s])) = 0 BY <2>7, <3>2
    <3>4. \A s \in Sides : After(s, taken[s]) = <<>> BY <2>7, <3>3, NoLength
    <3> QED BY <2>5, <3>4
  <2>12. callDone /\ callDone' = callDone
    BY <1>0, <1>5, <2>5 DEF Purge, PurgeIsRight
  <2>13. purge' # "none" BY <2>5
  <2> QED BY <2>10, <2>11, <2>12, <2>13 DEF ShapeInv, PurgeIsRight, PurgedStaysEmpty
<1> QED BY <1>1, <1>2, <1>3, <1>4, <1>5

\* The managers: start, pulse, the handlers, sockets that fail and open doubled, and
\* how a call ends.
LEMMA ManagerShape ==
    ASSUME ShapeInv,
           \/ Pulse \/ HandleReady \/ HandleOffer \/ HandleAnswer \/ Connect \/ Disconnect
           \/ \E s \in Sides : \/ Start(s) \/ SocketFails(s) \/ Reopen(s)
                               \/ RecoveryFails(s) \/ End(s)
    PROVE  ShapeInv'
<1> USE DEF peers, sockets, server, history
<1>0. /\ SignalTypeOK /\ PurgeIsRight /\ MaxOffers \in Nat \ {0}
      /\ "creator" \in Sides /\ "viewer" \in Sides
      /\ "ready" \in Kinds /\ "offer" \in Kinds /\ "answer" \in Kinds
      /\ 0 \in 0..MaxOffers /\ 1 \in 0..MaxOffers /\ offered \in 0..MaxOffers
  BY SignalingAssumption DEF ShapeInv, SignalTypeOK, Sides, Kinds
<1>1. CASE Pulse
  <2>1. Msg("ready", 0) \in Signal BY <1>0, MsgType
  <2>2. posting' \in [Sides -> Seq(Signal)] BY <1>0, <1>1, <2>1, SendsType DEF Pulse
  <2> QED BY <1>0, <1>1, <2>2 DEF Pulse, ShapeInv, SignalTypeOK, PurgeIsRight, PurgedStaysEmpty
<1>2. CASE HandleReady
  <2>1. chain' \in [Sides -> Seq(Signal)]
    BY <1>0, <1>2, TakesType DEF HandleReady, Takes
  <2>2. /\ posting' \in [Sides -> Seq(Signal)]
        /\ offered' \in 0..MaxOffers /\ awaiting' \in BOOLEAN
    BY <1>0, <1>2, OfferType DEF HandleReady
  <2> QED BY <1>0, <1>2, <2>1, <2>2
        DEF HandleReady, ShapeInv, SignalTypeOK, PurgeIsRight, PurgedStaysEmpty
<1>3. CASE HandleOffer
  <2>1. Has("viewer", "offer") BY <1>3 DEF HandleOffer, Takes
  <2>2. chain' \in [Sides -> Seq(Signal)] BY <1>0, <1>3, <2>1, TakesType DEF HandleOffer, Takes
  <2>3. Head(chain["viewer"]).of \in 0..MaxOffers BY <1>0, <2>1, TakesType
  <2>4. Msg("answer", Head(chain["viewer"]).of) \in Signal BY <1>0, <2>3, MsgType
  <2>5. posting' \in [Sides -> Seq(Signal)] BY <1>0, <1>3, <2>4, SendsType DEF HandleOffer
  <2>6. answered' \in 0..MaxOffers BY <1>3, <2>3 DEF HandleOffer
  <2> QED BY <1>0, <1>3, <2>2, <2>5, <2>6
        DEF HandleOffer, ShapeInv, SignalTypeOK, PurgeIsRight, PurgedStaysEmpty
<1>4. CASE HandleAnswer
  <2>1. Has("creator", "answer") BY <1>4 DEF HandleAnswer
  <2>2. CASE awaiting
    <3>1. /\ chain' \in [Sides -> Seq(Signal)] /\ applied' \in 0..MaxOffers
          /\ awaiting' \in BOOLEAN
      BY <1>0, <1>4, <2>1, <2>2, TakesType DEF HandleAnswer
    <3> QED BY <1>0, <1>4, <2>2, <3>1
          DEF HandleAnswer, ShapeInv, SignalTypeOK, PurgeIsRight, PurgedStaysEmpty
  <2>3. CASE ~awaiting
    <3>1. Stop("creator", "failed") BY <1>4, <2>3 DEF HandleAnswer
    <3>2. /\ callDone' = TRUE /\ purge' = IF callDone THEN purge ELSE "scheduled"
          /\ UNCHANGED <<peers, posting, link>>
      BY <1>4, <2>3 DEF HandleAnswer
    <3>3. SignalTypeOK' BY <1>0, <3>1, <3>2, StopType DEF SignalTypeOK
    <3>4. PurgeIsRight' BY <1>0, <3>1, <3>2, StopType DEF PurgeIsRight, PurgedStaysEmpty, SignalTypeOK
    <3> QED BY <3>3, <3>4 DEF ShapeInv
  <2> QED BY <2>2, <2>3
<1>5. CASE Connect
  BY <1>0, <1>5 DEF Connect, ShapeInv, SignalTypeOK, PurgeIsRight, PurgedStaysEmpty
<1>6. CASE Disconnect
  <2>1. offered + 1 \in 0..MaxOffers BY <1>0, <1>6 DEF Disconnect
  <2>2. /\ posting' \in [Sides -> Seq(Signal)]
        /\ offered' \in 0..MaxOffers /\ awaiting' \in BOOLEAN
    <3>1. CASE Offer(offered + 1) BY <1>0, <2>1, <3>1, OfferType
    <3>2. CASE UNCHANGED <<offered, awaiting, posting, doubled>> BY <1>0, <3>2 DEF SignalTypeOK
    <3> QED BY <1>6, <3>1, <3>2 DEF Disconnect
  <2> QED BY <1>0, <1>6, <2>2
        DEF Disconnect, ShapeInv, SignalTypeOK, PurgeIsRight, PurgedStaysEmpty
<1>7. ASSUME NEW s \in Sides, Start(s) PROVE ShapeInv'
  BY <1>0, <1>7 DEF Start, ShapeInv, SignalTypeOK, PurgeIsRight, PurgedStaysEmpty
<1>8. ASSUME NEW s \in Sides, SocketFails(s) PROVE ShapeInv'
  <2>1. /\ sock' \in [Sides -> {"none", "open", "closed"}] /\ seen' \in [Sides -> Nat]
        /\ \A t \in Sides : seen'[t] <= Len(inbox[t])
    <3>1. \A t \in Sides : Len(inbox[t]) \in Nat BY <1>0 DEF SignalTypeOK
    <3> QED BY <1>0, <1>8, <3>1 DEF SocketFails, Fail, SignalTypeOK
  <2> QED BY <1>0, <1>8, <2>1
        DEF SocketFails, ShapeInv, SignalTypeOK, PurgeIsRight, PurgedStaysEmpty
<1>9. ASSUME NEW s \in Sides, Reopen(s) PROVE ShapeInv'
  <2>1. Msg("offer", offered) \in Signal BY <1>0, MsgType
  <2>2. posting' \in [Sides -> Seq(Signal)]
    <3>1. posting \in [Sides -> Seq(Signal)] BY <1>0 DEF SignalTypeOK
    <3>2. Append(posting[s], Msg("offer", offered)) \in Seq(Signal) BY <2>1, <3>1
    <3> QED BY <1>9, <3>1, <3>2 DEF Reopen
  <2>3. sock' \in [Sides -> {"none", "open", "closed"}] BY <1>0, <1>9 DEF Reopen, SignalTypeOK
  <2> QED BY <1>0, <1>9, <2>2, <2>3
        DEF Reopen, ShapeInv, SignalTypeOK, PurgeIsRight, PurgedStaysEmpty
<1>10. ASSUME NEW s \in Sides, RecoveryFails(s) PROVE ShapeInv'
  <2>1. /\ Stop(s, "failed") /\ callDone' = TRUE
        /\ purge' = IF callDone THEN purge ELSE "scheduled"
        /\ UNCHANGED <<peers, posting, link>>
    BY <1>10 DEF RecoveryFails
  <2>2. SignalTypeOK' BY <1>0, <2>1, StopType DEF SignalTypeOK
  <2>3. PurgeIsRight' BY <1>0, <2>1, StopType DEF PurgeIsRight, PurgedStaysEmpty, SignalTypeOK
  <2> QED BY <2>2, <2>3 DEF ShapeInv
<1>11. ASSUME NEW s \in Sides, End(s) PROVE ShapeInv'
  <2>1. /\ Stop(s, "ended") /\ callDone' \in {callDone, TRUE}
        /\ purge' = IF callDone' /\ ~callDone THEN "scheduled" ELSE purge
        /\ UNCHANGED <<peers, posting, link>>
    BY <1>11 DEF End
  <2>2. callDone \in BOOLEAN BY <1>0 DEF SignalTypeOK
  <2>3. SignalTypeOK' BY <1>0, <2>1, <2>2, StopType DEF SignalTypeOK
  <2>4. PurgeIsRight'
    <3>1. CASE callDone' = callDone
      <4>1. purge' = purge BY <2>1, <3>1, Zenon
      <4> QED BY <1>0, <2>1, <3>1, <4>1, StopType DEF PurgeIsRight, PurgedStaysEmpty
    <3>2. CASE callDone' = TRUE /\ ~callDone
      <4>1. purge' = "scheduled" BY <2>1, <3>2
      <4> QED BY <3>2, <4>1 DEF PurgeIsRight, PurgedStaysEmpty
    <3>3. callDone = TRUE \/ callDone = FALSE BY <2>2
    <3> QED BY <2>1, <3>1, <3>2, <3>3
  <2> QED BY <2>3, <2>4 DEF ShapeInv
<1> QED BY <1>1, <1>2, <1>3, <1>4, <1>5, <1>6, <1>7, <1>8, <1>9, <1>10, <1>11

-----------------------------------------------------------------------------
(* The handshake: an answer fits the offer that waits for it.  Until two   *)
(* copies are under way at once, at most one description is on its way     *)
(* between the managers, offer or answer, and only while the creator waits *)
(* for an answer.                                                          *)

\* There is one description at most behind the first n, and it is about offer x.
Single(q, n, x) ==
    \A i \in DOMAIN q : i > n /\ q[i].kind # "ready" =>
        /\ q[i].of = x
        /\ \A j \in DOMAIN q : j > n /\ q[j].kind # "ready" => j = i

\* The description on its way is about the last offer.
IsLast(s) ==
    /\ Single(posting[s], 0, offered)
    /\ Single(inbox[s], seen[s], offered)
    /\ Single(chain[s], 0, offered)

\* No two places have one.
OneAtOnce ==
    \A s, t \in Sides :
        /\ ~(InPost(s) /\ InTable(t)) /\ ~(InPost(s) /\ InChain(t))
        /\ ~(InTable(s) /\ InChain(t))
        /\ s # t => /\ ~(InPost(s) /\ InPost(t)) /\ ~(InTable(s) /\ InTable(t))
                    /\ ~(InChain(s) /\ InChain(t))

\* Nothing is on its way unless the creator waits.
OnlyAwaited == \A s \in Sides : InPost(s) \/ InTable(s) \/ InChain(s) => awaiting

ExchangeInv ==
    ~doubled => /\ ~misfit
                /\ \A s \in Sides : IsLast(s)
                /\ OneAtOnce
                /\ OnlyAwaited

\* The inductive invariant of the handshake.
HandshakeInv == ShapeInv /\ (doubled \in BOOLEAN) /\ (misfit \in BOOLEAN) /\ ExchangeInv

\* One more at the end of a queue.
LEMMA AppendOne ==
    ASSUME NEW q \in Seq(Signal), NEW m \in Signal, NEW n \in Nat, NEW x,
           n <= Len(q), Single(q, n, x)
    PROVE  /\ Busy(Append(q, m), n) => Busy(q, n) \/ m.kind # "ready"
           /\ m.kind = "ready" => Single(Append(q, m), n, x)
           /\ ~Busy(q, n) /\ m.of = x => Single(Append(q, m), n, x)
<1> DEFINE r == Append(q, m)
           e == Len(q) + 1
<1>1. /\ r \in Seq(Signal) /\ Len(r) = e /\ DOMAIN r = 1..e /\ DOMAIN q = 1..Len(q)
      /\ r[e] = m /\ \A i \in 1..Len(q) : r[i] = q[i]
  OBVIOUS
<1>2. Len(q) \in Nat OBVIOUS
<1>3. \A i \in DOMAIN r : i = e \/ i \in DOMAIN q BY <1>1, <1>2
<1>4. \A i \in DOMAIN q : r[i] = q[i] BY <1>1
<1> HIDE DEF r, e
<1>5. Busy(r, n) => Busy(q, n) \/ m.kind # "ready" BY <1>1, <1>3, <1>4 DEF Busy
<1>6. m.kind = "ready" => Single(r, n, x) BY <1>1, <1>3, <1>4 DEF Single
<1>7. ~Busy(q, n) /\ m.of = x => Single(r, n, x) BY <1>1, <1>3, <1>4 DEF Single, Busy
<1> QED BY <1>5, <1>6, <1>7 DEF r

\* A queue without its head.
LEMMA TailOne ==
    ASSUME NEW q \in Seq(Signal), q # <<>>, NEW x, Single(q, 0, x)
    PROVE  /\ Busy(Tail(q), 0) => Busy(q, 0)
           /\ Single(Tail(q), 0, x)
           /\ Head(q).kind # "ready" =>
                 /\ Head(q).of = x /\ Busy(q, 0) /\ ~Busy(Tail(q), 0)
<1> DEFINE r == Tail(q)
<1>1. /\ r \in Seq(Signal) /\ DOMAIN r = 1..(Len(q) - 1) /\ DOMAIN q = 1..Len(q)
      /\ \A i \in 1..(Len(q) - 1) : r[i] = q[i + 1]
      /\ Len(q) \in Nat /\ Len(q) >= 1 /\ Head(q) = q[1]
  OBVIOUS
<1>2. \A i \in DOMAIN r : i > 0 /\ i + 1 \in DOMAIN q /\ i + 1 > 0 /\ i + 1 # 1 /\ r[i] = q[i + 1]
  BY <1>1
<1>3. \A i, j \in DOMAIN r : i + 1 = j + 1 => i = j BY <1>1
<1>4. 1 \in DOMAIN q /\ 1 > 0 BY <1>1
<1> HIDE DEF r
<1>5. Busy(r, 0) => Busy(q, 0) BY <1>2 DEF Busy
<1>6. Single(r, 0, x) BY <1>2, <1>3 DEF Single
<1>7. Head(q).kind # "ready" => Head(q).of = x /\ Busy(q, 0)
  BY <1>1, <1>4 DEF Single, Busy
<1>8. Head(q).kind # "ready" => ~Busy(r, 0)
  BY <1>1, <1>2, <1>4 DEF Single, Busy
<1> QED BY <1>5, <1>6, <1>7, <1>8 DEF r

\* The rest of a queue, when the first k are gone.
LEMMA RestOne ==
    ASSUME NEW q \in Seq(Signal), NEW n \in Nat, NEW k \in Nat, NEW x, Single(q, n, x)
    PROVE  LET r == SubSeq(q, k + 1, Len(q))
           IN  /\ Busy(r, Less(n, k)) => Busy(q, n)
               /\ Single(r, Less(n, k), x)
<1> DEFINE r == SubSeq(q, k + 1, Len(q))
           l == Less(n, k)
<1>1. /\ r \in Seq(Signal)
      /\ Len(r) = IF k < Len(q) THEN Len(q) - k ELSE 0
      /\ \A i \in 1..(Len(q) - k) : r[i] = q[i + k]
  BY RestIsSeq
<1>2. Len(q) \in Nat /\ DOMAIN q = 1..Len(q) /\ DOMAIN r = 1..Len(r) BY <1>1
<1> HIDE DEF r
<1>3. \A i \in DOMAIN r : i \in Nat /\ i + k \in DOMAIN q /\ r[i] = q[i + k]
  <2> SUFFICES ASSUME NEW i \in DOMAIN r PROVE i \in Nat /\ i + k \in DOMAIN q /\ r[i] = q[i + k]
    OBVIOUS
  <2>1. i \in 1..Len(r) BY <1>2
  <2>2. i \in Nat /\ i <= Len(r) /\ i >= 1 /\ Len(r) \in Nat BY <1>1, <2>1
  <2>3. k < Len(q)
    <3>1. CASE ~(k < Len(q))
      <4>1. Len(r) = 0 BY <1>1, <3>1, Zenon
      <4> QED BY <2>2, <4>1
    <3> QED BY <3>1
  <2>4. Len(r) = Len(q) - k BY <1>1, <2>3, Zenon
  <2>5. i \in 1..(Len(q) - k) /\ i + k \in 1..Len(q) BY <1>2, <2>2, <2>4
  <2>6. r[i] = q[i + k] BY <1>1, <2>5, Zenon
  <2> QED BY <1>2, <2>2, <2>5, <2>6, Zenon
<1>4. \A i \in Nat : i > l /\ i > 0 => i + k > n BY DEF Less
<1>5. \A i \in DOMAIN r : i > 0 BY <1>2
<1>6. \A i, j \in DOMAIN r : i + k = j + k => i = j BY <1>3
<1> HIDE DEF l
<1>7. \A i \in DOMAIN r : i > l => i + k > n BY <1>3, <1>4, <1>5
<1>8. Busy(r, l) => Busy(q, n) BY <1>3, <1>7 DEF Busy
<1>9. Single(r, l, x) BY <1>3, <1>6, <1>7 DEF Single
<1> QED BY <1>8, <1>9 DEF r, l

\* Two queues, one after the other.
LEMMA ConcatOne ==
    ASSUME NEW p \in Seq(Signal), NEW q \in Seq(Signal), NEW x,
           Single(p, 0, x), Single(q, 0, x), ~(Busy(p, 0) /\ Busy(q, 0))
    PROVE  /\ Busy(p \o q, 0) => Busy(p, 0) \/ Busy(q, 0)
           /\ Single(p \o q, 0, x)
<1> DEFINE r == p \o q
           k == Len(p)
<1>1. /\ r \in Seq(Signal) /\ Len(r) = k + Len(q)
      /\ \A i \in 1..k : r[i] = p[i]
      /\ \A i \in 1..Len(r) : i > k => r[i] = q[i - k]
  OBVIOUS
<1>2. /\ k \in Nat /\ Len(q) \in Nat /\ DOMAIN p = 1..k /\ DOMAIN q = 1..Len(q)
      /\ DOMAIN r = 1..Len(r)
  BY <1>1
<1> HIDE DEF r, k
<1>3. \A i \in DOMAIN r : \/ i \in DOMAIN p /\ i > 0 /\ r[i] = p[i]
                          \/ i > k /\ i - k \in DOMAIN q /\ i - k > 0 /\ r[i] = q[i - k]
  BY <1>1, <1>2
<1>4. \A i, j \in DOMAIN r : i - k = j - k => i = j BY <1>1, <1>2
<1>5. Busy(r, 0) => Busy(p, 0) \/ Busy(q, 0) BY <1>3 DEF Busy
<1>6. Single(r, 0, x) BY <1>3, <1>4 DEF Single, Busy
<1> QED BY <1>5, <1>6 DEF r

\* An empty queue has no description.
LEMMA EmptyOne == ASSUME NEW x, NEW n PROVE ~Busy(<<>>, n) /\ Single(<<>>, n, x)
BY DEF Busy, Single

\* What the shape says of the queues.
LEMMA QueuesAreSeqs ==
    ASSUME ShapeInv, NEW s \in Sides
    PROVE  /\ posting \in [Sides -> Seq(Signal)] /\ chain \in [Sides -> Seq(Signal)]
           /\ inbox \in [Sides -> Seq(Signal)] /\ seen \in [Sides -> Nat]
           /\ posting[s] \in Seq(Signal) /\ chain[s] \in Seq(Signal) /\ inbox[s] \in Seq(Signal)
           /\ seen[s] \in Nat /\ seen[s] <= Len(inbox[s]) /\ Other(s) \in Sides
BY DEF ShapeInv, SignalTypeOK, Other, Sides

\* The exchange is as it was, or less of it is left.
LEMMA FewerIsFine ==
    ASSUME HandshakeInv, ~doubled, UNCHANGED <<offered, awaiting, misfit>>,
           \A s \in Sides : /\ IsLast(s)'
                            /\ InPost(s)' => InPost(s)
                            /\ InTable(s)' => InTable(s)
                            /\ InChain(s)' => InChain(s)
    PROVE  ExchangeInv'
BY DEF HandshakeInv, ExchangeInv, OneAtOnce, OnlyAwaited

\* The queues are as they were.
LEMMA SameIsFine ==
    ASSUME HandshakeInv,
           UNCHANGED <<offered, awaiting, misfit, posting, inbox, seen, chain, doubled>>
    PROVE  ExchangeInv'
BY DEF HandshakeInv, ExchangeInv, OneAtOnce, OnlyAwaited, IsLast, InPost, InTable, InChain,
       Busy, Single

\* Acknowledging takes nothing that is still to come.
LEMMA AcknowledgeOne ==
    ASSUME HandshakeInv, ~doubled, NEW s \in Sides, Acknowledge(s), UNCHANGED offered
    PROVE  \A t \in Sides : /\ Single(inbox'[t], seen'[t], offered')
                            /\ InTable(t)' => InTable(t)
<1>1. ShapeInv /\ \A t \in Sides : IsLast(t) BY DEF HandshakeInv, ExchangeInv
<1>2. \A t \in Sides \ {s} : inbox'[t] = inbox[t] /\ seen'[t] = seen[t]
  BY <1>1, QueuesAreSeqs DEF Acknowledge
<1>3. inbox'[s] = SubSeq(inbox[s], seen[s] + 1, Len(inbox[s])) /\ seen'[s] = 0
  BY <1>1, QueuesAreSeqs DEF Acknowledge, After
<1>4. inbox[s] \in Seq(Signal) /\ seen[s] \in Nat BY <1>1, QueuesAreSeqs
<1>5. Less(seen[s], seen[s]) = 0 BY <1>4 DEF Less
<1>6. Single(inbox'[s], 0, offered) /\ (Busy(inbox'[s], 0) => Busy(inbox[s], seen[s]))
  BY <1>1, <1>3, <1>4, <1>5, RestOne DEF IsLast
<1>7. \A t \in Sides : IsLast(t) BY <1>1
<1>8. ASSUME NEW t \in Sides
      PROVE  Single(inbox'[t], seen'[t], offered) /\ (InTable(t)' => InTable(t))
  <2>1. CASE t = s BY <1>3, <1>6, <2>1 DEF InTable
  <2>2. CASE t # s
    <3>1. inbox'[t] = inbox[t] /\ seen'[t] = seen[t] BY <1>2, <2>2
    <3> QED BY <1>7, <3>1 DEF InTable, IsLast
  <2> QED BY <2>1, <2>2
<1> QED BY <1>8

\* A manager that stops leaves less.
LEMMA StopOne ==
    ASSUME HandshakeInv, ~doubled, NEW s \in Sides, NEW phase, Stop(s, phase),
           UNCHANGED <<offered, awaiting, doubled, misfit, posting>>
    PROVE  ExchangeInv'
<1>1. ShapeInv /\ \A t \in Sides : IsLast(t) BY DEF HandshakeInv, ExchangeInv
<1>2. \A t \in Sides : /\ Single(inbox'[t], seen'[t], offered')
                       /\ InTable(t)' => InTable(t)
  BY AcknowledgeOne DEF Stop
<1>3. \A t \in Sides : chain'[t] = <<>> \/ chain'[t] = chain[t]
  BY <1>1, QueuesAreSeqs DEF Stop
<1>4. \A t \in Sides : Single(chain'[t], 0, offered') /\ (InChain(t)' => InChain(t))
  BY <1>1, <1>3, EmptyOne DEF IsLast, InChain
<1>5. \A t \in Sides : Single(posting'[t], 0, offered') /\ (InPost(t)' => InPost(t))
  BY <1>1 DEF IsLast, InPost
<1>6. \A t \in Sides : IsLast(t)' BY <1>2, <1>4, <1>5 DEF IsLast
<1> QED BY <1>2, <1>4, <1>5, <1>6, FewerIsFine

\* Sending: a ready changes nothing, a description is the only one if there was none.
LEMMA SendOne ==
    ASSUME ShapeInv, NEW s \in Sides, NEW m \in Signal, NEW x,
           UNCHANGED posting \/ posting' = [posting EXCEPT ![s] = Append(@, m)],
           Single(posting[s], 0, x)
    PROVE  /\ \A t \in Sides \ {s} : posting'[t] = posting[t]
           /\ Busy(posting'[s], 0) => Busy(posting[s], 0) \/ m.kind # "ready"
           /\ m.kind = "ready" => Single(posting'[s], 0, x)
           /\ ~Busy(posting[s], 0) /\ m.of = x => Single(posting'[s], 0, x)
<1>1. posting[s] \in Seq(Signal) /\ posting \in [Sides -> Seq(Signal)] BY QueuesAreSeqs
<1>2. Len(posting[s]) \in Nat BY <1>1
<1>3. CASE UNCHANGED posting BY <1>3
<1>4. CASE posting' = [posting EXCEPT ![s] = Append(@, m)]
  <2>1. posting'[s] = Append(posting[s], m) BY <1>1, <1>4
  <2>2. \A t \in Sides \ {s} : posting'[t] = posting[t] BY <1>1, <1>4
  <2> QED BY <1>1, <1>2, <2>1, <2>2, AppendOne
<1> QED BY <1>3, <1>4

\* Where nothing is on its way, whatever is last will do.
LEMMA CalmIsSingle == ASSUME NEW q, NEW n, NEW x, ~Busy(q, n) PROVE Single(q, n, x)
BY DEF Busy, Single

\* A socket that fails and gives back no description: the next one finds what this one
\* had still to see.
LEMMA FailOne ==
    ASSUME ShapeInv, NEW s \in Sides, Fail(s), ~Unacked(s), UNCHANGED inbox, NEW x,
           \A t \in Sides : Single(inbox[t], seen[t], x)
    PROVE  \A t \in Sides : /\ Single(inbox'[t], seen'[t], x)
                            /\ InTable(t)' => InTable(t)
<1>1. seen'[s] = 0 /\ \A t \in Sides \ {s} : seen'[t] = seen[t]
  BY QueuesAreSeqs DEF Fail
<1>2. \A i \in DOMAIN inbox[s] : i > 0 /\ inbox[s][i].kind # "ready" => i > seen[s]
  <2>1. inbox[s] \in Seq(Signal) /\ seen[s] \in Nat BY QueuesAreSeqs
  <2>2. \A i \in DOMAIN inbox[s] : i \in Nat BY <2>1
  <2>3. \A i \in DOMAIN inbox[s] : i <= seen[s] \/ i > seen[s] BY <2>1, <2>2
  <2> QED BY <2>3 DEF Unacked
<1>3. Busy(inbox[s], 0) => Busy(inbox[s], seen[s]) BY <1>2 DEF Busy
<1>4. Single(inbox[s], 0, x) BY <1>2 DEF Single
<1> QED BY <1>1, <1>3, <1>4 DEF InTable

\* A signal of a socket that fails because the call is over is dropped.
LEMMA DropOne ==
    ASSUME HandshakeInv, NEW s \in Sides, Commit(s), Fail(s), ~Unacked(s), UNCHANGED inbox,
           ~doubled
    PROVE  ExchangeInv'
<1>1. ShapeInv /\ \A t \in Sides : IsLast(t) BY DEF HandshakeInv, ExchangeInv
<1>2. UNCHANGED <<offered, awaiting, misfit, chain>> BY DEF Commit, peers
<1>3. posting[s] \in Seq(Signal) /\ posting[s] # <<>> BY <1>1, QueuesAreSeqs DEF Commit
<1>4. posting'[s] = Tail(posting[s]) /\ \A t \in Sides \ {s} : posting'[t] = posting[t]
  BY <1>1, QueuesAreSeqs DEF Commit
<1>5. Single(posting'[s], 0, offered) /\ (InPost(s)' => InPost(s))
  BY <1>1, <1>3, <1>4, TailOne DEF IsLast, InPost
<1>6. \A t \in Sides \ {s} : Single(posting'[t], 0, offered) /\ (InPost(t)' => InPost(t))
  BY <1>1, <1>4 DEF IsLast, InPost
<1>7. \A t \in Sides : Single(inbox'[t], seen'[t], offered) /\ (InTable(t)' => InTable(t))
  BY <1>1, FailOne DEF IsLast
<1>8. \A t \in Sides : Single(chain'[t], 0, offered) /\ (InChain(t)' => InChain(t))
  BY <1>1, <1>2 DEF IsLast, InChain
<1>9. \A t \in Sides : IsLast(t)' BY <1>2, <1>5, <1>6, <1>7, <1>8 DEF IsLast
<1> QED BY <1>2, <1>5, <1>6, <1>7, <1>8, <1>9, FewerIsFine

\* A signal that is committed moves from its sender's queue to the table, or is dropped.
LEMMA CommitOne ==
    ASSUME HandshakeInv, NEW s \in Sides, Commit(s), UNCHANGED sockets, ~doubled
    PROVE  ExchangeInv'
<1> DEFINE o == Other(s)
           m == Head(posting[s])
<1>1. ~doubled /\ UNCHANGED seen
  BY DEF sockets
<1>2. /\ ShapeInv /\ ~misfit /\ OneAtOnce /\ OnlyAwaited
      /\ \A t \in Sides : IsLast(t)
  BY <1>1 DEF HandshakeInv, ExchangeInv
<1>3. UNCHANGED <<offered, awaiting, misfit, chain>> BY DEF Commit, peers
<1>4. o \in Sides /\ posting[s] \in Seq(Signal) /\ inbox[o] \in Seq(Signal) /\ seen[o] \in Nat
      /\ seen[o] <= Len(inbox[o]) /\ posting[s] # <<>>
  BY <1>2, QueuesAreSeqs DEF Commit
<1>5. m \in Signal BY <1>4, TailType
<1>6. posting'[s] = Tail(posting[s]) /\ \A t \in Sides \ {s} : posting'[t] = posting[t]
  BY <1>2, QueuesAreSeqs DEF Commit
<1>7. /\ \A t \in Sides \ {o} : inbox'[t] = inbox[t]
      /\ inbox'[o] = inbox[o] \/ inbox'[o] = Append(inbox[o], m)
  BY <1>2, <1>4, QueuesAreSeqs DEF Commit
<1>8. /\ InPost(s)' => InPost(s)
      /\ Single(posting'[s], 0, offered)
      /\ m.kind # "ready" => m.of = offered /\ InPost(s) /\ ~InPost(s)'
  BY <1>2, <1>4, <1>6, TailOne DEF IsLast, InPost
<1>9. \A t \in Sides \ {s} : InPost(t)' = InPost(t) /\ Single(posting'[t], 0, offered)
  BY <1>2, <1>6 DEF IsLast, InPost
<1>10. \A t \in Sides : InChain(t)' = InChain(t) /\ Single(chain'[t], 0, offered)
  BY <1>2, <1>3 DEF IsLast, InChain
<1>11. \A t \in Sides \ {o} : InTable(t)' = InTable(t) /\ Single(inbox'[t], seen'[t], offered)
  BY <1>1, <1>2, <1>7 DEF IsLast, InTable
<1> HIDE DEF o, m
<1>12. /\ InTable(o)' => InTable(o) \/ m.kind # "ready"
       /\ Single(inbox'[o], seen'[o], offered)
  <2>1. CASE inbox'[o] = inbox[o] BY <1>1, <1>2, <1>4, <2>1 DEF IsLast, InTable
  <2>2. CASE inbox'[o] = Append(inbox[o], m)
    <3>1. Single(inbox[o], seen[o], offered) BY <1>2, <1>4 DEF IsLast
    <3>2. m.kind # "ready" => m.of = offered /\ ~Busy(inbox[o], seen[o])
      BY <1>2, <1>4, <1>8 DEF OneAtOnce, InTable
    <3> QED BY <1>1, <1>4, <1>5, <2>2, <3>1, <3>2, AppendOne DEF InTable
  <2> QED BY <1>7, <2>1, <2>2
<1>13. \A t \in Sides : IsLast(t)'
  BY <1>3, <1>8, <1>9, <1>10, <1>11, <1>12 DEF IsLast
<1>14. OneAtOnce'
  BY <1>2, <1>4, <1>8, <1>9, <1>10, <1>11, <1>12 DEF OneAtOnce
<1>15. OnlyAwaited'
  BY <1>2, <1>3, <1>4, <1>8, <1>9, <1>10, <1>11, <1>12 DEF OnlyAwaited
<1> QED BY <1>2, <1>3, <1>13, <1>14, <1>15 DEF ExchangeInv

\* A signal that is delivered moves from the table to its manager's queue.
LEMMA DeliverOne ==
    ASSUME HandshakeInv, NEW s \in Sides, Deliver(s), ~doubled'
    PROVE  ExchangeInv'
<1>1. ~doubled /\ UNCHANGED <<doubled, offered, awaiting, misfit, posting, inbox>>
  BY DEF Deliver, history, peers, server
<1>2. /\ ShapeInv /\ ~misfit /\ OneAtOnce /\ OnlyAwaited
      /\ \A t \in Sides : IsLast(t)
  BY <1>1 DEF HandshakeInv, ExchangeInv
<1>3. chain[s] \in Seq(Signal) /\ inbox[s] \in Seq(Signal) /\ seen[s] \in Nat
      /\ Len(inbox[s]) \in Nat
  BY <1>2, QueuesAreSeqs
<1> DEFINE r == SubSeq(inbox[s], seen[s] + 1, Len(inbox[s]))
<1>4. chain'[s] = chain[s] \o r /\ \A t \in Sides \ {s} : chain'[t] = chain[t]
  BY <1>2, QueuesAreSeqs DEF Deliver, After
<1>5. seen'[s] = Len(inbox[s]) /\ \A t \in Sides \ {s} : seen'[t] = seen[t]
  BY <1>2, QueuesAreSeqs DEF Deliver
<1>6. r \in Seq(Signal) BY <1>3, RestIsSeq
<1>7. Less(seen[s], seen[s]) = 0 BY <1>3 DEF Less
<1>8. Single(r, 0, offered) /\ (Busy(r, 0) => InTable(s))
  BY <1>2, <1>3, <1>7, RestOne DEF IsLast, InTable
<1> HIDE DEF r
<1>9. ~(Busy(chain[s], 0) /\ Busy(r, 0)) BY <1>2, <1>8 DEF OneAtOnce, InChain
<1>10. Single(chain[s], 0, offered) BY <1>2 DEF IsLast
<1>11. Single(chain'[s], 0, offered) /\ (InChain(s)' => InChain(s) \/ InTable(s))
  BY <1>3, <1>4, <1>6, <1>8, <1>9, <1>10, ConcatOne DEF InChain
<1>12. ~InTable(s)'
  <2>1. \A i \in DOMAIN inbox[s] : ~(i > Len(inbox[s])) BY <1>3
  <2> QED BY <1>1, <1>5, <2>1 DEF InTable, Busy
<1>13. Single(inbox'[s], seen'[s], offered) BY <1>12, CalmIsSingle DEF InTable
<1>14. \A t \in Sides \ {s} : /\ InChain(t)' = InChain(t) /\ Single(chain'[t], 0, offered)
                              /\ InTable(t)' = InTable(t)
                              /\ Single(inbox'[t], seen'[t], offered)
  BY <1>1, <1>2, <1>4, <1>5 DEF IsLast, InChain, InTable
<1>15. \A t \in Sides : InPost(t)' = InPost(t) /\ Single(posting'[t], 0, offered)
  BY <1>1, <1>2 DEF IsLast, InPost
<1>16. \A t \in Sides : IsLast(t)' BY <1>1, <1>11, <1>13, <1>14, <1>15 DEF IsLast
<1>17. OneAtOnce' BY <1>2, <1>11, <1>12, <1>14, <1>15 DEF OneAtOnce
<1>18. OnlyAwaited' BY <1>1, <1>2, <1>11, <1>12, <1>14, <1>15 DEF OnlyAwaited
<1> QED BY <1>1, <1>2, <1>16, <1>17, <1>18 DEF ExchangeInv

\* A purge leaves less.
LEMMA PurgeOne ==
    ASSUME HandshakeInv, Purge, ~doubled'
    PROVE  ExchangeInv'
<1>1. ~doubled /\ UNCHANGED <<doubled, offered, awaiting, misfit, posting, chain>>
  BY DEF Purge, history, peers
<1>2. ShapeInv /\ \A t \in Sides : IsLast(t)
  BY <1>1 DEF HandshakeInv, ExchangeInv
<1>3. PICK taken \in [Sides -> Nat] :
         \A s \in Sides : /\ inbox'[s] = SubSeq(inbox[s], taken[s] + 1, Len(inbox[s]))
                          /\ seen'[s] = Less(seen[s], taken[s])
  <2> DEFINE own == Len(inbox["creator"])
             taken == [s \in Sides |-> IF s = "creator" THEN PurgeBatch ELSE Less(PurgeBatch, own)]
  <2>1. own \in Nat /\ PurgeBatch \in Nat BY <1>2, SignalingAssumption, QueuesAreSeqs DEF Sides
  <2>2. Less(PurgeBatch, own) \in Nat BY <2>1 DEF Less
  <2>3. taken \in [Sides -> Nat] BY <2>1, <2>2
  <2>4. \A s \in Sides : /\ inbox'[s] = SubSeq(inbox[s], taken[s] + 1, Len(inbox[s]))
                         /\ seen'[s] = Less(seen[s], taken[s])
    BY DEF Purge, After
  <2> QED BY <2>3, <2>4
<1>4. ASSUME NEW s \in Sides
      PROVE  Single(inbox'[s], seen'[s], offered) /\ (InTable(s)' => InTable(s))
  <2>1. inbox[s] \in Seq(Signal) /\ seen[s] \in Nat /\ taken[s] \in Nat
    BY <1>2, <1>3, QueuesAreSeqs
  <2>2. Single(inbox[s], seen[s], offered) BY <1>2 DEF IsLast
  <2> QED BY <1>3, <2>1, <2>2, RestOne DEF InTable
<1>5. \A t \in Sides : /\ IsLast(t)' /\ (InPost(t)' => InPost(t)) /\ (InChain(t)' => InChain(t))
  BY <1>1, <1>2, <1>4 DEF IsLast, InPost, InChain
<1> QED BY <1>1, <1>4, <1>5, FewerIsFine

\* An offer that is sent, for the first time or again, when no description is under way.
LEMMA SoleOffer ==
    ASSUME HandshakeInv, ~doubled, ~UnderWay, awaiting', offered' \in 0..MaxOffers,
           \/ UNCHANGED posting
           \/ posting' = [posting EXCEPT !["creator"] = Append(@, Msg("offer", offered'))],
           UNCHANGED <<misfit, inbox, seen>>,
           \A t \in Sides : InChain(t)' => InChain(t)
    PROVE  ExchangeInv'
<1> DEFINE n == offered'
<1>1. "creator" \in Sides /\ Msg("offer", n) \in Signal /\ Msg("offer", n).of = n
  BY MsgType DEF Sides, Kinds, Msg
<1>2. ShapeInv /\ ~misfit BY DEF HandshakeInv, ExchangeInv
<1>3. \A t \in Sides : ~InPost(t) /\ ~InTable(t) /\ ~InChain(t) BY DEF UnderWay
<1>4. \A t \in Sides : ~InTable(t)' /\ ~InChain(t)' BY <1>3 DEF InTable
<1> HIDE DEF n
<1>5. Single(posting["creator"], 0, n) BY <1>1, <1>3, CalmIsSingle DEF InPost
<1>6. UNCHANGED posting \/ posting' = [posting EXCEPT !["creator"] = Append(@, Msg("offer", n))]
  BY DEF n
<1>7. /\ \A t \in Sides \ {"creator"} : posting'[t] = posting[t]
      /\ Single(posting'["creator"], 0, n)
  BY <1>1, <1>2, <1>3, <1>5, <1>6, SendOne DEF InPost
<1>8. \A t \in Sides \ {"creator"} : ~InPost(t)' BY <1>3, <1>7 DEF InPost
<1>9. \A t \in Sides : Single(posting'[t], 0, n) BY <1>7, <1>8, CalmIsSingle DEF InPost
<1>10. \A t \in Sides : IsLast(t)'
  BY <1>4, <1>9, CalmIsSingle DEF IsLast, InTable, InChain, n
<1>11. OneAtOnce' BY <1>4, <1>8 DEF OneAtOnce
<1>12. OnlyAwaited' BY DEF OnlyAwaited
<1> QED BY <1>2, <1>10, <1>11, <1>12 DEF ExchangeInv

\* offer: no description is under way, or the socket drops it and nothing changes.
LEMMA OfferOne ==
    ASSUME HandshakeInv, NEW n \in 0..MaxOffers, Offer(n), ~doubled', ~doubled,
           UNCHANGED <<misfit, inbox, seen>>,
           \A t \in Sides : (InChain(t)' => InChain(t)) /\ Single(chain'[t], 0, offered)
    PROVE  ExchangeInv'
<1>1. /\ awaiting' = TRUE /\ offered' = (IF awaiting THEN offered ELSE n)
      /\ \/ UNCHANGED posting
         \/ posting' = [posting EXCEPT !["creator"] = Append(@, Msg("offer", offered'))]
  BY DEF Offer, Sends
<1>2. /\ ShapeInv /\ OnlyAwaited /\ awaiting \in BOOLEAN /\ offered \in 0..MaxOffers
      /\ \A t \in Sides : IsLast(t)
  <2>1. ShapeInv /\ OnlyAwaited /\ \A t \in Sides : IsLast(t) BY DEF HandshakeInv, ExchangeInv
  <2> QED BY <2>1 DEF ShapeInv, SignalTypeOK
<1>3. offered' \in 0..MaxOffers BY <1>1, <1>2
<1>4. CASE ~UnderWay BY <1>1, <1>3, <1>4, SoleOffer
<1>5. CASE UnderWay
  <2>1. sock["creator"] # "open" BY <1>5 DEF Offer
  <2>2. awaiting BY <1>2, <1>5 DEF OnlyAwaited, UnderWay
  <2>3. UNCHANGED <<offered, awaiting, posting>> BY <1>1, <1>2, <2>1, <2>2 DEF Offer, Sends
  <2>4. \A t \in Sides : IsLast(t)' /\ (InPost(t)' => InPost(t)) /\ (InTable(t)' => InTable(t))
    BY <1>2, <2>3 DEF IsLast, InPost, InTable
  <2> QED BY <2>3, <2>4, FewerIsFine
<1> QED BY <1>4, <1>5

\* Taking the head of a manager's queue leaves less, and a description was the only one.
LEMMA TakeOne ==
    ASSUME HandshakeInv, ~doubled, NEW s \in Sides, NEW kind \in Kinds, Has(s, kind),
           chain' = [chain EXCEPT ![s] = Tail(@)]
    PROVE  /\ \A t \in Sides : /\ InChain(t)' => InChain(t)
                               /\ Single(chain'[t], 0, offered)
           /\ kind # "ready" => /\ Head(chain[s]).of = offered /\ awaiting
                                /\ InChain(s) /\ ~InChain(s)'
<1>1. ShapeInv /\ OnlyAwaited /\ \A t \in Sides : IsLast(t) BY DEF HandshakeInv, ExchangeInv
<1>2. chain[s] \in Seq(Signal) /\ chain[s] # <<>> BY <1>1, QueuesAreSeqs DEF Has
<1>3. chain'[s] = Tail(chain[s]) /\ \A t \in Sides \ {s} : chain'[t] = chain[t]
  BY <1>1, QueuesAreSeqs
<1>4. Single(chain[s], 0, offered) BY <1>1 DEF IsLast
<1>5. /\ Busy(chain'[s], 0) => Busy(chain[s], 0)
      /\ Single(chain'[s], 0, offered)
      /\ kind # "ready" => Head(chain[s]).of = offered /\ Busy(chain[s], 0) /\ ~Busy(chain'[s], 0)
  BY <1>2, <1>3, <1>4, TailOne DEF Has
<1>6. \A t \in Sides \ {s} : (InChain(t)' => InChain(t)) /\ Single(chain'[t], 0, offered)
  BY <1>1, <1>3 DEF IsLast, InChain
<1>7. kind # "ready" => awaiting BY <1>1, <1>5 DEF OnlyAwaited, InChain
<1> QED BY <1>5, <1>6, <1>7 DEF InChain

\* ready: the creator offers.
LEMMA HandleReadyOne ==
    ASSUME HandshakeInv, HandleReady, ~doubled'
    PROVE  ExchangeInv'
<1> DEFINE n == IF offered = 0 THEN 1 ELSE offered
<1>1. "creator" \in Sides /\ n \in 0..MaxOffers
  BY SignalingAssumption DEF HandshakeInv, ShapeInv, SignalTypeOK, Sides
<1>2. Offer(n) BY DEF HandleReady
<1> HIDE DEF n
<1>3. ~doubled BY <1>2 DEF Offer
<1>4. \A t \in Sides : (InChain(t)' => InChain(t)) /\ Single(chain'[t], 0, offered)
  <2>1. "ready" \in Kinds BY DEF Kinds
  <2> QED BY <1>1, <1>3, <2>1, TakeOne DEF HandleReady, Takes
<1>5. UNCHANGED <<misfit, inbox, seen>> BY DEF HandleReady, sockets, server
<1> QED BY <1>1, <1>2, <1>3, <1>4, <1>5, OfferOne

\* offer: it leaves the caller's queue, and the answer is sent.
LEMMA HandleOfferOne ==
    ASSUME HandshakeInv, HandleOffer, ~doubled'
    PROVE  ExchangeInv'
<1> DEFINE v == "viewer"
           m == Msg("answer", Head(chain[v]).of)
<1>1. v \in Sides BY DEF Sides
<1>2. ~doubled /\ UNCHANGED <<doubled, offered, awaiting, misfit, inbox, seen>>
  BY DEF HandleOffer, sockets, server
<1>3. /\ ShapeInv /\ ~misfit /\ OneAtOnce /\ OnlyAwaited
      /\ \A t \in Sides : IsLast(t)
  BY <1>2 DEF HandshakeInv, ExchangeInv
<1>4. Has(v, "offer") /\ chain' = [chain EXCEPT ![v] = Tail(@)] /\ Sends(v, m)
  BY DEF HandleOffer, Takes
<1>5. m \in Signal /\ m.of = Head(chain[v]).of
  <2>1. Head(chain[v]).of \in 0..MaxOffers
    BY <1>1, <1>3, <1>4, TakesType DEF ShapeInv
  <2> QED BY <2>1, MsgType DEF Kinds, Msg
<1>6. /\ \A t \in Sides : (InChain(t)' => InChain(t)) /\ Single(chain'[t], 0, offered)
      /\ Head(chain[v]).of = offered /\ awaiting /\ InChain(v) /\ ~InChain(v)'
  <2>1. "offer" \in Kinds /\ "offer" # "ready" BY DEF Kinds
  <2> HIDE DEF v
  <2> QED BY <1>1, <1>2, <1>4, <2>1, TakeOne
<1> HIDE DEF m, v
<1>7. \A t \in Sides : ~InPost(t) /\ ~InTable(t) /\ (t # v => ~InChain(t))
  BY <1>1, <1>3, <1>6 DEF OneAtOnce
<1>8. \A t \in Sides : ~InChain(t)' /\ ~InTable(t)' BY <1>2, <1>6, <1>7 DEF InTable
<1>9. Single(posting[v], 0, offered) /\ ~Busy(posting[v], 0) BY <1>1, <1>3, <1>7 DEF IsLast, InPost
<1>10. /\ \A t \in Sides \ {v} : posting'[t] = posting[t]
       /\ Single(posting'[v], 0, offered)
  BY <1>1, <1>3, <1>4, <1>5, <1>6, <1>9, SendOne DEF Sends
<1>11. \A t \in Sides \ {v} : ~InPost(t)' /\ Single(posting'[t], 0, offered)
  BY <1>3, <1>7, <1>10 DEF InPost, IsLast
<1>12. \A t \in Sides : Single(inbox'[t], seen'[t], offered) BY <1>2, <1>3 DEF IsLast
<1>13. \A t \in Sides : IsLast(t)' BY <1>2, <1>6, <1>10, <1>11, <1>12 DEF IsLast
<1>14. OneAtOnce' BY <1>8, <1>11 DEF OneAtOnce
<1>15. OnlyAwaited' BY <1>2, <1>6 DEF OnlyAwaited
<1> QED BY <1>2, <1>3, <1>13, <1>14, <1>15 DEF ExchangeInv

\* answer: it is the one the creator waits for.
LEMMA HandleAnswerOne ==
    ASSUME HandshakeInv, HandleAnswer, ~doubled'
    PROVE  ExchangeInv'
<1> DEFINE c == "creator"
<1>1. c \in Sides BY DEF Sides
<1>2. ~doubled /\ UNCHANGED <<doubled, offered, posting>> BY DEF HandleAnswer
<1>3. /\ ShapeInv /\ misfit = FALSE /\ OneAtOnce /\ OnlyAwaited
      /\ \A t \in Sides : IsLast(t)
  BY <1>2 DEF HandshakeInv, ExchangeInv
<1>4. chain[c] \in Seq(Signal) /\ chain[c] # <<>> /\ Head(chain[c]).kind = "answer"
  BY <1>1, <1>3, QueuesAreSeqs DEF HandleAnswer, Has
<1>5. Head(chain[c]).of = offered /\ InChain(c)
  BY <1>1, <1>3, <1>4, TailOne DEF IsLast, InChain
<1>6. awaiting BY <1>1, <1>3, <1>5 DEF OnlyAwaited
<1>7. /\ awaiting' = FALSE /\ chain' = [chain EXCEPT ![c] = Tail(@)]
      /\ UNCHANGED <<inbox, seen>> /\ Has(c, "answer")
  BY <1>6 DEF HandleAnswer, sockets, server
<1>8. misfit' = (misfit \/ ~awaiting \/ Head(chain[c]).of # offered) BY DEF HandleAnswer
<1>9. ~misfit' BY <1>3, <1>5, <1>6, <1>8
<1>10. /\ \A t \in Sides : (InChain(t)' => InChain(t)) /\ Single(chain'[t], 0, offered)
       /\ ~InChain(c)'
  <2>1. "answer" \in Kinds /\ "answer" # "ready" BY DEF Kinds
  <2> HIDE DEF c
  <2> QED BY <1>1, <1>2, <1>7, <2>1, TakeOne
<1> HIDE DEF c
<1>11. \A t \in Sides : ~InPost(t) /\ ~InTable(t) /\ (t # c => ~InChain(t))
  BY <1>1, <1>3, <1>5 DEF OneAtOnce
<1>12. \A t \in Sides : ~InPost(t)' /\ ~InTable(t)' /\ ~InChain(t)'
  BY <1>2, <1>7, <1>10, <1>11 DEF InPost, InTable
<1>13. \A t \in Sides : IsLast(t)' BY <1>12, CalmIsSingle DEF IsLast, InPost, InTable, InChain
<1> QED BY <1>9, <1>12, <1>13 DEF ExchangeInv, OneAtOnce, OnlyAwaited

\* Pulse sends no description.
LEMMA PulseOne ==
    ASSUME HandshakeInv, Pulse, ~doubled'
    PROVE  ExchangeInv'
<1> DEFINE v == "viewer"
           m == Msg("ready", 0)
<1>1. v \in Sides /\ m \in Signal /\ m.kind = "ready"
  BY SignalingAssumption, MsgType DEF Sides, Kinds, Msg
<1>2. ~doubled /\ UNCHANGED <<doubled, offered, awaiting, misfit, inbox, seen, chain>>
  BY DEF Pulse, sockets, server, peers
<1>3. ShapeInv /\ \A t \in Sides : IsLast(t) BY <1>2 DEF HandshakeInv, ExchangeInv
<1>4. Sends(v, m) BY DEF Pulse
<1> HIDE DEF v, m
<1>5. Single(posting[v], 0, offered) BY <1>1, <1>3 DEF IsLast
<1>6. /\ \A t \in Sides \ {v} : posting'[t] = posting[t]
      /\ Busy(posting'[v], 0) => Busy(posting[v], 0)
      /\ Single(posting'[v], 0, offered)
  BY <1>1, <1>3, <1>4, <1>5, SendOne DEF Sends
<1>7. \A t \in Sides : IsLast(t)' BY <1>2, <1>3, <1>6 DEF IsLast
<1>8. \A t \in Sides : /\ InPost(t)' => InPost(t)
                       /\ InTable(t)' => InTable(t)
                       /\ InChain(t)' => InChain(t)
  BY <1>2, <1>6 DEF InPost, InTable, InChain
<1> QED BY <1>2, <1>7, <1>8, FewerIsFine

\* Every step keeps the exchange.
LEMMA ExchangeStep ==
    ASSUME HandshakeInv, SignalNext, ~doubled'
    PROVE  ExchangeInv'
<1> USE DEF peers, sockets, server, history
<1>1. CASE Pulse BY <1>1, PulseOne
<1>2. CASE HandleReady BY <1>2, HandleReadyOne
<1>3. CASE HandleOffer BY <1>3, HandleOfferOne
<1>4. CASE HandleAnswer BY <1>4, HandleAnswerOne
<1>5. CASE Connect BY <1>5, SameIsFine DEF Connect
<1>6. CASE Disconnect
  <2>1. UNCHANGED <<misfit, inbox, seen, chain>> BY <1>6 DEF Disconnect
  <2>2. CASE Offer(offered + 1)
    <3>1. offered + 1 \in 0..MaxOffers
      BY <1>6, SignalingAssumption DEF Disconnect, HandshakeInv, ShapeInv, SignalTypeOK
    <3>2. ~doubled BY <2>2 DEF Offer
    <3>3. \A t \in Sides : (InChain(t)' => InChain(t)) /\ Single(chain'[t], 0, offered)
      BY <2>1, <3>2 DEF InChain, HandshakeInv, ExchangeInv, IsLast
    <3> QED BY <2>1, <2>2, <3>1, <3>2, <3>3, OfferOne
  <2>3. CASE UNCHANGED <<offered, awaiting, posting, doubled>> BY <2>1, <2>3, SameIsFine
  <2> QED BY <1>6, <2>2, <2>3 DEF Disconnect
<1>7. CASE Finish BY <1>7, SameIsFine DEF Finish
<1>8. CASE Purge BY <1>8, PurgeOne
<1>9. ASSUME NEW s \in Sides, Start(s) PROVE ExchangeInv' BY <1>9, SameIsFine DEF Start
<1>10. ASSUME NEW s \in Sides, Commit(s) PROVE ExchangeInv'
  <2>1. CASE UNCHANGED <<sockets, doubled>> BY <1>10, <2>1, CommitOne
  <2>2. CASE ~Connectable /\ Fail(s) /\ doubled' = (doubled \/ Unacked(s))
    <3>1. UNCHANGED inbox BY <1>10, <2>2 DEF Commit
    <3>2. ~doubled /\ ~Unacked(s) BY <2>2
    <3> QED BY <1>10, <2>2, <3>1, <3>2, DropOne
  <2> QED BY <1>10, <2>1, <2>2 DEF Commit
<1>11. ASSUME NEW s \in Sides, Deliver(s) PROVE ExchangeInv' BY <1>11, DeliverOne
<1>12. ASSUME NEW s \in Sides, Ack(s) PROVE ExchangeInv'
  <2>1. ~doubled /\ UNCHANGED <<doubled, offered, awaiting, misfit, posting, chain>>
    BY <1>12 DEF Ack
  <2>2. \A t \in Sides : IsLast(t) BY <2>1 DEF HandshakeInv, ExchangeInv
  <2>3. \A t \in Sides : Single(inbox'[t], seen'[t], offered') /\ (InTable(t)' => InTable(t))
    BY <1>12, <2>1, AcknowledgeOne DEF Ack
  <2>4. \A t \in Sides : IsLast(t)' /\ (InPost(t)' => InPost(t)) /\ (InChain(t)' => InChain(t))
    BY <2>1, <2>2, <2>3 DEF IsLast, InPost, InChain
  <2> QED BY <2>1, <2>3, <2>4, FewerIsFine
<1>13. ASSUME NEW s \in Sides, SocketFails(s) PROVE ExchangeInv'
  <2>1. /\ ~doubled /\ ~Unacked(s) /\ Fail(s)
        /\ UNCHANGED <<offered, awaiting, misfit, posting, inbox, chain>>
    BY <1>13 DEF SocketFails
  <2>2. ShapeInv /\ \A t \in Sides : IsLast(t) BY <2>1 DEF HandshakeInv, ExchangeInv
  <2>3. \A t \in Sides : Single(inbox'[t], seen'[t], offered) /\ (InTable(t)' => InTable(t))
    BY <2>1, <2>2, FailOne DEF IsLast
  <2>4. \A t \in Sides : IsLast(t)' /\ (InPost(t)' => InPost(t)) /\ (InChain(t)' => InChain(t))
    BY <2>1, <2>2, <2>3 DEF IsLast, InPost, InChain
  <2> QED BY <2>1, <2>3, <2>4, FewerIsFine
<1>14. ASSUME NEW s \in Sides, Reopen(s) PROVE ExchangeInv'
  <2>1. doubled' = (doubled \/ (s = "creator" /\ awaiting /\ UnderWay)) BY <1>14 DEF Reopen
  <2>2. ~doubled BY <2>1
  <2>3. doubled' = doubled BY <2>1, <2>2 DEF HandshakeInv
  <2>4. UNCHANGED <<offered, awaiting, misfit, inbox, seen, chain>> BY <1>14 DEF Reopen
  <2>5. CASE s = "creator" /\ awaiting
    <3>1. ~UnderWay BY <2>1, <2>5
    <3>2. posting' = [posting EXCEPT !["creator"] = Append(@, Msg("offer", offered'))]
      BY <1>14, <2>4, <2>5 DEF Reopen
    <3>3. offered' \in 0..MaxOffers BY <2>4 DEF HandshakeInv, ShapeInv, SignalTypeOK
    <3>4. \A t \in Sides : InChain(t)' => InChain(t) BY <2>4 DEF InChain
    <3>5. awaiting' BY <2>4, <2>5
    <3> QED BY <2>2, <2>4, <3>1, <3>2, <3>3, <3>4, <3>5, SoleOffer
  <2>6. CASE ~(s = "creator" /\ awaiting)
    <3>1. UNCHANGED posting BY <1>14, <2>6 DEF Reopen
    <3> QED BY <2>3, <2>4, <3>1, SameIsFine
  <2> QED BY <2>5, <2>6
<1>15. ASSUME NEW s \in Sides, RecoveryFails(s) PROVE ExchangeInv'
  BY <1>15, StopOne DEF RecoveryFails
<1>16. ASSUME NEW s \in Sides, End(s) PROVE ExchangeInv'
  BY <1>16, StopOne DEF End
<1> QED BY <1>1, <1>2, <1>3, <1>4, <1>5, <1>6, <1>7, <1>8, <1>9, <1>10, <1>11, <1>12, <1>13,
        <1>14, <1>15, <1>16 DEF SignalNext

\* Every step keeps the two marks Boolean.
LEMMA MarksStep ==
    ASSUME HandshakeInv, SignalNext PROVE doubled' \in BOOLEAN /\ misfit' \in BOOLEAN
<1> USE DEF history, HandshakeInv
<1>1. ASSUME NEW P, doubled' = (doubled \/ P) PROVE doubled' \in BOOLEAN BY <1>1, Zenon
<1>2. ASSUME NEW n, Offer(n) PROVE doubled' \in BOOLEAN BY <1>1, <1>2 DEF Offer
<1>3. misfit' \in BOOLEAN
  <2>1. CASE HandleAnswer
    <3>1. misfit' = (misfit \/ ~awaiting \/ Head(chain["creator"]).of # offered)
      BY <2>1 DEF HandleAnswer
    <3> QED BY <3>1, Zenon
  <2>2. CASE ~HandleAnswer
    <3>1. UNCHANGED misfit
      BY <2>2 DEF SignalNext, Pulse, HandleReady, HandleOffer, Connect, Disconnect, Finish,
        Purge, Start, Commit, Deliver, Ack, SocketFails, Reopen, RecoveryFails, End
    <3> QED BY <3>1
  <2> QED BY <2>1, <2>2
<1>4. doubled' \in BOOLEAN
  <2>1. CASE HandleReady BY <1>2, <2>1 DEF HandleReady
  <2>2. CASE Disconnect BY <1>2, <2>2 DEF Disconnect
  <2>3. ASSUME NEW s \in Sides, Reopen(s) \/ SocketFails(s) \/ Commit(s)
        PROVE  doubled' \in BOOLEAN
    BY <1>1, <2>3 DEF Reopen, SocketFails, Commit
  <2>4. CASE ~HandleReady /\ ~Disconnect /\ ~\E s \in Sides : Reopen(s) \/ SocketFails(s) \/ Commit(s)
    <3>1. UNCHANGED doubled
      BY <2>4 DEF SignalNext, Pulse, HandleOffer, HandleAnswer, Connect, Finish, Purge,
        Start, Deliver, Ack, RecoveryFails, End
    <3> QED BY <3>1
  <2> QED BY <2>1, <2>2, <2>3, <2>4
<1> QED BY <1>3, <1>4

\* The invariant holds at the start, and every step keeps it.
LEMMA HandshakeStart == SignalInit => HandshakeInv
<1> SUFFICES ASSUME SignalInit PROVE HandshakeInv
  OBVIOUS
<1>1. <<>> \in Seq(Signal) /\ Len(<<>>) = 0 OBVIOUS
<1>2. SignalTypeOK
  <2>1. 0 \in 0..MaxOffers BY SignalingAssumption
  <2>2. /\ posting \in [Sides -> Seq(Signal)] /\ chain \in [Sides -> Seq(Signal)]
        /\ inbox \in [Sides -> Seq(Signal)] /\ seen \in [Sides -> Nat]
        /\ \A s \in Sides : inbox[s] = <<>> /\ seen[s] = 0
    BY <1>1 DEF SignalInit
  <2>3. \A s \in Sides : seen[s] <= Len(inbox[s]) BY <1>1, <2>2
  <2> QED BY <2>1, <2>2, <2>3 DEF SignalInit, SignalTypeOK
<1>3. PurgeIsRight BY DEF SignalInit, PurgeIsRight, PurgedStaysEmpty
<1>4. \A s \in Sides : ~InPost(s) /\ ~InTable(s) /\ ~InChain(s)
  BY EmptyOne DEF SignalInit, InPost, InTable, InChain
<1>5. \A s \in Sides : IsLast(s) BY EmptyOne DEF SignalInit, IsLast
<1> QED BY <1>2, <1>3, <1>4, <1>5
        DEF SignalInit, HandshakeInv, ShapeInv, ExchangeInv, OneAtOnce, OnlyAwaited

\* Every step of the handshake keeps the invariant.
LEMMA HandshakeStep == HandshakeInv /\ [SignalNext]_signalVars => HandshakeInv'
<1> SUFFICES ASSUME HandshakeInv, [SignalNext]_signalVars PROVE HandshakeInv'
  OBVIOUS
<1>1. CASE SignalNext
  <2>1. ShapeInv' BY <1>1, TableShape, ManagerShape DEF HandshakeInv, SignalNext
  <2>2. doubled' \/ ExchangeInv' BY <1>1, ExchangeStep
  <2> QED BY <1>1, <2>1, <2>2, MarksStep DEF HandshakeInv, ExchangeInv
<1>2. CASE UNCHANGED signalVars
  <2>1. ShapeInv'
    BY <1>2 DEF signalVars, peers, sockets, server, history, HandshakeInv, ShapeInv,
        SignalTypeOK, PurgeIsRight, PurgedStaysEmpty
  <2>2. UNCHANGED <<offered, awaiting, misfit, posting, inbox, seen, chain, doubled>>
    BY <1>2 DEF signalVars, peers, sockets, server, history
  <2> QED BY <2>1, <2>2, SameIsFine DEF HandshakeInv
<1> QED BY <1>1, <1>2

\* However ready, offers, answers, acknowledgements and purges interleave and sockets
\* fail, for any number of offers and any batch: an answer that finds the creator not
\* waiting for it, or for another offer, needs two copies of a description under way at
\* once - repeating an offer that was lost, or replacing a socket that had delivered no
\* description, is not enough (webrtc.ts handleSignal); and once signals.purge is
\* through, no signal is left behind or added.
THEOREM SignalsSafe == SignalSpec => []SignalsAreSound
<1>1. HandshakeInv => SignalsAreSound
  BY DEF HandshakeInv, ShapeInv, PurgeIsRight, ExchangeInv, SignalsAreSound, AnswersFit
<1> QED BY <1>1, HandshakeStart, HandshakeStep, PTL DEF SignalSpec
=============================================================================
