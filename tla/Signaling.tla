------------------------------ MODULE Signaling ------------------------------
(***************************************************************************)
(* The WebRTC handshake of a call: the two WebRTCCallManagers              *)
(* (src/lib/webrtc.ts), their ConvexSignalSockets                          *)
(* (src/lib/convex/signalSocket.ts) and the signals' table                 *)
(* (convex/signals.ts).                                                    *)
(*                                                                         *)
(* A description is the number of its ICE credentials: an offer made after *)
(* restartIce has new ones, any other repeats the last, and an answer has  *)
(* those of the offer it answers.  A manager handles its signals one after *)
(* the other, which its promise chain sees to, so handling one is a step.  *)
(* Signals are delivered at least once: a socket that is replaced before   *)
(* it acknowledged leaves them to the next one.  ICE candidates are left   *)
(* out: they take the same path, and no property is about them.            *)
(***************************************************************************)
EXTENDS Integers, Sequences

CONSTANTS
    MaxTroubles,     \* bound: sockets that fail, repeats of ready, lost connections
    MaxOffers,       \* bound: ICE credentials used (1 + the recoveries)
    PurgeBatch       \* PURGE_BATCH

ASSUME SignalingAssumption ==
    MaxTroubles \in Nat /\ MaxOffers \in Nat \ {0} /\ PurgeBatch \in Nat \ {0}

VARIABLES
    manager,    \* WebRTCCallManager: phase (running: from waiting to live)
    offered,    \* creator: its last offer; 0 before the first
    awaiting,   \* creator: signalingState is have-local-offer
    applied,    \* creator: the offer whose answer is its remote description
    answered,   \* viewer: the offer that is its remote description
    sock,       \* readyState of each manager's socket
    seen,       \* the socket's seen and unacked: how many rows at the head of its inbox
                \* it has delivered and not acknowledged
    posting,    \* signals.send mutations of each side, in order
    inbox,      \* callSignals, by recipient, the oldest first
    chain,      \* signals delivered to a manager and not handled yet
    link,       \* the peers' connectionState: "new", "connected" or "failed"
    callDone,   \* the call is ENDED or FAILED
    purge,      \* the purge job: none, scheduled or done
    pulsed,     \* history: the caller said it is ready
    troubles,
    doubled,    \* history: two copies of a description were under way at once
    misfit,     \* history: an answer was applied that did not fit
    lost        \* history: an answer was dropped whose offer is acknowledged

peers    == <<offered, awaiting, applied, answered>>
sockets  == <<sock, seen>>
server   == <<inbox, callDone, purge>>
history  == <<pulsed, troubles, doubled, misfit, lost>>
signalVars == <<manager, peers, sockets, posting, server, chain, link, history>>

Sides == {"creator", "viewer"}
Other(s) == IF s = "creator" THEN "viewer" ELSE "creator"
Kinds == {"ready", "offer", "answer"}
Signal == [kind : Kinds, of : 0..MaxOffers]
Msg(kind, n) == [kind |-> kind, of |-> n]

SignalInit ==
    /\ manager = [s \in Sides |-> "idle"]
    /\ offered = 0 /\ awaiting = FALSE /\ applied = 0 /\ answered = 0
    /\ sock = [s \in Sides |-> "none"]
    /\ seen = [s \in Sides |-> 0]
    /\ posting = [s \in Sides |-> <<>>]
    /\ inbox = [s \in Sides |-> <<>>]
    /\ chain = [s \in Sides |-> <<>>]
    /\ link = "new"
    /\ callDone = FALSE /\ purge = "none"
    /\ pulsed = FALSE /\ troubles = 0 /\ doubled = FALSE
    /\ misfit = FALSE /\ lost = FALSE

Trouble == troubles < MaxTroubles /\ troubles' = troubles + 1

\* A description, offer or answer, that is not among the first n of a queue.
Busy(q, n) == \E i \in DOMAIN q : i > n /\ q[i].kind # "ready"

\* The three places where a description can be on its way.
InPost(s) == Busy(posting[s], 0)
InTable(s) == Busy(inbox[s], seen[s])
InChain(s) == Busy(chain[s], 0)
UnderWay == \E s \in Sides : InPost(s) \/ InTable(s) \/ InChain(s)

\* A description was delivered to this socket, and the table still has it.
Unacked(s) == \E i \in DOMAIN inbox[s] : i <= seen[s] /\ inbox[s][i].kind # "ready"

------------------------------------------------------------------------------
(* ConvexSignalSocket.send *)

\* The mutations go out in order; a socket that is not open drops the signal.
Sends(s, m) ==
    posting' = IF sock[s] = "open" THEN [posting EXCEPT ![s] = Append(@, m)] ELSE posting

------------------------------------------------------------------------------
(* signals.send, inbox, ack and purge *)

\* CONNECTABLE_STATUSES
Connectable == ~callDone

\* One unhandled ready is enough.
Kept(s, m) == m.kind # "ready" \/ \A i \in DOMAIN inbox[Other(s)] :
                                      inbox[Other(s)][i].kind # "ready"

\* Fault: what a socket has seen is remembered by the next one.
FailRemembers(s) ==
    /\ sock' = [sock EXCEPT ![s] = "closed"]
    /\ UNCHANGED seen
\* A socket that fails forgets what it has seen and what it should acknowledge.
Fail(s) ==
    /\ sock' = [sock EXCEPT ![s] = "closed"]
    /\ seen' = [seen EXCEPT ![s] = 0]

\* The mutation at the head of the chain of sends.
Commit(s) ==
    /\ posting[s] # <<>>
    /\ posting' = [posting EXCEPT ![s] = Tail(@)]
    /\ LET m == Head(posting[s])
       IN inbox' = IF Connectable /\ Kept(s, m)
                   THEN [inbox EXCEPT ![Other(s)] = Append(@, m)] ELSE inbox
    /\ IF Connectable \/ sock[s] # "open" THEN UNCHANGED <<sockets, doubled>>
       ELSE Fail(s) /\ doubled' = (doubled \/ Unacked(s))
    /\ UNCHANGED <<manager, peers, callDone, purge, chain, link, pulsed, troubles, misfit, lost>>

\* What the table holds for a socket behind the first n rows.
After(s, n) == SubSeq(inbox[s], n + 1, Len(inbox[s]))

\* The live inbox query: what this socket has not seen goes to the manager, in order.
Deliver(s) ==
    /\ sock[s] = "open"
    /\ seen[s] < Len(inbox[s])
    /\ chain' = [chain EXCEPT ![s] = @ \o After(s, seen[s])]
    /\ seen' = [seen EXCEPT ![s] = Len(inbox[s])]
    /\ UNCHANGED <<manager, peers, sock, posting, server, link, history>>

\* Fault: the last of the delivered rows is not deleted.
AcknowledgeLess(s) ==
    /\ inbox' = [inbox EXCEPT ![s] = After(s, IF seen[s] = 0 THEN 0 ELSE seen[s] - 1)]
    /\ seen' = [seen EXCEPT ![s] = 0]
\* What was delivered is deleted, handled or not.
Acknowledge(s) ==
    /\ inbox' = [inbox EXCEPT ![s] = After(s, seen[s])]
    /\ seen' = [seen EXCEPT ![s] = 0]

\* flushAcks, after ACK_DELAY_MS of quiet.
Ack(s) ==
    /\ seen[s] > 0
    /\ Acknowledge(s)
    /\ UNCHANGED <<manager, peers, sock, posting, callDone, purge, chain, link,
                   history>>

\* The call finishes; finishCall schedules the purge.
Finish ==
    /\ ~callDone
    /\ \A s \in Sides : manager[s] # "idle"
    /\ callDone' = TRUE
    /\ purge' = "scheduled"
    /\ UNCHANGED <<manager, peers, sockets, posting, inbox, chain, link, history>>

\* What is left of n when k are gone.
Less(n, k) == IF n > k THEN n - k ELSE 0

\* PURGE_BATCH rows at a time, the creator's first; a full batch schedules the next.
Purge ==
    LET own == Len(inbox["creator"])
        taken == [s \in Sides |-> IF s = "creator" THEN PurgeBatch ELSE Less(PurgeBatch, own)]
    IN /\ purge = "scheduled"
       /\ inbox' = [s \in Sides |-> After(s, taken[s])]
       /\ seen' = [s \in Sides |-> Less(seen[s], taken[s])]
       /\ purge' = IF own + Len(inbox["viewer"]) >= PurgeBatch THEN "scheduled" ELSE "done"
       /\ UNCHANGED <<manager, peers, sock, posting, callDone, chain, link, history>>

------------------------------------------------------------------------------
(* WebRTCCallManager *)

\* start: the microphone is granted and the socket opens, or start is tried again.
Start(s) ==
    /\ manager[s] = "idle"
    /\ ~callDone
    /\ manager' = [manager EXCEPT ![s] = "running"]
    /\ sock' = [sock EXCEPT ![s] = "open"]
    /\ UNCHANGED <<peers, seen, posting, server, chain, link, history>>

\* startReadyPulse: every two seconds until there is an offer.
Pulse ==
    /\ manager["viewer"] = "running"
    /\ sock["viewer"] = "open"
    /\ answered = 0
    /\ IF pulsed THEN Trouble ELSE UNCHANGED troubles
    /\ pulsed' = TRUE
    /\ Sends("viewer", Msg("ready", 0))
    /\ UNCHANGED <<manager, peers, sockets, server, chain, link, doubled, misfit, lost>>

\* offer: one that waits for its answer is repeated, another is made in the stable
\* state.
Offer(n) ==
    /\ offered' = IF awaiting THEN offered ELSE n
    /\ awaiting' = TRUE
    /\ Sends("creator", Msg("offer", offered'))
    /\ doubled' = (doubled \/ (sock["creator"] = "open" /\ UnderWay))

\* cleanup: the peer is gone, and the socket acknowledges what it delivered and is
\* closed.
Stop(s, phase) ==
    /\ manager' = [manager EXCEPT ![s] = phase]
    /\ sock' = [sock EXCEPT ![s] = "closed"]
    /\ chain' = [chain EXCEPT ![s] = <<>>]
    /\ Acknowledge(s)

Has(s, kind) ==
    /\ manager[s] = "running"
    /\ chain[s] # <<>>
    /\ Head(chain[s]).kind = kind
Takes(s, kind) == Has(s, kind) /\ chain' = [chain EXCEPT ![s] = Tail(@)]

HandleReady ==
    /\ Takes("creator", "ready")
    /\ Offer(IF offered = 0 THEN 1 ELSE offered)
    /\ UNCHANGED <<manager, applied, answered, sockets, server, link, pulsed, troubles, misfit, lost>>

\* The next socket will deliver the signal again.
Redelivers(s, m) == \E i \in DOMAIN inbox[s] : inbox[s][i] = m

\* An offer in the stable state, which every offer finds the caller in.
HandleOffer ==
    LET m == Head(chain["viewer"])
    IN /\ Takes("viewer", "offer")
       /\ answered' = m.of
       /\ Sends("viewer", Msg("answer", m.of))
       /\ lost' = (lost \/ (sock["viewer"] # "open" /\ ~Redelivers("viewer", m)))
       /\ UNCHANGED <<manager, offered, awaiting, applied, sockets, server, link,
                      pulsed, troubles, doubled, misfit>>

\* setRemoteDescription takes an answer only for a local offer; otherwise the
\* manager fails and onFailure fails the call.
HandleAnswer ==
    LET m == Head(chain["creator"])
    IN /\ Has("creator", "answer")
       /\ misfit' = (misfit \/ ~awaiting \/ m.of # offered)
       /\ IF awaiting
          THEN /\ applied' = m.of
               /\ awaiting' = FALSE
               /\ chain' = [chain EXCEPT !["creator"] = Tail(@)]
               /\ UNCHANGED <<manager, sockets, server>>
          ELSE /\ Stop("creator", "failed")
               /\ callDone' = TRUE
               /\ purge' = IF callDone THEN purge ELSE "scheduled"
               /\ UNCHANGED <<applied, awaiting>>
       /\ UNCHANGED <<offered, answered, posting, link, pulsed, troubles, doubled, lost>>

\* The socket fails, by the inbox query or a mutation.
SocketFails(s) ==
    /\ sock[s] = "open"
    /\ Trouble
    /\ doubled' = (doubled \/ Unacked(s))
    /\ Fail(s)
    /\ UNCHANGED <<manager, peers, posting, server, chain, link, pulsed, misfit, lost>>

\* scheduleReconnect and openSocket: the creator repeats an offer that waits.  The
\* delay is long enough for the end of the call to be seen first.
Reopen(s) ==
    /\ manager[s] = "running"
    /\ ~callDone
    /\ sock[s] = "closed"
    /\ sock' = [sock EXCEPT ![s] = "open"]
    /\ posting' = IF s = "creator" /\ awaiting
                  THEN [posting EXCEPT ![s] = Append(@, Msg("offer", offered))] ELSE posting
    /\ doubled' = (doubled \/ (s = "creator" /\ awaiting /\ UnderWay))
    /\ UNCHANGED <<manager, peers, seen, server, chain, link, pulsed, troubles, misfit, lost>>

------------------------------------------------------------------------------
(* The connection: connectionChanged and beginRecovery *)

\* Both descriptions are of the same negotiation.
Negotiated == ~awaiting /\ applied = offered /\ answered = offered /\ offered > 0

Connect ==
    /\ \A s \in Sides : manager[s] = "running"
    /\ link # "connected"
    /\ Negotiated
    /\ link' = "connected"
    /\ UNCHANGED <<manager, peers, sockets, posting, server, chain, history>>

\* The connection is lost; the creator restarts ICE with a new offer.
Disconnect ==
    /\ link = "connected"
    /\ offered < MaxOffers
    /\ Trouble
    /\ chain["creator"] = <<>>
    /\ link' = "failed"
    /\ IF manager["creator"] = "running" THEN Offer(offered + 1)
       ELSE UNCHANGED <<offered, awaiting, posting, doubled>>
    /\ UNCHANGED <<manager, applied, answered, sockets, server, chain, pulsed, misfit, lost>>

\* Twenty seconds later.
RecoveryFails(s) ==
    /\ link = "failed"
    /\ manager[s] = "running"
    /\ Stop(s, "failed")
    /\ callDone' = TRUE
    /\ purge' = IF callDone THEN purge ELSE "scheduled"
    /\ UNCHANGED <<peers, posting, link, history>>

\* useWebRTCCall: the participant ends the call, leaves the page, which may leave
\* the call open, or learns that it is over.
End(s) ==
    /\ manager[s] = "running"
    /\ Stop(s, "ended")
    /\ callDone' \in {callDone, TRUE}
    /\ purge' = IF callDone' /\ ~callDone THEN "scheduled" ELSE purge
    /\ UNCHANGED <<peers, posting, link, history>>

------------------------------------------------------------------------------
SignalNext ==
    \/ Pulse \/ HandleReady \/ HandleOffer \/ HandleAnswer
    \/ Connect \/ Disconnect \/ Finish \/ Purge
    \/ \E s \in Sides :
          \/ Start(s) \/ Commit(s) \/ Deliver(s) \/ Ack(s)
          \/ SocketFails(s) \/ Reopen(s) \/ RecoveryFails(s) \/ End(s)

SignalSpec == SignalInit /\ [][SignalNext]_signalVars

\* Timers fire, mutations commit and the inbox is live; whether a participant
\* starts or ends, and whether the connection holds, is not assumed.
SignalFairness ==
    WF_signalVars(\/ Pulse \/ HandleReady \/ HandleOffer \/ HandleAnswer \/ Connect
                  \/ \E s \in Sides : \/ Commit(s) \/ Deliver(s) \/ Ack(s) \/ Reopen(s)
                                      \/ callDone /\ End(s))

------------------------------------------------------------------------------
(* Properties. *)

\* Managers, sockets and signals have their shape.
SignalTypeOK ==
    /\ manager \in [Sides -> {"idle", "running", "failed", "ended"}]
    /\ offered \in 0..MaxOffers /\ awaiting \in BOOLEAN
    /\ applied \in 0..MaxOffers /\ answered \in 0..MaxOffers
    /\ sock \in [Sides -> {"none", "open", "closed"}]
    /\ posting \in [Sides -> Seq(Signal)] /\ chain \in [Sides -> Seq(Signal)]
    /\ inbox \in [Sides -> Seq(Signal)] /\ seen \in [Sides -> Nat]
    /\ \A s \in Sides : seen[s] <= Len(inbox[s])
    /\ link \in {"new", "connected", "failed"} /\ callDone \in BOOLEAN
    /\ purge \in {"none", "scheduled", "done"}

\* Every answer that reaches the creator comes while the offer it answers waits for it,
\* unless two copies of a description were really under way at once: an offer that was
\* repeated while it or its answer was not handled yet, or one that a socket had
\* delivered and not acknowledged when it failed.  Repeating an offer that was lost,
\* another ready after the answer, and a socket replaced at any other moment lead to no
\* misfit.  (The code does not tell a second copy from the first: it is answered again,
\* and the second answer finds the peer stable and fails the call, webrtc.ts 177.)
AnswersFit == misfit => doubled

\* A finished call leaves no signal behind: none arrives once the purge is through.
PurgedStaysEmpty == purge = "done" => \A s \in Sides : inbox[s] = <<>>

\* When both participants have started, the call connects or is over: no signal
\* that is dropped, repeated or lost with its socket leaves the two waiting for
\* each other.  (One does: an answer dropped because the socket failed between the
\* acknowledgement of the offer, ACK_DELAY_MS after it came, and its handling.)
HandshakeSettles ==
    (\A s \in Sides : manager[s] = "running")
        ~> link # "new" \/ lost \/ \E s \in Sides : manager[s] # "running"

\* Signals do what they were sent for: an answer never meets the wrong offer or none but
\* by a second copy under way, and no signal outlives its call (webrtc.ts,
\* signalSocket.ts, signals.ts).
SignalsAreSound ==
    /\ SignalTypeOK
    /\ AnswersFit
    /\ PurgedStaysEmpty
==============================================================================
