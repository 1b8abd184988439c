---------------------------- MODULE CallPresence ----------------------------
(***************************************************************************)
(* Presence and timers of one open call: presence.ts, with the parts of    *)
(* lib/calls.applyTransition and calls.expire that decide when a call ends *)
(* by itself.                                                              *)
(*                                                                         *)
(* Each participant's page sends heartbeats.  A heartbeat schedules a      *)
(* check for PRESENCE_TTL_MS later, and a participant found silent is      *)
(* marked disconnected, which schedules a second check for                 *)
(* DISCONNECT_GRACE_MS later that fails the call.  No check is ever        *)
(* cancelled: a stale one recognises itself by the time it carries.  The   *)
(* scheduler runs a check at its time or later, never earlier, and in any  *)
(* order among those that are due.                                         *)
(*                                                                         *)
(* Time is counted in ticks.  The payment, the queue entry and the show of *)
(* the call are in Hotline.                                                *)
(***************************************************************************)
EXTENDS Integers

CONSTANTS
    Heartbeat,   \* HEARTBEAT_MS of the call page
    TTL,         \* PRESENCE_TTL_MS
    Grace,       \* DISCONNECT_GRACE_MS
    Duration,    \* calls.callDurationSeconds
    Horizon,     \* bound: nobody acts at this time or later, only timers do
    None         \* an absent column

Roles == {"creator", "viewer"}

ASSUME TimeAssumption == /\ Heartbeat \in Nat /\ TTL \in Nat
                         /\ Grace \in Nat /\ Duration \in Nat
                         /\ Heartbeat < Grace /\ 0 < TTL
ASSUME HorizonAssumption == Horizon \in Nat
ASSUME NoneAssumption == None \notin Nat \cup Roles

VARIABLES
    now,             \* Date.now()
    status,          \* calls.status, from CREATED on
    expiresAt,       \* calls.expiresAt, set with startedAt
    lastSeen,        \* callPresence.lastSeenAt per role (None: no row)
    disconnectedAt,  \* callPresence.disconnectedAt per role
    seenChecks,      \* scheduled presence.checkSeen runs
    graceChecks,     \* scheduled presence.checkGrace runs
    expireCheck,     \* a calls.expire run is scheduled
    steady,          \* participants with a page that misses no heartbeat
    missing          \* history: the role whose absence failed the call

presenceVars == <<lastSeen, disconnectedAt>>
callVars == <<status, expiresAt, expireCheck>>
checkVars == <<seenChecks, graceChecks>>
vars == <<now, callVars, presenceVars, checkVars, steady, missing>>

ConnectableStatuses == {"CREATED", "CONNECTING", "LIVE"}
Open == status \in ConnectableStatuses

CanTransition(from, to) ==
    \/ from = "CREATED"    /\ to \in {"CONNECTING", "ENDED", "FAILED"}
    \/ from = "CONNECTING" /\ to \in {"LIVE", "ENDED", "FAILED"}
    \/ from = "LIVE"       /\ to \in {"ENDED", "FAILED"}

SeenCheck  == [role : Roles, seenAt : Nat]
GraceCheck == [role : Roles, disconnectedAt : Nat]

Init ==
    /\ now = 0
    /\ status = "CREATED"
    /\ expiresAt = None
    /\ lastSeen = [r \in Roles |-> None]
    /\ disconnectedAt = [r \in Roles |-> None]
    /\ seenChecks = {}
    /\ graceChecks = {}
    /\ expireCheck = FALSE
    /\ steady = Roles
    /\ missing = None

-----------------------------------------------------------------------------
(* presence.ts.                                                            *)

\* Fault: a participant who comes back stays marked as disconnected.
StaysDisconnected(r) == disconnectedAt
\* A heartbeat takes back a disconnection.
Reconnected(r) == [disconnectedAt EXCEPT ![r] = None]

\* heartbeat: refused once the call is over.
HeartbeatFrom(r) ==
    /\ now < Horizon
    /\ Open
    /\ lastSeen' = [lastSeen EXCEPT ![r] = now]
    /\ disconnectedAt' = Reconnected(r)
    /\ seenChecks' = seenChecks \cup {[role |-> r, seenAt |-> now]}
    /\ UNCHANGED <<now, callVars, graceChecks, steady, missing>>

\* Fault: the participant is marked, but nothing is scheduled to act on it.
NoGraceCheck(r) == graceChecks
GraceScheduled(r) == graceChecks \cup {[role |-> r, disconnectedAt |-> now]}

MarkDisconnected(r) ==
    /\ disconnectedAt' = [disconnectedAt EXCEPT ![r] = now]
    /\ graceChecks' = GraceScheduled(r)

\* leave: sent by a page that closes, so that the grace starts at once.  Another
\* page of the same participant may still be there.
Leave(r) ==
    /\ now < Horizon
    /\ Open
    /\ lastSeen[r] # None /\ disconnectedAt[r] = None
    /\ MarkDisconnected(r)
    /\ UNCHANGED <<now, callVars, lastSeen, seenChecks, steady, missing>>

\* A newer heartbeat, or a finished call, which deletes presence, wins.
StillSilent(k) == /\ lastSeen[k.role] = k.seenAt
                  /\ disconnectedAt[k.role] = None

CheckSeen(k) ==
    /\ k.seenAt + TTL <= now
    /\ seenChecks' = seenChecks \ {k}
    /\ \/ StillSilent(k) /\ MarkDisconnected(k.role)
       \/ ~StillSilent(k) /\ UNCHANGED <<disconnectedAt, graceChecks>>
    /\ UNCHANGED <<now, callVars, lastSeen, steady, missing>>

\* lib/calls.applyTransition: going LIVE schedules the end of the call, and a
\* finished call loses its presence rows.
ApplyTransition(target) ==
    LET starts == target = "LIVE"
        finished == target \in {"ENDED", "FAILED"}
    IN /\ CanTransition(status, target)
       /\ status' = target
       /\ expiresAt' = IF starts THEN now + Duration ELSE expiresAt
       /\ lastSeen' = [r \in Roles |-> IF finished THEN None ELSE lastSeen[r]]
       /\ disconnectedAt' =
            [r \in Roles |-> IF finished THEN None ELSE disconnectedAt[r]]

\* Fault: any disconnection will do, also one that began after this check's.
AnyDisconnection(k) == disconnectedAt[k.role] # None
\* The disconnection this check was scheduled for still lasts.
StillGone(k) == disconnectedAt[k.role] = k.disconnectedAt

CheckGrace(k) ==
    /\ k.disconnectedAt + Grace <= now
    /\ graceChecks' = graceChecks \ {k}
    /\ \/ /\ StillGone(k) /\ Open
          /\ ApplyTransition("FAILED")
          /\ missing' = k.role
       \/ /\ ~(StillGone(k) /\ Open)
          /\ UNCHANGED <<status, expiresAt, presenceVars, missing>>
    /\ UNCHANGED <<now, expireCheck, seenChecks, steady>>

-----------------------------------------------------------------------------
(* calls.ts.                                                               *)

\* Fault: the call goes LIVE without a timer to end it.
NeverExpires(target) == FALSE
Expires(target) == target = "LIVE"

\* calls.transition by a participant, or the end of the show.
Transition(target) ==
    /\ now < Horizon
    /\ ApplyTransition(target)
    /\ expireCheck' = (expireCheck \/ Expires(target))
    /\ UNCHANGED <<now, checkVars, steady, missing>>

Expire ==
    /\ expireCheck
    /\ expiresAt <= now
    /\ expireCheck' = FALSE
    /\ \/ status = "LIVE" /\ ApplyTransition("ENDED")
       \/ status # "LIVE" /\ UNCHANGED <<status, expiresAt, presenceVars>>
    /\ UNCHANGED <<now, checkVars, steady, missing>>

\* A page stops sending heartbeats without a word: it crashes or loses the network.
GoSilent(r) ==
    /\ r \in steady
    /\ steady' = steady \ {r}
    /\ UNCHANGED <<now, callVars, presenceVars, checkVars, missing>>

\* A page that misses no heartbeat sends the next one in time.
HeartbeatDue(r) == Open /\ lastSeen[r] # None /\ now - lastSeen[r] >= Heartbeat

\* Time passes, beyond the horizon only for timers still to come.
TimersAhead == \/ \E k \in seenChecks : k.seenAt + TTL > now
               \/ \E k \in graceChecks : k.disconnectedAt + Grace > now
               \/ expireCheck /\ expiresAt > now
Tick ==
    /\ \A r \in steady : ~HeartbeatDue(r)
    /\ now < Horizon \/ TimersAhead
    /\ now' = now + 1
    /\ UNCHANGED <<callVars, presenceVars, checkVars, steady, missing>>

Next ==
    \/ \E r \in Roles : HeartbeatFrom(r) \/ Leave(r) \/ GoSilent(r)
    \/ \E k \in seenChecks : CheckSeen(k)
    \/ \E k \in graceChecks : CheckGrace(k)
    \/ \E target \in {"CONNECTING", "LIVE", "ENDED", "FAILED"} : Transition(target)
    \/ Expire
    \/ Tick

Spec == Init /\ [][Next]_vars

\* What happens without anybody's doing: time passes, the scheduler runs what is
\* due, and a steady page sends its heartbeat when it is due or falls silent, which
\* at the horizon is all that is left to it.
OwnStep ==
    \/ Tick \/ Expire
    \/ \E k \in seenChecks : CheckSeen(k)
    \/ \E k \in graceChecks : CheckGrace(k)
    \/ \E r \in steady : HeartbeatDue(r) /\ (HeartbeatFrom(r) \/ GoSilent(r))

\* Such steps go on while there are any; which comes first is not assumed.
\* Participants promise nothing.
Fairness == WF_vars(OwnStep)

FairSpec == Spec /\ Fairness

-----------------------------------------------------------------------------
(* Properties.                                                             *)

\* Every column holds a time or a status, every scheduled check its arguments.
TypeOK ==
    /\ now \in Nat
    /\ status \in {"CREATED", "CONNECTING", "LIVE", "ENDED", "FAILED"}
    /\ expiresAt \in Nat \cup {None}
    /\ lastSeen \in [Roles -> Nat \cup {None}]
    /\ disconnectedAt \in [Roles -> Nat \cup {None}]
    /\ seenChecks \subseteq SeenCheck
    /\ graceChecks \subseteq GraceCheck
    /\ expireCheck \in BOOLEAN
    /\ steady \subseteq Roles
    /\ missing \in Roles \cup {None}

\* Nobody who is gone goes unnoticed: while the call is open, a connected
\* participant has the check of their last heartbeat pending, a disconnected one
\* the check that will fail the call, and a LIVE call its end.  Checks are never
\* cancelled and heartbeats reset rows, so this is where one could be lost.
AbsenceIsWatched ==
    Open =>
        /\ \A r \in Roles : lastSeen[r] # None =>
             IF disconnectedAt[r] = None
             THEN [role |-> r, seenAt |-> lastSeen[r]] \in seenChecks
             ELSE [role |-> r, disconnectedAt |-> disconnectedAt[r]] \in graceChecks
        /\ status = "LIVE" => expireCheck

\* presence.checkGrace fails a call only for a participant who has sent no
\* heartbeat for at least the grace period, however old the checks still pending
\* and however late the scheduler runs them.
FailsOnlyAfterGrace ==
    [][\A r \in Roles : missing' = r /\ missing # r =>
          lastSeen[r] # None /\ lastSeen[r] + Grace <= now]_vars

\* Because HEARTBEAT_MS is shorter than DISCONNECT_GRACE_MS, a participant whose
\* page keeps sending heartbeats never loses the call to presence, even when
\* another of their pages closes and says they left.
SteadyIsKept == missing \notin steady

\* A call that goes LIVE ends on time without any polling worker (applyTransition).
LiveCallEnds == status = "LIVE" ~> status \in {"ENDED", "FAILED"}

\* Once somebody has connected, a call whose participants fall silent (here, at
\* the horizon) does not stay open.
AbandonedCallEnds ==
    \A r \in Roles : lastSeen[r] # None ~> status \in {"ENDED", "FAILED"}

\* A call that was LIVE, or that a participant once joined, ends: its own timer and the
\* checks of presence see to it, as nothing polls.
CallEnds ==
    /\ LiveCallEnds
    /\ AbandonedCallEnds
=============================================================================
