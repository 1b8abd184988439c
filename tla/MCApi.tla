------------------------------- MODULE MCApi -------------------------------
(* The Go API.  Its parts share nothing they change, so a behaviour follows one *)
(* of them: the scene, and the others stay as they are.                         *)
EXTENDS ApiCalls, ApiRedis, TLC

CONSTANTS v1, v2, p1, k1, k2, creator, viewer, w1, w2

VARIABLE scene

TwoViewers == {v1, v2}
OnePayment == {p1}
PaidBy == [p \in OnePayment |-> v1]
TwoTabs == {k1, k2}
BothRoles == {creator, viewer}
ViewerTabs == [k \in TwoTabs |-> viewer]
TwoWorkers == {w1, w2}

vars == <<scene, callsVars, presenceVars, indexVars>>

MCInit ==
    /\ scene \in {"calls", "presence", "index"}
    /\ CallsInit /\ PresenceInit /\ IndexInit

MCNext ==
    /\ UNCHANGED scene
    /\ \/ scene = "calls" /\ CallsNext /\ UNCHANGED <<presenceVars, indexVars>>
       \/ scene = "presence" /\ PresenceNext /\ UNCHANGED <<callsVars, indexVars>>
       \/ scene = "index" /\ IndexNext /\ UNCHANGED <<callsVars, presenceVars>>

\* Time passes, the sweep runs every second, and a handler does not stop between two
\* statements without dying; nothing makes a socket beat or close.
Present == scene = "presence"
PresenceFairness ==
    /\ WF_presenceVars(Present /\ Tick)
    /\ WF_presenceVars(Present /\ List)
    /\ WF_presenceVars(Present /\ ExpireDisconnected)
    /\ \A r \in Roles : WF_presenceVars(Present /\ (RecordGone(r) \/ RecordGoneFails(r)))
    /\ \A k \in Sockets :
        /\ WF_presenceVars(Present /\ Reap(k))
        /\ WF_presenceVars(Present /\ (Admit(k) \/ AdmitFails(k)))
        /\ WF_presenceVars(Present /\ RecordLast(k))

MCSpec == /\ MCInit /\ [][MCNext]_vars
          /\ CallsFairness /\ PresenceFairness /\ IndexFairness

\* What a handler left undone is done later: Stripe's events settle a pending call, the
\* sweep fails an abandoned one, and the outbox lists who waits.
ApiCatchesUp ==
    /\ ApiPendingSettles
    /\ AbandonedCallFails
    /\ FirstJoinIsListed
============================================================================
