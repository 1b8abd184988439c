------------------------------ MODULE MCClient ------------------------------
(* What pages and the Convex backend keep up together: the presence and the  *)
(* handshake of a call, a creator's followers and the channel's audience.    *)
(* They share nothing they change, so a behaviour follows one of them: the   *)
(* scene, and the others stay as they are.                                   *)
EXTENDS CallPresence, Signaling, Followers, Audience, TLC

CONSTANTS u1, u2

VARIABLE scene

TwoUsers == {u1, u2}
\* u1 follows somebody else already.
OtherFollows == [u \in TwoUsers |-> IF u = u1 THEN 1 ELSE 0]

clientVars == <<scene, vars, signalVars, followerVars, audienceVars>>

MCInit ==
    /\ scene \in {"presence", "handshake", "followers", "audience"}
    /\ Init /\ SignalInit /\ FollowersInit /\ AudienceInit

MCNext ==
    /\ UNCHANGED scene
    /\ \/ scene = "presence" /\ Next /\ UNCHANGED <<signalVars, followerVars, audienceVars>>
       \/ scene = "handshake" /\ SignalNext /\ UNCHANGED <<vars, followerVars, audienceVars>>
       \/ scene = "followers" /\ FollowersNext /\ UNCHANGED <<vars, signalVars, audienceVars>>
       \/ scene = "audience" /\ AudienceNext /\ UNCHANGED <<vars, signalVars, followerVars>>

\* As Fairness and AudienceFairness, for two modules whose clocks run from the start.
PresenceFairness == WF_vars(scene = "presence" /\ OwnStep)
VisitFairness == WF_audienceVars(scene = "audience" /\ AudienceStep)

MCSpec == /\ MCInit /\ [][MCNext]_clientVars
          /\ PresenceFairness /\ SignalFairness /\ FollowersFairness /\ VisitFairness

\* What is over goes: the events of old shows, and the visits and the number of an
\* audience that has left.
OldDataGoes == OldEventsGo /\ AudienceSettles
=============================================================================
