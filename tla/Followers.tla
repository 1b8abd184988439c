------------------------------ MODULE Followers ------------------------------
(***************************************************************************)
(* One creator's followers: follows.ts with its sharded follower count,    *)
(* and the notifications of notifications.ts with their retention.  The    *)
(* emails that going live sends are in LiveAlerts.                         *)
(***************************************************************************)
EXTENDS Sums

CONSTANTS
    Users,          \* signed-in users
    Others,         \* how many other creators each of them follows
    MaxFollows,     \* MAX_FOLLOWS
    Shards,         \* SHARDS
    PruneBatch,     \* PRUNE_BATCH
    PrunePage,      \* old events taken by one prune
    NumShows,       \* bound: shows of the creator
    MaxChanges      \* bound: follows, unfollows and unpublishings

ASSUME FollowersAssumption ==
    /\ MaxFollows \in Nat /\ Shards \in Nat \ {0}
    /\ PruneBatch \in Nat \ {0} /\ PrunePage \in Nat \ {0}
    /\ NumShows \in Nat /\ MaxChanges \in Nat
    /\ IsFiniteSet(Users) /\ Others \in [Users -> 0..MaxFollows]

Shows == 1..NumShows
ShardIds == 1..Shards

VARIABLES
    published,      \* profiles.published
    follows,        \* the creator's follows
    following,      \* followingCounts
    shards,         \* followerShards
    projecting,     \* followerProjections: a project run is scheduled
    followerCount,  \* profiles.followerCount
    showStatus,     \* shows.status
    events,         \* liveEvents
    old,            \* the events of more than 30 days ago
    since,          \* per user: the events that are younger than their follow
    reads,          \* notificationReads
    pruning,        \* a prune run is scheduled
    changes

countVars  == <<follows, following, shards, projecting, followerCount>>
noticeVars == <<events, old, since, reads, pruning>>
followerVars == <<published, countVars, showStatus, noticeVars, changes>>

Followed(u) == u \in follows
SumOf(f) == SumOver(f, DOMAIN f)

FollowersInit ==
    /\ published = FALSE
    /\ follows = {} /\ following = Others
    /\ shards = [i \in ShardIds |-> 0] /\ projecting = FALSE /\ followerCount = 0
    /\ showStatus = [s \in Shows |-> "NONE"]
    /\ events = {} /\ old = {} /\ since = [u \in Users |-> {}]
    /\ reads = {} /\ pruning = FALSE
    /\ changes = 0

Change == changes < MaxChanges /\ changes' = changes + 1

------------------------------------------------------------------------------
(* follows.ts *)

\* adjustShard: a new follow counts in any shard.
Raised(i) == [shards EXCEPT ![i] = @ + 1]
\* adjustShard: the first shard from i on, around the ring, that is not empty.
Lowered(i) ==
    LET ring == [k \in 0..(Shards - 1) |-> ((i - 1 + k) % Shards) + 1]
        full == {k \in DOMAIN ring : shards[ring[k]] > 0}
    IN IF full = {} THEN shards
       ELSE [shards EXCEPT ![ring[CHOOSE k \in full : \A j \in full : k <= j]] = @ - 1]

\* Fault: only the first follow of a window is projected, not an unfollow.
FollowsOnly(more) == projecting \/ more
\* The first change in a window schedules the projection.
Projection(more) == TRUE

Follow(u) ==
    /\ published /\ ~Followed(u)
    /\ following[u] < MaxFollows
    /\ Change
    /\ following' = [following EXCEPT ![u] = @ + 1]
    /\ follows' = follows \cup {u}
    /\ since' = [since EXCEPT ![u] = {}]
    /\ \E i \in ShardIds : shards' = Raised(i)
    /\ projecting' = Projection(TRUE)
    /\ UNCHANGED <<published, followerCount, showStatus, events, old, reads, pruning>>

Unfollow(u) ==
    /\ Followed(u)
    /\ Change
    /\ following' = [following EXCEPT ![u] = @ - 1]
    /\ follows' = follows \ {u}
    /\ since' = [since EXCEPT ![u] = {}]
    /\ \E i \in ShardIds : shards' = Lowered(i)
    /\ projecting' = Projection(FALSE)
    /\ UNCHANGED <<published, followerCount, showStatus, events, old, reads, pruning>>

\* project, PROJECTION_DELAY_MS later.
Project ==
    /\ projecting
    /\ followerCount' = SumOf(shards)
    /\ projecting' = FALSE
    /\ UNCHANGED <<published, follows, following, shards, showStatus, noticeVars, changes>>

------------------------------------------------------------------------------
(* Shows and the profile: lib/social.onShowCreated, onShowLive *)

CreateShow(s) ==
    /\ showStatus[s] = "NONE"
    /\ \A r \in Shows : r < s => showStatus[r] = "ENDED"
    /\ showStatus' = [showStatus EXCEPT ![s] = "DRAFT"]
    /\ published' = TRUE
    /\ UNCHANGED <<countVars, noticeVars, changes>>

\* profiles.update: a live profile stays published.
Unpublish ==
    /\ published
    /\ \A s \in Shows : showStatus[s] # "LIVE"
    /\ Change
    /\ published' = FALSE
    /\ UNCHANGED <<countVars, showStatus, noticeVars>>

\* shows.start: one live event for everybody who follows by then.
GoLive(s) ==
    /\ showStatus[s] = "DRAFT"
    /\ showStatus' = [showStatus EXCEPT ![s] = "LIVE"]
    /\ published' = TRUE
    /\ events' = events \cup {s}
    /\ since' = [u \in Users |-> IF Followed(u) THEN since[u] \cup {s} ELSE since[u]]
    /\ UNCHANGED <<countVars, old, reads, pruning, changes>>

EndShow(s) ==
    /\ showStatus[s] = "LIVE"
    /\ showStatus' = [showStatus EXCEPT ![s] = "ENDED"]
    /\ UNCHANGED <<published, countVars, noticeVars, changes>>

------------------------------------------------------------------------------
(* notifications.ts *)

\* visibleEvents: of a published creator, within the window and since the follow.
Visible(u, e) == Followed(u) /\ published /\ e \in since[u] /\ e \in events \ old

MarkRead(u, e) ==
    /\ Visible(u, e)
    /\ <<u, e>> \notin reads
    /\ reads' = reads \cup {<<u, e>>}
    /\ UNCHANGED <<published, countVars, showStatus, events, old, since, pruning, changes>>

\* Thirty days pass over an event.
GrowOld(e) ==
    /\ e \in events \ old
    /\ showStatus[e] = "ENDED"
    /\ \A f \in events \ old : e <= f
    /\ old' = old \cup {e}
    /\ UNCHANGED <<published, countVars, showStatus, events, since, reads, pruning, changes>>

\* crons.ts, every ten minutes.
PruneCron ==
    /\ ~pruning /\ old # {}
    /\ pruning' = TRUE
    /\ UNCHANGED <<published, countVars, showStatus, events, old, since, reads, changes>>

\* The receipts that prune comes to before it leaves the event.
UpTo(e) == {r \in reads : r[2] \in old /\ r[2] <= e}

\* The event goes when the batch was not used up by its receipts.
EventGoes(e) == Cardinality(UpTo(e)) < PruneBatch

\* prune: of the oldest events the receipts, a batch of them, and the events that
\* have none left; again at once when the batch or the page was full.
Prune ==
    LET page == {e \in old : Cardinality({f \in old : f <= e}) <= PrunePage}
        mine == {r \in reads : r[2] \in page}
        size == Min({PruneBatch, Cardinality(mine)})
    IN /\ pruning
       /\ \E gone \in SUBSET mine :
             /\ Cardinality(gone) = size
             /\ \A r \in gone, q \in mine \ gone : r[2] <= q[2]
             /\ reads' = reads \ gone
       /\ events' = events \ {e \in page : EventGoes(e)}
       /\ old' = old \cap events'
       /\ pruning' = (size = PruneBatch \/ Cardinality(page) = PrunePage)
       /\ UNCHANGED <<published, countVars, showStatus, since, changes>>

------------------------------------------------------------------------------
FollowersNext ==
    \/ Project \/ Unpublish \/ PruneCron \/ Prune
    \/ \E u \in Users : Follow(u) \/ Unfollow(u) \/ \E e \in Shows : MarkRead(u, e)
    \/ \E s \in Shows : CreateShow(s) \/ GoLive(s) \/ EndShow(s) \/ GrowOld(s)

FollowersSpec == FollowersInit /\ [][FollowersNext]_followerVars

\* The cron runs, and the mutations it schedules.
FollowersFairness == WF_followerVars(PruneCron \/ Prune)

------------------------------------------------------------------------------
(* Properties. *)

\* Counts are numbers and follow their bounds.
FollowersTypeOK ==
    /\ published \in BOOLEAN /\ projecting \in BOOLEAN /\ pruning \in BOOLEAN
    /\ follows \subseteq Users
    /\ shards \in [ShardIds -> Nat] /\ followerCount \in Nat
    /\ following \in [Users -> 0..MaxFollows]
    /\ old \subseteq events

\* The sharded count is exact: shards never go below zero and add up to the follows,
\* whichever shards follows and unfollows pick, and the count on the profile differs
\* from them only while a projection is scheduled.
FollowerCountIsKept ==
    /\ SumOf(shards) = Cardinality(follows)
    /\ \A u \in Users : following[u] = Others[u] + (IF Followed(u) THEN 1 ELSE 0)
    /\ followerCount # Cardinality(follows) => projecting

\* A read receipt never outlives its event, in however many batches they are pruned.
NoOrphanReceipt == \A r \in reads : r[2] \in events

\* Old events go, with all their receipts.
OldEventsGo == \A e \in Shows : e \in old ~> e \notin events

\* What is derived from follows and events agrees with them: shards and their
\* projection (follows.ts), receipts and their pruning (notifications.ts).
FollowersAreSound ==
    /\ FollowersTypeOK
    /\ FollowerCountIsKept
    /\ NoOrphanReceipt
==============================================================================
