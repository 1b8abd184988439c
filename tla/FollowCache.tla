-------------------------- MODULE FollowCache --------------------------
(***************************************************************************)
(* What one browser shows of the creators its user follows: the directory  *)
(* and the following feed, polled into the query cache (useCreators,       *)
(* DiscoverPage.tsx), and the follow button that changes the cache before  *)
(* the server answers (useFollowCreator of src/lib/social.ts,              *)
(* FollowButton.tsx).  The query cache itself is external.  Follower       *)
(* counts are left out: Followers models them.                             *)
(***************************************************************************)
EXTENDS Integers, FiniteSets

CONSTANTS
  Creators,
  MaxPresses     \* bound: presses of a follow button

ASSUME FollowCacheAssumption == MaxPresses \in Nat

VARIABLES
  followed,      \* the creators the user follows, at the server
  list,          \* per list: the creators it shows as followed
  fetch,         \* per list: the fetch in flight and what it read
  invalid,       \* lists to fetch again when they are next on screen
  route,         \* the list on the page; the shell always shows the directory
  change,        \* the follow mutation in flight
  presses,
  doubted        \* lists the property excuses: a fetch of theirs failed, or the
                 \* page was left during one

followVars ==
  <<followed, list, fetch, invalid, route, change, presses, doubted>>

Lists == {"directory", "following"}
NoFetch == [at |-> "none", read |-> {}, sound |-> FALSE]
\* A fetch begun during a change may read what the change overtakes.
Fetching(sound) == [at |-> "asked", read |-> {}, sound |-> sound]
NoChange == [at |-> "none", creator |-> CHOOSE c \in Creators : TRUE,
             to |-> FALSE, before |-> [l \in Lists |-> {}]]

FollowInit ==
  /\ followed \in SUBSET Creators
  /\ list = [l \in Lists |-> followed]
  /\ fetch = [l \in Lists |-> NoFetch]
  /\ invalid = {}
  /\ route \in Lists
  /\ change = NoChange
  /\ presses = 0
  /\ doubted = {}

Mounted(l) == l = "directory" \/ route = l

-----------------------------------------------------------------------------
(* useCreators                                                             *)

\* refetchInterval.
PollList(l) ==
  /\ Mounted(l)
  /\ fetch[l] = NoFetch
  /\ fetch' = [fetch EXCEPT ![l] = Fetching(change.at = "none")]
  /\ UNCHANGED <<followed, list, invalid, route, change, presses, doubted>>

\* directory.list, search and following at the server.
ReadList(l) ==
  /\ fetch[l].at = "asked"
  /\ fetch' = [fetch EXCEPT ![l].at = "read", ![l].read = followed]
  /\ UNCHANGED <<followed, list, invalid, route, change, presses, doubted>>

ListArrives(l) ==
  /\ fetch[l].at = "read"
  /\ list' = [list EXCEPT ![l] = fetch[l].read]
  /\ fetch' = [fetch EXCEPT ![l] = NoFetch]
  /\ invalid' = invalid \ {l}
  /\ doubted' = IF fetch[l].sound THEN doubted \ {l} ELSE doubted
  /\ UNCHANGED <<followed, route, change, presses>>

\* The last retry fails: the list keeps what it showed.
ListFails(l) ==
  /\ fetch[l].at = "asked"
  /\ fetch' = [fetch EXCEPT ![l] = NoFetch]
  /\ doubted' = doubted \cup {l}
  /\ UNCHANGED <<followed, list, invalid, route, change, presses>>

\* The other page: an invalidated list is fetched when it comes on screen.
Turn ==
  /\ \E l \in Lists :
       /\ l # route
       /\ route' = l
       /\ fetch' = IF l \in invalid /\ fetch[l] = NoFetch
                     THEN [fetch EXCEPT ![l] = Fetching(change.at = "none")] ELSE fetch
  /\ doubted' = IF route = "following" /\ fetch["following"] # NoFetch
                  THEN doubted \cup {"following"} ELSE doubted
  /\ UNCHANGED <<followed, list, invalid, change, presses>>

-----------------------------------------------------------------------------
(* useFollowCreator                                                        *)

\* updateProfile, and the filter of the following feed: following does not
\* list a creator there, unfollowing takes them out.
Optimistic(l, c, to) ==
  IF ~to THEN list[l] \ {c}
  ELSE IF l = "directory" THEN list[l] \cup {c}
  ELSE list[l]

\* Every follow button is disabled while one follow is pending.
FollowBusy == change.at # "none"

\* Press a button: onMutate cancels every fetch, keeps a snapshot and changes
\* the lists.  The feed has buttons of the creators it lists only.
PressFollow(l, c) ==
  /\ ~FollowBusy
  /\ Mounted(l)
  /\ l = "following" => c \in list[l]
  /\ presses < MaxPresses
  /\ presses' = presses + 1
  /\ fetch' = [k \in Lists |-> NoFetch]
  /\ change' = [at |-> "sent", creator |-> c, to |-> c \notin list[l],
                before |-> list]
  /\ list' = [k \in Lists |-> Optimistic(k, c, c \notin list[l])]
  /\ UNCHANGED <<followed, invalid, route, doubted>>

\* follows.follow or unfollow: a target state, not a toggle.
SetFollow ==
  /\ change.at = "sent"
  /\ followed' = IF change.to THEN followed \cup {change.creator}
                              ELSE followed \ {change.creator}
  /\ change' = [change EXCEPT !.at = "done"]
  /\ UNCHANGED <<list, fetch, invalid, route, presses, doubted>>

\* The follow limit, the rate limit, or a profile that is no longer published.
RefuseFollow ==
  /\ change.at = "sent"
  /\ change' = [change EXCEPT !.at = "refused"]
  /\ UNCHANGED <<followed, list, fetch, invalid, route, presses, doubted>>

\* Fault: the optimistic lists are taken for the truth.
NotRefetched(l) == fetch[l]

\* invalidateQueries: lists on screen are fetched again, from the start.
Refetched(l) == IF Mounted(l) THEN Fetching(TRUE) ELSE fetch[l]

\* onError puts the snapshot back; onSettled invalidates.
AnswerFollow ==
  /\ change.at \in {"done", "refused"}
  /\ list' = IF change.at = "refused" THEN change.before ELSE list
  /\ fetch' = [l \in Lists |-> Refetched(l)]
  /\ invalid' = Lists
  /\ change' = [NoChange EXCEPT !.at = "settles"]
  /\ UNCHANGED <<followed, route, presses, doubted>>

\* The mutation is over when its refetches are.
SettleFollow ==
  /\ change.at = "settles"
  /\ \A l \in Lists : Mounted(l) => fetch[l] = NoFetch
  /\ change' = NoChange
  /\ UNCHANGED <<followed, list, fetch, invalid, route, presses, doubted>>

FollowNext ==
  \/ \E l \in Lists :
       \/ PollList(l)
       \/ ReadList(l)
       \/ ListArrives(l)
       \/ ListFails(l)
       \/ \E c \in Creators : PressFollow(l, c)
  \/ Turn
  \/ SetFollow
  \/ RefuseFollow
  \/ AnswerFollow
  \/ SettleFollow

FollowSpec == FollowInit /\ [][FollowNext]_followVars

-----------------------------------------------------------------------------
(* Properties                                                              *)

FollowTypeOK ==
  /\ followed \subseteq Creators
  /\ list \in [Lists -> SUBSET Creators]
  /\ fetch \in [Lists -> [at : {"none", "asked", "read"}, read : SUBSET Creators,
                       sound : BOOLEAN]]
  /\ invalid \subseteq Lists
  /\ route \in Lists
  /\ change.at \in {"none", "sent", "done", "refused", "settles"}
  /\ presses \in 0..MaxPresses
  /\ doubted \subseteq Lists

\* When a follow button can be pressed it says what the server holds: polls
\* that overtake the change, refusals and rollbacks never leave a button that
\* offers what is already so.  A list whose fetch failed, or that was left
\* during one, is excused until it is fetched again (useFollowCreator).
ButtonsTellTruth ==
  ~FollowBusy =>
    /\ "directory" \notin doubted => list["directory"] = followed
    /\ route = "following" /\ "following" \notin doubted
         /\ fetch["following"] = NoFetch
       => list["following"] = followed

\* The buttons of both lists are right, and their cache has its shape (src/lib/social.ts).
FollowButtonsAreSound == FollowTypeOK /\ ButtonsTellTruth
=============================================================================
