------------------------------ MODULE Audience ------------------------------
(***************************************************************************)
(* How many people are on a live channel (channels.ts): a visitor's        *)
(* heartbeat writes their own row, and a job recounts the recent rows, a   *)
(* page at a time, stores the total, deletes what expired and schedules    *)
(* itself again while anyone is there.                                     *)
(*                                                                         *)
(* The job is an action: heartbeats run between its pages, and an action   *)
(* that dies is not run again.  Time is counted in ticks.                  *)
(***************************************************************************)
EXTENDS Integers, FiniteSets, FiniteSetsExt

CONSTANTS
    NumVisitors,    \* bound: visitors
    VisitorTTL,     \* VISITOR_TTL_MS
    HeartbeatGap,   \* MIN_HEARTBEAT_GAP_MS
    CountInterval,  \* VISITOR_COUNT_INTERVAL_MS
    CountPage,      \* COUNT_PAGE
    NumCounters,    \* bound: recounts at a time
    LastVisit       \* bound: nobody comes at this time or later

ASSUME AudienceAssumption ==
    /\ NumVisitors \in Nat /\ NumCounters \in Nat /\ LastVisit \in Nat
    /\ VisitorTTL \in Nat \ {0} /\ HeartbeatGap \in Nat
    /\ CountInterval \in Nat \ {0} /\ CountPage \in Nat \ {0}

Visitors == 1..NumVisitors
Counters == 1..NumCounters
Gone == -1
NoStats == -1

VARIABLES
    clock,      \* Date.now()
    onAir,      \* the show is LIVE, and its profile too
    visits,     \* channelVisits: lastSeenAt by visitor, or Gone
    shown,      \* channelStats.visitors, or NoStats
    counting,   \* channelStats.counting
    counters,   \* countVisitors runs, scheduled or under way
    came,       \* history: who has ever been there
    moved,      \* history: a heartbeat came between the pages of a recount
    backlog,    \* history: more than a page had expired when nobody was left
    died        \* history: a recount died

statsVars == <<shown, counting>>
audienceVars == <<clock, onAir, visits, statsVars, counters, came, moved, backlog, died>>

Idle == [phase |-> "idle", at |-> 0, after |-> <<0, 0>>, total |-> 0]
Scheduled(t) == [Idle EXCEPT !.phase = "scheduled", !.at = t]
Active == {j \in Counters : counters[j].phase # "idle"}

AudienceInit ==
    /\ clock = 0 /\ onAir = TRUE
    /\ visits = [v \in Visitors |-> Gone]
    /\ shown = NoStats /\ counting = FALSE
    /\ counters = [j \in Counters |-> Idle]
    /\ came = {} /\ moved = FALSE /\ backlog = FALSE /\ died = FALSE

\* The visitors of V, the n longest unseen first.
Before(v, w) == visits[v] < visits[w] \/ (visits[v] = visits[w] /\ v < w)
FirstOf(V, n) == {v \in V : Cardinality({w \in V : Before(w, v)}) < n}

------------------------------------------------------------------------------
StartsCounting == ~counting

\* heartbeat: refused unless the channel is live.
Visit(v) ==
    /\ onAir /\ clock < LastVisit
    /\ visits' = IF visits[v] = Gone \/ clock - visits[v] >= HeartbeatGap
                 THEN [visits EXCEPT ![v] = clock] ELSE visits
    /\ came' = came \cup {v}
    /\ moved' = (moved \/ \E j \in Active : counters[j].phase = "reading")
    /\ IF StartsCounting
       THEN \E j \in Counters \ Active :
              /\ counters' = [counters EXCEPT ![j] = Scheduled(clock)]
              /\ counting' = TRUE
              /\ shown' = IF shown = NoStats THEN 1 ELSE shown
       ELSE UNCHANGED <<counters, statsVars>>
    /\ UNCHANGED <<clock, onAir, backlog, died>>

\* countVisitors begins.
StartCount(j) ==
    /\ counters[j].phase = "scheduled" /\ counters[j].at <= clock
    /\ counters' = [counters EXCEPT ![j] =
                      [Idle EXCEPT !.phase = "reading", !.at = clock - VisitorTTL,
                                   !.after = <<clock - VisitorTTL, NumVisitors>>]]
    /\ UNCHANGED <<clock, onAir, visits, statsVars, came, moved, backlog, died>>

\* Rows of the index beyond the cursor.
Past(v, after) ==
    visits[v] # Gone /\ (visits[v] > after[1] \/ (visits[v] = after[1] /\ v > after[2]))

\* countPage: a page that is not full is the last.
CountNextPage(j) ==
    LET page == FirstOf({v \in Visitors : Past(v, counters[j].after)}, CountPage)
        last == CHOOSE v \in page : \A w \in page : w = v \/ Before(w, v)
    IN /\ counters[j].phase = "reading"
       /\ counters' = [counters EXCEPT
            ![j].total = @ + Cardinality(page),
            ![j].after = IF page = {} THEN @ ELSE <<visits[last], last>>,
            ![j].phase = IF Cardinality(page) < CountPage THEN "storing" ELSE @]
       /\ UNCHANGED <<clock, onAir, visits, statsVars, came, moved, backlog, died>>

\* Fault: only the visits of a live show expire.
ExpiredIfLive(t) == {v \in Visitors : onAir /\ visits[v] # Gone /\ visits[v] <= t}
\* Expired visits, all of them once the show is over.
Expired(t) == {v \in Visitors : visits[v] # Gone /\ (visits[v] <= t \/ ~onAir)}

\* Fault: an empty channel keeps the number it showed last.
KeepsLast(seen) == IF onAir /\ seen > 0 THEN seen ELSE shown
\* The row is kept up while the show is live and deleted after it.
Stored(seen) == IF onAir THEN seen ELSE NoStats

\* Fault: only a full batch of expired visits brings the recount back.
AgainIfFull(goesOn, full) == IF full THEN Scheduled(clock) ELSE Idle
\* Again after the interval while anyone is there, at once for a full batch.
Again(goesOn, full) ==
    IF goesOn THEN Scheduled(clock + CountInterval)
    ELSE IF full THEN Scheduled(clock) ELSE Idle

\* storeCount.
StoreCount(j) ==
    LET seen == counters[j].total
        goesOn == onAir /\ seen > 0
        swept == FirstOf(Expired(counters[j].at), CountPage)
        full == Cardinality(swept) = CountPage
    IN /\ counters[j].phase = "storing"
       /\ shown' = Stored(seen)
       /\ counting' = goesOn
       /\ visits' = [v \in Visitors |-> IF v \in swept THEN Gone ELSE visits[v]]
       /\ counters' = [counters EXCEPT ![j] = Again(goesOn, full)]
       /\ backlog' = (backlog \/ (full /\ ~goesOn))
       /\ UNCHANGED <<clock, onAir, came, moved, died>>

\* The scheduler runs an action at most once.  (Bound: one dies.)
CounterDies(j) ==
    /\ ~died
    /\ counters[j].phase \in {"reading", "storing"}
    /\ counters' = [counters EXCEPT ![j] = Idle]
    /\ died' = TRUE
    /\ UNCHANGED <<clock, onAir, visits, statsVars, came, moved, backlog>>

GoOffAir ==
    /\ onAir
    /\ onAir' = FALSE
    /\ UNCHANGED <<clock, visits, statsVars, counters, came, moved, backlog, died>>

\* Time passes, beyond the last visit only for recounts still to come.
TimePasses ==
    /\ clock < LastVisit \/ \E j \in Active : counters[j].at > clock
    /\ clock' = clock + 1
    /\ UNCHANGED <<onAir, visits, statsVars, counters, came, moved, backlog, died>>

AudienceNext ==
    \/ GoOffAir \/ TimePasses
    \/ \E v \in Visitors : Visit(v)
    \/ \E j \in Counters : StartCount(j) \/ CountNextPage(j) \/ StoreCount(j) \/ CounterDies(j)

AudienceSpec == AudienceInit /\ [][AudienceNext]_audienceVars

\* Time passes, and a scheduled recount runs on until it ends or dies.
AudienceStep ==
    \/ TimePasses
    \/ \E j \in Counters : StartCount(j) \/ CountNextPage(j) \/ StoreCount(j)

AudienceFairness == WF_audienceVars(AudienceStep)

------------------------------------------------------------------------------
(* Properties. *)

\* Rows and recounts have their shape.
AudienceTypeOK ==
    /\ clock \in Nat /\ onAir \in BOOLEAN /\ counting \in BOOLEAN /\ shown \in Nat \cup {NoStats}
    /\ \A v \in Visitors : visits[v] \in -1..clock
    /\ \A j \in Counters : counters[j].total \in Nat

\* While the row says that somebody counts, somebody does (or died doing it): no
\* interleaving of heartbeats, pages and stores leaves a channel marked as counted
\* that no job will ever count again.
CountingHasJob == counting => Active # {} \/ died

\* There is one recount at a time, but for the one that sweeps a backlog of expired
\* visits while a new visitor starts another.
OneCounter == Cardinality(Active) <= 1 \/ backlog \/ died

\* A recount never counts a visitor twice, unless a heartbeat moved a row along the
\* index between two of its pages.
CountedOnce == shown <= Cardinality(came) \/ moved

\* When a show ends that is being counted, its visits are swept to the last one.
EndedChannelIsSwept ==
    (~onAir /\ counting) ~> (died \/ \A v \in Visitors : visits[v] = Gone)

\* When nobody comes any more the number shown goes back to zero
\* or away.
AudienceFades == shown > 0 ~> shown <= 0 \/ died

\* The recount of an audience runs while it must, once, and counts everybody once
\* (countVisitors, storeCount and the heartbeats between their pages).
CountIsSound ==
    /\ AudienceTypeOK
    /\ CountingHasJob
    /\ OneCounter
    /\ CountedOnce

\* An audience that goes leaves nothing behind: neither rows nor a number.
AudienceSettles ==
    /\ EndedChannelIsSwept
    /\ AudienceFades
==============================================================================
