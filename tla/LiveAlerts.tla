------------------------------ MODULE LiveAlerts ------------------------------
(***************************************************************************)
(* The emails that going live sends (liveAlerts.ts): a walk over the       *)
(* creator's followers, a page at a time, each page an email batch that is *)
(* retried under one idempotency key.                                      *)
(*                                                                         *)
(* The followers are kept in the order they followed, which is the order   *)
(* of the index the walk reads, and a walk's cursor is the number of       *)
(* follows before it.  The counts and rules of following are in Followers. *)
(***************************************************************************)
EXTENDS Integers, Sequences, FiniteSets, SequencesExt

CONSTANTS
    Readers,        \* signed-in users with an email address
    Batch,          \* BATCH
    MaxSends,       \* MAX_SEND_ATTEMPTS
    NumAlerts,      \* bound: shows of the creator
    MaxSwitches     \* bound: follows, unfollows and changed preferences

ASSUME LiveAlertsAssumption ==
    /\ IsFiniteSet(Readers)
    /\ Batch \in Nat \ {0} /\ MaxSends \in Nat \ {0}
    /\ NumAlerts \in Nat /\ MaxSwitches \in Nat

Openings == 1..NumAlerts
NoWalk == -1

VARIABLES
    line,           \* the creator's follows, oldest first
    muted,          \* emailPreferences with liveAlerts false
    opening,        \* shows.status
    alerted,        \* lastLiveAlertAt is less than ALERT_COOLDOWN_MS ago
    walk,           \* per show: the cursor of its scheduled collect, or NoWalk
    pages,          \* per show: the number of the next batch
    batches,        \* scheduled send runs
    accepted,       \* Resend: idempotency keys it has seen
    mailed,         \* emails delivered, per show and user
    told,           \* history, per show: users a batch was made for
    steady,         \* history, per show: followers since before it who wanted mail
    spared,         \* history, per show: users who wanted no mail since before it
    switches

walkVars   == <<walk, pages, batches>>
mailVars   == <<accepted, mailed>>
toldVars   == <<told, steady, spared>>
alertVars  == <<line, muted, opening, alerted, walkVars, mailVars, toldVars, switches>>

AlertsInit ==
    /\ line = SetToSeq(Readers) /\ muted = {}
    /\ opening = [s \in Openings |-> "DRAFT"] /\ alerted = FALSE
    /\ walk = [s \in Openings |-> NoWalk] /\ pages = [s \in Openings |-> 0]
    /\ batches = {} /\ accepted = {}
    /\ mailed = [s \in Openings |-> [u \in Readers |-> 0]]
    /\ told = [s \in Openings |-> {}] /\ steady = [s \in Openings |-> {}]
    /\ spared = [s \in Openings |-> {}]
    /\ switches = 0

Switch == switches < MaxSwitches /\ switches' = switches + 1

------------------------------------------------------------------------------
(* What followers and the creator do meanwhile *)

\* follows.follow: at the end of the index.
Joins(u) ==
    /\ u \notin ToSet(line)
    /\ Switch
    /\ line' = Append(line, u)
    /\ UNCHANGED <<muted, opening, alerted, walkVars, mailVars, toldVars>>

\* Fault: the cursor is an offset, which an unfollow behind it shifts.
Offset(s, gone) == walk[s]
\* The cursor stays where it is in the index when a follow before it goes.
Cursor(s, gone) == IF walk[s] >= gone THEN walk[s] - 1 ELSE walk[s]

\* follows.unfollow.
Parts(u) ==
    LET gone == CHOOSE i \in DOMAIN line : line[i] = u
    IN /\ u \in ToSet(line)
       /\ Switch
       /\ line' = RemoveAt(line, gone)
       /\ walk' = [s \in Openings |-> Cursor(s, gone)]
       /\ steady' = [s \in Openings |-> steady[s] \ {u}]
       /\ UNCHANGED <<muted, opening, alerted, pages, batches, mailVars, told, spared>>

\* setLiveAlerts, or the unsubscribe link.
SetLiveAlerts(u, enabled) ==
    /\ enabled = (u \in muted)
    /\ Switch
    /\ muted' = IF enabled THEN muted \ {u} ELSE muted \cup {u}
    /\ steady' = [s \in Openings |-> steady[s] \ {u}]
    /\ spared' = [s \in Openings |-> spared[s] \ {u}]
    /\ UNCHANGED <<line, opening, alerted, walkVars, mailVars, told>>

EndOpening(s) ==
    /\ opening[s] = "LIVE"
    /\ opening' = [opening EXCEPT ![s] = "ENDED"]
    /\ UNCHANGED <<line, muted, alerted, walkVars, mailVars, toldVars, switches>>

\* ALERT_COOLDOWN_MS after the last alert.
CooldownEnds ==
    /\ alerted
    /\ alerted' = FALSE
    /\ UNCHANGED <<line, muted, opening, walkVars, mailVars, toldVars, switches>>

------------------------------------------------------------------------------
(* liveAlerts.ts *)

\* queueLiveAlert, as the show goes live: unless the last alert is recent.
QueueLiveAlert(s) ==
    /\ opening[s] = "DRAFT"
    /\ \A r \in Openings : r < s => opening[r] = "ENDED"
    /\ opening' = [opening EXCEPT ![s] = "LIVE"]
    /\ alerted' = TRUE
    /\ walk' = IF alerted THEN walk ELSE [walk EXCEPT ![s] = 0]
    /\ steady' = [steady EXCEPT ![s] = ToSet(line) \ muted]
    /\ spared' = [spared EXCEPT ![s] = muted]
    /\ UNCHANGED <<line, muted, pages, batches, mailVars, told, switches>>

Recipients(taken) == ToSet(taken) \ muted

\* collect: a page of followers becomes a batch; a page that is full is followed by
\* another.  A show that is over is not announced any more.
Collect(s) ==
    LET last == Min({walk[s] + Batch, Len(line)})
        to == Recipients(SubSeq(line, walk[s] + 1, last))
        lives == opening[s] = "LIVE"
    IN /\ walk[s] # NoWalk
       /\ walk' = [walk EXCEPT ![s] = IF lives /\ last = walk[s] + Batch THEN last ELSE NoWalk]
       /\ pages' = IF lives THEN [pages EXCEPT ![s] = @ + 1] ELSE pages
       /\ batches' = IF lives /\ to # {}
                     THEN batches \cup {[show |-> s, batch |-> pages[s], to |-> to, attempt |-> 1]}
                     ELSE batches
       /\ told' = IF lives THEN [told EXCEPT ![s] = @ \cup to] ELSE told
       /\ UNCHANGED <<line, muted, opening, alerted, mailVars, steady, spared, switches>>

IdempotencyKey(b) == <<b.show, b.batch>>

\* Resend: a key it has seen delivers nothing.
ResendDelivers(b) ==
    /\ accepted' = accepted \cup {IdempotencyKey(b)}
    /\ mailed' = IF IdempotencyKey(b) \in accepted THEN mailed
                 ELSE [mailed EXCEPT ![b.show] =
                        [u \in Readers |-> IF u \in b.to THEN @[u] + 1 ELSE @[u]]]

\* send: whether Resend took the batch or not, an answer that is not ok is retried
\* twice; an action that dies is not.
SendAlert(b) ==
    /\ ResendDelivers(b) \/ UNCHANGED mailVars
    /\ \/ batches' = batches \ {b}
       \/ /\ b.attempt < MaxSends
          /\ batches' = (batches \ {b}) \cup {[b EXCEPT !.attempt = @ + 1]}
    /\ UNCHANGED <<line, muted, opening, alerted, walk, pages, toldVars, switches>>

------------------------------------------------------------------------------
AlertsNext ==
    \/ CooldownEnds
    \/ \E u \in Readers : \/ Joins(u) \/ Parts(u)
                          \/ \E enabled \in BOOLEAN : SetLiveAlerts(u, enabled)
    \/ \E s \in Openings : QueueLiveAlert(s) \/ EndOpening(s) \/ Collect(s)
    \/ \E b \in batches : SendAlert(b)

AlertsSpec == AlertsInit /\ [][AlertsNext]_alertVars

------------------------------------------------------------------------------
(* Properties. *)

\* Walks have a cursor and batches their shape.
AlertsTypeOK ==
    /\ ToSet(line) \subseteq Readers /\ muted \subseteq Readers /\ alerted \in BOOLEAN
    /\ \A s \in Openings : walk[s] \in Nat \cup {NoWalk}
    /\ \A b \in batches : b.to \subseteq Readers /\ b.attempt \in 1..MaxSends

\* A retried batch is never delivered twice: nobody gets a second email for a show,
\* except who unfollowed and followed again while it was walked.
OneAlertPerShow ==
    \A s \in Openings : \A u \in steady[s] : mailed[s][u] <= 1

\* The walk misses nobody: when it is over, a batch was made for everyone who has
\* followed and wanted alerts since before the show, whoever left meanwhile.
WalkMissesNobody ==
    \A s \in Openings :
        opening[s] = "LIVE" /\ walk[s] = NoWalk /\ pages[s] > 0 => steady[s] \subseteq told[s]

\* Who turned alerts off before the show and left them off gets no email about it.
MutedIsSpared == \A s \in Openings : \A u \in spared[s] : mailed[s][u] = 0

\* Everybody who should is mailed about a show, once (collect, send and what changes
\* between their runs).
AlertsAreSound ==
    /\ AlertsTypeOK
    /\ OneAlertPerShow
    /\ WalkMissesNobody
    /\ MutedIsSpared
===============================================================================
