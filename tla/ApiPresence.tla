----------------------------- MODULE ApiPresence -----------------------------
(***************************************************************************)
(* Who is present in a call of the Go API: the signaling sockets of        *)
(* httpapi/call_signal.go, their leases in Redis (realtime/presence.go),   *)
(* the sweep of cmd/api/main.go and the disconnect columns of the call.    *)
(*                                                                         *)
(* A socket registers its lease in Redis and then clears its participant's *)
(* disconnect column in PostgreSQL; on its way out it removes the lease    *)
(* and, if it was the last one, sets the column.  Each is a step of its    *)
(* own, and the process may die before any of them.  The sweep does the    *)
(* same for leases that ran out.                                           *)
(*                                                                         *)
(* Time is what remains of a lease or of a grace period.  A handler that   *)
(* has registered reaches PostgreSQL before its lease runs out.            *)
(***************************************************************************)
EXTENDS Integers

CONSTANTS
    Sockets,    \* connections, each with an id of its own
    Roles,      \* the creator and the viewer
    RoleOf,     \* whose connection it is
    Ttl,        \* CALL_PRESENCE_TTL, in ticks
    Grace,      \* CALL_DISCONNECT_GRACE, in ticks
    Unset       \* a NULL column

ASSUME ApiPresenceAssumption ==
    /\ RoleOf \in [Sockets -> Roles]
    /\ Ttl \in Nat \ {0} /\ Grace \in Nat
    /\ Unset \notin Nat

VARIABLES
    socket,     \* where the handler of a connection is
    deadlines,  \* Redis: members of bling:call-presence:deadlines
    leases,     \* Redis: members of the call's set for their role
    left,       \* time left of a member's lease (0: it has run out)
    away,       \* creator_disconnected_at, viewer_disconnected_at
    callOpen,   \* the call is CREATED, CONNECTING or LIVE
    sweep,      \* runPresenceRecovery: step, members listed, roles found gone
    lost        \* roles whose disconnect was never written (or its write failed)

presenceVars == <<socket, deadlines, leases, left, away, callOpen, sweep, lost>>

SocketStates == {"new", "registered", "open", "last", "closed"}

PresenceInit ==
    /\ socket = [k \in Sockets |-> "new"]
    /\ deadlines = {} /\ leases = {}
    /\ left = [k \in Sockets |-> 0]
    /\ away = [r \in Roles |-> Unset]
    /\ callOpen = TRUE
    /\ sweep = [step |-> "idle", due |-> {}, gone |-> {}]
    /\ lost = {}

Of(r) == {k \in Sockets : RoleOf[k] = r}
Goes(k, state) == socket' = [socket EXCEPT ![k] = state]

------------------------------------------------------------------------------
(* PresenceStore. *)

Touch(k) ==
    /\ deadlines' = deadlines \cup {k}
    /\ leases' = leases \cup {k}
    /\ left' = [left EXCEPT ![k] = Ttl]

\* The leases of the role that remain when k's is removed: the ones that have run
\* out go with it.
Remaining(k) == {j \in leases \cap Of(RoleOf[k]) : j # k /\ left[j] > 0}
Drop(k) ==
    /\ deadlines' = deadlines \ {k}
    /\ leases' = (leases \ Of(RoleOf[k])) \cup Remaining(k)

------------------------------------------------------------------------------
(* The call's columns: MarkParticipantConnected and MarkParticipantDisconnected. *)

MarkConnected(r) == away' = IF callOpen THEN [away EXCEPT ![r] = Unset] ELSE away

\* The first disconnect's time is kept.
MarkDisconnected(r) ==
    away' = IF callOpen /\ away[r] = Unset THEN [away EXCEPT ![r] = Grace] ELSE away

------------------------------------------------------------------------------
(* A connection: callSignalHandler.serve. *)

\* Authorized only while the call is active; without Redis it is refused.
Register(k) ==
    /\ socket[k] = "new"
    /\ callOpen
    /\ Goes(k, "registered")
    /\ Touch(k)
    /\ UNCHANGED <<away, callOpen, sweep, lost>>

Admit(k) ==
    /\ socket[k] = "registered"
    /\ MarkConnected(RoleOf[k])
    /\ Goes(k, "open")
    /\ UNCHANGED <<deadlines, leases, left, callOpen, sweep, lost>>

\* PostgreSQL fails: the lease is taken back, and that it may have been the last
\* one is not looked at.
AdmitFails(k) ==
    /\ socket[k] = "registered"
    /\ Goes(k, "closed")
    /\ Drop(k)
    /\ lost' = lost \cup (IF Remaining(k) = {} THEN {RoleOf[k]} ELSE {})
    /\ UNCHANGED <<left, away, callOpen, sweep>>

\* The write loop's heartbeat.
Beat(k) ==
    /\ socket[k] = "open"
    /\ Touch(k)
    /\ UNCHANGED <<socket, away, callOpen, sweep, lost>>

\* The socket closes; the deferred cleanup removes its lease.
Close(k) ==
    /\ socket[k] = "open"
    /\ Drop(k)
    /\ Goes(k, IF Remaining(k) = {} THEN "last" ELSE "closed")
    /\ UNCHANGED <<left, away, callOpen, sweep, lost>>

RecordLast(k) ==
    /\ socket[k] = "last"
    /\ Goes(k, "closed")
    /\ MarkDisconnected(RoleOf[k])
    /\ UNCHANGED <<deadlines, leases, left, callOpen, sweep, lost>>

\* The process dies, or the cleanup cannot reach Redis or PostgreSQL.
HandlerStops(k) ==
    /\ socket[k] \in {"registered", "open", "last"}
    /\ Goes(k, "closed")
    /\ lost' = lost \cup (IF socket[k] = "last" THEN {RoleOf[k]} ELSE {})
    /\ UNCHANGED <<deadlines, leases, left, away, callOpen, sweep>>

------------------------------------------------------------------------------
(* The sweep: runPresenceRecovery. *)

Expired == {k \in deadlines : left[k] = 0}

List ==
    /\ sweep.step = "idle"
    /\ sweep' = [step |-> "reap", due |-> Expired, gone |-> {}]
    /\ UNCHANGED <<socket, deadlines, leases, left, away, callOpen, lost>>

\* Fault: the script trusts the list.
ListedIsExpired(k) == k \in deadlines

\* reapPresenceScript looks at the score again: the socket may have renewed its
\* lease since the members were listed.
StillExpired(k) == k \in Expired

Reap(k) ==
    /\ sweep.step = "reap"
    /\ k \in sweep.due
    /\ IF StillExpired(k)
       THEN /\ Drop(k)
            /\ sweep' = [sweep EXCEPT !.due = @ \ {k},
                                      !.gone = IF Remaining(k) = {}
                                               THEN @ \cup {RoleOf[k]} ELSE @]
       ELSE /\ sweep' = [sweep EXCEPT !.due = @ \ {k}]
            /\ UNCHANGED <<deadlines, leases>>
    /\ UNCHANGED <<socket, left, away, callOpen, lost>>

RecordGone(r) ==
    /\ sweep.step = "reap" /\ sweep.due = {}
    /\ r \in sweep.gone
    /\ sweep' = [sweep EXCEPT !.gone = @ \ {r}]
    /\ MarkDisconnected(r)
    /\ UNCHANGED <<socket, deadlines, leases, left, callOpen, lost>>

\* PostgreSQL fails: it is logged, and the sweep goes on.  Bound: each role's note
\* is lost once.
RecordGoneFails(r) ==
    /\ sweep.step = "reap" /\ sweep.due = {}
    /\ r \in sweep.gone \ lost
    /\ sweep' = [sweep EXCEPT !.gone = @ \ {r}]
    /\ lost' = lost \cup {r}
    /\ UNCHANGED <<socket, deadlines, leases, left, away, callOpen>>

\* A script fails or the process dies: Reap returns nothing of what it has found.
SweepStops ==
    /\ sweep.step = "reap"
    /\ ~ (sweep.gone \subseteq lost)
    /\ sweep' = [step |-> "idle", due |-> {}, gone |-> {}]
    /\ lost' = lost \cup sweep.gone
    /\ UNCHANGED <<socket, deadlines, leases, left, away, callOpen>>

\* ExpireDisconnected fails the call of a participant away for the whole grace
\* period and clears the columns.
Overdue == \E r \in Roles : away[r] = 0
ExpireDisconnected ==
    /\ sweep.step = "reap" /\ sweep.due = {} /\ sweep.gone = {}
    /\ sweep' = [sweep EXCEPT !.step = "idle"]
    /\ callOpen' = (callOpen /\ ~Overdue)
    /\ away' = IF callOpen /\ Overdue THEN [r \in Roles |-> Unset] ELSE away
    /\ UNCHANGED <<socket, deadlines, leases, left, lost>>

------------------------------------------------------------------------------
\* The time a sweep compares with is the time it started.
Tick ==
    /\ sweep.due = {}
    /\ \A k \in Sockets : socket[k] = "registered" => left[k] > 1
    /\ left' = [k \in Sockets |-> IF left[k] > 0 THEN left[k] - 1 ELSE 0]
    /\ away' = [r \in Roles |-> IF away[r] # Unset /\ away[r] > 0
                                THEN away[r] - 1 ELSE away[r]]
    /\ UNCHANGED <<socket, deadlines, leases, callOpen, sweep, lost>>

PresenceNext ==
    \/ List \/ SweepStops \/ ExpireDisconnected \/ Tick
    \/ \E r \in Roles : RecordGone(r) \/ RecordGoneFails(r)
    \/ \E k \in Sockets :
          \/ Register(k) \/ Admit(k) \/ AdmitFails(k) \/ Beat(k) \/ Close(k)
          \/ RecordLast(k) \/ HandlerStops(k) \/ Reap(k)

PresenceSpec == PresenceInit /\ [][PresenceNext]_presenceVars

------------------------------------------------------------------------------
(* Properties. *)

\* Sockets, leases, columns and the sweep have their shape.
PresenceTypeOK ==
    /\ socket \in [Sockets -> SocketStates]
    /\ deadlines \subseteq Sockets /\ leases \subseteq Sockets
    /\ left \in [Sockets -> 0..Ttl]
    /\ away \in [Roles -> {Unset} \cup 0..Grace]
    /\ callOpen \in BOOLEAN
    /\ sweep \in [step : {"idle", "reap"}, due : SUBSET Sockets, gone : SUBSET Roles]
    /\ lost \subseteq Roles

\* A connection that renews its lease in time keeps it, whatever the sweep had
\* listed before the renewal and whichever other socket of the role closes.
RenewedIsKept ==
    \A k \in Sockets : socket[k] \in {"registered", "open"} /\ left[k] > 0
                           => k \in deadlines /\ k \in leases

\* Once a participant's connections are all gone the call fails, unless one comes
\* back: by the cleanup of the last one or, if its process died, by the sweep.
\* Left out are the participants of whom the note was lost between the two stores.
States(r) == {socket[k] : k \in Of(r)}
Absent(r) == "closed" \in States(r) /\ States(r) \subseteq {"new", "closed"}
AbandonedCallFails ==
    \A r \in Roles : Absent(r) ~> (~callOpen \/ ~Absent(r) \/ r \in lost)
==============================================================================
