----------------------------- MODULE RealtimeHub -----------------------------
(***************************************************************************)
(* One room of the Go API's realtime hubs: internal/realtime/hub.go (a     *)
(* show's sockets) and signal.go (a call's), which share their protocol.   *)
(*                                                                         *)
(* The mutex makes each locked section one step.  Opening and closing the  *)
(* Redis subscription happen outside of it, so several sockets may open a  *)
(* subscription for the same room and only one of them may keep it.  A     *)
(* room is named by the connection that created it.                        *)
(***************************************************************************)
EXTENDS Integers, Sequences, FiniteSets, SequencesExt

CONSTANTS
    Connections, \* sockets, each subscribing once
    Audience,    \* roles of a signaling room (a show's room has one)
    AudienceOf,  \* the role of a connection
    Capacity,    \* maxPerShow, maxPerCall
    BufferSize,  \* messages a client may be behind
    MaxMessages, \* bound: messages published
    NoRoom

ASSUME RealtimeHubAssumption ==
    /\ AudienceOf \in [Connections -> Audience]
    /\ Capacity \in Nat \ {0} /\ BufferSize \in Nat \ {0} /\ MaxMessages \in Nat
    /\ NoRoom \notin Connections

VARIABLES
    handler,          \* where each connection's handler is
    room,        \* h.rooms[id]
    clients,     \* clients of each room
    channel,     \* the Redis subscription each connection opened
    arriving,    \* messages a subscription holds for its room
    buffer,      \* client.messages
    stopped,     \* clients whose Done is closed, until their handler is gone
    toClose,     \* rooms taken off the map whose subscription is not closed yet
    sent,        \* messages published so far
    owed         \* history: messages published for a client and not given to it yet

hubVars == <<handler, room, clients, channel, arriving, buffer, stopped, toClose,
             sent, owed>>

Places == {"new", "opening", "opened", "in", "refused", "gone"}

HubInit ==
    /\ handler = [c \in Connections |-> "new"]
    /\ room = NoRoom
    /\ clients = [c \in Connections |-> {}]
    /\ channel = [c \in Connections |-> "none"]
    /\ arriving = [c \in Connections |-> <<>>]
    /\ buffer = [c \in Connections |-> <<>>]
    /\ stopped = {} /\ toClose = {}
    /\ sent = 0
    /\ owed = [c \in Connections |-> {}]

Arrives(c, place) == handler' = [handler EXCEPT ![c] = place]

------------------------------------------------------------------------------
(* Subscribe. *)

\* addClientLocked
AddClient(r, c) ==
    IF Cardinality(clients[r]) >= Capacity
    THEN /\ Arrives(c, "refused")
         /\ UNCHANGED clients
    ELSE /\ Arrives(c, "in")
         /\ clients' = [clients EXCEPT ![r] = @ \cup {c}]

\* The first look: a room that exists is joined, otherwise the lock is given up to
\* open a subscription.
FindRoom(c) ==
    /\ handler[c] = "new"
    /\ IF room # NoRoom THEN AddClient(room, c)
       ELSE Arrives(c, "opening") /\ UNCHANGED clients
    /\ UNCHANGED <<room, channel, arriving, buffer, stopped, toClose, sent, owed>>

\* bus.Subscribe returns once Redis has confirmed, or fails.
OpenSubscription(c) ==
    /\ handler[c] = "opening"
    /\ \/ Arrives(c, "opened") /\ channel' = [channel EXCEPT ![c] = "open"]
       \/ Arrives(c, "refused") /\ UNCHANGED channel
    /\ UNCHANGED <<room, clients, arriving, buffer, stopped, toClose, sent, owed>>

\* Fault: the room made in the meantime is not looked for.
CreateAlways(c) ==
    /\ room' = c
    /\ AddClient(c, c)
    /\ UNCHANGED toClose

\* The second look: another connection may have made the room by now, and then the
\* own subscription is closed.
CreateOrJoin(c) ==
    IF room # NoRoom
    THEN /\ AddClient(room, c)
         /\ toClose' = toClose \cup {c}
         /\ UNCHANGED room
    ELSE /\ room' = c
         /\ AddClient(c, c)
         /\ UNCHANGED toClose

EnterRoom(c) ==
    /\ handler[c] = "opened"
    /\ CreateOrJoin(c)
    /\ UNCHANGED <<channel, arriving, buffer, stopped, sent, owed>>

\* Whoever took the room off the map closes its subscription; what the room still
\* holds is garbage.
CloseSubscription(c) ==
    /\ c \in toClose
    /\ toClose' = toClose \ {c}
    /\ channel' = [channel EXCEPT ![c] = "closed"]
    /\ arriving' = [arriving EXCEPT ![c] = <<>>]
    /\ clients' = [clients EXCEPT ![c] = {}]
    /\ UNCHANGED <<handler, room, buffer, stopped, sent, owed>>

------------------------------------------------------------------------------
(* Leaving. *)

\* What is left of the room when some clients go: an empty one is taken off the map.
Shrink(r, remaining) ==
    /\ clients' = [clients EXCEPT ![r] = remaining]
    /\ room' = IF remaining = {} THEN NoRoom ELSE room
    /\ toClose' = IF remaining = {} THEN toClose \cup {r} ELSE toClose

\* The deferred Unsubscribe: the socket closed, failed, or its client was stopped.
\* A client that is not of the room that exists now leaves that one alone.
Unsubscribe(c) ==
    /\ handler[c] = "in"
    /\ Arrives(c, "gone")
    /\ buffer' = [buffer EXCEPT ![c] = <<>>]
    /\ owed' = [owed EXCEPT ![c] = {}]
    /\ stopped' = stopped \ {c}
    /\ IF room # NoRoom /\ c \in clients[room]
       THEN Shrink(room, clients[room] \ {c})
       ELSE UNCHANGED <<clients, room, toClose>>
    /\ UNCHANGED <<channel, arriving, sent>>

------------------------------------------------------------------------------
(* Messages: Redis, runRoom and broadcast. *)

\* Redis delivers to every subscription that is open, or to none of them when its
\* connection is broken.
Publish(targets) ==
    LET open == {c \in Connections : channel[c] = "open"}
        m == [id |-> sent + 1, to |-> targets]
    IN /\ sent < MaxMessages
       /\ open # {}
       /\ sent' = sent + 1
       /\ \/ /\ arriving' = [c \in Connections |->
                                IF c \in open THEN Append(arriving[c], m) ELSE arriving[c]]
             /\ owed' = [c \in Connections |->
                            IF handler[c] = "in" /\ AudienceOf[c] \in targets
                            THEN owed[c] \cup {m} ELSE owed[c]]
          \/ UNCHANGED <<arriving, owed>>
       /\ UNCHANGED <<handler, room, clients, channel, buffer, stopped, toClose>>

\* Clients too far behind for another message are dropped, to subscribe again.
Slow(addressed) == {c \in addressed : Len(buffer[c]) >= BufferSize}

\* runRoom and broadcast: a room that is off the map has no say any more.
Broadcast(r) ==
    /\ arriving[r] # <<>>
    /\ handler[r] # "opened"
    /\ arriving' = [arriving EXCEPT ![r] = Tail(@)]
    /\ LET m == Head(arriving[r])
           addressed == {c \in clients[r] : AudienceOf[c] \in m.to}
           given == {c \in addressed : Len(buffer[c]) < BufferSize}
       IN IF room = r
          THEN /\ buffer' = [c \in Connections |->
                                IF c \in given THEN Append(buffer[c], m) ELSE buffer[c]]
               /\ owed' = [c \in Connections |->
                              IF c \in given THEN owed[c] \ {m} ELSE owed[c]]
               /\ stopped' = stopped \cup Slow(addressed)
               /\ Shrink(r, clients[r] \ Slow(addressed))
          ELSE UNCHANGED <<buffer, owed, stopped, clients, room, toClose>>
    /\ UNCHANGED <<handler, channel, sent>>

\* The events channel closes under the room: closeRoom stops every client.
SubscriptionFails(r) ==
    /\ channel[r] = "open"
    /\ room = r
    /\ room' = NoRoom
    /\ stopped' = stopped \cup clients[r]
    /\ toClose' = toClose \cup {r}
    /\ UNCHANGED <<handler, clients, channel, arriving, buffer, sent, owed>>

\* The write loop sends a message to the browser.
WriteMessage(c) ==
    /\ handler[c] = "in"
    /\ buffer[c] # <<>>
    /\ buffer' = [buffer EXCEPT ![c] = Tail(@)]
    /\ UNCHANGED <<handler, room, clients, channel, arriving, stopped, toClose, sent, owed>>

------------------------------------------------------------------------------
HubNext ==
    \/ \E targets \in SUBSET Audience \ {{}} : Publish(targets)
    \/ \E c \in Connections :
          \/ FindRoom(c) \/ OpenSubscription(c) \/ EnterRoom(c) \/ CloseSubscription(c)
          \/ Unsubscribe(c) \/ Broadcast(c) \/ SubscriptionFails(c) \/ WriteMessage(c)

HubSpec == HubInit /\ [][HubNext]_hubVars

------------------------------------------------------------------------------
(* Properties. *)

\* Handlers, rooms and buffers have their shape, and no room is over its capacity.
HubTypeOK ==
    /\ handler \in [Connections -> Places]
    /\ room \in Connections \cup {NoRoom}
    /\ \A c \in Connections : /\ clients[c] \subseteq Connections
                              /\ Cardinality(clients[c]) <= Capacity
                              /\ Len(buffer[c]) <= BufferSize
                              /\ owed[c] \subseteq [id : 1..sent, to : SUBSET Audience]
    /\ channel \in [Connections -> {"none", "open", "closed"}]
    /\ stopped \subseteq Connections /\ toClose \subseteq Connections

\* A socket that was let in and not told to resubscribe is a client of the room
\* that receives the messages: no room is replaced under its clients.
NoOrphanClient ==
    \A c \in Connections :
        handler[c] = "in" /\ c \notin stopped => room # NoRoom /\ c \in clients[room]

\* An open subscription belongs to the room on the map or to someone who closes it:
\* neither losers of the race to open a room nor empty rooms keep one.
NoSubscriptionLeaks ==
    \A c \in Connections : channel[c] = "open" => \/ room = c
                                                  \/ c \in toClose
                                                  \/ handler[c] = "opened"

\* A client that is not told to resubscribe misses nothing that was published for
\* it since it was added, except what Redis itself lost: what it has not been given
\* is still to be broadcast to its room.
NoSilentGap ==
    \A c \in Connections :
        handler[c] = "in" /\ c \notin stopped => owed[c] \subseteq ToSet(arriving[room])

\* A room, its clients and its subscription come and go together (hub.go, signal.go).
RoomsAreSound ==
    /\ HubTypeOK
    /\ NoOrphanClient
    /\ NoSubscriptionLeaks
    /\ NoSilentGap
==============================================================================
