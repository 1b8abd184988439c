----------------------------- MODULE PagesProofs -----------------------------
(***************************************************************************)
(* What reaches people and what their pages show: the rooms of the         *)
(* realtime hub, the studio's tabs and the public profile, the microphone  *)
(* check, the follow buttons, who a browser is, the settings pages, and    *)
(* the page of a caller.  Each for any number of connections, tabs, shows, *)
(* devices, creators, requests, months, cards, keys or calls.              *)
(***************************************************************************)
EXTENDS RealtimeHub, Studio, MicCheck, FollowCache, Identity, SettingsPages,
        CallerPage, SumTheorems

-----------------------------------------------------------------------------
(* The hub.                                                                *)

Message == [id : Nat, to : SUBSET Audience]
Outside == {"new", "opening", "opened"}

\* Rooms hold finitely many clients and subscriptions hold messages.
RoomsHaveShape ==
    /\ clients \in [Connections -> SUBSET Connections]
    /\ \A c \in Connections : IsFiniteSet(clients[c])
    /\ arriving \in [Connections -> Seq(Message)]
    /\ buffer \in [Connections -> Seq(Message)]
    /\ owed \in [Connections -> SUBSET Message]
    /\ sent \in Nat

\* A connection that is not in yet has no room of its own, neither on the map nor to be
\* closed, and is owed nothing.  The room on the map is not about to be closed.
RoomsHaveMakers ==
    /\ \A c \in Connections : handler[c] \in Outside => clients[c] = {} /\ c # room
    /\ \A c \in Connections : handler[c] # "in" => owed[c] = {}
    /\ \A c \in toClose : handler[c] \notin Outside
    /\ room \notin toClose

\* The room on the map has its subscription, and so has who is about to make one.
RoomsAreOpen == \A c \in Connections : handler[c] = "opened" \/ c = room => channel[c] = "open"

\* What is owed to a client was addressed to it.
OwedIsAddressed == \A c \in Connections : \A m \in owed[c] : AudienceOf[c] \in m.to

HubInv ==
    /\ RoomsAreSound
    /\ RoomsHaveShape
    /\ RoomsHaveMakers
    /\ RoomsAreOpen
    /\ OwedIsAddressed

\* Appending a message adds it to the messages.
LEMMA AppendAdds ==
    ASSUME NEW s \in Seq(Message), NEW m \in Message
    PROVE  Append(s, m) \in Seq(Message) /\ ToSet(s) \subseteq ToSet(Append(s, m))
           /\ m \in ToSet(Append(s, m)) /\ Len(Append(s, m)) = Len(s) + 1
BY DEF ToSet

\* What a sequence of messages holds is its head or in its tail.
LEMMA TailLosesHead ==
    ASSUME NEW s \in Seq(Message), s # <<>>
    PROVE  /\ Tail(s) \in Seq(Message) /\ Head(s) \in Message
           /\ Len(Tail(s)) <= Len(s)
           /\ ToSet(s) \subseteq ToSet(Tail(s)) \cup {Head(s)}
<1>1. Len(s) \in Nat \ {0} /\ Tail(s) \in Seq(Message) /\ Head(s) = s[1]
      /\ Head(s) \in Message /\ Len(Tail(s)) = Len(s) - 1
  OBVIOUS
<1>2. ASSUME NEW i \in DOMAIN s, i # 1 PROVE s[i] \in ToSet(Tail(s))
  <2>1. i - 1 \in DOMAIN Tail(s) /\ Tail(s)[i - 1] = s[i] BY <1>1, <1>2
  <2> QED BY <2>1 DEF ToSet
<1>3. Len(Tail(s)) <= Len(s) BY <1>1
<1> QED BY <1>1, <1>2, <1>3 DEF ToSet

\* A room stays within its capacity when a client is let in, and when clients go.
LEMMA RoomsAreCounted ==
    ASSUME HubInv, NEW r \in Connections
    PROVE  /\ \A c \in Connections :
                 Cardinality(clients[r]) < Capacity =>
                    /\ IsFiniteSet(clients[r] \cup {c})
                    /\ Cardinality(clients[r] \cup {c}) <= Capacity
           /\ \A gone \in SUBSET Connections :
                 IsFiniteSet(clients[r] \ gone) /\ Cardinality(clients[r] \ gone) <= Capacity
           /\ Cardinality(clients[r]) \in Nat
<1>1. IsFiniteSet(clients[r]) /\ Cardinality(clients[r]) <= Capacity /\ Capacity \in Nat
  BY RealtimeHubAssumption DEF HubInv, RoomsAreSound, HubTypeOK, RoomsHaveShape
<1>2. Cardinality(clients[r]) \in Nat BY <1>1, FS_CardinalityType
<1>3. ASSUME NEW c \in Connections, Cardinality(clients[r]) < Capacity
      PROVE  /\ IsFiniteSet(clients[r] \cup {c})
             /\ Cardinality(clients[r] \cup {c}) <= Capacity
  <2>1. IsFiniteSet(clients[r] \cup {c})
        /\ \/ Cardinality(clients[r] \cup {c}) = Cardinality(clients[r])
           \/ Cardinality(clients[r] \cup {c}) = Cardinality(clients[r]) + 1
    BY <1>1, FS_AddElement, Zenon
  <2> QED BY <1>1, <1>2, <1>3, <2>1
<1>4. ASSUME NEW gone \in SUBSET Connections
      PROVE  IsFiniteSet(clients[r] \ gone) /\ Cardinality(clients[r] \ gone) <= Capacity
  <2>1. clients[r] \ gone \in SUBSET clients[r] OBVIOUS
  <2>2. IsFiniteSet(clients[r] \ gone)
        /\ Cardinality(clients[r] \ gone) <= Cardinality(clients[r])
    BY <1>1, <2>1, FS_Subset, Zenon
  <2>3. Cardinality(clients[r] \ gone) \in Nat BY <2>2, FS_CardinalityType
  <2> QED BY <1>1, <1>2, <2>2, <2>3
<1> QED BY <1>2, <1>3, <1>4

\* A connection that comes to a room, the one on the map or its own, is let in or
\* refused there, and keeps its subscription for the room or gives it back.
LEMMA EnteringKeeps ==
    ASSUME HubInv, NEW c \in Connections, NEW r \in Connections, handler[c] \in Outside,
           AddClient(r, c), room' = r, r = room \/ (room = NoRoom /\ r = c),
           \/ toClose' = toClose
           \/ toClose' = toClose \cup {c} /\ r = room,
           handler[c] = "opened" => r = c \/ c \in toClose',
           r = c => handler[c] = "opened",
           UNCHANGED <<channel, arriving, buffer, stopped, sent, owed>>
    PROVE  HubInv'
<1> USE DEF HubInv, RoomsAreSound, Outside
<1>0. NoRoom \notin Connections /\ Capacity \in Nat \ {0} BY RealtimeHubAssumption
<1>1. PICK place \in {"in", "refused"} :
        /\ handler' = [handler EXCEPT ![c] = place]
        /\ place = "in" => clients' = [clients EXCEPT ![r] = @ \cup {c}]
                           /\ ~(Cardinality(clients[r]) >= Capacity)
        /\ place = "refused" => clients' = clients
                                /\ Cardinality(clients[r]) >= Capacity
  BY DEF AddClient, Arrives
<1>2. clients' \in [Connections -> SUBSET Connections]
      /\ \A d \in Connections : IsFiniteSet(clients'[d]) /\ Cardinality(clients'[d]) <= Capacity
  <2>1. clients \in [Connections -> SUBSET Connections]
        /\ \A d \in Connections : IsFiniteSet(clients[d]) /\ Cardinality(clients[d]) <= Capacity
    BY DEF HubTypeOK, RoomsHaveShape
  <2>2. Cardinality(clients[r]) \in Nat BY RoomsAreCounted
  <2>3. place = "in" => /\ IsFiniteSet(clients[r] \cup {c})
                        /\ Cardinality(clients[r] \cup {c}) <= Capacity
    BY <1>0, <1>1, <2>2, RoomsAreCounted
  <2> QED BY <1>1, <2>1, <2>3
<1>3. handler' \in [Connections -> Places] /\ handler'[c] = place
      /\ \A d \in Connections : d # c => handler'[d] = handler[d]
  BY <1>1 DEF HubTypeOK, Places
<1>4. \A d \in Connections : clients[d] \subseteq clients'[d]
  BY <1>1 DEF RoomsHaveShape
<1>5. place = "in" => c \in clients'[r]
  BY <1>1 DEF RoomsHaveShape
<1>6. HubTypeOK' BY <1>2, <1>3, <1>0 DEF HubTypeOK
<1>7. NoOrphanClient' BY <1>0, <1>3, <1>4, <1>5 DEF NoOrphanClient
<1>8. NoSubscriptionLeaks' BY <1>0, <1>3 DEF NoSubscriptionLeaks
<1>9. owed[c] = {} BY DEF RoomsHaveMakers
<1>10. NoSilentGap'
  BY <1>0, <1>3, <1>9 DEF NoSilentGap, NoOrphanClient
<1>11. RoomsHaveShape' BY <1>2 DEF RoomsHaveShape
<1>12. RoomsHaveMakers'
  <2>1. ASSUME NEW d \in Connections, handler'[d] \in Outside
        PROVE  clients'[d] = {} /\ d # room'
    <3>1. d # c /\ handler[d] \in Outside BY <1>3, <2>1
    <3>2. d # r BY <3>1 DEF RoomsHaveMakers
    <3> QED BY <1>1, <3>1, <3>2 DEF RoomsHaveMakers, RoomsHaveShape
  <2>2. \A d \in Connections : handler'[d] # "in" => owed'[d] = {}
    BY <1>3, <1>9 DEF RoomsHaveMakers
  <2>3. \A d \in toClose' : handler'[d] \notin Outside
    BY <1>3 DEF RoomsHaveMakers, HubTypeOK
  <2>4. room' \notin toClose'
    BY DEF RoomsHaveMakers
  <2> QED BY <2>1, <2>2, <2>3, <2>4 DEF RoomsHaveMakers
<1>13. RoomsAreOpen' BY <1>3 DEF RoomsAreOpen
<1>14. OwedIsAddressed' BY DEF OwedIsAddressed
<1> QED BY <1>6, <1>7, <1>8, <1>10, <1>11, <1>12, <1>13, <1>14

\* Subscribe: the first look, opening, the second look, and closing.
LEMMA SubscribeKeeps ==
    ASSUME HubInv, NEW c \in Connections,
           FindRoom(c) \/ OpenSubscription(c) \/ EnterRoom(c) \/ CloseSubscription(c)
    PROVE  HubInv'
<1>0. NoRoom \notin Connections /\ room \in Connections \cup {NoRoom}
  BY RealtimeHubAssumption DEF HubInv, RoomsAreSound, HubTypeOK
<1>1. CASE FindRoom(c) /\ room # NoRoom
  <2>1. /\ handler[c] \in Outside /\ AddClient(room, c) /\ room' = room
        /\ toClose' = toClose /\ handler[c] # "opened" /\ c # room
        /\ UNCHANGED <<channel, arriving, buffer, stopped, sent, owed>>
    BY <1>1 DEF FindRoom, Outside, HubInv, RoomsHaveMakers
  <2> QED BY <1>0, <1>1, <2>1, EnteringKeeps
<1>2. CASE EnterRoom(c)
  <2>1. /\ handler[c] \in Outside /\ CreateOrJoin(c) /\ c # room /\ handler[c] = "opened"
        /\ UNCHANGED <<channel, arriving, buffer, stopped, sent, owed>>
    BY <1>2 DEF EnterRoom, Outside, HubInv, RoomsHaveMakers
  <2>2. CASE room # NoRoom
    <3>1. AddClient(room, c) /\ room' = room /\ toClose' = toClose \cup {c}
      BY <2>1, <2>2 DEF CreateOrJoin
    <3>2. handler[c] = "opened" => room = c \/ c \in toClose' BY <3>1
    <3> QED BY <1>0, <2>1, <2>2, <3>1, <3>2, EnteringKeeps
  <2>3. CASE room = NoRoom
    <3>1. AddClient(c, c) /\ room' = c /\ toClose' = toClose
      BY <2>1, <2>3 DEF CreateOrJoin
    <3> QED BY <2>1, <2>3, <3>1, EnteringKeeps
  <2> QED BY <2>2, <2>3
<1>3. CASE OpenSubscription(c) \/ (FindRoom(c) /\ room = NoRoom)
  <2> USE DEF HubInv, RoomsAreSound, Outside
  <2>1. PICK place \in {"opening", "opened", "refused"} :
          /\ handler' = [handler EXCEPT ![c] = place]
          /\ \/ channel' = [channel EXCEPT ![c] = "open"] /\ place = "opened"
             \/ channel' = channel
    BY <1>3 DEF OpenSubscription, FindRoom, Arrives
  <2>2. /\ handler[c] \in {"new", "opening"}
        /\ UNCHANGED <<room, clients, arriving, buffer, stopped, toClose, sent, owed>>
    BY <1>3 DEF OpenSubscription, FindRoom
  <2>3. handler' \in [Connections -> Places] /\ handler'[c] = place
        /\ \A d \in Connections : d # c => handler'[d] = handler[d]
    BY <2>1 DEF HubTypeOK, Places
  <2>4. channel' \in [Connections -> {"none", "open", "closed"}]
        /\ \A d \in Connections : channel'[d] = "open" =>
                channel[d] = "open" \/ (d = c /\ place = "opened")
    BY <2>1 DEF HubTypeOK
  <2>5. HubTypeOK' BY <2>2, <2>3, <2>4 DEF HubTypeOK
  <2>6. NoOrphanClient' BY <2>2, <2>3 DEF NoOrphanClient
  <2>7. NoSubscriptionLeaks' BY <2>2, <2>3, <2>4 DEF NoSubscriptionLeaks
  <2>8. NoSilentGap' BY <2>2, <2>3 DEF NoSilentGap
  <2>9. RoomsHaveShape' BY <2>2 DEF RoomsHaveShape
  <2>10. RoomsHaveMakers' BY <2>2, <2>3 DEF RoomsHaveMakers, HubTypeOK
  <2>11. OwedIsAddressed' BY <2>2 DEF OwedIsAddressed
  <2>12. RoomsAreOpen' BY <1>3, <2>2, <2>3 DEF RoomsAreOpen, HubTypeOK, OpenSubscription, FindRoom, Arrives
  <2> QED BY <2>5, <2>6, <2>7, <2>8, <2>9, <2>10, <2>11, <2>12
<1>4. CASE CloseSubscription(c)
  <2> USE DEF HubInv, RoomsAreSound, Outside
  <2>1. /\ c \in toClose /\ toClose' = toClose \ {c} /\ c # room
        /\ channel' = [channel EXCEPT ![c] = "closed"]
        /\ arriving' = [arriving EXCEPT ![c] = <<>>]
        /\ clients' = [clients EXCEPT ![c] = {}]
        /\ UNCHANGED <<handler, room, buffer, stopped, sent, owed>>
    BY <1>4 DEF CloseSubscription, RoomsHaveMakers
  <2>2. IsFiniteSet({}) /\ Cardinality({}) = 0 /\ Capacity \in Nat
    BY FS_EmptySet, RealtimeHubAssumption
  <2>3. clients' \in [Connections -> SUBSET Connections] /\ clients'[c] = {}
        /\ \A d \in Connections : d # c => clients'[d] = clients[d]
    BY <2>1 DEF RoomsHaveShape
  <2>4. HubTypeOK' BY <2>1, <2>2, <2>3 DEF HubTypeOK, RoomsHaveShape
  <2>5. NoOrphanClient' BY <1>0, <2>1, <2>3 DEF NoOrphanClient
  <2>6. NoSubscriptionLeaks' BY <2>1 DEF NoSubscriptionLeaks, HubTypeOK
  <2>7. NoSilentGap'
    <3>1. \A d \in Connections : d # c => arriving'[d] = arriving[d]
      BY <2>1 DEF RoomsHaveShape
    <3> QED BY <1>0, <2>1, <3>1 DEF NoSilentGap, NoOrphanClient
  <2>8. RoomsHaveShape' BY <2>1, <2>2, <2>3 DEF RoomsHaveShape
  <2>9. RoomsHaveMakers' BY <2>1, <2>3 DEF RoomsHaveMakers
  <2>10. OwedIsAddressed' BY <2>1 DEF OwedIsAddressed
  <2>11. RoomsAreOpen' BY <2>1 DEF RoomsAreOpen, RoomsHaveMakers, HubTypeOK
  <2> QED BY <2>4, <2>5, <2>6, <2>7, <2>8, <2>9, <2>10, <2>11
<1> QED BY <1>1, <1>2, <1>3, <1>4

\* A room that loses clients keeps the others, or is given up when it has none.
LEMMA ShrinkingKeeps ==
    ASSUME HubInv, NEW gone \in SUBSET Connections, room # NoRoom,
           Shrink(room, clients[room] \ gone)
    PROVE  /\ clients' \in [Connections -> SUBSET Connections]
           /\ \A d \in Connections :
                /\ IsFiniteSet(clients'[d]) /\ Cardinality(clients'[d]) <= Capacity
                /\ clients'[d] \subseteq clients[d]
           /\ room' \in {room, NoRoom}
           /\ room' = room => toClose' = toClose
           /\ room' # room => toClose' = toClose \cup {room}
           /\ \A d \in clients[room] : d \notin gone => room' = room /\ d \in clients'[room]
<1>1. room \in Connections BY DEF HubInv, RoomsAreSound, HubTypeOK
<1>2. clients' = [clients EXCEPT ![room] = clients[room] \ gone] BY DEF Shrink
<1>3. IsFiniteSet(clients[room] \ gone) /\ Cardinality(clients[room] \ gone) <= Capacity
  BY <1>1, RoomsAreCounted
<1>4. clients \in [Connections -> SUBSET Connections]
      /\ \A d \in Connections : IsFiniteSet(clients[d]) /\ Cardinality(clients[d]) <= Capacity
  BY DEF HubInv, RoomsAreSound, HubTypeOK, RoomsHaveShape
<1>5. clients' \in [Connections -> SUBSET Connections] /\ clients'[room] = clients[room] \ gone
      /\ \A d \in Connections : d # room => clients'[d] = clients[d]
  BY <1>1, <1>2, <1>4
<1>6. \A d \in Connections : IsFiniteSet(clients'[d]) /\ Cardinality(clients'[d]) <= Capacity
                             /\ clients'[d] \subseteq clients[d]
  BY <1>3, <1>4, <1>5
<1>7. /\ room' = IF clients[room] \ gone = {} THEN NoRoom ELSE room
      /\ toClose' = IF clients[room] \ gone = {} THEN toClose \cup {room} ELSE toClose
  BY DEF Shrink
<1> QED BY <1>5, <1>6, <1>7

\* Unsubscribe.
LEMMA UnsubscribeKeeps ==
    ASSUME HubInv, NEW c \in Connections, Unsubscribe(c)
    PROVE  HubInv'
<1> USE DEF HubInv, RoomsAreSound, Outside
<1>0. NoRoom \notin Connections /\ room \in Connections \cup {NoRoom}
  BY RealtimeHubAssumption DEF HubTypeOK
<1>1. /\ handler[c] = "in" /\ handler' = [handler EXCEPT ![c] = "gone"]
      /\ buffer' = [buffer EXCEPT ![c] = <<>>] /\ owed' = [owed EXCEPT ![c] = {}]
      /\ stopped' = stopped \ {c}
      /\ UNCHANGED <<channel, arriving, sent>>
  BY DEF Unsubscribe, Arrives
<1>2. /\ clients' \in [Connections -> SUBSET Connections]
      /\ \A d \in Connections :
            /\ IsFiniteSet(clients'[d]) /\ Cardinality(clients'[d]) <= Capacity
            /\ clients'[d] \subseteq clients[d]
      /\ room' \in {room, NoRoom}
      /\ room' = room => toClose' = toClose
      /\ room' # room => toClose' = toClose \cup {room}
      /\ room # NoRoom =>
            \A d \in clients[room] : d \notin {c} => room' = room /\ d \in clients'[room]
  <2>1. CASE room # NoRoom /\ c \in clients[room]
    <3>1. Shrink(room, clients[room] \ {c}) /\ {c} \in SUBSET Connections
      BY <2>1 DEF Unsubscribe
    <3> HIDE DEF HubInv
    <3> QED BY <2>1, <3>1, ShrinkingKeeps
  <2>2. CASE ~(room # NoRoom /\ c \in clients[room])
    BY <2>2 DEF Unsubscribe, HubTypeOK, RoomsHaveShape
  <2> QED BY <2>1, <2>2
<1>3. handler' \in [Connections -> Places] /\ handler'[c] = "gone"
      /\ \A d \in Connections : d # c => handler'[d] = handler[d]
  BY <1>1 DEF HubTypeOK, Places
<1>4. owed' \in [Connections -> SUBSET Message] /\ owed'[c] = {}
      /\ \A d \in Connections : d # c => owed'[d] = owed[d]
  BY <1>1 DEF RoomsHaveShape
<1>5. buffer' \in [Connections -> Seq(Message)]
      /\ \A d \in Connections : Len(buffer'[d]) <= BufferSize
  <2>1. <<>> \in Seq(Message) /\ Len(<<>>) = 0 /\ BufferSize \in Nat
    BY RealtimeHubAssumption
  <2>2. buffer \in [Connections -> Seq(Message)]
        /\ \A d \in Connections : Len(buffer[d]) <= BufferSize
    BY DEF RoomsHaveShape, HubTypeOK
  <2>3. \A d \in Connections : buffer'[d] = buffer[d] \/ buffer'[d] = <<>>
    BY <1>1, <2>2
  <2>4. buffer' \in [Connections -> Seq(Message)] BY <1>1, <2>1, <2>2
  <2> QED BY <2>1, <2>2, <2>3, <2>4
<1>6. HubTypeOK'
  <2>1. \A d \in Connections : owed'[d] \subseteq [id : 1..sent, to : SUBSET Audience]
    BY <1>4 DEF HubTypeOK
  <2> QED BY <1>0, <1>1, <1>2, <1>3, <1>5, <2>1 DEF HubTypeOK
<1>7. NoOrphanClient' BY <1>0, <1>1, <1>2, <1>3 DEF NoOrphanClient
<1>8. NoSubscriptionLeaks' BY <1>0, <1>1, <1>2, <1>3 DEF NoSubscriptionLeaks
<1>9. NoSilentGap'
  <2>1. ASSUME NEW d \in Connections, handler'[d] = "in", d \notin stopped'
        PROVE  owed'[d] \subseteq ToSet(arriving'[room'])
    <3>1. d # c /\ handler[d] = "in" /\ d \notin stopped BY <1>1, <1>3, <2>1
    <3>2. room' = room BY <1>2, <3>1 DEF NoOrphanClient
    <3> QED BY <1>1, <1>4, <3>1, <3>2 DEF NoSilentGap
  <2> QED BY <2>1 DEF NoSilentGap
<1>10. RoomsHaveShape' BY <1>1, <1>2, <1>4, <1>5 DEF RoomsHaveShape
<1>11. RoomsHaveMakers'
  <2>1. \A d \in Connections : handler'[d] \in Outside => clients'[d] = {} /\ d # room'
    BY <1>0, <1>2, <1>3 DEF RoomsHaveMakers
  <2>2. \A d \in Connections : handler'[d] # "in" => owed'[d] = {}
    BY <1>3, <1>4 DEF RoomsHaveMakers
  <2>3. \A d \in toClose' : handler'[d] \notin Outside
    BY <1>0, <1>2, <1>3 DEF RoomsHaveMakers, HubTypeOK
  <2>4. room' \notin toClose' BY <1>0, <1>2 DEF RoomsHaveMakers, HubTypeOK
  <2> QED BY <2>1, <2>2, <2>3, <2>4 DEF RoomsHaveMakers
<1>12. OwedIsAddressed' BY <1>4 DEF OwedIsAddressed
<1>13. RoomsAreOpen' BY <1>0, <1>1, <1>2, <1>3 DEF RoomsAreOpen
<1> QED BY <1>6, <1>7, <1>8, <1>9, <1>10, <1>11, <1>12, <1>13

\* A published message is owed to whoever is in and addressed, and on its way to
\* every room.
LEMMA PublishKeeps ==
    ASSUME HubInv, NEW targets \in SUBSET Audience, Publish(targets)
    PROVE  HubInv'
<1> USE DEF HubInv, RoomsAreSound, Outside
<1>0. NoRoom \notin Connections /\ room \in Connections \cup {NoRoom}
  BY RealtimeHubAssumption DEF HubTypeOK
<1> DEFINE m == [id |-> sent + 1, to |-> targets]
<1>1. sent \in Nat /\ sent' = sent + 1 /\ m \in Message
      /\ UNCHANGED <<handler, room, clients, channel, buffer, stopped, toClose>>
  BY DEF Publish, RoomsHaveShape, Message
<1>2. \/ /\ arriving' = [c \in Connections |->
                IF channel[c] = "open" THEN Append(arriving[c], m) ELSE arriving[c]]
         /\ owed' = [c \in Connections |->
                IF handler[c] = "in" /\ AudienceOf[c] \in targets
                THEN owed[c] \cup {m} ELSE owed[c]]
      \/ arriving' = arriving /\ owed' = owed
  BY DEF Publish
<1>3. m.id = sent + 1 /\ m.to = targets /\ m \in [id : 1..(sent + 1), to : SUBSET Audience]
  BY <1>1
<1> HIDE DEF m
<1>4. /\ arriving' \in [Connections -> Seq(Message)]
      /\ \A c \in Connections : ToSet(arriving[c]) \subseteq ToSet(arriving'[c])
      /\ owed' \in [Connections -> SUBSET Message]
      /\ \A c \in Connections :
            \/ owed'[c] = owed[c]
            \/ /\ owed'[c] = owed[c] \cup {m} /\ handler[c] = "in" /\ AudienceOf[c] \in targets
               /\ \A r \in Connections : channel[r] = "open" => m \in ToSet(arriving'[r])
  <2>1. \A c \in Connections : arriving[c] \in Seq(Message) BY DEF RoomsHaveShape
  <2>2. \A c \in Connections :
           /\ Append(arriving[c], m) \in Seq(Message)
           /\ ToSet(arriving[c]) \subseteq ToSet(Append(arriving[c], m))
           /\ m \in ToSet(Append(arriving[c], m))
    BY <1>1, <2>1, AppendAdds
  <2>3. owed \in [Connections -> SUBSET Message] /\ arriving \in [Connections -> Seq(Message)]
    BY DEF RoomsHaveShape
  <2> QED BY <1>1, <1>2, <2>1, <2>2, <2>3
<1>5. HubTypeOK'
  <2>1. \A c \in Connections : owed[c] \subseteq [id : 1..sent, to : SUBSET Audience]
    BY DEF HubTypeOK
  <2>2. [id : 1..sent, to : SUBSET Audience] \subseteq [id : 1..(sent + 1), to : SUBSET Audience]
    BY <1>1
  <2>3. \A c \in Connections : owed'[c] \subseteq [id : 1..sent', to : SUBSET Audience]
    BY <1>1, <1>3, <1>4, <2>1, <2>2
  <2> QED BY <1>1, <2>3 DEF HubTypeOK
<1>6. NoOrphanClient' BY <1>1 DEF NoOrphanClient
<1>7. NoSubscriptionLeaks' BY <1>1 DEF NoSubscriptionLeaks
<1>8. NoSilentGap'
  <2>1. ASSUME NEW c \in Connections, handler[c] = "in", c \notin stopped
        PROVE  owed'[c] \subseteq ToSet(arriving'[room])
    <3>1. room \in Connections /\ owed[c] \subseteq ToSet(arriving[room])
      BY <1>0, <2>1 DEF NoOrphanClient, NoSilentGap
    <3>2. channel[room] = "open" BY <3>1 DEF RoomsAreOpen
    <3> QED BY <1>4, <3>1, <3>2
  <2> QED BY <1>1, <2>1 DEF NoSilentGap
<1>9. RoomsHaveShape' BY <1>1, <1>4 DEF RoomsHaveShape
<1>10. RoomsHaveMakers' BY <1>1, <1>4 DEF RoomsHaveMakers
<1>11. OwedIsAddressed' BY <1>3, <1>4 DEF OwedIsAddressed
<1>12. RoomsAreOpen' BY <1>1 DEF RoomsAreOpen
<1> QED BY <1>5, <1>6, <1>7, <1>8, <1>9, <1>10, <1>11, <1>12

\* A message reaches its room: clients get it, or are dropped when they are behind.
LEMMA BroadcastKeeps ==
    ASSUME HubInv, NEW r \in Connections, Broadcast(r)
    PROVE  HubInv'
<1> USE DEF HubInv, RoomsAreSound, Outside
<1>0. NoRoom \notin Connections /\ room \in Connections \cup {NoRoom}
  BY RealtimeHubAssumption DEF HubTypeOK
<1> DEFINE m == Head(arriving[r])
           addressed == {c \in clients[r] : AudienceOf[c] \in m.to}
           given == {c \in addressed : Len(buffer[c]) < BufferSize}
<1>1. arriving[r] \in Seq(Message) /\ arriving[r] # <<>> BY DEF Broadcast, RoomsHaveShape
<1>2. /\ Tail(arriving[r]) \in Seq(Message) /\ m \in Message
      /\ ToSet(arriving[r]) \subseteq ToSet(Tail(arriving[r])) \cup {m}
  BY <1>1, TailLosesHead
<1>3. arriving' \in [Connections -> Seq(Message)] /\ arriving'[r] = Tail(arriving[r])
      /\ \A c \in Connections : c # r => arriving'[c] = arriving[c]
  BY <1>2 DEF Broadcast, RoomsHaveShape
<1>4. UNCHANGED <<handler, channel, sent>> BY DEF Broadcast
<1>5. CASE room # r
  <2>1. UNCHANGED <<buffer, owed, stopped, clients, room, toClose>> BY <1>5 DEF Broadcast
  <2>2. HubTypeOK' BY <1>4, <2>1 DEF HubTypeOK
  <2>3. NoOrphanClient' BY <1>4, <2>1 DEF NoOrphanClient
  <2>4. NoSubscriptionLeaks' BY <1>4, <2>1 DEF NoSubscriptionLeaks
  <2>5. NoSilentGap' BY <1>0, <1>3, <1>4, <1>5, <2>1 DEF NoSilentGap, NoOrphanClient
  <2>6. RoomsHaveShape' BY <1>3, <1>4, <2>1 DEF RoomsHaveShape
  <2>7. RoomsHaveMakers' BY <1>4, <2>1 DEF RoomsHaveMakers
  <2>8. OwedIsAddressed' BY <2>1 DEF OwedIsAddressed
  <2>9. RoomsAreOpen' BY <1>4, <2>1 DEF RoomsAreOpen
  <2> QED BY <2>2, <2>3, <2>4, <2>5, <2>6, <2>7, <2>8, <2>9
<1>6. CASE room = r
  <2>0. clients[r] \subseteq Connections /\ room # NoRoom BY <1>0, <1>6 DEF HubTypeOK
  <2> DEFINE slow == Slow(addressed)
  <2>1. /\ buffer' = [c \in Connections |->
                          IF c \in given THEN Append(buffer[c], m) ELSE buffer[c]]
        /\ owed' = [c \in Connections |-> IF c \in given THEN owed[c] \ {m} ELSE owed[c]]
        /\ stopped' = stopped \cup slow
        /\ Shrink(room, clients[room] \ slow)
    BY <1>6 DEF Broadcast
  <2>2. slow \in SUBSET Connections BY <2>0 DEF Slow
  <2>3. \A c \in addressed : c \in given \/ c \in slow
    <3>1. \A c \in addressed : buffer[c] \in Seq(Message) BY <2>0 DEF RoomsHaveShape
    <3>2. \A c \in addressed : Len(buffer[c]) \in Nat BY <3>1
    <3> QED BY <3>2, RealtimeHubAssumption DEF Slow
  <2>4. /\ clients' \in [Connections -> SUBSET Connections]
        /\ \A d \in Connections :
              /\ IsFiniteSet(clients'[d]) /\ Cardinality(clients'[d]) <= Capacity
              /\ clients'[d] \subseteq clients[d]
        /\ room' \in {room, NoRoom}
        /\ room' = room => toClose' = toClose
        /\ room' # room => toClose' = toClose \cup {room}
        /\ \A d \in clients[room] : d \notin slow => room' = room /\ d \in clients'[room]
    <3> HIDE DEF HubInv, slow
    <3> QED BY <2>0, <2>1, <2>2, ShrinkingKeeps
  <2>5. /\ owed' \in [Connections -> SUBSET Message]
        /\ \A c \in Connections : owed'[c] \subseteq owed[c]
                                 /\ (c \in given => owed'[c] = owed[c] \ {m})
    BY <2>1 DEF RoomsHaveShape
  <2>6. /\ buffer' \in [Connections -> Seq(Message)]
        /\ \A c \in Connections : Len(buffer'[c]) <= BufferSize
    <3>1. \A c \in Connections : buffer[c] \in Seq(Message) /\ Len(buffer[c]) <= BufferSize
      BY DEF RoomsHaveShape, HubTypeOK
    <3>2. \A c \in Connections : Append(buffer[c], m) \in Seq(Message)
                                /\ Len(Append(buffer[c], m)) = Len(buffer[c]) + 1
      BY <1>2, <3>1, AppendAdds
    <3>3. \A c \in Connections : Len(buffer[c]) \in Nat BY <3>1
    <3>4. \A c \in given : Len(buffer[c]) < BufferSize OBVIOUS
    <3> HIDE DEF given, m
    <3>5. buffer' \in [Connections -> Seq(Message)] BY <2>1, <3>1, <3>2
    <3>6. \A c \in Connections : Len(buffer'[c]) <= BufferSize
      BY <2>1, <3>1, <3>2, <3>3, <3>4, RealtimeHubAssumption
    <3> QED BY <3>5, <3>6
  <2>7. HubTypeOK' BY <1>0, <1>4, <2>1, <2>2, <2>4, <2>5, <2>6 DEF HubTypeOK
  <2>8. NoOrphanClient' BY <1>0, <1>4, <2>0, <2>1, <2>4 DEF NoOrphanClient
  <2>9. NoSubscriptionLeaks' BY <1>0, <1>4, <2>0, <2>4 DEF NoSubscriptionLeaks
  <2>10. NoSilentGap'
    <3>1. ASSUME NEW c \in Connections, handler'[c] = "in", c \notin stopped'
          PROVE  owed'[c] \subseteq ToSet(arriving'[room'])
      <4>1. c \in clients[room] /\ c \notin slow /\ c \notin stopped /\ handler[c] = "in"
        BY <1>4, <2>1, <3>1 DEF NoOrphanClient
      <4>2. room' = r BY <1>6, <2>4, <4>1
      <4>3. owed[c] \subseteq ToSet(Tail(arriving[r])) \cup {m}
        BY <1>2, <1>6, <4>1 DEF NoSilentGap
      <4>4. m \notin owed'[c]
        <5>1. CASE c \in addressed BY <2>3, <2>5, <4>1, <5>1
        <5>2. CASE c \notin addressed
          <6>1. AudienceOf[c] \notin m.to BY <1>6, <4>1, <5>2
          <6> QED BY <2>5, <6>1 DEF OwedIsAddressed
        <5> QED BY <5>1, <5>2
      <4> HIDE DEF m
      <4> QED BY <1>3, <2>5, <4>2, <4>3, <4>4
    <3> QED BY <3>1 DEF NoSilentGap
  <2>11. RoomsHaveShape' BY <1>3, <1>4, <2>4, <2>5, <2>6 DEF RoomsHaveShape
  <2>12. RoomsHaveMakers'
    <3>1. \A d \in Connections : handler'[d] \in Outside => clients'[d] = {} /\ d # room'
      BY <1>0, <1>4, <2>4 DEF RoomsHaveMakers
    <3>2. \A d \in Connections : handler'[d] # "in" => owed'[d] = {}
      BY <1>4, <2>5 DEF RoomsHaveMakers
    <3>3. \A d \in toClose' : handler'[d] \notin Outside
      BY <1>4, <1>6, <2>4 DEF RoomsHaveMakers
    <3>4. room' \notin toClose' BY <1>0, <2>4 DEF RoomsHaveMakers, HubTypeOK
    <3> QED BY <3>1, <3>2, <3>3, <3>4 DEF RoomsHaveMakers
  <2>13. OwedIsAddressed' BY <2>5 DEF OwedIsAddressed
  <2>14. RoomsAreOpen' BY <1>0, <1>4, <2>4 DEF RoomsAreOpen
  <2> QED BY <2>7, <2>8, <2>9, <2>10, <2>11, <2>12, <2>13, <2>14
<1> QED BY <1>5, <1>6

\* A subscription that fails stops every client of its room.
LEMMA FailureKeeps ==
    ASSUME HubInv, NEW r \in Connections, SubscriptionFails(r)
    PROVE  HubInv'
<1> USE DEF HubInv, RoomsAreSound, Outside
<1>0. NoRoom \notin Connections BY RealtimeHubAssumption
<1>1. /\ room = r /\ room' = NoRoom
      /\ stopped' = stopped \cup clients[r] /\ toClose' = toClose \cup {r}
      /\ UNCHANGED <<handler, clients, channel, arriving, buffer, sent, owed>>
  BY DEF SubscriptionFails
<1>2. HubTypeOK' BY <1>1 DEF HubTypeOK
<1>3. \A c \in Connections : handler[c] = "in" => c \in stopped'
  BY <1>1 DEF NoOrphanClient
<1>4. NoOrphanClient' /\ NoSilentGap' BY <1>1, <1>3 DEF NoOrphanClient, NoSilentGap
<1>5. NoSubscriptionLeaks' BY <1>1 DEF NoSubscriptionLeaks
<1>6. RoomsHaveShape' BY <1>1 DEF RoomsHaveShape
<1>7. RoomsHaveMakers' BY <1>0, <1>1 DEF RoomsHaveMakers, HubTypeOK
<1>8. OwedIsAddressed' BY <1>1 DEF OwedIsAddressed
<1>9. RoomsAreOpen' BY <1>0, <1>1 DEF RoomsAreOpen
<1> QED BY <1>2, <1>4, <1>5, <1>6, <1>7, <1>8, <1>9

\* The write loop takes a message out of a buffer.
LEMMA WriteKeeps ==
    ASSUME HubInv, NEW c \in Connections, WriteMessage(c)
    PROVE  HubInv'
<1> USE DEF HubInv, RoomsAreSound
<1>1. /\ buffer[c] # <<>> /\ buffer' = [buffer EXCEPT ![c] = Tail(@)]
      /\ UNCHANGED <<handler, room, clients, channel, arriving, stopped, toClose, sent, owed>>
  BY DEF WriteMessage
<1>2. buffer \in [Connections -> Seq(Message)]
      /\ \A d \in Connections : Len(buffer[d]) <= BufferSize
  BY DEF RoomsHaveShape, HubTypeOK
<1>3. buffer[c] \in Seq(Message) BY <1>2
<1>4. Tail(buffer[c]) \in Seq(Message) /\ Len(Tail(buffer[c])) <= Len(buffer[c])
  BY <1>1, <1>3, TailLosesHead
<1>5. buffer' \in [Connections -> Seq(Message)]
      /\ \A d \in Connections : Len(buffer'[d]) <= BufferSize
  <2>1. buffer' \in [Connections -> Seq(Message)] BY <1>1, <1>2, <1>4
  <2>2. Len(Tail(buffer[c])) \in Nat /\ Len(buffer[c]) \in Nat BY <1>3, <1>4
  <2>3. Len(Tail(buffer[c])) <= BufferSize BY <1>2, <1>4, <2>2, RealtimeHubAssumption
  <2>4. \A d \in Connections : buffer'[d] = IF d = c THEN Tail(buffer[c]) ELSE buffer[d]
    BY <1>1, <1>2
  <2> QED BY <1>2, <2>1, <2>3, <2>4
<1>6. HubTypeOK' BY <1>1, <1>5 DEF HubTypeOK
<1>7. RoomsHaveShape' BY <1>1, <1>5 DEF RoomsHaveShape
<1>8. NoOrphanClient' /\ NoSubscriptionLeaks' /\ NoSilentGap'
  BY <1>1 DEF NoOrphanClient, NoSubscriptionLeaks, NoSilentGap
<1>9. RoomsHaveMakers' /\ RoomsAreOpen' /\ OwedIsAddressed'
  BY <1>1 DEF RoomsHaveMakers, RoomsAreOpen, OwedIsAddressed
<1> QED BY <1>6, <1>7, <1>8, <1>9

\* However sockets race to open, join and leave a show's or a call's room, however slow
\* they read and whenever Redis loses a subscription: a client that is not told to
\* resubscribe is in the room that receives the messages and misses none of them, no
\* subscription is left open, and no room is over its capacity (hub.go, signal.go).
THEOREM HubSafe == HubSpec => []RoomsAreSound
<1>1. HubInit => HubInv
  <2> SUFFICES ASSUME HubInit PROVE HubInv OBVIOUS
  <2> USE DEF HubInit
  <2>1. IsFiniteSet({}) /\ Cardinality({}) = 0 BY FS_EmptySet
  <2>2. <<>> \in Seq(Message) /\ Len(<<>>) = 0 OBVIOUS
  <2>3. HubTypeOK BY <2>1, <2>2, RealtimeHubAssumption DEF HubTypeOK, Places
  <2>4. NoOrphanClient /\ NoSubscriptionLeaks /\ NoSilentGap
    BY DEF NoOrphanClient, NoSubscriptionLeaks, NoSilentGap
  <2>5. RoomsHaveShape BY <2>1, <2>2 DEF RoomsHaveShape
  <2>6. RoomsHaveMakers BY RealtimeHubAssumption DEF RoomsHaveMakers, Outside
  <2>7. OwedIsAddressed BY DEF OwedIsAddressed
  <2>8. RoomsAreOpen BY RealtimeHubAssumption DEF RoomsAreOpen
  <2> QED BY <2>3, <2>4, <2>5, <2>6, <2>7, <2>8 DEF HubInv, RoomsAreSound
<1>2. HubInv /\ [HubNext]_hubVars => HubInv'
  <2>1. ASSUME HubInv, HubNext PROVE HubInv'
    <3>1. CASE \E targets \in SUBSET Audience \ {{}} : Publish(targets)
      BY <2>1, <3>1, PublishKeeps
    <3>2. ASSUME NEW c \in Connections,
                 FindRoom(c) \/ OpenSubscription(c) \/ EnterRoom(c) \/ CloseSubscription(c)
                 \/ Unsubscribe(c) \/ Broadcast(c) \/ SubscriptionFails(c) \/ WriteMessage(c)
          PROVE  HubInv'
      BY <2>1, <3>2, SubscribeKeeps, UnsubscribeKeeps, BroadcastKeeps, FailureKeeps,
         WriteKeeps
    <3> QED BY <2>1, <3>1, <3>2 DEF HubNext
  <2>2. ASSUME HubInv, UNCHANGED hubVars PROVE HubInv'
    BY <2>2 DEF hubVars, HubInv, RoomsAreSound, HubTypeOK, NoOrphanClient,
       NoSubscriptionLeaks, NoSilentGap, RoomsHaveShape, RoomsHaveMakers, RoomsAreOpen,
       OwedIsAddressed
  <2> QED BY <2>1, <2>2
<1>3. HubInv => RoomsAreSound BY DEF HubInv
<1> QED BY <1>1, <1>2, <1>3, PTL DEF HubSpec

-----------------------------------------------------------------------------
(* The studio.                                                             *)

\* A tab shows a show that exists, and an announced opening is a draft's.
TabsAndPageFollow ==
    /\ \A t \in Tabs : tab[t].n <= Len(shows)
    /\ profile.next # "unset" => \E n \in With("CREATED") : shows[n].at = profile.next

\* What a tab shows of its show's tiers is what was saved, unless another tab has saved
\* since, or its own save is not heard of yet.
TabsShowTiers ==
    \A t \in Tabs : tab[t].n # 0 => \/ shows[tab[t].n].tiers = tab[t].seen.tiers
                                    \/ shows[tab[t].n].tiers.by # t
                                    \/ "save" \in tab[t].busy

\* The saves number the configurations: tiers with the number that a tab has seen are the
\* ones it has seen.
NumbersNameTiers ==
    /\ \A n \in DOMAIN shows : shows[n].tiers.id <= saves
    /\ \A t \in Tabs : tab[t].seen.tiers.id <= saves
    /\ \A t \in Tabs : tab[t].n # 0 /\ shows[tab[t].n].tiers.id = tab[t].seen.tiers.id
                         => shows[tab[t].n].tiers = tab[t].seen.tiers

StudioInv ==
    /\ StudioTypeOK
    /\ PublicPageIsTrue
    /\ TabsAndPageFollow
    /\ TabsShowTiers
    /\ NumbersNameTiers

\* A nonempty set of numbers up to a bound has a largest one.
LEMMA LargestExists ==
    ASSUME NEW k \in Nat, NEW S \in SUBSET (1..k), S # {}
    PROVE  \E n \in S : \A m \in S : m <= n
<1> DEFINE D == {d \in Nat : k - d \in S}
<1>1. D \in SUBSET Nat /\ D # {}
  <2>1. PICK n \in S : TRUE OBVIOUS
  <2>2. k - n \in D BY <2>1
  <2> QED BY <2>2
<1> HIDE DEF D
<1>2. PICK d \in D : \A e \in D : d <= e BY <1>1, LeastNumber
<1>3. d \in Nat /\ k - d \in S BY DEF D
<1>4. ASSUME NEW m \in S PROVE m <= k - d
  <2>1. k - m \in D BY DEF D
  <2>2. d <= k - m BY <1>2, <2>1
  <2> QED BY <1>3, <2>2
<1> QED BY <1>3, <1>4

\* The current show is one of the creator's, if they have one that is not over.
LEMMA CurrentIsOne ==
    ASSUME StudioInv
    PROVE  Current \in 0..Len(shows)
<1>1. Len(shows) \in Nat /\ DOMAIN shows = 1..Len(shows) BY DEF StudioInv, StudioTypeOK
<1>2. CASE With("LIVE") # {}
  <2>1. (CHOOSE n \in With("LIVE") : TRUE) \in With("LIVE") BY <1>2
  <2>2. Current = CHOOSE n \in With("LIVE") : TRUE BY <1>2 DEF Current
  <2> QED BY <1>1, <2>1, <2>2 DEF With
<1>3. CASE With("LIVE") = {} /\ With("CREATED") # {}
  <2> DEFINE D == With("CREATED")
  <2>1. D \in SUBSET (1..Len(shows)) BY <1>1 DEF With
  <2>2. Current = CHOOSE n \in D : \A m \in D : m <= n BY <1>3 DEF Current
  <2>3. D # {} BY <1>3
  <2> HIDE DEF D
  <2>4. \E n \in D : \A m \in D : m <= n BY <1>1, <2>1, <2>3, LargestExists
  <2>5. (CHOOSE n \in D : \A m \in D : m <= n) \in D BY <2>4
  <2>6. (CHOOSE n \in D : \A m \in D : m <= n) \in 1..Len(shows) BY <2>1, <2>5, Zenon
  <2>7. Current \in 1..Len(shows) BY <2>2, <2>6, Zenon
  <2> QED BY <1>1, <2>7
<1>4. CASE With("LIVE") = {} /\ With("CREATED") = {}
  BY <1>1, <1>4 DEF Current
<1> QED BY <1>2, <1>3, <1>4

\* The shape of a tab, of the shows and of the profile.
LEMMA StudioShape ==
    ASSUME StudioInv
    PROVE  /\ shows \in Seq(Show) /\ Len(shows) \in Nat /\ DOMAIN shows = 1..Len(shows)
           /\ Len(shows) <= MaxShows /\ MaxShows \in Nat /\ MaxSaves \in Nat
           /\ \A n \in DOMAIN shows :
                /\ shows[n] \in Show /\ shows[n].tiers \in TierSet
                /\ shows[n].status \in {"CREATED", "LIVE", "ENDED"}
           /\ profile \in [published : BOOLEAN, live : 0..MaxShows, next : Times \cup {"unset"}]
           /\ \A t \in Tabs : /\ tab[t] \in Tab /\ tab[t].n \in 0..Len(shows)
                              /\ tab[t].n # 0 => tab[t].n \in DOMAIN shows
<1>1. shows \in Seq(Show) /\ Len(shows) \in Nat /\ DOMAIN shows = 1..Len(shows)
      /\ Len(shows) <= MaxShows
  BY DEF StudioInv, StudioTypeOK
<1>2. MaxShows \in Nat /\ MaxSaves \in Nat BY StudioAssumption
<1>3. \A n \in DOMAIN shows : shows[n] \in Show BY <1>1
<1>4. \A n \in DOMAIN shows : shows[n].tiers \in TierSet
                              /\ shows[n].status \in {"CREATED", "LIVE", "ENDED"}
  BY <1>3 DEF Show
<1>5. ASSUME NEW t \in Tabs
      PROVE  tab[t] \in Tab /\ tab[t].n \in 0..Len(shows)
             /\ (tab[t].n # 0 => tab[t].n \in DOMAIN shows)
  <2>1. tab[t] \in Tab /\ tab[t].n <= Len(shows)
    BY DEF StudioInv, StudioTypeOK, TabsAndPageFollow
  <2>2. tab[t].n \in 0..MaxShows BY <2>1 DEF Tab
  <2> QED BY <1>1, <1>2, <2>1, <2>2
<1> QED BY <1>1, <1>2, <1>3, <1>4, <1>5 DEF StudioInv, StudioTypeOK

\* A tab that changes and shows nothing else than before, or what is current.
LEMMA TabChanges ==
    ASSUME StudioInv, NEW t \in Tabs, NEW new \in Tab,
           tab' = [tab EXCEPT ![t] = new],
           UNCHANGED <<shows, profile, payable, saves>>,
           \/ /\ new.n = tab[t].n /\ new.seen = tab[t].seen
              /\ tab[t].busy \subseteq new.busy
           \/ new.n = 0 /\ new.seen = Draft
           \/ new.n \in DOMAIN shows /\ new.seen = shows[new.n]
    PROVE  StudioInv'
<1>1. tab \in [Tabs -> Tab] BY DEF StudioInv, StudioTypeOK
<1>2. tab' \in [Tabs -> Tab] /\ tab'[t] = new /\ \A u \in Tabs : u # t => tab'[u] = tab[u]
  BY <1>1
<1>3. new.n <= Len(shows)
  <2>1. tab[t].n <= Len(shows) /\ Len(shows) \in Nat /\ DOMAIN shows = 1..Len(shows)
    BY StudioShape
  <2> QED BY <2>1
<1>4. StudioTypeOK' BY <1>2 DEF StudioInv, StudioTypeOK
<1>5. PublicPageIsTrue' BY DEF StudioInv, PublicPageIsTrue, With
<1>6. TabsAndPageFollow' BY <1>2, <1>3 DEF StudioInv, TabsAndPageFollow, With
<1>7. TabsShowTiers' BY <1>2 DEF StudioInv, TabsShowTiers
<1>8. NumbersNameTiers'
  <2>1. Draft.tiers.id <= saves BY StudioAssumption DEF Draft, Standard, StudioInv, StudioTypeOK
  <2>2. new.seen.tiers.id <= saves BY <2>1 DEF StudioInv, NumbersNameTiers
  <2> QED BY <1>2, <2>2 DEF StudioInv, NumbersNameTiers
<1> QED BY <1>4, <1>5, <1>6, <1>7, <1>8 DEF StudioInv

\* A mutation of one show by a tab: the page is told of its status and its opening, and
\* the tab is busy until it hears of it.
LEMMA ShowChanges ==
    ASSUME StudioInv, NEW t \in Tabs, NEW n \in DOMAIN shows, NEW s \in Show,
           NEW button \in Buttons, n = tab[t].n,
           shows' = [shows EXCEPT ![n] = s], Busy(t, button), UNCHANGED payable,
           saves' \in 0..MaxSaves,
           profile' \in [published : BOOLEAN, live : 0..MaxShows, next : Times \cup {"unset"}],
           PublicPageIsTrue',
           \/ profile'.next = "unset"
           \/ s.status = "CREATED" /\ profile'.next = s.at
           \/ profile'.next = profile.next /\ s.at = shows[n].at /\ s.status = shows[n].status
           \/ profile'.next = profile.next /\ shows[n].status # "CREATED",
           \/ s.tiers = shows[n].tiers /\ saves' = saves
           \/ button = "save" /\ s.tiers.by = t /\ s.tiers.id = saves' /\ saves' = saves + 1
    PROVE  StudioInv'
<1>1. /\ shows \in Seq(Show) /\ Len(shows) \in Nat /\ DOMAIN shows = 1..Len(shows)
      /\ \A u \in Tabs : tab[u].n \in 0..Len(shows)
  BY StudioShape
<1>2. /\ shows' \in Seq(Show) /\ Len(shows') = Len(shows) /\ DOMAIN shows' = DOMAIN shows
      /\ shows'[n] = s /\ \A m \in DOMAIN shows : m # n => shows'[m] = shows[m]
  BY <1>1
<1>3. tab \in [Tabs -> Tab] BY DEF StudioInv, StudioTypeOK
<1>4. [tab[t] EXCEPT !.busy = @ \cup {button}] \in Tab
  <2>1. tab[t] \in Tab BY <1>3
  <2> QED BY <2>1 DEF Tab
<1>5. tab' = [tab EXCEPT ![t] = [tab[t] EXCEPT !.busy = @ \cup {button}]]
  BY DEF Busy
<1>6. /\ tab' \in [Tabs -> Tab]
      /\ \A u \in Tabs : /\ tab'[u].n = tab[u].n /\ tab'[u].seen = tab[u].seen
                         /\ tab[u].busy \subseteq tab'[u].busy
                         /\ u = t => button \in tab'[u].busy
  <2>1. tab' \in [Tabs -> Tab] BY <1>3, <1>4, <1>5
  <2>2. tab'[t] = [tab[t] EXCEPT !.busy = @ \cup {button}] /\ tab[t] \in Tab
        /\ \A u \in Tabs : u # t => tab'[u] = tab[u]
    BY <1>3, <1>5
  <2>3. /\ tab'[t].n = tab[t].n /\ tab'[t].seen = tab[t].seen
        /\ tab'[t].busy = tab[t].busy \cup {button}
    BY <2>2 DEF Tab
  <2> QED BY <2>1, <2>2, <2>3
<1>7. StudioTypeOK' BY <1>2, <1>6 DEF StudioInv, StudioTypeOK
<1>8. TabsAndPageFollow'
  <2>1. \A u \in Tabs : tab'[u].n <= Len(shows') BY <1>1, <1>2, <1>6
  <2>2. ASSUME profile'.next # "unset"
        PROVE  \E m \in DOMAIN shows' : shows'[m].status = "CREATED" /\ shows'[m].at = profile'.next
    <3>1. CASE s.status = "CREATED" /\ profile'.next = s.at BY <1>2, <3>1
    <3>2. CASE profile'.next = profile.next
      <4>1. PICK m \in DOMAIN shows : shows[m].status = "CREATED" /\ shows[m].at = profile.next
        BY <2>2, <3>2 DEF StudioInv, TabsAndPageFollow, With
      <4>2. CASE m # n BY <1>2, <3>2, <4>1, <4>2
      <4>3. CASE m = n BY <1>2, <2>2, <3>2, <4>1, <4>3
      <4> QED BY <4>2, <4>3
    <3> QED BY <2>2, <3>1, <3>2
  <2> QED BY <2>1, <2>2 DEF TabsAndPageFollow, With
<1>9. TabsShowTiers'
  <2>1. ASSUME NEW u \in Tabs, tab[u].n # 0
        PROVE  \/ shows'[tab[u].n].tiers = tab[u].seen.tiers
               \/ shows'[tab[u].n].tiers.by # u
               \/ "save" \in tab'[u].busy
    <3>1. tab[u].n \in DOMAIN shows BY <1>1, <2>1
    <3>2. CASE tab[u].n # n \/ s.tiers = shows[n].tiers
      <4>1. shows'[tab[u].n].tiers = shows[tab[u].n].tiers BY <1>2, <3>1, <3>2
      <4> QED BY <1>6, <2>1, <4>1 DEF StudioInv, TabsShowTiers
    <3>3. CASE tab[u].n = n /\ button = "save" /\ s.tiers.by = t
      BY <1>2, <1>6, <3>3
    <3> QED BY <3>2, <3>3
  <2> QED BY <1>6, <2>1 DEF TabsShowTiers
<1>10. NumbersNameTiers'
  <2>1. /\ saves \in Nat /\ saves' \in Nat /\ saves <= saves'
        /\ \A m \in DOMAIN shows : shows[m].tiers.id \in Nat
        /\ \A u \in Tabs : tab[u].seen.tiers.id \in Nat
    <3>1. \A m \in DOMAIN shows : shows[m].tiers \in TierSet BY StudioShape
    <3>2. \A u \in Tabs : tab[u] \in Tab BY <1>3
    <3>3. \A u \in Tabs : tab[u].seen.tiers \in TierSet BY <3>2 DEF Tab, Show
    <3> QED BY <3>1, <3>3, StudioAssumption DEF TierSet, StudioInv, StudioTypeOK
  <2>2. /\ \A m \in DOMAIN shows : shows[m].tiers.id <= saves
        /\ \A u \in Tabs : tab[u].seen.tiers.id <= saves
    BY DEF StudioInv, NumbersNameTiers
  <2>3. \A m \in DOMAIN shows' : shows'[m].tiers.id <= saves' BY <1>2, <2>1, <2>2
  <2>4. \A u \in Tabs : tab'[u].seen.tiers.id <= saves' BY <1>6, <2>1, <2>2
  <2>5. ASSUME NEW u \in Tabs, tab[u].n # 0, shows'[tab[u].n].tiers.id = tab[u].seen.tiers.id
        PROVE  shows'[tab[u].n].tiers = tab[u].seen.tiers
    <3>1. tab[u].n \in DOMAIN shows BY <1>1, <2>5
    <3>2. CASE tab[u].n # n \/ s.tiers = shows[n].tiers
      <4>1. shows'[tab[u].n].tiers = shows[tab[u].n].tiers BY <1>2, <3>1, <3>2
      <4> QED BY <2>5, <4>1 DEF StudioInv, NumbersNameTiers
    <3>3. CASE tab[u].n = n /\ s.tiers.id = saves + 1
      BY <1>2, <2>1, <2>2, <2>5, <3>3
    <3> QED BY <3>2, <3>3
  <2> QED BY <1>6, <2>3, <2>4, <2>5 DEF NumbersNameTiers
<1> QED BY <1>7, <1>8, <1>9, <1>10 DEF StudioInv

\* Queries, the status of the account and the form's edits.
LEMMA TabsLookKeeps ==
    ASSUME StudioInv, NEW t \in Tabs,
           Deliver(t) \/ FetchStatus(t) \/ \E price \in Prices : Edit(t, price)
    PROVE  StudioInv'
<1>1. tab[t] \in Tab /\ tab \in [Tabs -> Tab] BY DEF StudioInv, StudioTypeOK
<1>2. CASE FetchStatus(t)
  <2> DEFINE new == [tab[t] EXCEPT !.ready = payable]
  <2>1. tab' = [tab EXCEPT ![t] = new] /\ UNCHANGED <<shows, profile, payable, saves>>
    BY <1>2 DEF FetchStatus
  <2>2. new \in Tab /\ new.n = tab[t].n /\ new.seen = tab[t].seen /\ new.busy = tab[t].busy
    BY <1>1 DEF Tab, StudioInv, StudioTypeOK
  <2> HIDE DEF new
  <2> QED BY <2>1, <2>2, TabChanges
<1>3. ASSUME NEW price \in Prices, Edit(t, price) PROVE StudioInv'
  <2> DEFINE new == [tab[t] EXCEPT !.edit =
                        IF price = tab[t].seen.tiers.price THEN "unset" ELSE price]
  <2>1. tab' = [tab EXCEPT ![t] = new] /\ UNCHANGED <<shows, profile, payable, saves>>
    BY <1>3 DEF Edit
  <2>2. new \in Tab /\ new.n = tab[t].n /\ new.seen = tab[t].seen /\ new.busy = tab[t].busy
    BY <1>1 DEF Tab
  <2> HIDE DEF new
  <2> QED BY <2>1, <2>2, TabChanges
<1>4. CASE Deliver(t)
  <2> DEFINE show == IF Current = 0 THEN Draft ELSE shows[Current]
             same == tab[t].n = Current /\ tab[t].seen.tiers.id = show.tiers.id
                     /\ show.status = "CREATED"
             new == [tab[t] EXCEPT !.n = Current, !.seen = show, !.busy = {},
                                   !.edit = IF same THEN tab[t].edit ELSE "unset"]
  <2>1. tab' = [tab EXCEPT ![t] = new] /\ UNCHANGED <<shows, profile, payable, saves>>
    BY <1>4 DEF Deliver
  <2>2. Current \in 0..Len(shows) BY CurrentIsOne
  <2>3. /\ Len(shows) \in Nat /\ DOMAIN shows = 1..Len(shows) /\ Len(shows) <= MaxShows
        /\ MaxShows \in Nat /\ MaxSaves \in Nat
        /\ \A n \in DOMAIN shows : shows[n] \in Show
    BY StudioShape
  <2>4. Draft \in Show BY <2>3 DEF Draft, Show, Standard, TierSet, Prices
  <2>5. show \in Show /\ Current \in 0..MaxShows /\ (Current # 0 => Current \in DOMAIN shows)
    BY <2>2, <2>3, <2>4
  <2>6. IF Current = 0 THEN show = Draft ELSE show = shows[Current] OBVIOUS
  <2> HIDE DEF show, same
  <2>7. new \in Tab /\ new.n = Current /\ new.seen = show
    BY <1>1, <2>5 DEF Tab
  <2> HIDE DEF new
  <2> QED BY <2>1, <2>5, <2>6, <2>7, TabChanges
<1> QED BY <1>2, <1>3, <1>4

\* A first show, or one after the others are over.
LEMMA CreateKeeps ==
    ASSUME StudioInv, NEW t \in Tabs, Create(t)
    PROVE  StudioInv'
<1>1. /\ tab[t].n = 0 /\ Len(shows) < MaxShows /\ shows' = Append(shows, Draft)
      /\ profile' = [profile EXCEPT !.published = TRUE]
      /\ tab' = [tab EXCEPT ![t] = [tab[t] EXCEPT !.busy = @ \cup {"create"}]]
      /\ UNCHANGED <<payable, saves>>
  BY DEF Create, Busy
<1>2. /\ shows \in Seq(Show) /\ Len(shows) \in Nat /\ DOMAIN shows = 1..Len(shows)
      /\ MaxShows \in Nat /\ MaxSaves \in Nat
      /\ profile \in [published : BOOLEAN, live : 0..MaxShows, next : Times \cup {"unset"}]
      /\ \A u \in Tabs : tab[u].n \in 0..Len(shows)
  BY StudioShape
<1>3. Draft \in Show /\ Draft.status = "CREATED"
  BY <1>2 DEF Draft, Show, Standard, TierSet, Prices
<1>4. /\ shows' \in Seq(Show) /\ Len(shows') = Len(shows) + 1
      /\ DOMAIN shows' = DOMAIN shows \cup {Len(shows) + 1}
      /\ shows'[Len(shows) + 1] = Draft
      /\ \A n \in DOMAIN shows : shows'[n] = shows[n]
  BY <1>1, <1>2, <1>3
<1>5. /\ profile' \in [published : BOOLEAN, live : 0..MaxShows, next : Times \cup {"unset"}]
      /\ profile'.live = profile.live /\ profile'.next = profile.next
  BY <1>1, <1>2
<1>6. /\ tab' \in [Tabs -> Tab]
      /\ \A u \in Tabs : /\ tab'[u].n = tab[u].n /\ tab'[u].seen = tab[u].seen
                         /\ tab[u].busy \subseteq tab'[u].busy
  <2>1. tab \in [Tabs -> Tab] /\ tab[t] \in Tab BY DEF StudioInv, StudioTypeOK
  <2> DEFINE new == [tab[t] EXCEPT !.busy = @ \cup {"create"}]
  <2>2. new \in Tab /\ new.n = tab[t].n /\ new.seen = tab[t].seen
        /\ tab[t].busy \subseteq new.busy
    BY <2>1 DEF Tab, Buttons
  <2>3. tab' = [tab EXCEPT ![t] = new] BY <1>1
  <2> HIDE DEF new
  <2> QED BY <2>1, <2>2, <2>3
<1>7. StudioTypeOK'
  <2>1. Len(shows') <= MaxShows BY <1>1, <1>2, <1>4
  <2> QED BY <1>1, <1>4, <1>5, <1>6, <2>1 DEF StudioInv, StudioTypeOK
<1>8. PublicPageIsTrue'
  <2>1. With("LIVE")' = With("LIVE") BY <1>2, <1>3, <1>4 DEF With
  <2> QED BY <1>5, <2>1 DEF StudioInv, PublicPageIsTrue
<1>9. TabsAndPageFollow'
  <2>1. With("CREATED") \subseteq With("CREATED")' BY <1>4 DEF With
  <2>2. \A n \in With("CREATED") : shows'[n] = shows[n] BY <1>4 DEF With
  <2>3. \A u \in Tabs : tab'[u].n <= Len(shows') BY <1>2, <1>4, <1>6
  <2> QED BY <1>5, <2>1, <2>2, <2>3 DEF StudioInv, TabsAndPageFollow
<1>10. TabsShowTiers'
  <2>1. \A u \in Tabs : tab[u].n # 0 => shows'[tab[u].n] = shows[tab[u].n]
    BY <1>2, <1>4
  <2> QED BY <1>6, <2>1 DEF StudioInv, TabsShowTiers
<1>11. NumbersNameTiers'
  <2>1. \A u \in Tabs : tab[u].n # 0 => shows'[tab[u].n] = shows[tab[u].n]
    BY <1>2, <1>4
  <2>2. Draft.tiers.id <= saves BY StudioAssumption DEF Draft, Standard, StudioInv, StudioTypeOK
  <2>3. \A n \in DOMAIN shows' : shows'[n].tiers.id <= saves
    BY <1>4, <2>2 DEF StudioInv, NumbersNameTiers
  <2> QED BY <1>1, <1>6, <2>1, <2>3 DEF StudioInv, NumbersNameTiers
<1> QED BY <1>7, <1>8, <1>9, <1>10, <1>11 DEF StudioInv

\* Nothing is written when a mutation is refused.
LEMMA RefusedKeeps ==
    ASSUME StudioInv, UNCHANGED <<shows, profile, tab, saves>>, payable' \in BOOLEAN
    PROVE  StudioInv'
BY DEF StudioInv, StudioTypeOK, PublicPageIsTrue, With, TabsAndPageFollow, TabsShowTiers,
       NumbersNameTiers

\* schedule and replace write a draft that another tab may have opened meanwhile.
LEMMA DraftChangesKeep ==
    ASSUME StudioInv, NEW t \in Tabs,
           SaveTiers(t) \/ \E at \in Times \cup {"unset"} : Schedule(t, at)
    PROVE  StudioInv'
<1> DEFINE n == tab[t].n
<1>0. payable \in BOOLEAN /\ UNCHANGED payable
  BY DEF StudioInv, StudioTypeOK, SaveTiers, Schedule
<1>1. CASE Refused BY <1>0, <1>1, RefusedKeeps DEF Refused
<1>2. SUFFICES ASSUME ~Refused PROVE StudioInv' BY <1>1
<1>3. n # 0 /\ n \in DOMAIN shows /\ shows[n] \in Show /\ shows[n].status = "CREATED"
      /\ shows[n].tiers \in TierSet
  <2>1. n # 0 /\ shows[n].status = "CREATED" BY <1>2 DEF SaveTiers, Schedule, Shows
  <2> QED BY <2>1, StudioShape
<1>4. /\ profile \in [published : BOOLEAN, live : 0..MaxShows, next : Times \cup {"unset"}]
      /\ saves \in 0..MaxSaves /\ MaxSaves \in Nat /\ shows \in Seq(Show)
      /\ DOMAIN shows = 1..Len(shows) /\ Len(shows) \in Nat
  BY StudioShape DEF StudioInv, StudioTypeOK
<1>5. ASSUME NEW s \in Show, s.status = "CREATED", shows' = [shows EXCEPT ![n] = s],
             profile'.live = profile.live
      PROVE  PublicPageIsTrue'
  <2>1. DOMAIN shows' = DOMAIN shows /\ shows'[n] = s
        /\ \A m \in DOMAIN shows : m # n => shows'[m] = shows[m]
    BY <1>3, <1>4, <1>5
  <2>2. With("LIVE")' = With("LIVE") BY <1>3, <1>5, <2>1 DEF With
  <2> QED BY <1>5, <2>2 DEF StudioInv, PublicPageIsTrue
<1>6. ASSUME NEW at \in Times \cup {"unset"}, Schedule(t, at) PROVE StudioInv'
  <2> DEFINE s == [shows[n] EXCEPT !.at = at]
  <2>1. /\ shows' = [shows EXCEPT ![n] = s] /\ profile' = [profile EXCEPT !.next = at]
        /\ Busy(t, "schedule") /\ saves' = saves
    BY <1>2, <1>6 DEF Schedule
  <2>2. s \in Show /\ s.status = "CREATED" /\ s.at = at /\ s.tiers = shows[n].tiers
    BY <1>3 DEF Show
  <2>3. /\ profile' \in [published : BOOLEAN, live : 0..MaxShows, next : Times \cup {"unset"}]
        /\ profile'.live = profile.live /\ profile'.next = at
    BY <1>4, <2>1
  <2> HIDE DEF s
  <2>4. PublicPageIsTrue' BY <1>5, <2>1, <2>2, <2>3
  <2>5. "schedule" \in Buttons /\ saves' \in 0..MaxSaves BY <1>4, <2>1 DEF Buttons
  <2> QED BY <1>0, <1>3, <2>1, <2>2, <2>3, <2>4, <2>5, ShowChanges
<1>7. CASE SaveTiers(t)
  <2> DEFINE new == [id |-> saves + 1, price |-> tab[t].edit, by |-> t]
             s == [shows[n] EXCEPT !.tiers = new]
  <2>1. /\ shows' = [shows EXCEPT ![n] = s] /\ profile' = profile /\ saves < MaxSaves
        /\ Busy(t, "save") /\ saves' = saves + 1 /\ tab[t].edit # "unset"
    BY <1>2, <1>7 DEF SaveTiers, Dirty
  <2>2. new \in TierSet /\ new.by = t /\ new.id = saves + 1
    <3>1. tab[t] \in Tab BY DEF StudioInv, StudioTypeOK
    <3>2. tab[t].edit \in Prices BY <2>1, <3>1 DEF Tab
    <3>3. saves + 1 \in 0..MaxSaves BY <1>4, <2>1
    <3> QED BY <3>2, <3>3 DEF TierSet
  <2> HIDE DEF new
  <2>3. s \in Show /\ s.status = "CREATED" /\ s.at = shows[n].at /\ s.tiers = new
    BY <1>3, <2>2 DEF Show
  <2> HIDE DEF s
  <2>4. PublicPageIsTrue' BY <1>5, <2>1, <2>3
  <2>5. "save" \in Buttons /\ saves' \in 0..MaxSaves BY <1>4, <2>1 DEF Buttons
  <2>6. profile' \in [published : BOOLEAN, live : 0..MaxShows, next : Times \cup {"unset"}]
    BY <1>4, <2>1
  <2> QED BY <1>0, <1>3, <2>1, <2>2, <2>3, <2>4, <2>5, <2>6, ShowChanges
<1> QED BY <1>6, <1>7

\* start and end: at most one show is live, the one on the public page.
LEMMA StartAndEndKeep ==
    ASSUME StudioInv, NEW t \in Tabs, Start(t) \/ EndShow(t)
    PROVE  StudioInv'
<1> DEFINE n == tab[t].n
<1>0. payable \in BOOLEAN /\ UNCHANGED payable
  BY DEF StudioInv, StudioTypeOK, Start, EndShow
<1>1. CASE Refused BY <1>0, <1>1, RefusedKeeps DEF Refused
<1>2. SUFFICES ASSUME ~Refused PROVE StudioInv' BY <1>1
<1>3. n # 0 /\ n \in DOMAIN shows /\ shows[n] \in Show
  <2>1. n # 0 BY DEF Start, EndShow, Shows, OffersStart
  <2> QED BY <2>1, StudioShape
<1>4. /\ profile \in [published : BOOLEAN, live : 0..MaxShows, next : Times \cup {"unset"}]
      /\ saves \in 0..MaxSaves /\ MaxSaves \in Nat /\ shows \in Seq(Show) /\ MaxShows \in Nat
      /\ DOMAIN shows = 1..Len(shows) /\ Len(shows) \in Nat /\ Len(shows) <= MaxShows
  BY StudioShape DEF StudioInv, StudioTypeOK
<1>5. n \in 0..MaxShows BY <1>3, <1>4
<1>6. With("LIVE") = {profile.live} \ {0} BY DEF StudioInv, PublicPageIsTrue
<1>7. ASSUME NEW status \in {"LIVE", "ENDED"},
             shows' = [shows EXCEPT ![n] = [shows[n] EXCEPT !.status = status]]
      PROVE  /\ [shows[n] EXCEPT !.status = status] \in Show
             /\ [shows[n] EXCEPT !.status = status].tiers = shows[n].tiers
             /\ With("LIVE")' = (With("LIVE") \ {n}) \cup (IF status = "LIVE" THEN {n} ELSE {})
  <2> DEFINE s == [shows[n] EXCEPT !.status = status]
  <2>1. s \in Show /\ s.status = status /\ s.tiers = shows[n].tiers BY <1>3 DEF Show
  <2>2. shows' = [shows EXCEPT ![n] = s] BY <1>7
  <2> HIDE DEF s
  <2>3. DOMAIN shows' = DOMAIN shows /\ shows'[n] = s
        /\ \A m \in DOMAIN shows : m # n => shows'[m] = shows[m]
    BY <1>3, <1>4, <2>1, <2>2
  <2>4. With("LIVE")' = (With("LIVE") \ {n}) \cup (IF status = "LIVE" THEN {n} ELSE {})
    BY <1>3, <2>1, <2>3 DEF With
  <2> QED BY <2>1, <2>4 DEF s
<1>8. CASE Start(t)
  <2> DEFINE s == [shows[n] EXCEPT !.status = "LIVE"]
  <2>1. /\ shows' = [shows EXCEPT ![n] = s]
        /\ profile' = [published |-> TRUE, live |-> n, next |-> "unset"]
        /\ Busy(t, "start") /\ saves' = saves /\ With("LIVE") \ {n} = {}
    BY <1>2, <1>8 DEF Start, NextWhenLive, NoOtherLive
  <2>2. s \in Show /\ s.tiers = shows[n].tiers /\ With("LIVE")' = {n}
    BY <1>7, <2>1
  <2> HIDE DEF s
  <2>3. PublicPageIsTrue' BY <1>3, <2>1, <2>2 DEF PublicPageIsTrue
  <2>4. /\ profile' \in [published : BOOLEAN, live : 0..MaxShows, next : Times \cup {"unset"}]
        /\ profile'.next = "unset"
    BY <1>5, <2>1
  <2>5. "start" \in Buttons /\ saves' \in 0..MaxSaves BY <1>4, <2>1 DEF Buttons
  <2> QED BY <1>0, <1>3, <2>1, <2>2, <2>3, <2>4, <2>5, ShowChanges
<1>9. CASE EndShow(t)
  <2> DEFINE s == [shows[n] EXCEPT !.status = "ENDED"]
  <2>1. /\ shows' = [shows EXCEPT ![n] = s] /\ shows[n].status = "LIVE"
        /\ profile' = [profile EXCEPT !.live = IF profile.live = n THEN 0 ELSE profile.live]
        /\ Busy(t, "end") /\ saves' = saves
    BY <1>2, <1>9 DEF EndShow, LiveAfter
  <2>2. s \in Show /\ s.tiers = shows[n].tiers /\ With("LIVE")' = With("LIVE") \ {n}
    BY <1>7, <2>1
  <2> HIDE DEF s
  <2>3. profile.live = n BY <1>3, <1>6, <2>1 DEF With
  <2>4. /\ profile' \in [published : BOOLEAN, live : 0..MaxShows, next : Times \cup {"unset"}]
        /\ profile'.live = 0 /\ profile'.next = profile.next
    BY <1>4, <2>1, <2>3
  <2>5. PublicPageIsTrue' BY <1>6, <2>2, <2>3, <2>4 DEF PublicPageIsTrue
  <2>6. "end" \in Buttons /\ saves' \in 0..MaxSaves BY <1>4, <2>1 DEF Buttons
  <2> QED BY <1>0, <1>3, <2>1, <2>2, <2>4, <2>5, <2>6, ShowChanges
<1> QED BY <1>8, <1>9

\* Every step of the studio keeps the invariant.
LEMMA StudioKeeps == StudioInv /\ [StudioNext]_studioVars => StudioInv'
<1> SUFFICES ASSUME StudioInv, [StudioNext]_studioVars PROVE StudioInv' OBVIOUS
<1>1. CASE PayoutsChange \/ UNCHANGED studioVars
  BY <1>1, RefusedKeeps DEF PayoutsChange, studioVars, StudioInv, StudioTypeOK
<1>2. CASE StudioNext
  BY <1>1, <1>2, TabsLookKeeps, CreateKeeps, DraftChangesKeep, StartAndEndKeep
  DEF StudioNext
<1> QED BY <1>1, <1>2

\* At first there are no shows, and every tab shows none.
LEMMA StudioStarts == StudioInit => StudioInv
<1> SUFFICES ASSUME StudioInit PROVE StudioInv OBVIOUS
<1>1. MaxShows \in Nat /\ MaxSaves \in Nat BY StudioAssumption
<1>2. Draft \in Show BY <1>1 DEF Draft, Show, Standard, TierSet, Prices
<1>3. shows \in Seq(Show) /\ Len(shows) = 0 /\ DOMAIN shows = {} BY DEF StudioInit
<1>4. StudioTypeOK
  <2>1. tab \in [Tabs -> Tab]
    <3> DEFINE first == [n |-> 0, seen |-> Draft, edit |-> "unset", busy |-> {}, ready |-> FALSE]
    <3>1. first \in Tab BY <1>1, <1>2 DEF Tab
    <3>2. tab = [t \in Tabs |-> first] BY DEF StudioInit
    <3> QED BY <3>1, <3>2
  <2>2. profile \in [published : BOOLEAN, live : 0..MaxShows, next : Times \cup {"unset"}]
    BY <1>1 DEF StudioInit
  <2>3. payable \in BOOLEAN BY DEF StudioInit
  <2>4. saves \in 0..MaxSaves BY <1>1 DEF StudioInit
  <2> QED BY <1>1, <1>3, <2>1, <2>2, <2>3, <2>4 DEF StudioTypeOK
<1>5. PublicPageIsTrue BY <1>3 DEF StudioInit, PublicPageIsTrue, With
<1>6. TabsAndPageFollow /\ TabsShowTiers /\ NumbersNameTiers
  BY <1>3 DEF StudioInit, TabsAndPageFollow, TabsShowTiers, NumbersNameTiers, Draft, Standard
<1> QED BY <1>4, <1>5, <1>6 DEF StudioInv

\* However the creator's tabs interleave, with whatever they show: the public profile is
\* live for exactly the show that is, and announces only what can still open.
THEOREM StudioSafe == StudioSpec => []PublicProfileIsSound
<1>1. StudioInv => PublicProfileIsSound
  BY DEF StudioInv, PublicProfileIsSound, AnnouncedCanOpen, Upcoming, TabsAndPageFollow
<1> QED BY <1>1, StudioStarts, StudioKeeps, PTL DEF StudioSpec

\* Only a tab's own Start makes a draft live.
LEMMA OnlyStartOpens ==
    ASSUME StudioInv, StudioNext, NEW n \in DOMAIN shows, Opens(n)
    PROVE  \E t \in Tabs : /\ Start(t) /\ n = tab[t].n /\ ~Refused
<1>1. /\ shows \in Seq(Show) /\ Len(shows) \in Nat /\ DOMAIN shows = 1..Len(shows)
      /\ \A u \in Tabs : tab[u].n # 0 => tab[u].n \in DOMAIN shows /\ shows[tab[u].n] \in Show
  BY StudioShape
<1>2. shows[n].status = "CREATED" /\ shows'[n].status = "LIVE" BY DEF Opens, With
<1>3. shows' # shows BY <1>2
<1>4. PICK t \in Tabs :
         \/ Create(t) \/ SaveTiers(t) \/ Start(t) \/ EndShow(t)
         \/ \E at \in Times \cup {"unset"} : Schedule(t, at)
  BY <1>3 DEF StudioNext, PayoutsChange, Deliver, FetchStatus, Edit
<1>5. CASE Create(t)
  <2>1. shows' = Append(shows, Draft) BY <1>5 DEF Create
  <2> QED BY <1>1, <1>2, <2>1
<1>6. ~Refused BY <1>3 DEF Refused
<1>7. ASSUME tab[t].n # 0, NEW s, s.status # "LIVE", shows' = [shows EXCEPT ![tab[t].n] = s]
      PROVE  FALSE
  <2>1. shows'[n] = shows[n] \/ shows'[n] = s BY <1>1, <1>7
  <2> QED BY <1>2, <1>7, <2>1
<1>8. CASE SaveTiers(t)
  <2> DEFINE s == [shows[tab[t].n] EXCEPT !.tiers =
                      [id |-> saves + 1, price |-> tab[t].edit, by |-> t]]
  <2>1. tab[t].n # 0 /\ shows' = [shows EXCEPT ![tab[t].n] = s]
        /\ shows[tab[t].n].status = "CREATED"
    BY <1>6, <1>8 DEF SaveTiers, Shows
  <2>2. s.status = "CREATED" BY <1>1, <2>1 DEF Show
  <2> HIDE DEF s
  <2> QED BY <1>7, <2>1, <2>2
<1>9. ASSUME NEW at, Schedule(t, at) PROVE FALSE
  <2> DEFINE s == [shows[tab[t].n] EXCEPT !.at = at]
  <2>1. tab[t].n # 0 /\ shows' = [shows EXCEPT ![tab[t].n] = s]
        /\ shows[tab[t].n].status = "CREATED"
    BY <1>6, <1>9 DEF Schedule, Shows
  <2>2. s.status = "CREATED" BY <1>1, <2>1 DEF Show
  <2> HIDE DEF s
  <2> QED BY <1>7, <2>1, <2>2
<1>10. CASE EndShow(t)
  <2> DEFINE s == [shows[tab[t].n] EXCEPT !.status = "ENDED"]
  <2>1. tab[t].n # 0 /\ shows' = [shows EXCEPT ![tab[t].n] = s]
    BY <1>6, <1>10 DEF EndShow, Shows
  <2>2. s.status = "ENDED" BY <1>1, <2>1 DEF Show
  <2> HIDE DEF s
  <2> QED BY <1>7, <2>1, <2>2
<1>11. CASE Start(t)
  <2> DEFINE s == [shows[tab[t].n] EXCEPT !.status = "LIVE"]
  <2>1. tab[t].n # 0 /\ shows' = [shows EXCEPT ![tab[t].n] = s]
    BY <1>6, <1>11 DEF Start, OffersStart, Shows
  <2> HIDE DEF s
  <2>2. n # tab[t].n => shows'[n] = shows[n] BY <1>1, <2>1
  <2>3. n = tab[t].n BY <1>2, <2>2
  <2> QED BY <1>6, <1>11, <2>3
<1> QED BY <1>4, <1>5, <1>8, <1>9, <1>10, <1>11

\* A show goes live with the prices that the tab which starts it has on its screen, edits
\* included, unless a save has reached the server that the tab has not heard of
\* (shows.start, OffersStart and OnScreen of the tab).
THEOREM StartsAreSound == StudioSpec => StartsAsShown
<1>1. ASSUME StudioInv, [StudioNext]_studioVars
      PROVE  [\A n \in DOMAIN shows, t \in Tabs : (Opens(n) /\ Starter(t)) =>
                shows[n].tiers.price = OnScreen(t) \/ SavedUnseen(t, n)]_studioVars
  <2> SUFFICES ASSUME StudioNext, NEW n \in DOMAIN shows, NEW t \in Tabs, Opens(n), Starter(t)
               PROVE  shows[n].tiers.price = OnScreen(t) \/ SavedUnseen(t, n)
    BY <1>1
  <2>1. PICK u \in Tabs : Start(u) /\ n = tab[u].n /\ ~Refused BY <1>1, OnlyStartOpens
  <2>2. tab' = [tab EXCEPT ![u].busy = @ \cup {"start"}]
    BY <2>1 DEF Start, Busy
  <2>3. u = t
    <3>1. tab \in [Tabs -> Tab] BY <1>1 DEF StudioInv, StudioTypeOK
    <3>2. t # u => tab'[t] = tab[t] BY <2>2, <3>1
    <3> QED BY <3>2 DEF Starter
  <2>4. tab[t].n # 0 /\ OnScreen(t) = tab[t].seen.tiers.price
    BY <2>1, <2>3 DEF Start, OffersStart, Shows, OnScreen
  <2>5. CASE shows[n].tiers.id = tab[t].seen.tiers.id
    BY <1>1, <2>1, <2>3, <2>4, <2>5 DEF StudioInv, NumbersNameTiers
  <2>6. CASE shows[n].tiers.id # tab[t].seen.tiers.id
    BY <1>1, <2>1, <2>3, <2>4, <2>6 DEF StudioInv, TabsShowTiers, SavedUnseen
  <2> QED BY <2>5, <2>6
<1> QED BY <1>1, StudioStarts, StudioKeeps, PTL DEF StudioSpec, StartsAsShown

-----------------------------------------------------------------------------
(* The microphone check.                                                   *)

Mic == [mounted : BOOLEAN, status : {"idle", "requesting", "ready", "denied", "unavailable"},
        stream : 0..MaxStreams, context : 0..MaxStreams, shown : Microphones \cup {NoDevice},
        sample : {"idle", "recording", "playing"}, recorder : 0..MaxStreams,
        player : 0..MaxStreams]

\* The hook waits for the browser only while it says so, and while a row that waits or
\* does not test holds nothing; what a row that has gone is given belongs to a wait that
\* it did not see the end of.
WaitsHoldNothing ==
    /\ mic.mounted =>
            dropped = "nothing" /\ (prompting # "nothing" <=> mic.status = "requesting")
    /\ ~mic.mounted =>
            \/ dropped = "nothing" /\ prompting = "nothing" /\ streams = {} /\ contexts = {}
            \/ dropped = "devices" /\ prompting # "permission" /\ streams = {}
            \/ dropped = "permission"
    /\ prompting = "permission" => opened < MaxStreams /\ streams = {}
                                /\ mic.stream = 0 /\ mic.player = 0
    /\ prompting # "nothing" => contexts = {}
    /\ mic.mounted /\ mic.status \notin {"requesting", "ready"} =>
            streams = {} /\ contexts = {}

\* The microphone that is shown is the one that was opened, and remembered where storage
\* allows, from the browser's answer on.
ShownIsOpened ==
    /\ prompting = "devices" => opened # 0
    /\ mic.mounted /\ (prompting = "devices" \/ mic.status = "ready") =>
            /\ mic.stream # 0
            /\ mic.shown # NoDevice =>
                    /\ mic.shown = device[mic.stream]
                    /\ stored = IF storage = "kept" THEN mic.shown ELSE NoDevice

MicInv ==
    /\ mic \in Mic /\ opened \in 0..MaxStreams
    /\ device \in [Streams -> Microphones \cup {NoDevice}]
    /\ MicrophoneIsSound
    /\ WaitsHoldNothing
    /\ ShownIsOpened

\* The refs after release, and what is left running.
LEMMA ReleasedHolds ==
    ASSUME MicInv, Release
    PROVE  /\ streams' = {} /\ contexts' = {} /\ Released(mic) \in Mic
           /\ Released(mic).player = 0 /\ Released(mic).mounted = mic.mounted
           /\ Released(mic).stream = 0
<1>1. mic \in Mic /\ streams \subseteq {mic.stream} /\ contexts \subseteq {mic.context}
      /\ MaxStreams \in Nat
  BY MicCheckAssumption DEF MicInv, MicrophoneIsSound, MicrophoneIsReleased
<1>2. streams' = {} /\ contexts' = {} BY <1>1 DEF Release, TracksStopped
<1>3. Released(mic) \in Mic
  <2>1. 0 \in 0..MaxStreams BY <1>1
  <2> QED BY <1>1, <2>1 DEF Released, Mic
<1>4. Released(mic).player = 0 /\ Released(mic).mounted = mic.mounted
      /\ Released(mic).stream = 0
  BY <1>1 DEF Released, Mic
<1> QED BY <1>2, <1>3, <1>4

\* "Test mic", another microphone, "Done", and the row going.
LEMMA ReleasingKeeps ==
    ASSUME MicInv, Open \/ Done \/ Unmount
    PROVE  MicInv'
<1>0. Release BY DEF Open, Done, Unmount
<1>1. /\ streams' = {} /\ contexts' = {} /\ Released(mic) \in Mic
      /\ Released(mic).player = 0 /\ Released(mic).mounted = mic.mounted
      /\ Released(mic).stream = 0
  BY <1>0, ReleasedHolds
<1>2. UNCHANGED <<opened, device, storage, stored>> BY DEF Open, Done, Unmount
<1>3. opened \in 0..MaxStreams /\ device \in [Streams -> Microphones \cup {NoDevice}]
      /\ WaitsHoldNothing /\ ShownIsOpened /\ mic.mounted \in BOOLEAN
      /\ MicTypeOK /\ (storage = "refused" => stored = NoDevice)
  BY DEF MicInv, Mic, MicrophoneIsSound, CallsUseShown
<1>4. CASE Open
  <2>1. /\ mic' = [Released(mic) EXCEPT !.status = "requesting"] /\ prompting' = "permission"
        /\ opened < MaxStreams /\ UNCHANGED dropped /\ mic.mounted
    BY <1>4 DEF Open, OffersTest, OffersReady
  <2>2. mic' \in Mic /\ mic'.player = 0 /\ mic'.mounted = mic.mounted /\ mic'.stream = 0
        /\ mic'.status = "requesting" /\ mic'.sample \in {"idle", "recording", "playing"}
    BY <1>1, <2>1 DEF Mic
  <2>3. MicrophoneIsSound'
    BY <1>1, <1>2, <1>3, <2>1, <2>2 DEF MicrophoneIsSound, MicTypeOK, MicrophoneIsReleased,
       CallsUseShown, PlaysCurrentSample, OffersReady
  <2>4. WaitsHoldNothing'
    BY <1>1, <1>2, <1>3, <2>1, <2>2 DEF WaitsHoldNothing
  <2>5. ShownIsOpened' BY <2>1, <2>2 DEF ShownIsOpened
  <2> QED BY <1>2, <1>3, <2>2, <2>3, <2>4, <2>5 DEF MicInv
<1>5. CASE Done
  <2>1. /\ mic' = [Released(mic) EXCEPT !.status = "idle"] /\ prompting' = prompting
        /\ UNCHANGED dropped /\ mic.mounted /\ mic.status = "ready"
    BY <1>5 DEF Done, OffersReady
  <2>2. mic' \in Mic /\ mic'.player = 0 /\ mic'.mounted = mic.mounted
        /\ mic'.status = "idle" /\ mic'.sample \in {"idle", "recording", "playing"}
    BY <1>1, <2>1 DEF Mic
  <2>3. prompting = "nothing" BY <1>3, <2>1 DEF WaitsHoldNothing
  <2>4. MicrophoneIsSound'
    BY <1>1, <1>2, <1>3, <2>1, <2>2, <2>3
    DEF MicrophoneIsSound, MicTypeOK, MicrophoneIsReleased, CallsUseShown,
        PlaysCurrentSample, OffersReady
  <2>5. WaitsHoldNothing'
    BY <1>1, <1>2, <1>3, <2>1, <2>2, <2>3 DEF WaitsHoldNothing
  <2>6. ShownIsOpened' BY <2>1, <2>2, <2>3 DEF ShownIsOpened
  <2> QED BY <1>2, <1>3, <2>2, <2>4, <2>5, <2>6 DEF MicInv
<1>6. CASE Unmount
  <2>1. /\ mic' = [Released(mic) EXCEPT !.mounted = FALSE] /\ prompting' = prompting
        /\ dropped' = prompting /\ mic.mounted
    BY <1>6 DEF Unmount
  <2>2. mic' \in Mic /\ mic'.player = 0 /\ mic'.mounted = FALSE /\ mic'.stream = 0
        /\ mic'.sample \in {"idle", "recording", "playing"}
        /\ mic'.status \in {"idle", "requesting", "ready", "denied", "unavailable"}
    BY <1>1, <2>1 DEF Mic
  <2>3. MicrophoneIsSound'
    BY <1>1, <1>2, <1>3, <2>1, <2>2 DEF MicrophoneIsSound, MicTypeOK, MicrophoneIsReleased,
       CallsUseShown, PlaysCurrentSample, OffersReady
  <2>4. WaitsHoldNothing'
    BY <1>1, <1>2, <1>3, <2>1, <2>2 DEF WaitsHoldNothing, MicTypeOK
  <2>5. ShownIsOpened' BY <1>2, <1>3, <2>1, <2>2 DEF ShownIsOpened
  <2> QED BY <1>2, <1>3, <2>2, <2>3, <2>4, <2>5 DEF MicInv
<1> QED BY <1>4, <1>5, <1>6

\* The browser's answers.
LEMMA AnswersKeep ==
    ASSUME MicInv,
           \/ \E d \in Microphones : Granted(d, d) \/ Granted(d, NoDevice)
           \/ \E s \in {"denied", "unavailable"} : NotGranted(s)
           \/ Listed
    PROVE  MicInv'
<1>1. /\ mic \in Mic /\ opened \in 0..MaxStreams /\ MaxStreams \in Nat
      /\ device \in [Streams -> Microphones \cup {NoDevice}]
      /\ MicrophoneIsSound /\ WaitsHoldNothing /\ ShownIsOpened
      /\ streams \subseteq {mic.stream} /\ contexts \subseteq {mic.context}
      /\ mic.mounted \in BOOLEAN
      /\ mic.status \in {"idle", "requesting", "ready", "denied", "unavailable"}
      /\ mic.sample \in {"idle", "recording", "playing"}
      /\ streams \subseteq Streams /\ contexts \subseteq Streams
      /\ mic.player # 0 => mic.player = mic.stream
      /\ (storage = "refused" => stored = NoDevice)
      /\ storage \in {"kept", "refused"} /\ stored \in Microphones \cup {NoDevice}
  BY MicCheckAssumption DEF MicInv, MicrophoneIsSound, MicTypeOK, Mic, MicrophoneIsReleased,
     PlaysCurrentSample, CallsUseShown
<1>2. ASSUME NEW d \in Microphones, NEW id \in {d, NoDevice}, Granted(d, id)
      PROVE  MicInv'
  <2>1. /\ prompting = "permission" /\ opened' = opened + 1
        /\ device' = [device EXCEPT ![opened + 1] = d]
        /\ streams' = streams \cup {opened + 1}
        /\ mic' = [mic EXCEPT !.stream = opened + 1, !.shown = id]
        /\ stored' = IF id # NoDevice /\ storage = "kept" THEN id ELSE stored
        /\ prompting' = "devices" /\ UNCHANGED <<contexts, storage, dropped>>
    BY <1>2 DEF Granted, Remembered
  <2>2. /\ streams = {} /\ contexts = {} /\ mic.player = 0 /\ opened < MaxStreams
        /\ mic.mounted => dropped = "nothing" /\ mic.status = "requesting"
        /\ ~mic.mounted => dropped = "permission"
    BY <1>1, <2>1 DEF WaitsHoldNothing
  <2>3. opened + 1 \in Streams /\ opened + 1 \in 0..MaxStreams /\ opened + 1 # 0
    BY <1>1, <2>2 DEF Streams
  <2>4. device' \in [Streams -> Microphones \cup {NoDevice}] /\ device'[opened + 1] = d
    BY <1>1, <2>1, <2>3
  <2>5. mic' \in Mic /\ mic'.stream = opened + 1 /\ mic'.shown = id /\ mic'.player = 0
        /\ mic'.mounted = mic.mounted /\ mic'.status = mic.status /\ mic'.sample = mic.sample
        /\ mic'.context = mic.context
    BY <1>1, <2>1, <2>2, <2>3 DEF Mic
  <2>6. MicrophoneIsSound'
    BY <1>1, <2>1, <2>2, <2>3, <2>5 DEF MicrophoneIsSound, MicTypeOK, MicrophoneIsReleased,
       CallsUseShown, PlaysCurrentSample, OffersReady
  <2>7. WaitsHoldNothing' BY <1>1, <2>1, <2>2, <2>5 DEF WaitsHoldNothing
  <2>8. ShownIsOpened' BY <1>1, <2>1, <2>3, <2>4, <2>5 DEF ShownIsOpened
  <2> QED BY <2>1, <2>3, <2>4, <2>5, <2>6, <2>7, <2>8 DEF MicInv
<1>3. ASSUME NEW s \in {"denied", "unavailable"}, NotGranted(s) PROVE MicInv'
  <2>1. /\ prompting = "permission" /\ mic' = [mic EXCEPT !.status = Status(s)]
        /\ prompting' = "nothing"
        /\ UNCHANGED <<streams, contexts, opened, device, storage, stored, dropped>>
    BY <1>3 DEF NotGranted
  <2>2. /\ streams = {} /\ contexts = {} /\ mic.player = 0
        /\ mic.mounted => dropped = "nothing"
        /\ ~mic.mounted => dropped = "permission"
    BY <1>1, <2>1 DEF WaitsHoldNothing
  <2>3. mic' \in Mic /\ mic'.stream = mic.stream /\ mic'.player = mic.player
        /\ mic'.mounted = mic.mounted /\ mic'.sample = mic.sample
        /\ mic'.context = mic.context /\ (mic.mounted => mic'.status = s)
        /\ mic'.status \in {"idle", "requesting", "ready", "denied", "unavailable"}
    BY <1>1, <2>1 DEF Mic, Status
  <2>4. MicrophoneIsSound'
    BY <1>1, <2>1, <2>2, <2>3 DEF MicrophoneIsSound, MicTypeOK, MicrophoneIsReleased,
       CallsUseShown, PlaysCurrentSample, OffersReady
  <2>5. WaitsHoldNothing' BY <1>1, <2>1, <2>2, <2>3 DEF WaitsHoldNothing
  <2>6. ShownIsOpened' BY <2>1, <2>3 DEF ShownIsOpened
  <2> QED BY <1>1, <2>1, <2>3, <2>4, <2>5, <2>6 DEF MicInv
<1>4. CASE Listed
  <2>1. /\ prompting = "devices" /\ contexts' = contexts \cup {opened}
        /\ mic' = [mic EXCEPT !.context = opened, !.status = Status("ready")]
        /\ prompting' = "nothing"
        /\ UNCHANGED <<streams, opened, device, storage, stored, dropped>>
    BY <1>4 DEF Listed
  <2>2. /\ contexts = {} /\ opened # 0
        /\ mic.mounted => dropped = "nothing" /\ mic.stream # 0
        /\ mic.mounted /\ mic.shown # NoDevice =>
                /\ mic.shown = device[mic.stream]
                /\ stored = IF storage = "kept" THEN mic.shown ELSE NoDevice
        /\ ~mic.mounted => dropped # "nothing"
        /\ ~mic.mounted /\ streams # {} => dropped = "permission"
    BY <1>1, <2>1 DEF WaitsHoldNothing, ShownIsOpened
  <2>3. opened \in Streams BY <1>1, <2>2 DEF Streams
  <2>4. mic' \in Mic /\ mic'.stream = mic.stream /\ mic'.player = mic.player
        /\ mic'.mounted = mic.mounted /\ mic'.sample = mic.sample /\ mic'.shown = mic.shown
        /\ mic'.context = opened /\ (mic.mounted => mic'.status = "ready")
        /\ mic'.status \in {"idle", "requesting", "ready", "denied", "unavailable"}
    BY <1>1, <2>1 DEF Mic, Status
  <2>5. MicrophoneIsSound'
    BY <1>1, <2>1, <2>2, <2>3, <2>4 DEF MicrophoneIsSound, MicTypeOK, MicrophoneIsReleased,
       CallsUseShown, PlaysCurrentSample, OffersReady
  <2>6. WaitsHoldNothing' BY <1>1, <2>1, <2>2, <2>4 DEF WaitsHoldNothing
  <2>7. ShownIsOpened' BY <1>1, <2>1, <2>2, <2>4 DEF ShownIsOpened
  <2> QED BY <1>1, <2>1, <2>4, <2>5, <2>6, <2>7 DEF MicInv
<1> QED BY <1>2, <1>3, <1>4

\* Recording and playing a sample.
LEMMA SamplesKeep ==
    ASSUME MicInv, RecordSample \/ RecorderStops \/ PlaybackEnds
    PROVE  MicInv'
<1>1. /\ mic \in Mic /\ MicrophoneIsSound /\ WaitsHoldNothing /\ ShownIsOpened
      /\ mic.player # 0 => mic.player = mic.stream
      /\ streams \subseteq {mic.stream} /\ opened \in 0..MaxStreams
  BY DEF MicInv, MicrophoneIsSound, PlaysCurrentSample, MicrophoneIsReleased
<1>2. UNCHANGED <<prompting, streams, contexts, opened, device, storage, stored,
                  dropped>>
  BY DEF RecordSample, RecorderStops, PlaybackEnds
<1>3. /\ mic' \in Mic /\ mic'.mounted = mic.mounted /\ mic'.status = mic.status
      /\ mic'.stream = mic.stream /\ mic'.context = mic.context /\ mic'.shown = mic.shown
      /\ mic'.sample \in {"idle", "recording", "playing"}
      /\ mic'.player # 0 => mic'.player = mic.stream
  <2>1. CASE RecordSample
    <3>1. mic' = [mic EXCEPT !.sample = "recording", !.recorder = mic.stream]
      BY <2>1 DEF RecordSample
    <3> QED BY <1>1, <3>1 DEF Mic
  <2>2. CASE RecorderStops
    <3> DEFINE player == IF Plays THEN mic.recorder ELSE mic.player
               sample == IF Plays THEN "playing" ELSE mic.sample
    <3>0. 0 \in 0..MaxStreams BY MicCheckAssumption
    <3>1. mic' = [mic EXCEPT !.recorder = 0, !.player = player, !.sample = sample]
      BY <2>2 DEF RecorderStops
    <3>2. player \in 0..MaxStreams /\ sample \in {"idle", "recording", "playing"}
          /\ (player # 0 => player = mic.stream)
      BY <1>1 DEF Plays, Mic
    <3> HIDE DEF player, sample
    <3> QED BY <1>1, <3>0, <3>1, <3>2 DEF Mic
  <2>3. CASE PlaybackEnds
    <3>0. 0 \in 0..MaxStreams BY MicCheckAssumption
    <3>1. mic' = [mic EXCEPT !.player = 0, !.sample = "idle"]
      BY <2>3 DEF PlaybackEnds
    <3> QED BY <1>1, <3>0, <3>1 DEF Mic
  <2> QED BY <2>1, <2>2, <2>3
<1>4. MicrophoneIsSound'
  BY <1>1, <1>2, <1>3 DEF MicrophoneIsSound, MicTypeOK, MicrophoneIsReleased,
     CallsUseShown, PlaysCurrentSample, OffersReady
<1>5. prompting = "permission" => mic'.player = 0 BY <1>1, <1>3 DEF WaitsHoldNothing
<1>6. WaitsHoldNothing' BY <1>1, <1>2, <1>3, <1>5 DEF WaitsHoldNothing
<1>7. ShownIsOpened' BY <1>1, <1>2, <1>3 DEF ShownIsOpened
<1> QED BY <1>2, <1>3, <1>4, <1>6, <1>7 DEF MicInv

\* Whatever the creator does while the browser asks, lists or plays: the microphone that
\* is on is the one the row shows and calls will use, none is on when the row says so, and
\* no sample of another is played (useMicrophoneCheck).
THEOREM MicSafe == MicSpec => []MicrophoneIsSound
<1>1. MicInit => MicInv
  <2> SUFFICES ASSUME MicInit PROVE MicInv OBVIOUS
  <2> USE DEF MicInit
  <2>1. 0 \in 0..MaxStreams BY MicCheckAssumption
  <2>2. mic \in Mic BY <2>1 DEF Mic
  <2>3. opened \in 0..MaxStreams /\ device \in [Streams -> Microphones \cup {NoDevice}]
    BY <2>1
  <2>4. MicrophoneIsSound
    BY DEF MicrophoneIsSound, MicTypeOK, MicrophoneIsReleased, CallsUseShown,
       PlaysCurrentSample, OffersReady
  <2>5. WaitsHoldNothing /\ ShownIsOpened BY DEF WaitsHoldNothing, ShownIsOpened
  <2> QED BY <2>2, <2>3, <2>4, <2>5 DEF MicInv
<1>2. MicInv /\ [MicNext]_micVars => MicInv'
  <2>1. ASSUME MicInv, MicNext PROVE MicInv'
    BY <2>1, ReleasingKeeps, AnswersKeep, SamplesKeep DEF MicNext
  <2>2. ASSUME MicInv, UNCHANGED micVars PROVE MicInv'
    BY <2>2 DEF micVars, MicInv, MicrophoneIsSound, MicTypeOK, MicrophoneIsReleased,
       CallsUseShown, PlaysCurrentSample, OffersReady, WaitsHoldNothing, ShownIsOpened
  <2> QED BY <2>1, <2>2
<1>3. MicInv => MicrophoneIsSound BY DEF MicInv
<1> QED BY <1>1, <1>2, <1>3, PTL DEF MicSpec

-----------------------------------------------------------------------------
(* The follow buttons.                                                     *)

\* A follow in flight has what it needs to be undone.
ChangeHasShape ==
    /\ change = [at |-> change.at, creator |-> change.creator, to |-> change.to,
                 before |-> change.before]
    /\ change.before \in [Lists -> SUBSET Creators]
    /\ change.at \in {"sent", "done", "refused"} => change.creator \in Creators

\* A fetch that began before a press is cancelled by it, so that one that counts as
\* sound reads what the server holds; a list that is off screen with a fetch under way is
\* doubted.
FetchesAreSound ==
    /\ \A l \in Lists : fetch[l].sound => change.at \in {"none", "settles"}
    /\ \A l \in Lists : fetch[l].at = "none" => fetch[l] = NoFetch
    /\ route # "following" /\ fetch["following"] # NoFetch => "following" \in doubted
    /\ change.at \in {"none", "settles"} => \A l \in Lists :
         fetch[l].at = "read" =>
            \/ fetch[l].read = followed
            \/ /\ l = "following" /\ l \in doubted /\ ~fetch[l].sound

\* When no follow is being answered, a list that is not right is doubted or will be
\* fetched again.
ListsCatchUp ==
    change.at \in {"none", "settles"} =>
        /\ \/ "directory" \in doubted
           \/ list["directory"] = followed
           \/ change.at = "settles" /\ fetch["directory"] # NoFetch
        /\ \/ "following" \in doubted
           \/ list["following"] = followed
           \/ fetch["following"] # NoFetch
           \/ "following" \in invalid /\ route # "following"

FollowInv ==
    /\ FollowTypeOK
    /\ ChangeHasShape
    /\ FetchesAreSound
    /\ ListsCatchUp

FetchStates == [at : {"none", "asked", "read"}, read : SUBSET Creators, sound : BOOLEAN]

\* The parts of the invariant, and what they range over.
LEMMA FollowShape ==
    ASSUME FollowInv
    PROVE  /\ followed \subseteq Creators /\ list \in [Lists -> SUBSET Creators]
           /\ fetch \in [Lists -> FetchStates] /\ invalid \subseteq Lists /\ route \in Lists
           /\ change.at \in {"none", "sent", "done", "refused", "settles"}
           /\ presses \in 0..MaxPresses /\ doubted \subseteq Lists
           /\ ChangeHasShape /\ FetchesAreSound /\ ListsCatchUp
BY DEF FollowInv, FollowTypeOK, FetchStates

\* What a fetch can be.
LEMMA FetchKinds ==
    /\ NoFetch \in FetchStates /\ NoFetch.at = "none" /\ NoFetch.sound = FALSE
    /\ \A sound \in BOOLEAN : /\ Fetching(sound) \in FetchStates
                              /\ Fetching(sound).at = "asked"
                              /\ Fetching(sound).sound = sound
                              /\ Fetching(sound) # NoFetch
<1>1. NoFetch \in FetchStates /\ NoFetch.at = "none" /\ NoFetch.sound = FALSE
  BY DEF NoFetch, FetchStates
<1>2. ASSUME NEW sound \in BOOLEAN
      PROVE  Fetching(sound) \in FetchStates /\ Fetching(sound).at = "asked"
             /\ Fetching(sound).sound = sound
  BY DEF Fetching, FetchStates
<1>3. \A sound \in BOOLEAN : Fetching(sound) # NoFetch BY <1>1, <1>2
<1> QED BY <1>1, <1>2, <1>3

\* A list is polled, and read at the server.
LEMMA FetchingKeeps ==
    ASSUME FollowInv, NEW l \in Lists, PollList(l) \/ ReadList(l)
    PROVE  FollowInv'
<1>1. /\ followed \subseteq Creators /\ list \in [Lists -> SUBSET Creators]
      /\ fetch \in [Lists -> FetchStates] /\ invalid \subseteq Lists /\ route \in Lists
      /\ change.at \in {"none", "sent", "done", "refused", "settles"}
      /\ presses \in 0..MaxPresses /\ doubted \subseteq Lists
      /\ ChangeHasShape /\ FetchesAreSound /\ ListsCatchUp
  BY FollowShape
<1>2. UNCHANGED <<followed, list, invalid, route, change, presses, doubted>>
  BY DEF PollList, ReadList
<1>3. PICK f \in FetchStates :
        /\ fetch' = [fetch EXCEPT ![l] = f] /\ f # NoFetch /\ f.at # "none"
        /\ f.sound => change.at \in {"none", "settles"}
        /\ f.at = "read" => f.read = followed
        /\ Mounted(l) \/ fetch[l] # NoFetch
  <2>1. CASE PollList(l)
    <3>1. fetch' = [fetch EXCEPT ![l] = Fetching(change.at = "none")] /\ Mounted(l)
      BY <2>1 DEF PollList
    <3>2. (change.at = "none") \in BOOLEAN OBVIOUS
    <3>3. /\ Fetching(change.at = "none") \in FetchStates
          /\ Fetching(change.at = "none").at = "asked"
          /\ Fetching(change.at = "none").sound = (change.at = "none")
          /\ Fetching(change.at = "none") # NoFetch
      BY <3>2, FetchKinds
    <3> QED BY <3>1, <3>3
  <2>2. CASE ReadList(l)
    <3> DEFINE f == [fetch[l] EXCEPT !.at = "read", !.read = followed]
    <3>1. fetch' = [fetch EXCEPT ![l].at = "read", ![l].read = followed]
          /\ fetch[l].at = "asked"
      BY <2>2 DEF ReadList
    <3>2. fetch[l] \in FetchStates BY <1>1
    <3>3. f \in FetchStates /\ f.at = "read" /\ f.read = followed /\ f.sound = fetch[l].sound
      BY <1>1, <3>2 DEF FetchStates
    <3>4. fetch' = [fetch EXCEPT ![l] = f] BY <1>1, <3>1, <3>2 DEF FetchStates
    <3>5. f # NoFetch /\ fetch[l] # NoFetch BY <3>1, <3>3, FetchKinds
    <3>6. fetch[l].sound => change.at \in {"none", "settles"} BY <1>1 DEF FetchesAreSound
    <3> HIDE DEF f
    <3> QED BY <3>3, <3>4, <3>5, <3>6
  <2> QED BY <2>1, <2>2
<1>4. fetch' \in [Lists -> FetchStates] /\ fetch'[l] = f
      /\ \A k \in Lists : k # l => fetch'[k] = fetch[k]
  BY <1>1, <1>3
<1>5. ChangeHasShape' BY <1>1, <1>2 DEF ChangeHasShape
<1>6. FetchesAreSound'
  <2>1. \A k \in Lists : fetch'[k].sound => change.at \in {"none", "settles"}
    BY <1>1, <1>3, <1>4 DEF FetchesAreSound
  <2>2. \A k \in Lists : fetch'[k].at = "none" => fetch'[k] = NoFetch
    BY <1>1, <1>3, <1>4 DEF FetchesAreSound
  <2>3. route # "following" /\ fetch'["following"] # NoFetch => "following" \in doubted
    BY <1>1, <1>3, <1>4 DEF FetchesAreSound, Mounted, Lists
  <2>4. change.at \in {"none", "settles"} => \A k \in Lists :
            fetch'[k].at = "read" =>
                \/ fetch'[k].read = followed
                \/ k = "following" /\ k \in doubted /\ ~fetch'[k].sound
    BY <1>1, <1>3, <1>4 DEF FetchesAreSound
  <2> QED BY <1>2, <2>1, <2>2, <2>3, <2>4 DEF FetchesAreSound
<1>7. ListsCatchUp'
  <2>1. \A k \in Lists : fetch[k] # NoFetch => fetch'[k] # NoFetch BY <1>3, <1>4
  <2> QED BY <1>1, <1>2, <2>1 DEF ListsCatchUp, Lists
<1>8. FollowTypeOK' BY <1>1, <1>2, <1>4 DEF FollowTypeOK, FetchStates
<1> QED BY <1>5, <1>6, <1>7, <1>8 DEF FollowInv

\* A fetch ends: its answer replaces the list, or it fails and the list is doubted.
LEMMA FetchedKeeps ==
    ASSUME FollowInv, NEW l \in Lists, ListArrives(l) \/ ListFails(l)
    PROVE  FollowInv'
<1>1. /\ followed \subseteq Creators /\ list \in [Lists -> SUBSET Creators]
      /\ fetch \in [Lists -> FetchStates] /\ invalid \subseteq Lists /\ route \in Lists
      /\ doubted \subseteq Lists
      /\ ChangeHasShape /\ FetchesAreSound /\ ListsCatchUp
  BY FollowShape
<1>2. UNCHANGED <<followed, route, change, presses>> /\ fetch[l] \in FetchStates
      /\ fetch' = [fetch EXCEPT ![l] = NoFetch] /\ fetch[l].at # "none"
  BY <1>1 DEF ListArrives, ListFails
<1>3. fetch' \in [Lists -> FetchStates] /\ fetch'[l] = NoFetch
      /\ \A k \in Lists : k # l => fetch'[k] = fetch[k]
  BY <1>1, <1>2, FetchKinds
<1>4. ChangeHasShape' BY <1>1, <1>2 DEF ChangeHasShape
<1>5. \A k \in Lists : k # l => (k \in doubted' <=> k \in doubted)
  BY DEF ListArrives, ListFails
<1>6. FetchesAreSound'
  <2>1. \A k \in Lists : fetch'[k].sound => change.at \in {"none", "settles"}
    BY <1>1, <1>3, FetchKinds DEF FetchesAreSound
  <2>2. \A k \in Lists : fetch'[k].at = "none" => fetch'[k] = NoFetch
    BY <1>1, <1>3 DEF FetchesAreSound
  <2>3. route # "following" /\ fetch'["following"] # NoFetch => "following" \in doubted'
    BY <1>1, <1>3, <1>5 DEF FetchesAreSound, Lists
  <2>4. ASSUME change.at \in {"none", "settles"}, NEW k \in Lists, fetch'[k].at = "read"
        PROVE  \/ fetch'[k].read = followed
               \/ k = "following" /\ k \in doubted' /\ ~fetch'[k].sound
    <3>1. k # l BY <1>3, <2>4, FetchKinds
    <3> QED BY <1>1, <1>3, <1>5, <2>4, <3>1 DEF FetchesAreSound
  <2> QED BY <1>2, <2>1, <2>2, <2>3, <2>4 DEF FetchesAreSound
<1>7. CASE ListArrives(l)
  <2>1. /\ list' = [list EXCEPT ![l] = fetch[l].read] /\ invalid' = invalid \ {l}
        /\ doubted' = IF fetch[l].sound THEN doubted \ {l} ELSE doubted
        /\ fetch[l].at = "read"
    BY <1>7 DEF ListArrives
  <2>2. fetch[l].read \in SUBSET Creators BY <1>2 DEF FetchStates
  <2>3. list' \in [Lists -> SUBSET Creators] /\ list'[l] = fetch[l].read
        /\ \A k \in Lists : k # l => list'[k] = list[k]
    BY <1>1, <2>1, <2>2
  <2>4. FollowTypeOK'
    BY <1>1, <1>2, <1>3, <2>1, <2>3 DEF FollowInv, FollowTypeOK, FetchStates
  <2>5. change.at \in {"none", "settles"} => list'[l] = followed \/ l \in doubted'
    BY <1>1, <2>1, <2>3 DEF FetchesAreSound
  <2>6. ListsCatchUp'
    BY <1>1, <1>2, <1>3, <1>5, <2>1, <2>3, <2>5 DEF ListsCatchUp, Lists
  <2> QED BY <1>4, <1>6, <2>4, <2>6 DEF FollowInv
<1>8. CASE ListFails(l)
  <2>1. doubted' = doubted \cup {l} /\ UNCHANGED <<list, invalid>>
    BY <1>8 DEF ListFails
  <2>2. FollowTypeOK' BY <1>1, <1>2, <1>3, <2>1 DEF FollowInv, FollowTypeOK, FetchStates
  <2>3. ListsCatchUp' BY <1>1, <1>2, <1>3, <2>1 DEF ListsCatchUp, Lists
  <2> QED BY <1>4, <1>6, <2>2, <2>3 DEF FollowInv
<1> QED BY <1>7, <1>8

\* The other page.
LEMMA TurnKeeps ==
    ASSUME FollowInv, Turn
    PROVE  FollowInv'
<1>1. /\ fetch \in [Lists -> FetchStates] /\ invalid \subseteq Lists /\ route \in Lists
      /\ doubted \subseteq Lists
      /\ ChangeHasShape /\ FetchesAreSound /\ ListsCatchUp
  BY FollowShape
<1>2. PICK l \in Lists :
        /\ l # route /\ route' = l
        /\ fetch' = IF l \in invalid /\ fetch[l] = NoFetch
                    THEN [fetch EXCEPT ![l] = Fetching(change.at = "none")] ELSE fetch
  BY DEF Turn
<1>3. /\ doubted' = IF route = "following" /\ fetch["following"] # NoFetch
                    THEN doubted \cup {"following"} ELSE doubted
      /\ UNCHANGED <<followed, list, invalid, change, presses>>
  BY DEF Turn
<1>4. (change.at = "none") \in BOOLEAN OBVIOUS
<1>5. /\ Fetching(change.at = "none") \in FetchStates
      /\ Fetching(change.at = "none").at = "asked"
      /\ Fetching(change.at = "none").sound = (change.at = "none")
      /\ Fetching(change.at = "none") # NoFetch
  BY <1>4, FetchKinds
<1>6. /\ fetch' \in [Lists -> FetchStates]
      /\ \A k \in Lists :
            \/ fetch'[k] = fetch[k] /\ ~(k = l /\ l \in invalid /\ fetch[l] = NoFetch)
            \/ fetch'[k] = Fetching(change.at = "none") /\ k = l
  BY <1>1, <1>2, <1>5
<1>7. FollowTypeOK' BY <1>1, <1>2, <1>3, <1>6 DEF FollowInv, FollowTypeOK, FetchStates, Lists
<1>8. ChangeHasShape' BY <1>1, <1>3 DEF ChangeHasShape
<1>9. FetchesAreSound'
  <2>1. \A k \in Lists : fetch'[k].sound => change.at \in {"none", "settles"}
    BY <1>1, <1>5, <1>6 DEF FetchesAreSound
  <2>2. \A k \in Lists : fetch'[k].at = "none" => fetch'[k] = NoFetch
    BY <1>1, <1>5, <1>6 DEF FetchesAreSound
  <2>3. route' # "following" /\ fetch'["following"] # NoFetch => "following" \in doubted'
    BY <1>1, <1>2, <1>3, <1>6 DEF FetchesAreSound, Lists
  <2>4. change.at \in {"none", "settles"} => \A k \in Lists :
            fetch'[k].at = "read" =>
                \/ fetch'[k].read = followed
                \/ k = "following" /\ k \in doubted' /\ ~fetch'[k].sound
    BY <1>1, <1>3, <1>5, <1>6 DEF FetchesAreSound
  <2> QED BY <1>3, <2>1, <2>2, <2>3, <2>4 DEF FetchesAreSound
<1>10. ListsCatchUp'
  <2>1. \A k \in Lists : fetch[k] # NoFetch => fetch'[k] # NoFetch BY <1>5, <1>6
  <2>2. doubted \subseteq doubted' BY <1>3
  <2>3. route' = "following" /\ "following" \in invalid => fetch'["following"] # NoFetch
    BY <1>2, <1>5, <1>6 DEF Lists
  <2> QED BY <1>1, <1>3, <2>1, <2>2, <2>3 DEF ListsCatchUp, Lists
<1> QED BY <1>7, <1>8, <1>9, <1>10 DEF FollowInv

\* A press cancels every fetch.
LEMMA PressKeeps ==
    ASSUME FollowInv, NEW l \in Lists, NEW c \in Creators, PressFollow(l, c)
    PROVE  FollowInv'
<1>1. /\ followed \subseteq Creators /\ list \in [Lists -> SUBSET Creators]
      /\ invalid \subseteq Lists /\ route \in Lists /\ doubted \subseteq Lists
      /\ presses \in 0..MaxPresses /\ MaxPresses \in Nat
  BY FollowShape, FollowCacheAssumption
<1>2. /\ presses < MaxPresses /\ presses' = presses + 1
      /\ fetch' = [k \in Lists |-> NoFetch]
      /\ change' = [at |-> "sent", creator |-> c, to |-> c \notin list[l], before |-> list]
      /\ list' = [k \in Lists |-> Optimistic(k, c, c \notin list[l])]
      /\ UNCHANGED <<followed, invalid, route, doubted>>
  BY DEF PressFollow
<1>3. list' \in [Lists -> SUBSET Creators]
  <2>1. \A k \in Lists : Optimistic(k, c, c \notin list[l]) \in SUBSET Creators
    BY <1>1 DEF Optimistic
  <2> QED BY <1>2, <2>1
<1>4. fetch' \in [Lists -> FetchStates] /\ \A k \in Lists : fetch'[k] = NoFetch
  BY <1>2, FetchKinds
<1>5. FollowTypeOK'
  <2>1. presses' \in 0..MaxPresses BY <1>1, <1>2
  <2> QED BY <1>1, <1>2, <1>3, <1>4, <2>1 DEF FollowTypeOK, FetchStates
<1>6. ChangeHasShape' BY <1>1, <1>2 DEF ChangeHasShape
<1>7. FetchesAreSound' BY <1>2, <1>4, FetchKinds DEF FetchesAreSound, Lists
<1>8. ListsCatchUp' BY <1>2 DEF ListsCatchUp
<1> QED BY <1>5, <1>6, <1>7, <1>8 DEF FollowInv

\* The server sets or refuses the follow.
LEMMA ServerKeeps ==
    ASSUME FollowInv, SetFollow \/ RefuseFollow
    PROVE  FollowInv'
<1>1. /\ followed \subseteq Creators /\ ChangeHasShape /\ FetchesAreSound
  BY FollowShape
<1>2. /\ change.at = "sent" /\ UNCHANGED <<list, fetch, invalid, route, presses, doubted>>
      /\ \E at \in {"done", "refused"} : change' = [change EXCEPT !.at = at]
      /\ followed' \in {followed, followed \cup {change.creator}, followed \ {change.creator}}
  BY DEF SetFollow, RefuseFollow
<1>3. change'.at \in {"done", "refused"} /\ change'.creator = change.creator
      /\ change'.to = change.to /\ change'.before = change.before
      /\ change' = [at |-> change'.at, creator |-> change'.creator, to |-> change'.to,
                    before |-> change'.before]
  BY <1>1, <1>2 DEF ChangeHasShape
<1>4. FollowTypeOK' BY <1>1, <1>2, <1>3 DEF FollowInv, FollowTypeOK, ChangeHasShape
<1>5. ChangeHasShape' BY <1>1, <1>2, <1>3 DEF ChangeHasShape
<1>6. FetchesAreSound' BY <1>1, <1>2, <1>3 DEF FetchesAreSound
<1>7. ListsCatchUp' BY <1>3 DEF ListsCatchUp
<1> QED BY <1>4, <1>5, <1>6, <1>7 DEF FollowInv

\* The answer puts back what a refusal must, and fetches what is on screen again.
LEMMA AnswerKeeps ==
    ASSUME FollowInv, AnswerFollow
    PROVE  FollowInv'
<1>1. /\ followed \subseteq Creators /\ list \in [Lists -> SUBSET Creators]
      /\ fetch \in [Lists -> FetchStates] /\ route \in Lists /\ doubted \subseteq Lists
      /\ ChangeHasShape /\ FetchesAreSound
  BY FollowShape
<1>2. /\ change.at \in {"done", "refused"}
      /\ list' = IF change.at = "refused" THEN change.before ELSE list
      /\ fetch' = [l \in Lists |-> Refetched(l)] /\ invalid' = Lists
      /\ change' = [NoChange EXCEPT !.at = "settles"]
      /\ UNCHANGED <<followed, route, presses, doubted>>
  BY DEF AnswerFollow
<1>3. /\ change'.at = "settles" /\ change'.before = [l \in Lists |-> {}]
      /\ change' = [at |-> change'.at, creator |-> change'.creator, to |-> change'.to,
                    before |-> change'.before]
  BY <1>2 DEF NoChange
<1>4. list' \in [Lists -> SUBSET Creators] BY <1>1, <1>2 DEF ChangeHasShape
<1>5. /\ Fetching(TRUE) \in FetchStates /\ Fetching(TRUE).at = "asked"
      /\ Fetching(TRUE) # NoFetch
  BY FetchKinds
<1>6. /\ fetch' \in [Lists -> FetchStates]
      /\ \A l \in Lists : \/ Mounted(l) /\ fetch'[l] = Fetching(TRUE)
                          \/ ~Mounted(l) /\ fetch'[l] = fetch[l]
  BY <1>1, <1>2, <1>5 DEF Refetched
<1>7. FollowTypeOK' BY <1>1, <1>2, <1>3, <1>4, <1>6 DEF FollowInv, FollowTypeOK, FetchStates
<1>8. ChangeHasShape' BY <1>3 DEF ChangeHasShape
<1>9. FetchesAreSound'
  <2>1. \A l \in Lists : fetch'[l].at = "none" => fetch'[l] = NoFetch
    BY <1>1, <1>5, <1>6 DEF FetchesAreSound
  <2>2. route # "following" /\ fetch'["following"] # NoFetch => "following" \in doubted
    BY <1>1, <1>6 DEF FetchesAreSound, Mounted, Lists
  <2>3. ASSUME NEW l \in Lists, fetch'[l].at = "read"
        PROVE  l = "following" /\ l \in doubted /\ ~fetch'[l].sound
    <3>1. ~Mounted(l) /\ fetch'[l] = fetch[l] BY <1>5, <1>6, <2>3
    <3>2. l = "following" /\ route # "following" BY <3>1 DEF Mounted, Lists
    <3>3. fetch[l] # NoFetch /\ ~fetch[l].sound
      BY <1>1, <1>2, <2>3, <3>1, FetchKinds DEF FetchesAreSound
    <3> QED BY <1>1, <3>1, <3>2, <3>3 DEF FetchesAreSound
  <2> QED BY <1>2, <1>3, <2>1, <2>2, <2>3 DEF FetchesAreSound
<1>10. ListsCatchUp'
  <2>1. fetch'["directory"] # NoFetch BY <1>5, <1>6 DEF Mounted, Lists
  <2>2. route # "following" \/ fetch'["following"] # NoFetch
    BY <1>5, <1>6 DEF Mounted, Lists
  <2> QED BY <1>2, <1>3, <2>1, <2>2 DEF ListsCatchUp, Lists
<1> QED BY <1>7, <1>8, <1>9, <1>10 DEF FollowInv

\* The mutation is over when the lists on screen are fetched.
LEMMA SettleKeeps ==
    ASSUME FollowInv, SettleFollow
    PROVE  FollowInv'
<1>1. ChangeHasShape /\ FetchesAreSound /\ ListsCatchUp /\ route \in Lists
  BY FollowShape
<1>2. /\ change.at = "settles" /\ change' = NoChange
      /\ \A l \in Lists : Mounted(l) => fetch[l] = NoFetch
      /\ UNCHANGED <<followed, list, fetch, invalid, route, presses, doubted>>
  BY DEF SettleFollow
<1>3. /\ change'.at = "none" /\ change'.before = [l \in Lists |-> {}]
      /\ change' = [at |-> change'.at, creator |-> change'.creator, to |-> change'.to,
                    before |-> change'.before]
  BY <1>2 DEF NoChange
<1>4. FollowTypeOK' BY <1>2, <1>3 DEF FollowInv, FollowTypeOK
<1>5. ChangeHasShape' BY <1>3 DEF ChangeHasShape
<1>6. FetchesAreSound' BY <1>1, <1>2, <1>3 DEF FetchesAreSound
<1>7. fetch["directory"] = NoFetch BY <1>2 DEF Mounted, Lists
<1>8. ListsCatchUp' BY <1>1, <1>2, <1>3, <1>7 DEF ListsCatchUp
<1> QED BY <1>4, <1>5, <1>6, <1>8 DEF FollowInv

\* Through polls that overtake a follow, refusals, rollbacks and changes of page: a follow
\* button that can be pressed says what the server holds, unless a fetch of its list
\* failed or was left (useFollowCreator).
THEOREM FollowSafe == FollowSpec => []FollowButtonsAreSound
<1>1. FollowInit => FollowInv
  <2> SUFFICES ASSUME FollowInit PROVE FollowInv OBVIOUS
  <2> USE DEF FollowInit
  <2>1. \A l \in Lists : fetch[l] = NoFetch /\ list[l] = followed OBVIOUS
  <2>2. fetch \in [Lists -> FetchStates] /\ presses \in 0..MaxPresses
    BY FetchKinds, FollowCacheAssumption
  <2>3. /\ change.at = "none" /\ change.before = [l \in Lists |-> {}]
        /\ change = [at |-> change.at, creator |-> change.creator, to |-> change.to,
                     before |-> change.before]
    BY DEF NoChange
  <2>4. FollowTypeOK BY <2>2, <2>3 DEF FollowTypeOK, FetchStates
  <2>5. ChangeHasShape BY <2>3 DEF ChangeHasShape
  <2>6. FetchesAreSound BY <2>1, FetchKinds DEF FetchesAreSound, Lists
  <2>7. ListsCatchUp BY <2>1 DEF ListsCatchUp, Lists
  <2> QED BY <2>4, <2>5, <2>6, <2>7 DEF FollowInv
<1>2. FollowInv /\ [FollowNext]_followVars => FollowInv'
  <2>1. ASSUME FollowInv, FollowNext PROVE FollowInv'
    BY <2>1, FetchingKeeps, FetchedKeeps, TurnKeeps, PressKeeps, ServerKeeps, AnswerKeeps,
       SettleKeeps DEF FollowNext
  <2>2. ASSUME FollowInv, UNCHANGED followVars PROVE FollowInv'
    BY <2>2 DEF followVars, FollowInv, FollowTypeOK, ChangeHasShape, FetchesAreSound,
       ListsCatchUp, Mounted
  <2> QED BY <2>1, <2>2
<1>3. FollowInv => FollowButtonsAreSound
  <2>1. FollowInv => ButtonsTellTruth
    BY DEF FollowInv, ButtonsTellTruth, FollowBusy, ListsCatchUp, FollowTypeOK
  <2> QED BY <2>1 DEF FollowInv, FollowButtonsAreSound
<1> QED BY <1>1, <1>2, <1>3, PTL DEF FollowSpec

-----------------------------------------------------------------------------
(* A browser's session. *)

\* A tab may make one more account: it holds no session, it has decided to sign in, or the
\* server sees no session of it and it does not wait for one.
MayMake(t) ==
  IF \/ session[t].token = NoOne
     \/ pending[t] = "signs"
     \/ session[t].served = NoOne /\ pending[t] # "waits"
  THEN 1 ELSE 0

\* A sign-out that the tab has not heard of.
MayLose(t) == IF news[t] = NoOne THEN 1 ELSE 0

\* The accounts a tab made, with those it may still make, are one and the excused ones.
AccountsAreCounted ==
  \A t \in SessionTabs : made[t] + MayMake(t) + MayLose(t) <= 1 + pardon.guests[t]

\* Every account of a tab is one of the browser's.
MadeIsCounted == \A t \in SessionTabs : made[t] <= guests

\* Without a sign-out a session that was once seen stays.
SessionStays ==
  ~pardon.signedOut =>
    \A t \in SessionTabs :
      /\ news[t] # NoOne
      /\ session[t].served # NoOne => session[t].token # NoOne
      /\ session[t].shown => session[t].served # NoOne

\* A settled password sign-in is what the tab holds and the server sees.
LandedIsMember ==
  pardon.landed => /\ session[ThisTab].token = Member
                   /\ session[ThisTab].served = Member
                   /\ me.cached = Member

\* What every step keeps.
SignInInv ==
  /\ SignInTypeOK
  /\ AccountsAreCounted
  /\ MadeIsCounted
  /\ SessionStays
  /\ LandedIsMember
  /\ CallsFindSession

\* A browser that has just been opened.
LEMMA SignInStarts == SignInInit => SignInInv
BY SignInAssumption
DEF SignInInit, SignInInv, SignInTypeOK, AccountsAreCounted, MayMake, MayLose, MadeIsCounted,
    SessionStays, LandedIsMember, CallsFindSession, Identities, Guests, NoOne, Member, Nothing,
    Public, HasSession

\* The identities are numbers, and a member is none of the guests.
LEMMA IdentityKinds ==
  /\ NoOne \in Identities /\ Member \in Identities /\ NoOne # Member
  /\ Nothing \notin Identities /\ Nothing # NoOne
  /\ \A g \in 1..MaxGuests : g \in Identities /\ g # NoOne /\ g # Member
BY SignInAssumption DEF Identities, Guests, NoOne, Member, Nothing

\* What each step does to the sessions, the promises and the counts keeps their types.
LEMMA SignInTyped ==
  ASSUME SignInTypeOK, MadeIsCounted, SignInNext
  PROVE  SignInTypeOK' /\ MadeIsCounted'
<1> USE SignInAssumption, IdentityKinds DEF SignInTypeOK, MadeIsCounted, pageParts
<1>1. ASSUME NEW a \in Askers, AskSession(a) PROVE SignInTypeOK' /\ MadeIsCounted'
  BY <1>1 DEF AskSession, Shared
<1>2. ASSUME NEW a \in Askers, Call(a) PROVE SignInTypeOK' /\ MadeIsCounted'
  BY <1>2 DEF Call
<1>3. ASSUME NEW t \in SessionTabs, AskServer(t) PROVE SignInTypeOK' /\ MadeIsCounted'
  BY <1>3 DEF AskServer, AfterAsking, Resolved, HasSession
<1>4. ASSUME NEW t \in SessionTabs, SignInAnonymously(t) PROVE SignInTypeOK' /\ MadeIsCounted'
  <2>1. /\ guests < MaxGuests /\ guests' = guests + 1 /\ made' = [made EXCEPT ![t] = made[t] + 1]
        /\ session' = [session EXCEPT ![t].token = guests + 1]
        /\ news' = [u \in SessionTabs |-> IF u = t THEN news[u] ELSE guests + 1]
        /\ pending' = [pending EXCEPT ![t] = "waits"]
        /\ pardon' = [pardon EXCEPT !.landed = pardon.landed /\ t # ThisTab]
        /\ UNCHANGED <<asker, login, screen, me>>
    BY <1>4 DEF SignInAnonymously, AfterSignIn, Stores
  <2>2. guests + 1 \in 1..MaxGuests /\ guests' \in 0..MaxGuests BY <2>1
  <2>3. made' \in [SessionTabs -> 0..MaxGuests] /\ \A u \in SessionTabs : made'[u] <= guests'
    BY <2>1, <2>2
  <2>4. session' \in [SessionTabs -> [token : Identities, served : Identities, shown : BOOLEAN]]
    BY <2>1, <2>2
  <2>5. news' \in [SessionTabs -> Identities \cup {Nothing}] BY <2>1, <2>2
  <2>6. (pardon.landed /\ t # ThisTab) \in BOOLEAN OBVIOUS
  <2>7. pardon' \in [guests : [SessionTabs -> Nat], signedOut : BOOLEAN, landed : BOOLEAN]
    BY <2>1, <2>6
  <2> QED BY <2>1, <2>2, <2>3, <2>4, <2>5, <2>7
<1>5. ASSUME NEW t \in SessionTabs, SignInFails(t) PROVE SignInTypeOK' /\ MadeIsCounted'
  <2>1. PICK lost \in 0..1 :
          /\ guests + lost <= MaxGuests /\ guests' = guests + lost
          /\ made' = [made EXCEPT ![t] = made[t] + lost]
          /\ pardon' = [pardon EXCEPT !.guests[t] = pardon.guests[t] + lost]
    BY <1>5 DEF SignInFails
  <2>2. /\ guests' \in 0..MaxGuests
        /\ made' \in [SessionTabs -> 0..MaxGuests] /\ \A u \in SessionTabs : made'[u] <= guests'
    BY <2>1
  <2>3. pardon' \in [guests : [SessionTabs -> Nat], signedOut : BOOLEAN, landed : BOOLEAN]
    <3>1. pardon.guests[t] + lost \in Nat OBVIOUS
    <3>2. [pardon.guests EXCEPT ![t] = pardon.guests[t] + lost] \in [SessionTabs -> Nat] BY <3>1
    <3> QED BY <2>1, <3>2
  <2>4. asker' \in [Askers -> {"idle", "waits", "calls"}]
        /\ pending' \in [SessionTabs -> {"none", "asks", "signs", "waits"}]
    BY <1>5 DEF SignInFails, Resolved
  <2> QED BY <1>5, <2>2, <2>3, <2>4 DEF SignInFails
<1>6. ASSUME NEW t \in SessionTabs, AwaitServer(t) PROVE SignInTypeOK' /\ MadeIsCounted'
  <2>1. pardon' \in [guests : [SessionTabs -> Nat], signedOut : BOOLEAN, landed : BOOLEAN]
    BY <1>6 DEF AwaitServer
  <2>2. asker' \in [Askers -> {"idle", "waits", "calls"}]
        /\ pending' \in [SessionTabs -> {"none", "asks", "signs", "waits"}]
    BY <1>6 DEF AwaitServer, Resolved
  <2> QED BY <1>6, <2>1, <2>2 DEF AwaitServer
<1>7. ASSUME NEW t \in SessionTabs, Attach(t) PROVE SignInTypeOK' /\ MadeIsCounted'
  BY <1>7 DEF Attach
<1>8. ASSUME NEW t \in SessionTabs, Hear(t) PROVE SignInTypeOK' /\ MadeIsCounted'
  <2>1. news[t] \in Identities BY <1>8 DEF Hear
  <2>2. session' \in [SessionTabs -> [token : Identities, served : Identities, shown : BOOLEAN]]
        /\ news' \in [SessionTabs -> Identities \cup {Nothing}]
    BY <1>8, <2>1 DEF Hear
  <2>3. (pardon.landed /\ (t = ThisTab => news[t] = Member)) \in BOOLEAN OBVIOUS
  <2>4. pardon' \in [guests : [SessionTabs -> Nat], signedOut : BOOLEAN, landed : BOOLEAN]
    BY <1>8, <2>3 DEF Hear
  <2> QED BY <1>8, <2>2, <2>4 DEF Hear
<1>9. ASSUME NEW t \in SessionTabs, NoticeSession(t) PROVE SignInTypeOK' /\ MadeIsCounted'
  <2>1. HasSession(t) \in BOOLEAN BY DEF HasSession
  <2>2. session' \in [SessionTabs -> [token : Identities, served : Identities, shown : BOOLEAN]]
    BY <1>9, <2>1 DEF NoticeSession
  <2> QED BY <1>9, <2>2 DEF NoticeSession
<1>10. CASE Push BY <1>10 DEF Push, Me
<1>11. CASE SubmitPassword
  <2>1. login.sent + 1 \in 0..MaxLogins BY <1>11 DEF SubmitPassword
  <2>2. login' \in [at : {"idle", "signs", "settles"}, sent : 0..MaxLogins]
    BY <1>11, <2>1 DEF SubmitPassword
  <2> QED BY <1>11, <2>2 DEF SubmitPassword
<1>12. CASE Refuse BY <1>12 DEF Refuse
<1>13. CASE Accept
  <2>1. session' \in [SessionTabs -> [token : Identities, served : Identities, shown : BOOLEAN]]
        /\ news' \in [SessionTabs -> Identities \cup {Nothing}]
    BY <1>13 DEF Accept, Stores
  <2> QED BY <1>13, <2>1 DEF Accept
<1>14. CASE Settle
  <2>1. (session[ThisTab].token = Member) \in BOOLEAN OBVIOUS
  <2>2. pardon' \in [guests : [SessionTabs -> Nat], signedOut : BOOLEAN, landed : BOOLEAN]
    BY <1>14, <2>1 DEF Settle
  <2>3. me' \in [cached : {NoOne, Member}, pushed : {NoOne, Member}]
    BY <1>14 DEF Settle, Primed
  <2> QED BY <1>14, <2>2, <2>3 DEF Settle, Public
<1>15. CASE SignOut
  <2>1. session' \in [SessionTabs -> [token : Identities, served : Identities, shown : BOOLEAN]]
        /\ news' \in [SessionTabs -> Identities \cup {Nothing}]
    BY <1>15 DEF SignOut, Stores
  <2>2. pardon' \in [guests : [SessionTabs -> Nat], signedOut : BOOLEAN, landed : BOOLEAN]
    BY <1>15 DEF SignOut
  <2> QED BY <1>15, <2>1, <2>2 DEF SignOut
<1>16. CASE Visit BY <1>16 DEF Visit
<1>17. CASE Bounce BY <1>17 DEF Bounce, Public
<1>18. CASE Redirect BY <1>18 DEF Redirect
<1> QED BY <1>1, <1>2, <1>3, <1>4, <1>5, <1>6, <1>7, <1>8, <1>9, <1>10, <1>11, <1>12, <1>13,
           <1>14, <1>15, <1>16, <1>17, <1>18 DEF SignInNext

\* The accounts of a tab stay counted where it makes none and comes no closer to one.
LEMMA CountsStay ==
  ASSUME AccountsAreCounted, SignInTypeOK, SignInTypeOK', NEW t \in SessionTabs,
         made'[t] = made[t], MayMake(t)' <= MayMake(t), MayLose(t)' <= MayLose(t),
         pardon.guests[t] <= pardon'.guests[t]
  PROVE  made'[t] + MayMake(t)' + MayLose(t)' <= 1 + pardon'.guests[t]
<1>1. /\ made[t] \in Nat /\ pardon.guests[t] \in Nat /\ pardon'.guests[t] \in Nat
  BY SignInAssumption DEF SignInTypeOK
<1>2. MayMake(t) \in 0..1 /\ MayLose(t) \in 0..1 /\ MayMake(t)' \in 0..1 /\ MayLose(t)' \in 0..1
  BY DEF MayMake, MayLose
<1>3. made[t] + MayMake(t) + MayLose(t) <= 1 + pardon.guests[t] BY DEF AccountsAreCounted
<1> HIDE DEF MayMake, MayLose
<1> QED BY <1>1, <1>2, <1>3

\* Sign-ins, failures, waits, sign-outs and news keep the count.
LEMMA CountsKept ==
  ASSUME SignInTypeOK, SignInTypeOK', AccountsAreCounted, SignInNext
  PROVE  AccountsAreCounted'
<1> SUFFICES ASSUME NEW u \in SessionTabs
             PROVE  made'[u] + MayMake(u)' + MayLose(u)' <= 1 + pardon'.guests[u]
  BY DEF AccountsAreCounted
<1>0. /\ made[u] \in Nat /\ pardon.guests[u] \in Nat /\ pardon \in [guests : [SessionTabs -> Nat],
         signedOut : BOOLEAN, landed : BOOLEAN]
      /\ made[u] + MayMake(u) + MayLose(u) <= 1 + pardon.guests[u]
      /\ MayMake(u) \in 0..1 /\ MayLose(u) \in 0..1
  BY SignInAssumption DEF SignInTypeOK, AccountsAreCounted, MayMake, MayLose
<1> USE IdentityKinds
<1>1. ASSUME NEW a \in Askers, AskSession(a) PROVE made'[u] + MayMake(u)' + MayLose(u)' <= 1 + pardon'.guests[u]
  <2>1. pending'[u] # pending[u] => pending'[u] = "asks" /\ pending[u] = "none"
    BY <1>1, SignInAssumption DEF AskSession, Shared, SignInTypeOK
  <2> QED BY <1>0, <1>1, <2>1, CountsStay DEF AskSession, MayMake, MayLose
<1>2. ASSUME NEW a \in Askers, Call(a) PROVE made'[u] + MayMake(u)' + MayLose(u)' <= 1 + pardon'.guests[u]
  BY <1>0, <1>2, CountsStay DEF Call, MayMake, MayLose
<1>3. ASSUME NEW t \in SessionTabs, AskServer(t) PROVE made'[u] + MayMake(u)' + MayLose(u)' <= 1 + pardon'.guests[u]
  <2>1. pending'[u] # pending[u] => /\ pending[u] = "asks"
                                    /\ pending'[u] = "none" \/ session[u].served = NoOne
    BY <1>3 DEF AskServer, AfterAsking, HasSession, SignInTypeOK
  <2> QED BY <1>0, <1>3, <2>1, CountsStay DEF AskServer, MayMake, MayLose
<1>4. ASSUME NEW t \in SessionTabs, SignInAnonymously(t) PROVE made'[u] + MayMake(u)' + MayLose(u)' <= 1 + pardon'.guests[u]
  <2>1. /\ guests < MaxGuests /\ made' = [made EXCEPT ![t] = made[t] + 1] /\ pending[t] = "signs"
        /\ session' = [session EXCEPT ![t].token = guests + 1]
        /\ news' = [v \in SessionTabs |-> IF v = t THEN news[v] ELSE guests + 1]
        /\ pending' = [pending EXCEPT ![t] = "waits"]
        /\ pardon' = [pardon EXCEPT !.landed = pardon.landed /\ t # ThisTab]
    BY <1>4 DEF SignInAnonymously, AfterSignIn, Stores
  <2>2. pardon'.guests = pardon.guests BY <1>0, <2>1
  <2>3. guests + 1 # NoOne BY <2>1, SignInAssumption DEF SignInTypeOK, NoOne
  <2>4. CASE u = t
    <3>1. made'[u] = made[u] + 1 /\ news'[u] = news[u] /\ pending'[u] = "waits"
          /\ session'[u].token = guests + 1
      BY <2>1, <2>4 DEF SignInTypeOK
    <3>2. MayMake(u) = 1 /\ MayMake(u)' = 0 /\ MayLose(u)' = MayLose(u)
      BY <2>1, <2>3, <2>4, <3>1 DEF MayMake, MayLose
    <3> QED BY <1>0, <2>2, <3>1, <3>2
  <2>5. CASE u # t
    <3>1. made'[u] = made[u] /\ pending'[u] = pending[u] /\ session'[u] = session[u]
          /\ news'[u] = guests + 1
      BY <2>1, <2>5 DEF SignInTypeOK
    <3> QED BY <1>0, <2>2, <2>3, <3>1, CountsStay DEF MayMake, MayLose
  <2> QED BY <2>4, <2>5
<1>5. ASSUME NEW t \in SessionTabs, SignInFails(t) PROVE made'[u] + MayMake(u)' + MayLose(u)' <= 1 + pardon'.guests[u]
  <2>1. PICK lost \in 0..1 :
          /\ made' = [made EXCEPT ![t] = made[t] + lost]
          /\ pardon' = [pardon EXCEPT !.guests[t] = pardon.guests[t] + lost]
    BY <1>5 DEF SignInFails
  <2>2. /\ pending[t] = "signs" /\ pending' = [pending EXCEPT ![t] = "none"]
        /\ UNCHANGED <<session, news>>
    BY <1>5 DEF SignInFails
  <2>3. MayMake(u)' <= MayMake(u) /\ MayLose(u)' = MayLose(u) /\ MayMake(u)' \in 0..1
    BY <2>2 DEF MayMake, MayLose, SignInTypeOK
  <2>4. pardon'.guests = [pardon.guests EXCEPT ![t] = pardon.guests[t] + lost] BY <1>0, <2>1
  <2>5. CASE u = t
    <3>1. made'[u] = made[u] + lost /\ pardon'.guests[u] = pardon.guests[u] + lost
      BY <1>0, <2>1, <2>4, <2>5 DEF SignInTypeOK
    <3> QED BY <1>0, <2>3, <3>1
  <2>6. CASE u # t
    <3>1. made'[u] = made[u] /\ pardon'.guests[u] = pardon.guests[u]
      BY <1>0, <2>1, <2>4, <2>6 DEF SignInTypeOK
    <3> QED BY <1>0, <2>3, <3>1
  <2> QED BY <2>5, <2>6
<1>6. ASSUME NEW t \in SessionTabs, AwaitServer(t) PROVE made'[u] + MayMake(u)' + MayLose(u)' <= 1 + pardon'.guests[u]
  <2>1. /\ pending[t] = "waits" /\ pending' = [pending EXCEPT ![t] = "none"]
        /\ pardon' = [pardon EXCEPT !.guests[t] = IF HasSession(t) THEN pardon.guests[t] ELSE pardon.guests[t] + 1]
        /\ UNCHANGED <<session, news, made>>
    BY <1>6 DEF AwaitServer
  <2>2. pardon'.guests = [pardon.guests EXCEPT ![t] = IF HasSession(t) THEN pardon.guests[t] ELSE pardon.guests[t] + 1]
    BY <1>0, <2>1
  <2>3. MayLose(u)' = MayLose(u) BY <2>1 DEF MayLose
  <2>4. CASE u = t /\ ~HasSession(t)
    <3>1. pardon'.guests[u] = pardon.guests[u] + 1 BY <1>0, <2>2, <2>4
    <3>2. MayMake(u)' \in 0..1 BY DEF MayMake
    <3> QED BY <1>0, <2>1, <2>3, <3>1, <3>2
  <2>5. CASE u # t \/ HasSession(t)
    <3>1. pardon'.guests[u] = pardon.guests[u] BY <1>0, <2>2, <2>5
    <3>2. MayMake(u)' <= MayMake(u) BY <2>1, <2>5 DEF MayMake, HasSession, SignInTypeOK
    <3>3. MayMake(u)' \in 0..1 BY DEF MayMake
    <3> QED BY <1>0, <2>1, <2>3, <3>1, <3>2, <3>3
  <2> QED BY <2>4, <2>5
<1>7. ASSUME NEW t \in SessionTabs, Attach(t) PROVE made'[u] + MayMake(u)' + MayLose(u)' <= 1 + pardon'.guests[u]
  <2>1. /\ session'[u].token = session[u].token
        /\ session'[u].served = session[u].served \/ session'[u].served = session[u].token
    BY <1>7 DEF Attach, SignInTypeOK
  <2> QED BY <1>0, <1>7, <2>1, CountsStay DEF Attach, MayMake, MayLose
<1>8. ASSUME NEW t \in SessionTabs, Hear(t) PROVE made'[u] + MayMake(u)' + MayLose(u)' <= 1 + pardon'.guests[u]
  <2>1. /\ UNCHANGED <<pending, made>>
        /\ session' = [session EXCEPT ![t].token = news[t]]
        /\ news' = [news EXCEPT ![t] = Nothing]
        /\ pardon' = [pardon EXCEPT !.landed = pardon.landed /\ (t = ThisTab => news[t] = Member)]
    BY <1>8 DEF Hear
  <2>2. pardon'.guests = pardon.guests BY <1>0, <2>1
  <2>3. CASE u = t
    <3>1. /\ session'[u].token = news[u] /\ session'[u].served = session[u].served
          /\ news'[u] = Nothing
      BY <2>1, <2>3 DEF SignInTypeOK
    <3>2. MayLose(u)' = 0 BY <3>1 DEF MayLose
    <3>3. MayMake(u)' <= MayMake(u) + MayLose(u) /\ MayMake(u)' \in 0..1
      BY <2>1, <3>1 DEF MayMake, MayLose
    <3> QED BY <1>0, <2>1, <2>2, <3>2, <3>3
  <2>4. CASE u # t
    <3>1. session'[u] = session[u] /\ news'[u] = news[u] BY <2>1, <2>4 DEF SignInTypeOK
    <3> QED BY <1>0, <2>1, <2>2, <3>1, CountsStay DEF MayMake, MayLose
  <2> QED BY <2>3, <2>4
<1>9. ASSUME NEW t \in SessionTabs, NoticeSession(t) PROVE made'[u] + MayMake(u)' + MayLose(u)' <= 1 + pardon'.guests[u]
  <2>1. session'[u].token = session[u].token /\ session'[u].served = session[u].served
    BY <1>9 DEF NoticeSession, SignInTypeOK
  <2> QED BY <1>0, <1>9, <2>1, CountsStay DEF NoticeSession, MayMake, MayLose
<1>10. CASE Push \/ SubmitPassword \/ Refuse \/ Visit \/ Bounce \/ Redirect
  BY <1>0, <1>10, CountsStay DEF Push, SubmitPassword, Refuse, Visit, Bounce, Redirect, MayMake, MayLose
<1>11. CASE Accept
  <2>1. /\ UNCHANGED <<pending, made, pardon>> /\ session'[u].served = session[u].served
        /\ session'[u].token = session[u].token \/ session'[u].token = Member
        /\ news'[u] = news[u] \/ news'[u] = Member
    BY <1>11 DEF Accept, Stores, SignInTypeOK
  <2> QED BY <1>0, <2>1, CountsStay DEF MayMake, MayLose
<1>12. CASE Settle
  <2>1. pardon'.guests = pardon.guests BY <1>0, <1>12 DEF Settle
  <2> QED BY <1>0, <1>12, <2>1, CountsStay DEF Settle, MayMake, MayLose
<1>13. CASE SignOut
  <2>1. pardon'.guests[u] = pardon.guests[u] + 1 /\ UNCHANGED <<made, pending>>
    BY <1>0, <1>13 DEF SignOut
  <2>2. CASE u = ThisTab
    <3>1. news'[u] = news[u] BY <1>13, <2>2 DEF SignOut, Stores
    <3>2. MayMake(u)' \in 0..1 /\ MayLose(u)' = MayLose(u) BY <3>1 DEF MayMake, MayLose
    <3> QED BY <1>0, <2>1, <3>2
  <2>3. CASE u # ThisTab
    <3>1. session'[u] = session[u] BY <1>13, <2>3 DEF SignOut, Stores, SignInTypeOK
    <3>2. MayLose(u)' \in 0..1 /\ MayMake(u)' = MayMake(u) BY <2>1, <3>1 DEF MayMake, MayLose
    <3> QED BY <1>0, <2>1, <3>2
  <2> QED BY <2>2, <2>3
<1> QED BY <1>1, <1>2, <1>3, <1>4, <1>5, <1>6, <1>7, <1>8, <1>9, <1>10, <1>11, <1>12, <1>13
        DEF SignInNext

\* What the server saw of a tab stays seen, and a settled sign-in stays known.
LEMMA SessionsKept ==
  ASSUME SignInTypeOK, SessionStays, LandedIsMember, CallsFindSession, SignInNext
  PROVE  SessionStays' /\ LandedIsMember' /\ CallsFindSession'
<1> USE SignInAssumption, IdentityKinds
    DEF SignInTypeOK, SessionStays, LandedIsMember, CallsFindSession, HasSession, pageParts
<1>1. ASSUME NEW a \in Askers, AskSession(a) PROVE SessionStays' /\ LandedIsMember' /\ CallsFindSession'
  BY <1>1 DEF AskSession
<1>2. ASSUME NEW a \in Askers, Call(a) PROVE SessionStays' /\ LandedIsMember' /\ CallsFindSession'
  BY <1>2 DEF Call
<1>3. ASSUME NEW t \in SessionTabs, AskServer(t) PROVE SessionStays' /\ LandedIsMember' /\ CallsFindSession'
  BY <1>3 DEF AskServer, AfterAsking, Resolved
<1>4. ASSUME NEW t \in SessionTabs, SignInAnonymously(t) PROVE SessionStays' /\ LandedIsMember' /\ CallsFindSession'
  <2>1. /\ guests < MaxGuests /\ session' = [session EXCEPT ![t].token = guests + 1]
        /\ news' = [u \in SessionTabs |-> IF u = t THEN news[u] ELSE guests + 1]
        /\ pardon' = [pardon EXCEPT !.landed = pardon.landed /\ t # ThisTab]
        /\ UNCHANGED <<asker, me>>
    BY <1>4 DEF SignInAnonymously, AfterSignIn, Stores
  <2>2. guests + 1 # NoOne BY <2>1 DEF NoOne
  <2>3. pardon'.signedOut = pardon.signedOut /\ pardon'.landed = (pardon.landed /\ t # ThisTab)
    BY <2>1
  <2>4. \A u \in SessionTabs : /\ session'[u].served = session[u].served /\ session'[u].shown = session[u].shown
                               /\ session'[u].token = IF u = t THEN guests + 1 ELSE session[u].token
    BY <2>1
  <2>5. SessionStays'
    <3>1. \A u \in SessionTabs : news[u] # NoOne => news'[u] # NoOne BY <2>1, <2>2
    <3> QED BY <2>2, <2>3, <2>4, <3>1
  <2>6. LandedIsMember' BY <2>1, <2>3, <2>4
  <2>7. CallsFindSession' BY <2>1, <2>3, <2>4
  <2> QED BY <2>5, <2>6, <2>7
<1>5. ASSUME NEW t \in SessionTabs, SignInFails(t) PROVE SessionStays' /\ LandedIsMember' /\ CallsFindSession'
  <2>1. pardon'.signedOut = pardon.signedOut /\ pardon'.landed = pardon.landed
    BY <1>5 DEF SignInFails
  <2> QED BY <1>5, <2>1 DEF SignInFails, Resolved
<1>6. ASSUME NEW t \in SessionTabs, AwaitServer(t) PROVE SessionStays' /\ LandedIsMember' /\ CallsFindSession'
  <2>1. pardon'.signedOut = pardon.signedOut /\ pardon'.landed = pardon.landed
    BY <1>6 DEF AwaitServer
  <2> QED BY <1>6, <2>1 DEF AwaitServer, Resolved
<1>7. ASSUME NEW t \in SessionTabs, Attach(t) PROVE SessionStays' /\ LandedIsMember' /\ CallsFindSession'
  <2>1. \A u \in SessionTabs : /\ session'[u].token = session[u].token /\ session'[u].shown = session[u].shown
                               /\ session'[u].served \in {session[u].served, session[u].token}
    BY <1>7 DEF Attach
  <2>2. UNCHANGED <<news, asker, me, pardon>> BY <1>7 DEF Attach
  <2>3. ~pardon.signedOut => \A u \in SessionTabs : session[u].served # NoOne => session'[u].served # NoOne
    BY <2>1
  <2>4. \A u \in SessionTabs : session[u].served = NoOne /\ ~pardon.signedOut => ~session[u].shown OBVIOUS
  <2>5. SessionStays'
    <3> SUFFICES ASSUME ~pardon.signedOut, NEW u \in SessionTabs
                 PROVE  /\ news[u] # NoOne
                        /\ session'[u].served # NoOne => session'[u].token # NoOne
                        /\ session'[u].shown => session'[u].served # NoOne
      BY <2>2
    <3> QED BY <2>1, <2>3, <2>4
  <2>6. LandedIsMember' BY <2>1, <2>2
  <2>7. CallsFindSession' BY <2>2, <2>3
  <2> QED BY <2>5, <2>6, <2>7
<1>8. ASSUME NEW t \in SessionTabs, Hear(t) PROVE SessionStays' /\ LandedIsMember' /\ CallsFindSession'
  <2>1. /\ session' = [session EXCEPT ![t].token = news[t]] /\ news' = [news EXCEPT ![t] = Nothing]
        /\ pardon' = [pardon EXCEPT !.landed = pardon.landed /\ (t = ThisTab => news[t] = Member)]
        /\ UNCHANGED <<asker, me>>
    BY <1>8 DEF Hear
  <2>2. /\ pardon'.signedOut = pardon.signedOut
        /\ pardon'.landed = (pardon.landed /\ (t = ThisTab => news[t] = Member))
    BY <2>1
  <2>3. \A u \in SessionTabs : /\ session'[u].served = session[u].served /\ session'[u].shown = session[u].shown
                               /\ session'[u].token = IF u = t THEN news[t] ELSE session[u].token
                               /\ news'[u] = IF u = t THEN Nothing ELSE news[u]
    BY <2>1
  <2>4. SessionStays' BY <2>2, <2>3
  <2>5. LandedIsMember' BY <2>1, <2>2, <2>3
  <2>6. CallsFindSession' BY <2>1, <2>2, <2>3
  <2> QED BY <2>4, <2>5, <2>6
<1>9. ASSUME NEW t \in SessionTabs, NoticeSession(t) PROVE SessionStays' /\ LandedIsMember' /\ CallsFindSession'
  <2>1. \A u \in SessionTabs : /\ session'[u].served = session[u].served /\ session'[u].token = session[u].token
                               /\ session'[u].shown = IF u = t THEN HasSession(t) ELSE session[u].shown
    BY <1>9 DEF NoticeSession
  <2> QED BY <1>9, <2>1 DEF NoticeSession
<1>10. CASE Push \/ SubmitPassword \/ Refuse \/ Visit \/ Bounce \/ Redirect
  <2>1. /\ UNCHANGED <<session, news, asker, pardon>>
        /\ me' = me \/ me'.cached = Me(session[ThisTab].served)
    BY <1>10 DEF Push, SubmitPassword, Refuse, Visit, Bounce, Redirect
  <2> QED BY <2>1 DEF Me
<1>11. CASE Accept
  <2>1. \A u \in SessionTabs : /\ session'[u].served = session[u].served /\ session'[u].shown = session[u].shown
                               /\ session'[u].token = IF u = ThisTab THEN Member ELSE session[u].token
                               /\ news'[u] = IF u = ThisTab THEN news[u] ELSE Member
    BY <1>11 DEF Accept, Stores
  <2> QED BY <1>11, <2>1 DEF Accept
<1>12. CASE Settle
  <2>1. UNCHANGED <<session, news, asker>> BY <1>12 DEF Settle
  <2>2. CASE Me(session[ThisTab].served) = Member
    <3>1. me' = Primed /\ pardon' = [pardon EXCEPT !.landed = session[ThisTab].token = Member]
      BY <1>12, <2>2 DEF Settle
    <3>2. me'.cached = Member /\ session[ThisTab].served = Member BY <2>2, <3>1 DEF Primed, Me
    <3>3. pardon'.signedOut = pardon.signedOut /\ (pardon'.landed => session[ThisTab].token = Member)
      BY <3>1
    <3> QED BY <2>1, <3>2, <3>3
  <2>3. CASE Me(session[ThisTab].served) # Member BY <1>12, <2>1, <2>3 DEF Settle
  <2> QED BY <2>2, <2>3
<1>13. CASE SignOut BY <1>13 DEF SignOut
<1> QED BY <1>1, <1>2, <1>3, <1>4, <1>5, <1>6, <1>7, <1>8, <1>9, <1>10, <1>11, <1>12, <1>13
        DEF SignInNext

\* For any number of tabs, askers and sign-ins: one anonymous account a tab but for the
\* cases named, calls that find the session, and a settled sign-in the pages know of.
THEOREM SignInSafe ==
  SignInSpec => [](SignInTypeOK /\ OneAnonymousAccount /\ CallsFindSession /\ SignedInIsKnown)
<1>1. SignInInv /\ [SignInNext]_signInVars => SignInInv'
  <2>1. ASSUME SignInInv, SignInNext PROVE SignInInv'
    <3>1. SignInTypeOK' /\ MadeIsCounted' BY <2>1, SignInTyped DEF SignInInv
    <3>2. AccountsAreCounted' BY <2>1, <3>1, CountsKept DEF SignInInv
    <3> QED BY <2>1, <3>1, <3>2, SessionsKept DEF SignInInv
  <2>2. ASSUME SignInInv, UNCHANGED signInVars PROVE SignInInv'
    BY <2>2 DEF signInVars, pageParts, SignInInv, SignInTypeOK, AccountsAreCounted, MayMake, MayLose,
                MadeIsCounted, SessionStays, LandedIsMember, CallsFindSession, HasSession
  <2> QED BY <2>1, <2>2
<1>2. SignInInv => SignInTypeOK /\ OneAnonymousAccount /\ CallsFindSession /\ SignedInIsKnown
  <2> SUFFICES ASSUME SignInInv
               PROVE  OneAnonymousAccount /\ SignedInIsKnown
    BY DEF SignInInv
  <2>1. ASSUME NEW t \in SessionTabs PROVE made[t] <= 1 + pardon.guests[t]
    <3>1. made[t] \in Nat /\ pardon.guests[t] \in Nat
      BY SignInAssumption DEF SignInInv, SignInTypeOK
    <3>2. MayMake(t) \in 0..1 /\ MayLose(t) \in 0..1 BY DEF MayMake, MayLose
    <3>3. made[t] + MayMake(t) + MayLose(t) <= 1 + pardon.guests[t]
      BY DEF SignInInv, AccountsAreCounted
    <3> QED BY <3>1, <3>2, <3>3
  <2> QED BY <2>1 DEF OneAnonymousAccount, SignedInIsKnown, SignInInv, LandedIsMember
<1> QED BY SignInStarts, <1>1, <1>2, PTL DEF SignInSpec

-----------------------------------------------------------------------------
(* Reset codes. *)

\* Without an overlap one request is under way at most, none of them while the page
\* offers another code, and a code that is stored but not mailed is the current one.
OneUnderWay ==
  ~lapses.overlap =>
    /\ \A c, d \in InFlight : c = d
    /\ view = "code" /\ waiting.again = 0 => InFlight = {}
    /\ \A c \in Codes : request[c] \in {"stored", "allowed"} => valid \in {0, c}

\* The current code is on its way or in the newest mail.
CurrentIsMailed ==
  ~lapses.overlap /\ ~lapses.unsent /\ valid # 0 =>
    \/ request[valid] \in {"stored", "allowed"}
    \/ mails # << >> /\ mails[Len(mails)] = valid

\* The codes allowed in a window.
AllowedIn(w) == {c \in Codes : allowed[c] = w}

\* The row counts the sends of its window, and no send is of a later one.
RowCounts ==
  /\ limit.window <= window
  /\ limit.count = Cardinality(AllowedIn(limit.window))
  /\ limit.count <= SendsPerWindow
  /\ \A c \in Codes : allowed[c] <= limit.window
  /\ \A c \in Codes : request[c] \in {"unused", "sent", "stored"} => allowed[c] = -1

\* No window sees more sends than the limit.
WindowsAreCapped == \A w \in 0..LastWindow : Cardinality(AllowedIn(w)) <= SendsPerWindow

\* What every step keeps.
ResetInv ==
  /\ ResetTypeOK
  /\ OneUnderWay
  /\ CurrentIsMailed
  /\ RowCounts
  /\ WindowsAreCapped

\* The sends of a window are some of the requests.
LEMMA AllowedIsFinite ==
  ASSUME NEW w PROVE IsFiniteSet(AllowedIn(w)) /\ Cardinality(AllowedIn(w)) \in 0..MaxRequests
<1>1. IsFiniteSet(Codes) /\ Cardinality(Codes) = MaxRequests
  BY FS_Interval, ResetAssumption DEF Codes
<1>2. AllowedIn(w) \subseteq Codes BY DEF AllowedIn
<1>3. IsFiniteSet(AllowedIn(w)) /\ Cardinality(AllowedIn(w)) <= Cardinality(Codes)
  BY <1>1, <1>2, FS_Subset
<1> QED BY <1>1, <1>3, FS_CardinalityType, ResetAssumption

\* Nothing has been asked for at first.
LEMMA ResetStarts == ResetInit => ResetInv
<1> SUFFICES ASSUME ResetInit PROVE ResetInv
  OBVIOUS
<1>1. \A w \in 0..LastWindow : AllowedIn(w) = {} BY DEF ResetInit, AllowedIn
<1>2. ResetTypeOK BY ResetAssumption DEF ResetInit, ResetTypeOK, Codes, Stages
<1>3. OneUnderWay /\ CurrentIsMailed BY DEF ResetInit, OneUnderWay, CurrentIsMailed, InFlight
<1>4. RowCounts
  <2>1. AllowedIn(0) = {} BY <1>1, ResetAssumption
  <2>2. limit.window = 0 /\ limit.count = 0 /\ window = 0 BY DEF ResetInit
  <2>3. \A c \in Codes : allowed[c] = -1 BY DEF ResetInit
  <2> QED BY <2>1, <2>2, <2>3, FS_EmptySet, ResetAssumption DEF RowCounts
<1>5. WindowsAreCapped BY <1>1, FS_EmptySet, ResetAssumption DEF WindowsAreCapped, AllowedIn
<1> QED BY <1>2, <1>3, <1>4, <1>5 DEF ResetInv

\* Steps that leave the limit and its requests' stages before it alone.
LEMMA RowStays ==
  ASSUME RowCounts, WindowsAreCapped, limit' = limit, allowed' = allowed, window' = window,
         \A c \in Codes : request'[c] \in {"unused", "sent", "stored"}
                            => request[c] \in {"unused", "sent", "stored"}
  PROVE  RowCounts' /\ WindowsAreCapped'
BY DEF RowCounts, WindowsAreCapped, AllowedIn

\* A form's request goes out.
LEMMA SentKeeps == ResetInv /\ (Forgot \/ SendAgain) => ResetInv'
<1> SUFFICES ASSUME ResetInv, Forgot \/ SendAgain PROVE ResetInv'
  OBVIOUS
<1>1. PICK c \in Unused : /\ request' = Under(c, "sent")
                          /\ \/ waiting' = [waiting EXCEPT !.email = c]
                             \/ waiting' = [waiting EXCEPT !.again = c] /\ view = "code" /\ waiting.again = 0
                          /\ Forgot \/ waiting' = [waiting EXCEPT !.again = c]
  BY DEF Forgot, SendAgain, OffersResend
<1>2. /\ UNCHANGED <<known, valid, limit, window, allowed, mails, view>>
      /\ lapses' = lapses \/ lapses' = [lapses EXCEPT !.overlap = lapses.overlap \/ InFlight # {}]
  BY DEF Forgot, SendAgain
<1>3. c \in Codes /\ c # 0 /\ request[c] = "unused" BY <1>1 DEF Unused, Codes
<1>4. /\ request' \in [Codes -> Stages] /\ request'[c] = "sent"
      /\ \A d \in Codes : d # c => request'[d] = request[d]
  BY <1>1, <1>3 DEF ResetInv, ResetTypeOK, Under, Stages
<1>5. InFlight' = InFlight \cup {c} BY <1>3, <1>4 DEF InFlight
<1>6. /\ lapses' \in [overlap : BOOLEAN, unsent : BOOLEAN] /\ lapses'.unsent = lapses.unsent
      /\ ~lapses'.overlap => ~lapses.overlap
  <2>1. (lapses.overlap \/ InFlight # {}) \in BOOLEAN OBVIOUS
  <2>2. lapses \in [overlap : BOOLEAN, unsent : BOOLEAN] BY DEF ResetInv, ResetTypeOK
  <2> QED BY <1>2, <2>1, <2>2
<1>7. waiting' \in [email : Codes \cup {0}, again : Codes \cup {0}]
  BY <1>1, <1>3 DEF ResetInv, ResetTypeOK
<1>8. ResetTypeOK' BY <1>2, <1>4, <1>6, <1>7 DEF ResetInv, ResetTypeOK
<1>9. ~lapses'.overlap => InFlight = {}
  <2>1. CASE Forgot
    <3>1. lapses' = [lapses EXCEPT !.overlap = lapses.overlap \/ InFlight # {}] BY <2>1 DEF Forgot
    <3>2. lapses \in [overlap : BOOLEAN, unsent : BOOLEAN] BY DEF ResetInv, ResetTypeOK
    <3>3. lapses'.overlap = (lapses.overlap \/ InFlight # {}) BY <3>1, <3>2
    <3> QED BY <3>3
  <2>2. CASE SendAgain
    <3>1. view = "code" /\ waiting.again = 0 BY <2>2 DEF SendAgain, OffersResend
    <3> QED BY <1>6, <3>1 DEF ResetInv, OneUnderWay
  <2> QED BY <2>1, <2>2
<1>10. view' = "code" => waiting'.again # 0 \/ Forgot
  BY <1>1, <1>3 DEF ResetInv, ResetTypeOK
<1>11. Forgot => view' # "code" BY <1>2 DEF Forgot
<1>12. OneUnderWay'
  BY <1>2, <1>3, <1>4, <1>5, <1>6, <1>9, <1>10, <1>11 DEF ResetInv, OneUnderWay
<1>13. CurrentIsMailed'
  BY <1>2, <1>3, <1>4, <1>6 DEF ResetInv, CurrentIsMailed, ResetTypeOK
<1>14. RowCounts' /\ WindowsAreCapped'
  BY <1>2, <1>3, <1>4, RowStays DEF ResetInv
<1> QED BY <1>8, <1>12, <1>13, <1>14 DEF ResetInv

\* What the page does with an answer.
LEMMA AnswerType ==
  ASSUME ResetTypeOK, NEW c \in Codes, NEW ok \in BOOLEAN, Answered(c, ok)
  PROVE  /\ view' \in {"email", "code", "done"}
         /\ waiting' \in [email : Codes \cup {0}, again : Codes \cup {0}]
         /\ waiting'.again = waiting.again \/ waiting.again = c
BY DEF ResetTypeOK, Answered

\* The server stores the code of a known address.
LEMMA LookupKeeps == \A c \in Codes : ResetInv /\ Lookup(c) => ResetInv'
<1> SUFFICES ASSUME NEW c \in Codes, ResetInv, Lookup(c) PROVE ResetInv'
  OBVIOUS
<1>1. /\ UNCHANGED <<known, limit, window, allowed, mails, lapses>> /\ request[c] = "sent" /\ c # 0
  BY DEF Lookup, Codes
<1>2. CASE valid' = c /\ request' = Under(c, "stored") /\ UNCHANGED <<view, waiting>>
  <2>1. /\ request' \in [Codes -> Stages] /\ request'[c] = "stored"
        /\ \A d \in Codes : d # c => request'[d] = request[d]
    BY <1>2 DEF ResetInv, ResetTypeOK, Under, Stages
  <2>2. InFlight' = InFlight /\ c \in InFlight BY <1>1, <2>1 DEF InFlight
  <2>3. ResetTypeOK' BY <1>1, <1>2, <2>1 DEF ResetInv, ResetTypeOK
  <2>4. OneUnderWay'
    <3> SUFFICES ASSUME ~lapses.overlap
                 PROVE  /\ \A d, e \in InFlight' : d = e
                        /\ view' = "code" /\ waiting'.again = 0 => InFlight' = {}
                        /\ \A d \in Codes : request'[d] \in {"stored", "allowed"} => valid' \in {0, d}
      BY <1>1 DEF OneUnderWay
    <3>1. \A d \in Codes : d # c => d \notin InFlight BY <2>2 DEF ResetInv, OneUnderWay
    <3>2. \A d \in Codes : request'[d] \in {"stored", "allowed"} => d = c
      BY <2>1, <3>1 DEF InFlight
    <3> QED BY <1>2, <2>2, <3>2 DEF ResetInv, OneUnderWay
  <2>5. CurrentIsMailed' BY <1>2, <2>1 DEF CurrentIsMailed
  <2>6. RowCounts' /\ WindowsAreCapped' BY <1>1, <2>1, RowStays DEF ResetInv
  <2> QED BY <2>3, <2>4, <2>5, <2>6 DEF ResetInv
<1>3. CASE request' = Under(c, "ended") /\ Answered(c, TRUE) /\ UNCHANGED valid
  <2>1. /\ request' \in [Codes -> Stages] /\ request'[c] = "ended"
        /\ \A d \in Codes : d # c => request'[d] = request[d]
    BY <1>3 DEF ResetInv, ResetTypeOK, Under, Stages
  <2>2. InFlight' = InFlight \ {c} /\ c \in InFlight BY <1>1, <2>1 DEF InFlight
  <2>3. /\ view' \in {"email", "code", "done"}
        /\ waiting' \in [email : Codes \cup {0}, again : Codes \cup {0}]
    BY <1>3, AnswerType DEF ResetInv
  <2>4. ResetTypeOK' BY <1>1, <1>3, <2>1, <2>3 DEF ResetInv, ResetTypeOK
  <2>5. ~lapses.overlap => InFlight' = {} BY <2>2 DEF ResetInv, OneUnderWay
  <2>6. OneUnderWay'
    BY <1>1, <1>3, <2>1, <2>5 DEF ResetInv, OneUnderWay
  <2>7. CurrentIsMailed'
    BY <1>1, <1>3, <2>1 DEF ResetInv, CurrentIsMailed, ResetTypeOK
  <2>8. RowCounts' /\ WindowsAreCapped' BY <1>1, <2>1, RowStays DEF ResetInv
  <2> QED BY <2>4, <2>6, <2>7, <2>8 DEF ResetInv
<1> QED BY <1>2, <1>3 DEF Lookup

\* A send is allowed: it is the row's, and the first one of a later window.
LEMMA AllowedCounts ==
  ASSUME ResetInv, NEW c \in Codes, request[c] = "stored", ~Limited, limit' = Counted,
         allowed' = [allowed EXCEPT ![c] = window], request' = Under(c, "allowed"), window' = window
  PROVE  RowCounts' /\ WindowsAreCapped' /\ limit'.count \in 0..MaxRequests
<1>1. /\ allowed[c] = -1 /\ allowed'[c] = window /\ window \in 0..LastWindow
      /\ \A d \in Codes : d # c => allowed'[d] = allowed[d]
      /\ \A d \in Codes : d # c => request'[d] = request[d]
      /\ request'[c] = "allowed"
  BY DEF ResetInv, RowCounts, ResetTypeOK, Under
<1>2. /\ limit.window \in 0..LastWindow /\ limit.count \in Nat /\ limit.window <= window
      /\ limit.count <= SendsPerWindow /\ \A d \in Codes : allowed[d] <= limit.window
      /\ limit.count = Cardinality(AllowedIn(limit.window))
  BY DEF ResetInv, RowCounts, ResetTypeOK
<1>3. limit'.window = window /\ limit'.count = IF limit.window = window THEN limit.count + 1 ELSE 1
  BY DEF Counted
<1>4. AllowedIn(window)' = AllowedIn(window) \cup {c} /\ c \notin AllowedIn(window)
  BY <1>1 DEF AllowedIn
<1>5. \A w \in 0..LastWindow : w # window => AllowedIn(w)' = AllowedIn(w)
  BY <1>1 DEF AllowedIn
<1>6. Cardinality(AllowedIn(window)') = Cardinality(AllowedIn(window)) + 1
  BY <1>4, AllowedIsFinite, FS_AddElement
<1>7. limit.window # window => AllowedIn(window) = {}
  BY <1>1, <1>2 DEF AllowedIn, ResetInv, ResetTypeOK
<1>8. limit'.count = Cardinality(AllowedIn(window)')
  BY <1>2, <1>3, <1>6, <1>7, FS_EmptySet
<1>9. limit'.count <= SendsPerWindow
  BY <1>2, <1>3, ResetAssumption DEF Limited
<1>10. RowCounts'
  <2>1. \A d \in Codes : allowed'[d] <= window
    BY <1>1, <1>2 DEF ResetInv, ResetTypeOK
  <2>2. \A d \in Codes : request'[d] \in {"unused", "sent", "stored"} => allowed'[d] = -1
    BY <1>1 DEF ResetInv, RowCounts
  <2>3. window <= window BY <1>1
  <2> QED BY <1>3, <1>8, <1>9, <2>1, <2>2, <2>3 DEF RowCounts
<1>11. WindowsAreCapped'
  <2> SUFFICES ASSUME NEW w \in 0..LastWindow PROVE Cardinality(AllowedIn(w)') <= SendsPerWindow
    BY DEF WindowsAreCapped, AllowedIn
  <2>1. CASE w = window BY <2>1, <1>8, <1>9
  <2>2. CASE w # window
    <3>1. Cardinality(AllowedIn(w)) <= SendsPerWindow BY DEF ResetInv, WindowsAreCapped, AllowedIn
    <3> QED BY <2>2, <1>5, <3>1
  <2> QED BY <2>1, <2>2
<1>12. limit'.count \in 0..MaxRequests
  <2>1. Cardinality(AllowedIn(window)) \in Nat BY AllowedIsFinite, ResetAssumption
  <2>2. AllowedIn(window)' \subseteq Codes BY DEF AllowedIn
  <2>3. IsFiniteSet(Codes) /\ Cardinality(Codes) = MaxRequests
    BY FS_Interval, ResetAssumption DEF Codes
  <2>4. Cardinality(AllowedIn(window)') <= MaxRequests BY <2>2, <2>3, FS_Subset
  <2> QED BY <1>6, <1>8, <2>1, <2>4, ResetAssumption
<1> QED BY <1>10, <1>11, <1>12

\* The send is allowed or refused by the limit.
LEMMA AllowKeeps == \A c \in Codes : ResetInv /\ AllowSend(c) => ResetInv'
<1> SUFFICES ASSUME NEW c \in Codes, ResetInv, AllowSend(c) PROVE ResetInv'
  OBVIOUS
<1>1. /\ UNCHANGED <<known, valid, window, mails>> /\ request[c] = "stored" /\ c # 0
  BY DEF AllowSend, Codes
<1>2. CASE /\ ~Limited /\ limit' = Counted /\ allowed' = [allowed EXCEPT ![c] = window]
           /\ request' = Under(c, "allowed") /\ UNCHANGED <<view, waiting, lapses>>
  <2>1. /\ request' \in [Codes -> Stages] /\ request'[c] = "allowed"
        /\ \A d \in Codes : d # c => request'[d] = request[d]
    BY <1>2 DEF ResetInv, ResetTypeOK, Under, Stages
  <2>2. InFlight' = InFlight BY <1>1, <2>1 DEF InFlight
  <2>3. RowCounts' /\ WindowsAreCapped' /\ limit'.count \in 0..MaxRequests
    BY <1>1, <1>2, AllowedCounts
  <2>4. limit' \in [window : 0..LastWindow, count : 0..MaxRequests]
    BY <1>2, <2>3 DEF Counted, ResetInv, ResetTypeOK
  <2>5. allowed' \in [Codes -> -1..LastWindow]
    BY <1>2, ResetAssumption DEF ResetInv, ResetTypeOK
  <2>6. ResetTypeOK' BY <1>1, <1>2, <2>1, <2>4, <2>5 DEF ResetInv, ResetTypeOK
  <2>7. OneUnderWay' BY <1>1, <1>2, <2>1, <2>2 DEF ResetInv, OneUnderWay
  <2>8. CurrentIsMailed' BY <1>1, <1>2, <2>1 DEF ResetInv, CurrentIsMailed, ResetTypeOK
  <2> QED BY <2>3, <2>6, <2>7, <2>8 DEF ResetInv
<1>3. CASE /\ request' = Under(c, "ended") /\ lapses' = [lapses EXCEPT !.unsent = TRUE]
           /\ Answered(c, FALSE) /\ UNCHANGED <<limit, allowed>>
  <2>1. /\ request' \in [Codes -> Stages] /\ request'[c] = "ended"
        /\ \A d \in Codes : d # c => request'[d] = request[d]
    BY <1>3 DEF ResetInv, ResetTypeOK, Under, Stages
  <2>2. InFlight' = InFlight \ {c} /\ c \in InFlight BY <1>1, <2>1 DEF InFlight
  <2>3. /\ view' \in {"email", "code", "done"}
        /\ waiting' \in [email : Codes \cup {0}, again : Codes \cup {0}]
    BY <1>3, AnswerType DEF ResetInv
  <2>4. lapses' \in [overlap : BOOLEAN, unsent : BOOLEAN] /\ lapses'.unsent /\ lapses'.overlap = lapses.overlap
    BY <1>3 DEF ResetInv, ResetTypeOK
  <2>5. ResetTypeOK' BY <1>1, <1>3, <2>1, <2>3, <2>4 DEF ResetInv, ResetTypeOK
  <2>6. ~lapses.overlap => InFlight' = {} BY <2>2 DEF ResetInv, OneUnderWay
  <2>7. OneUnderWay' BY <1>1, <2>1, <2>4, <2>6 DEF ResetInv, OneUnderWay
  <2>8. CurrentIsMailed' BY <2>4 DEF CurrentIsMailed
  <2>9. RowCounts' /\ WindowsAreCapped' BY <1>1, <1>3, <2>1, RowStays DEF ResetInv
  <2> QED BY <2>5, <2>7, <2>8, <2>9 DEF ResetInv
<1> QED BY <1>2, <1>3 DEF AllowSend

\* The mail goes out or is lost.
LEMMA MailKeeps == \A c \in Codes : ResetInv /\ Mail(c) => ResetInv'
<1> SUFFICES ASSUME NEW c \in Codes, ResetInv, Mail(c) PROVE ResetInv'
  OBVIOUS
<1>1. /\ UNCHANGED <<known, valid, limit, window, allowed>> /\ request[c] = "allowed"
      /\ request' = Under(c, "ended")
  BY DEF Mail
<1>2. PICK ok \in BOOLEAN : /\ mails' = IF ok THEN Append(mails, c) ELSE mails
                            /\ lapses' = [lapses EXCEPT !.unsent = (lapses.unsent /\ valid # c) \/ ~ok]
                            /\ Answered(c, ok)
  BY DEF Mail
<1>3. /\ request' \in [Codes -> Stages] /\ request'[c] = "ended"
      /\ \A d \in Codes : d # c => request'[d] = request[d]
  BY <1>1 DEF ResetInv, ResetTypeOK, Under, Stages
<1>4. InFlight' = InFlight \ {c} /\ c \in InFlight BY <1>1, <1>3 DEF InFlight
<1>5. /\ view' \in {"email", "code", "done"}
      /\ waiting' \in [email : Codes \cup {0}, again : Codes \cup {0}]
  BY <1>2, AnswerType DEF ResetInv
<1>6. /\ lapses' \in [overlap : BOOLEAN, unsent : BOOLEAN] /\ lapses'.overlap = lapses.overlap
      /\ lapses'.unsent = ((lapses.unsent /\ valid # c) \/ ~ok)
  <2>1. ((lapses.unsent /\ valid # c) \/ ~ok) \in BOOLEAN OBVIOUS
  <2>2. lapses \in [overlap : BOOLEAN, unsent : BOOLEAN] BY DEF ResetInv, ResetTypeOK
  <2> QED BY <1>2, <2>1, <2>2
<1>7. /\ mails' \in Seq(Codes)
      /\ ok => mails' # << >> /\ mails'[Len(mails')] = c
  <2>1. mails \in Seq(Codes) BY DEF ResetInv, ResetTypeOK
  <2>2. CASE ok
    <3>1. mails' = Append(mails, c) BY <1>2, <2>2
    <3>2. mails' \in Seq(Codes) /\ Len(mails') = Len(mails) + 1 /\ Len(mails) \in Nat
          /\ mails'[Len(mails) + 1] = c
      BY <2>1, <3>1
    <3>3. mails' # << >> BY <3>2
    <3> QED BY <3>2, <3>3
  <2>3. CASE ~ok BY <1>2, <2>1, <2>3
  <2> QED BY <2>2, <2>3
<1>8. ResetTypeOK' BY <1>1, <1>3, <1>5, <1>6, <1>7 DEF ResetInv, ResetTypeOK
<1>9. ~lapses.overlap => InFlight' = {} BY <1>4 DEF ResetInv, OneUnderWay
<1>10. OneUnderWay' BY <1>1, <1>3, <1>6, <1>9 DEF ResetInv, OneUnderWay
<1>11. CurrentIsMailed'
  <2> SUFFICES ASSUME ~lapses.overlap, ~lapses'.unsent, valid # 0
               PROVE  mails' # << >> /\ mails'[Len(mails')] = valid
    BY <1>1, <1>6 DEF CurrentIsMailed
  <2>1. ok BY <1>6
  <2>2. valid = c BY <1>1 DEF ResetInv, OneUnderWay
  <2> QED BY <1>7, <2>1, <2>2
<1>12. RowCounts' /\ WindowsAreCapped' BY <1>1, <1>3, RowStays DEF ResetInv
<1> QED BY <1>8, <1>10, <1>11, <1>12 DEF ResetInv

\* Every step keeps the invariant.
LEMMA ResetKept == ResetInv /\ [ResetNext]_resetVars => ResetInv'
<1> SUFFICES ASSUME ResetInv, [ResetNext]_resetVars PROVE ResetInv'
  OBVIOUS
<1>1. CASE ChangeEmail
  <2>1. /\ UNCHANGED <<known, request, valid, limit, window, allowed, mails, lapses>> /\ view' = "email"
        /\ waiting' \in [email : Codes \cup {0}, again : Codes \cup {0}]
    BY <1>1 DEF ChangeEmail, ResetInv, ResetTypeOK
  <2>2. ResetTypeOK' BY <2>1 DEF ResetInv, ResetTypeOK
  <2>3. OneUnderWay' BY <2>1 DEF ResetInv, OneUnderWay, InFlight
  <2>4. CurrentIsMailed' BY <2>1 DEF ResetInv, CurrentIsMailed
  <2>5. RowCounts' /\ WindowsAreCapped' BY <2>1, RowStays DEF ResetInv
  <2> QED BY <2>2, <2>3, <2>4, <2>5 DEF ResetInv
<1>2. CASE VerifyCode \/ Expire
  <2>1. /\ UNCHANGED <<known, request, limit, window, allowed, mails, lapses>> /\ valid' = 0
        /\ waiting' \in [email : Codes \cup {0}, again : Codes \cup {0}]
        /\ view' = "done" \/ UNCHANGED <<view, waiting>>
    BY <1>2 DEF VerifyCode, Expire, ResetInv, ResetTypeOK
  <2>2. ResetTypeOK' BY <2>1 DEF ResetInv, ResetTypeOK
  <2>3. OneUnderWay' BY <2>1 DEF ResetInv, OneUnderWay, InFlight
  <2>4. CurrentIsMailed' BY <2>1 DEF CurrentIsMailed
  <2>5. RowCounts' /\ WindowsAreCapped' BY <2>1, RowStays DEF ResetInv
  <2> QED BY <2>2, <2>3, <2>4, <2>5 DEF ResetInv
<1>3. CASE NextWindow
  <2>1. /\ UNCHANGED <<known, request, valid, limit, allowed, mails, view, waiting, lapses>>
        /\ window' = window + 1 /\ window < LastWindow
    BY <1>3 DEF NextWindow
  <2>2. window' \in 0..LastWindow /\ window <= window' BY <2>1, ResetAssumption DEF ResetInv, ResetTypeOK
  <2>3. ResetTypeOK' BY <2>1, <2>2 DEF ResetInv, ResetTypeOK
  <2>4. OneUnderWay' /\ CurrentIsMailed'
    BY <2>1 DEF ResetInv, OneUnderWay, InFlight, CurrentIsMailed
  <2>5. limit'.window <= window' BY <2>1, <2>2 DEF ResetInv, RowCounts, ResetTypeOK
  <2>6. RowCounts' /\ WindowsAreCapped'
    BY <2>1, <2>5 DEF ResetInv, RowCounts, WindowsAreCapped, AllowedIn
  <2> QED BY <2>3, <2>4, <2>6 DEF ResetInv
<1>4. CASE UNCHANGED resetVars
  BY <1>4 DEF resetVars, ResetInv, ResetTypeOK, OneUnderWay, InFlight, CurrentIsMailed, RowCounts,
              WindowsAreCapped, AllowedIn
<1> QED BY <1>1, <1>2, <1>3, <1>4, SentKeeps, LookupKeeps, AllowKeeps, MailKeeps DEF ResetNext

\* Two windows that follow each other see no more than twice the limit.
LEMMA TwoWindows == ResetInv => SendsAreCapped
<1> SUFFICES ASSUME ResetInv, NEW w \in 0..LastWindow
             PROVE  /\ Cardinality(SentIn({w})) <= SendsPerWindow
                    /\ Cardinality(SentIn({w, w + 1})) <= 2 * SendsPerWindow
  BY DEF SendsAreCapped
<1>1. SentIn({w}) = AllowedIn(w) /\ SentIn({w, w + 1}) = AllowedIn(w) \cup AllowedIn(w + 1)
  BY DEF SentIn, AllowedIn
<1>2. Cardinality(AllowedIn(w)) <= SendsPerWindow BY DEF ResetInv, WindowsAreCapped
<1>3. Cardinality(AllowedIn(w + 1)) <= SendsPerWindow
  <2>1. CASE w + 1 \in 0..LastWindow BY <2>1 DEF ResetInv, WindowsAreCapped
  <2>2. CASE w + 1 \notin 0..LastWindow
    <3>1. w + 1 \in Nat /\ w + 1 # -1 BY ResetAssumption
    <3>2. \A c \in Codes : allowed[c] \in -1..LastWindow BY DEF ResetInv, ResetTypeOK
    <3>3. AllowedIn(w + 1) = {} BY <2>2, <3>1, <3>2, ResetAssumption DEF AllowedIn
    <3> QED BY <3>3, FS_EmptySet, ResetAssumption
  <2> QED BY <2>1, <2>2
<1>4. /\ IsFiniteSet(AllowedIn(w)) /\ Cardinality(AllowedIn(w)) \in Nat
      /\ IsFiniteSet(AllowedIn(w + 1)) /\ Cardinality(AllowedIn(w + 1)) \in Nat
  BY AllowedIsFinite, FS_CardinalityType
<1>5. /\ IsFiniteSet(AllowedIn(w) \cap AllowedIn(w + 1))
      /\ Cardinality(AllowedIn(w) \cap AllowedIn(w + 1)) \in Nat
  BY <1>4, FS_Intersection, FS_CardinalityType
<1>6. Cardinality(AllowedIn(w) \cup AllowedIn(w + 1))
        = Cardinality(AllowedIn(w)) + Cardinality(AllowedIn(w + 1))
          - Cardinality(AllowedIn(w) \cap AllowedIn(w + 1))
  BY <1>4, FS_Union
<1>7. \A i, j, k, n \in Nat : i <= n /\ j <= n => i + j - k <= 2 * n
  OBVIOUS
<1>8. Cardinality(AllowedIn(w) \cup AllowedIn(w + 1)) <= 2 * SendsPerWindow
  BY <1>2, <1>3, <1>4, <1>5, <1>6, <1>7, ResetAssumption
<1> QED BY <1>1, <1>2, <1>8

\* For any number of requests and windows: the newest mail holds the current code, but for
\* the two cases named, no window sees more sends than the limit, and two that follow each
\* other no more than twice as many.
THEOREM ResetSafe == ResetSpec => [](ResetTypeOK /\ NewestMailIsCurrent /\ SendsAreCapped)
<1>1. ResetInv => NewestMailIsCurrent
  <2> SUFFICES ASSUME ResetInv, InFlight = {}, valid # 0, ~lapses.overlap, ~lapses.unsent
               PROVE  mails # << >> /\ Last(mails) = valid
    BY DEF NewestMailIsCurrent
  <2>1. request[valid] \notin {"stored", "allowed"} BY DEF InFlight, ResetInv, ResetTypeOK
  <2> QED BY <2>1 DEF ResetInv, CurrentIsMailed, Last
<1>2. ResetInv => ResetTypeOK /\ NewestMailIsCurrent /\ SendsAreCapped
  BY <1>1, TwoWindows DEF ResetInv
<1> QED BY ResetStarts, ResetKept, <1>2, PTL DEF ResetSpec

\* A browser has one identity at a time, its calls find it, and a password can be reset
\* with what was mailed, for any number of askers, accounts, requests and windows.
THEOREM IdentitySafe == IdentitySpec => []IdentityIsSound
<1>1. /\ SignInTypeOK /\ OneAnonymousAccount /\ CallsFindSession /\ SignedInIsKnown
      /\ ResetTypeOK /\ NewestMailIsCurrent /\ SendsAreCapped
      => IdentityIsSound
  BY DEF IdentityIsSound
<1> QED BY SignInSafe, ResetSafe, <1>1, PTL DEF IdentitySpec

-----------------------------------------------------------------------------
(* The earnings chart. *)

\* A month's number says its year and its place in it.
LEMMA MonthAndYear ==
  ASSUME NEW n \in Nat
  PROVE  /\ n \div 12 \in Nat /\ n % 12 \in 0..11
         /\ (n + 12) \div 12 = n \div 12 + 1 /\ (n + 12) % 12 = n % 12
         /\ n % 12 < 11 => (n + 1) \div 12 = n \div 12 /\ (n + 1) % 12 = (n % 12) + 1
         /\ n % 12 = 11 => (n + 1) \div 12 = n \div 12 + 1 /\ (n + 1) % 12 = 0
OBVIOUS

\* One year in four is a leap year, and none follows another.
LEMMA LeapYears ==
  ASSUME NEW y \in Nat
  PROVE  /\ y \div 4 \in Nat
         /\ IsLeap(y) => (y + 1) \div 4 = y \div 4 + 1 /\ ~IsLeap(y + 1)
         /\ ~IsLeap(y) => (y + 1) \div 4 = y \div 4
BY DEF IsLeap

\* Months begin within a year, at least 28 days apart.
LEMMA MonthLengths ==
  /\ \A m \in 0..11 : DaysBefore[m + 1] \in 0..334
  /\ \A m \in 0..10 : DaysBefore[m + 2] >= DaysBefore[m + 1] + 28
  /\ DaysBefore[1] = 0
BY DEF DaysBefore

\* Months follow each other.
LEMMA MonthsGrow ==
  ASSUME NEW n \in Nat
  PROVE  FirstDay(n) \in Nat /\ FirstDay(n) < FirstDay(n + 1)
<1> DEFINE y == n \div 12
           m == n % 12
           leap(a, b) == IF IsLeap(a) /\ b >= 2 THEN 1 ELSE 0
<1>1. y \in Nat /\ m \in 0..11 /\ y + 1 \in Nat BY MonthAndYear
<1>2. FirstDay(n) = 365 * y + y \div 4 + DaysBefore[m + 1] + leap(y, m) BY DEF FirstDay
<1>3. y \div 4 \in Nat /\ y \div 4 <= (y + 1) \div 4 /\ (y + 1) \div 4 \in Nat BY <1>1, LeapYears
<1>4. DaysBefore[m + 1] \in 0..334 /\ DaysBefore[1] = 0 BY <1>1, MonthLengths
<1>5. leap(y, m) \in 0..1 /\ leap(y, m + 1) \in 0..1 /\ leap(y + 1, 0) \in 0..1 OBVIOUS
<1>6. CASE m < 11
  <2>1. (n + 1) \div 12 = y /\ (n + 1) % 12 = m + 1 BY <1>6, MonthAndYear
  <2>2. FirstDay(n + 1) = 365 * y + y \div 4 + DaysBefore[m + 2] + leap(y, m + 1)
    BY <1>1, <2>1 DEF FirstDay
  <2>3. DaysBefore[m + 2] >= DaysBefore[m + 1] + 28 /\ DaysBefore[m + 2] \in 0..334
    <3>1. m \in 0..10 /\ m + 1 \in 0..11 /\ (m + 1) + 1 = m + 2 BY <1>1, <1>6
    <3> QED BY <3>1, MonthLengths
  <2> DEFINE before == 365 * y + y \div 4
             k == DaysBefore[m + 1]
             l == DaysBefore[m + 2]
             a == leap(y, m)
             b == leap(y, m + 1)
  <2>4. before \in Nat /\ k \in Nat /\ l \in Nat /\ l >= k + 28 /\ a \in 0..1 /\ b \in 0..1
    BY <1>1, <1>3, <1>4, <1>5, <2>3
  <2>5. FirstDay(n) = before + k + a /\ FirstDay(n + 1) = before + l + b BY <1>2, <2>2
  <2> HIDE DEF before, k, l, a, b
  <2> QED BY <2>4, <2>5
<1>7. CASE m = 11
  <2>1. (n + 1) \div 12 = y + 1 /\ (n + 1) % 12 = 0 BY <1>7, MonthAndYear
  <2>2. FirstDay(n + 1) = 365 * (y + 1) + (y + 1) \div 4 + DaysBefore[1] + leap(y + 1, 0)
    BY <2>1 DEF FirstDay
  <2> HIDE DEF y, m, leap
  <2> QED BY <1>1, <1>2, <1>3, <1>4, <1>5, <2>2
<1> QED BY <1>1, <1>6, <1>7

\* A year of months has at most 366 days.
LEMMA TwelveMonthsSpan ==
  ASSUME NEW n \in Nat
  PROVE  FirstDay(n + 12) <= FirstDay(n) + 366
<1> DEFINE y == n \div 12
           m == n % 12
           leap(a, b) == IF IsLeap(a) /\ b >= 2 THEN 1 ELSE 0
<1>1. y \in Nat /\ m \in 0..11 /\ y + 1 \in Nat BY MonthAndYear
<1>2. FirstDay(n) = 365 * y + y \div 4 + DaysBefore[m + 1] + leap(y, m) BY DEF FirstDay
<1>3. FirstDay(n + 12) = 365 * (y + 1) + (y + 1) \div 4 + DaysBefore[m + 1] + leap(y + 1, m)
  BY MonthAndYear DEF FirstDay
<1>4. DaysBefore[m + 1] \in 0..334 BY <1>1, MonthLengths
<1>5. y \div 4 \in Nat BY <1>1, LeapYears
<1>6. CASE IsLeap(y)
  <2>1. (y + 1) \div 4 = y \div 4 + 1 /\ leap(y + 1, m) = 0 BY <1>1, <1>6, LeapYears
  <2>2. leap(y, m) \in 0..1 OBVIOUS
  <2> HIDE DEF y, m, leap
  <2> QED BY <1>1, <1>2, <1>3, <1>4, <1>5, <2>1, <2>2
<1>7. CASE ~IsLeap(y)
  <2>1. (y + 1) \div 4 = y \div 4 /\ leap(y, m) = 0 BY <1>1, <1>7, LeapYears
  <2>2. leap(y + 1, m) \in 0..1 OBVIOUS
  <2> HIDE DEF y, m, leap
  <2> QED BY <1>1, <1>2, <1>3, <1>4, <1>5, <2>1, <2>2
<1> QED BY <1>6, <1>7

\* A day with the month it is in.
IsDate(at) ==
  /\ at \in [day : Nat, month : FirstMonth..LastMonth]
  /\ FirstDay(at.month) <= at.day /\ at.day < FirstDay(at.month + 1)

\* What every step keeps: the answer on screen is no newer than the chart.
ChartInv ==
  /\ IsDate(today) /\ changed \in Nat /\ changed <= today.day
  /\ chart \in [range : {"30d", "12m"}, queried : Nat, back : Int,
                drawn : [day : Nat, month : FirstMonth..LastMonth]]
  /\ IsDate(chart.drawn) /\ chart.queried <= chart.drawn.day

\* A chart drawn today from an earlier answer.
LEMMA DrawnToday ==
  ASSUME IsDate(today), NEW range \in {"30d", "12m"}, NEW day \in Nat, day <= today.day,
         NEW c \in Drawn(range, day)
  PROVE  /\ c \in [range : {"30d", "12m"}, queried : Nat, back : Int,
                   drawn : [day : Nat, month : FirstMonth..LastMonth]]
         /\ IsDate(c.drawn) /\ c.queried <= c.drawn.day
<1>1. Since(day, Asks(range)) \in Int BY DEF Since, Span, Asks
<1>2. PICK back \in ReadsBackTo(day, Since(day, Asks(range))) :
        c = [range |-> range, queried |-> day, back |-> back, drawn |-> today]
  BY DEF Drawn
<1>3. back \in Int BY <1>1, <1>2, EarningsChartAssumption DEF ReadsBackTo
<1> QED BY <1>2, <1>3 DEF IsDate

\* The page is opened on any day.
LEMMA ChartStarts == ChartInit => ChartInv
<1> SUFFICES ASSUME ChartInit PROVE ChartInv
  OBVIOUS
<1>1. PICK month \in FirstMonth..LastMonth :
        \E day \in FirstDay(month)..FirstDay(month + 1) - 1 : today = [day |-> day, month |-> month]
  BY DEF ChartInit
<1>2. PICK day \in FirstDay(month)..FirstDay(month + 1) - 1 : today = [day |-> day, month |-> month]
  BY <1>1
<1>3. month \in Nat /\ FirstDay(month) \in Nat /\ FirstDay(month + 1) \in Nat
  BY MonthsGrow, EarningsChartAssumption
<1>4. IsDate(today) BY <1>2, <1>3 DEF IsDate
<1>5. changed = today.day /\ chart \in Drawn("30d", today.day)
  BY DEF ChartInit
<1>6. today.day \in Nat /\ today.day <= today.day BY <1>4 DEF IsDate
<1> QED BY <1>4, <1>5, <1>6, DrawnToday DEF ChartInv

\* A day passes, the ledger changes, or another range is chosen.
LEMMA ChartKept == ChartInv /\ [ChartNext]_chartVars => ChartInv'
<1> SUFFICES ASSUME ChartInv, [ChartNext]_chartVars PROVE ChartInv'
  OBVIOUS
<1>1. CASE NextDay
  <2> DEFINE d == today.day
             m == today.month
  <2>1. d \in Nat /\ m \in FirstMonth..LastMonth /\ m \in Nat /\ FirstDay(m) <= d /\ d < FirstDay(m + 1)
    BY EarningsChartAssumption DEF ChartInv, IsDate
  <2>2. /\ FirstDay(m) \in Nat /\ FirstDay(m + 1) \in Nat
        /\ FirstDay(m + 1 + 1) \in Nat /\ FirstDay(m + 1) < FirstDay(m + 1 + 1)
    BY <2>1, MonthsGrow
  <2>3. UNCHANGED <<changed, chart>> BY <1>1 DEF NextDay
  <2>4. CASE d + 1 = FirstDay(m + 1)
    <3>1. m < LastMonth /\ today' = [day |-> d + 1, month |-> m + 1] BY <1>1, <2>4 DEF NextDay
    <3>2. m + 1 \in FirstMonth..LastMonth BY <2>1, <3>1, EarningsChartAssumption
    <3> HIDE DEF d, m
    <3>3. IsDate(today') BY <2>1, <2>2, <2>4, <3>1, <3>2 DEF IsDate
    <3>4. today'.day = d + 1 BY <3>1
    <3> QED BY <2>1, <2>3, <3>3, <3>4 DEF ChartInv, d
  <2>5. CASE d + 1 # FirstDay(m + 1)
    <3>1. today' = [day |-> d + 1, month |-> m] BY <1>1, <2>5 DEF NextDay
    <3> HIDE DEF d, m
    <3>3. IsDate(today') BY <2>1, <2>2, <2>5, <3>1 DEF IsDate
    <3>4. today'.day = d + 1 BY <3>1
    <3> QED BY <2>1, <2>3, <3>3, <3>4 DEF ChartInv, d
  <2> QED BY <2>4, <2>5
<1>2. CASE LedgerChanges
  <2>1. changed' = today.day /\ today' = today /\ chart' \in Drawn(chart.range, today.day)
    BY <1>2 DEF LedgerChanges
  <2>2. today.day \in Nat /\ today.day <= today.day /\ IsDate(today)
        /\ chart.range \in {"30d", "12m"}
    BY DEF ChartInv, IsDate
  <2> QED BY <2>1, <2>2, DrawnToday DEF ChartInv
<1>3. CASE SetRange
  <2> DEFINE range == IF chart.range = "30d" THEN "12m" ELSE "30d"
  <2>1. PICK day \in changed..today.day : chart' \in Drawn(range, day)
    BY <1>3 DEF SetRange
  <2>2. day \in Nat /\ day <= today.day /\ IsDate(today) /\ range \in {"30d", "12m"}
    BY DEF ChartInv, IsDate
  <2> HIDE DEF range
  <2>3. UNCHANGED <<today, changed>> BY <1>3 DEF SetRange
  <2> QED BY <2>1, <2>2, <2>3, DrawnToday DEF ChartInv
<1>4. CASE UNCHANGED chartVars
  BY <1>4 DEF chartVars, ChartInv
<1> QED BY <1>1, <1>2, <1>3, <1>4 DEF ChartNext

\* The query asks for as many days as the bars may need.
LEMMA BarsAreAnswered == ChartInv => ChartIsComplete
<1> SUFFICES ASSUME ChartInv PROVE ChartIsComplete
  OBVIOUS
<1> DEFINE q == chart.queried
           at == chart.drawn
<1>1. q \in Nat /\ at.day \in Nat /\ q <= at.day /\ at.month \in FirstMonth..LastMonth
      /\ at.day < FirstDay(at.month + 1) /\ chart.range \in {"30d", "12m"} /\ chart.back \in Int
  BY DEF ChartInv, IsDate
<1>2. at.month - 11 \in Nat /\ (at.month - 11) + 12 = at.month + 1
  BY <1>1, EarningsChartAssumption
<1>3. FirstDay(at.month - 11) \in Nat /\ FirstDay(at.month + 1) <= FirstDay(at.month - 11) + 366
  BY <1>2, TwelveMonthsSpan, MonthsGrow
<1>4. FirstDay(at.month + 1) \in Nat BY <1>2, MonthsGrow, EarningsChartAssumption
<1>5. SUFFICES FirstBar(chart.range, at) \in Int /\ Since(q, Asks(chart.range)) \in Int
               /\ FirstBar(chart.range, at) >= Since(q, Asks(chart.range))
  BY <1>1, EarningsChartAssumption DEF ChartIsComplete, Counts
<1>6. CASE chart.range = "30d"
  BY <1>1, <1>6 DEF FirstBar, Since, Asks, Span
<1>7. CASE chart.range = "12m"
  <2>1. FirstBar(chart.range, at) = FirstDay(at.month - 11) BY <1>7 DEF FirstBar, TwelveMonths
  <2>2. Since(q, Asks(chart.range)) = q - 365 BY <1>1, <1>7 DEF Since, Asks, Span
  <2> HIDE DEF q, at
  <2> QED BY <1>1, <1>3, <1>4, <2>1, <2>2
<1> QED BY <1>1, <1>6, <1>7

\* For any months, any hold and any day the scan stops on: every day that has a bar, and
\* comes after that one, is in the query's answer.
THEOREM ChartSafe == ChartSpec => [](ChartTypeOK /\ ChartIsComplete)
<1>1. ChartInv => ChartTypeOK BY DEF ChartInv, IsDate, ChartTypeOK
<1> QED BY ChartStarts, ChartKept, BarsAreAnswered, <1>1, PTL DEF ChartSpec

-----------------------------------------------------------------------------
(* Saved cards. *)

\* The customer a form is for is the row's.
FormsKnowCustomer ==
  \A p \in Pages :
    /\ setup[p].phase = "save" => setup[p].customer # 0
    /\ setup[p].phase \in {"secrets", "open"} => row # 0 /\ setup[p].customer = row

\* Nothing has changed that the page was not told of.
Told == setup[Here].phase # "confirmed" /\ removing.phase # "done" /\ ~unseen

\* What the page keeps, or is about to keep, is what there is.
ListIsFresh ==
  Told => /\ methods.fetch = "none" => methods.data = ListMethods
          /\ methods.fetch = "read" => methods.got = ListMethods

\* What every step keeps.
CardsInv ==
  /\ CardsTypeOK
  /\ removing \in [card : Cards \cup {NoCard}, phase : {"none", "check", "detach", "done"},
                   target : Cards \cup {NoCard}]
  /\ unseen \in BOOLEAN
  /\ FormsKnowCustomer
  /\ SavedCardsAreFound
  /\ ListIsFresh

\* No card and no customer at first.
LEMMA CardsStart == CardsInit => CardsInv
<1> SUFFICES ASSUME CardsInit PROVE CardsInv
  OBVIOUS
<1>1. CardsTypeOK
  <2>1. 0 \in 0..MaxCustomers BY SavedCardsAssumption
  <2> QED BY <2>1 DEF CardsInit, CardsTypeOK, Phases
<1>2. FormsKnowCustomer /\ SavedCardsAreFound BY DEF CardsInit, FormsKnowCustomer, SavedCardsAreFound
<1>3. ListIsFresh BY DEF CardsInit, ListIsFresh
<1>4. unseen \in BOOLEAN
      /\ removing \in [card : Cards \cup {NoCard}, phase : {"none", "check", "detach", "done"},
                        target : Cards \cup {NoCard}]
  BY DEF CardsInit
<1> QED BY <1>1, <1>2, <1>3, <1>4 DEF CardsInv

\* Every step of the pages, the setup and the removal keeps it.
LEMMA CardsKept == CardsInv /\ [CardsNext]_cardVars => CardsInv'
<1> SUFFICES ASSUME CardsInv, [CardsNext]_cardVars PROVE CardsInv'
  OBVIOUS
<1> USE SavedCardsAssumption DEF CardsInv, CardsTypeOK, FormsKnowCustomer, SavedCardsAreFound,
      ListIsFresh, Told, ListMethods, Phases, Invalidated, Settled, To
<1>1. CASE Refetches BY <1>1 DEF Refetches
<1>2. CASE FetchReads BY <1>2 DEF FetchReads
<1>3. CASE FetchEnds BY <1>3 DEF FetchEnds
<1>4. CASE CloseDialog BY <1>4 DEF CloseDialog
<1>5. CASE RemoveCard BY <1>5 DEF RemoveCard
<1>6. CASE CheckOwn BY <1>6 DEF CheckOwn
<1>7. CASE Detach 
  <2>1. /\ owner' = [owner EXCEPT ![removing.target] = 0] /\ removing' = [removing EXCEPT !.phase = "done"]
        /\ UNCHANGED <<customers, keyed, row, setup, methods, failures, unseen>>
    BY <1>7 DEF Detach
  <2>2. owner' \in [Cards -> 0..MaxCustomers] /\ \A c \in Cards : owner'[c] \in {0, owner[c]}
    <3> DEFINE t == removing.target
    <3>1. owner \in [Cards -> 0..MaxCustomers] /\ 0 \in 0..MaxCustomers OBVIOUS
    <3>2. owner' = [owner EXCEPT ![t] = 0] BY <2>1
    <3> HIDE DEF t, CardsInv, CardsTypeOK
    <3> QED BY <3>1, <3>2
  <2>3. removing'.phase = "done"
        /\ removing' \in [card : Cards \cup {NoCard}, phase : {"none", "check", "detach", "done"},
                           target : Cards \cup {NoCard}]
    BY <2>1
  <2>4. SavedCardsAreFound' BY <2>1, <2>2
  <2> QED BY <2>1, <2>2, <2>3, <2>4
<1>8. CASE Removed BY <1>8 DEF Removed
<1>9. CASE RemoveFails BY <1>9 DEF RemoveFails
<1>10. CASE KeyExpires BY <1>10 DEF KeyExpires
<1>11. ASSUME NEW p \in Pages, AddCard(p) PROVE CardsInv' BY <1>11 DEF AddCard, OffersAdd
<1>12. ASSUME NEW p \in Pages, FindCustomer(p) PROVE CardsInv' BY <1>12 DEF FindCustomer
<1>13. ASSUME NEW p \in Pages, CreateCustomer(p) PROVE CardsInv' BY <1>13 DEF CreateCustomer
<1>14. ASSUME NEW p \in Pages, SaveProfile(p) PROVE CardsInv' BY <1>14 DEF SaveProfile, Keeps
<1>15. ASSUME NEW p \in Pages, OpenForm(p) PROVE CardsInv' BY <1>15 DEF OpenForm
<1>16. ASSUME NEW p \in Pages, SetupFails(p) PROVE CardsInv' BY <1>16 DEF SetupFails
<1>17. ASSUME NEW p \in Pages, CancelForm(p) PROVE CardsInv' BY <1>17 DEF CancelForm
<1>18. ASSUME NEW p \in Pages, Saved(p) PROVE CardsInv' BY <1>18 DEF Saved
<1>19. ASSUME NEW p \in Pages, NEW c \in Cards, ConfirmSetup(p, c) PROVE CardsInv'
  BY <1>19 DEF ConfirmSetup
<1>20. ASSUME NEW c \in Cards, AskRemove(c) PROVE CardsInv' BY <1>20 DEF AskRemove
<1>21. ASSUME NEW c \in Cards, RemovedElsewhere(c) PROVE CardsInv' BY <1>21 DEF RemovedElsewhere
<1>22. CASE UNCHANGED cardVars BY <1>22 DEF cardVars
<1> QED BY <1>1, <1>2, <1>3, <1>4, <1>5, <1>6, <1>7, <1>8, <1>9, <1>10, <1>11, <1>12, <1>13, <1>14,
           <1>15, <1>16, <1>17, <1>18, <1>19, <1>20, <1>21, <1>22 DEF CardsNext

\* For any pages, cards and customers: a saved card is one the user can see, and a page to
\* which nothing is unknown lists what there is.
THEOREM CardsSafe == CardsSpec => [](CardsTypeOK /\ SavedCardsAreFound /\ ListIsCurrent)
<1>1. CardsInv => CardsTypeOK /\ SavedCardsAreFound /\ ListIsCurrent
  BY DEF CardsInv, ListIsFresh, Told, ListIsCurrent
<1> QED BY CardsStart, CardsKept, <1>1, PTL DEF CardsSpec

-----------------------------------------------------------------------------
(* The payout account. *)

\* What the page shows of the payout status, and of each component's session.
Outcomes == {"pending", "none", "started", "ready", "error"}
SettingsShape == [status : Outcomes, session : [Components -> {"idle", "pending", "open", "error"}]]

\* What an action has read after the latest change of its account is what Stripe has.
ReadIsTrue(a) ==
  /\ a.of # 0 => a.at <= changes[a.of]
  /\ a.phase \in {"account", "banks", "save", "done"} => a.of # 0
  /\ a.phase = "banks" /\ a.at = changes[a.of] => a.got.ready = standing[a.of].ready
  /\ a.phase = "save" /\ a.at = changes[a.of] => a.got = standing[a.of]
  /\ a.phase \in {"find", "create", "account"} => a.at = 0 /\ a.got = NewAccount

ReadsAreTrue ==
  /\ \A n \in StripeAccounts : changes[n] = 0 => standing[n] = NewAccount
  /\ \A a \in actions : ReadIsTrue(a)

\* The account an action has found is the row's; one it has made is the one the key
\* repeats, which is the row's once there is a row.
KnowsAccount(a) ==
  /\ a.op = "session" => a.phase \in {"find", "create", "save", "done", "failed"}
  /\ a.op # "session" =>
       /\ a.phase # "create"
       /\ a.phase \in {"account", "banks", "save", "done"} => a.of = copy.of
  /\ a.op = "session" /\ a.phase = "done" => copy.of # 0
  /\ forgotten # "during" =>
       /\ a.op = "session" /\ a.phase = "save" => repeats = a.of
       /\ Creating(a) /\ copy.of # 0 => repeats = copy.of
       /\ a.op = "session" /\ a.phase = "done" => a.of = copy.of

\* One account was made, unless Stripe forgot its key before a row named it.
OneWasMade ==
  forgotten = "never" =>
    /\ connect <= 1
    /\ connect = 1 /\ repeats = 0 => copy.of # 0 /\ \A a \in actions : ~Creating(a)

\* An action that will save what it reads after the latest change, or has read it.
Reconciles(a, n) ==
  /\ a.op = "reconcile" /\ a.of = n
  /\ a.phase \in {"find", "account"} \/ (a.phase \in {"banks", "save"} /\ a.at = changes[n])

\* The latest change is saved, or someone is about to look.
ChangesAreSeen ==
  ~missed => \A n \in StripeAccounts : copy.of \in {0, n} =>
    newest = changes[n] \/ notices[n] > 0 \/ \E a \in actions : Reconciles(a, n)

\* A row that has seen the latest change is true.
RowIsTrue ==
  /\ copy.of = 0 => newest = 0
  /\ copy.of # 0 => newest <= changes[copy.of]
  /\ copy.of # 0 /\ ~overtaken /\ newest = changes[copy.of] => copy.got = standing[copy.of]

\* What every step keeps.
AccountInv ==
  /\ AccountTypeOK
  /\ settings \in SettingsShape
  /\ overtaken \in BOOLEAN /\ missed \in BOOLEAN
  /\ \A n \in StripeAccounts : notices[n] <= changes[n]
  /\ \A a \in actions : KnowsAccount(a)
  /\ OneWasMade
  /\ ReadsAreTrue
  /\ ChangesAreSeen
  /\ RowIsTrue

\* No account at first.
LEMMA AccountStarts == AccountInit => AccountInv
<1> SUFFICES ASSUME AccountInit PROVE AccountInv
  OBVIOUS
<1>1. /\ connect = 0 /\ repeats = 0 /\ standing = [n \in StripeAccounts |-> NewAccount]
      /\ changes = [n \in StripeAccounts |-> 0] /\ notices = [n \in StripeAccounts |-> 0]
      /\ copy = [of |-> 0, got |-> NewAccount] /\ actions = {} /\ newest = 0
      /\ overtaken = FALSE /\ missed = FALSE /\ forgotten = "never"
  BY DEF AccountInit
<1>2. settings \in SettingsShape /\ settings.status = "pending" BY DEF AccountInit, SettingsShape, Outcomes
<1>3. NewAccount \in Account BY DEF NewAccount, Account
<1>4. 0 \in 0..MaxChanges /\ 0 \in 0..MaxAccounts BY PayoutAccountsAssumption
<1>5. AccountTypeOK BY <1>1, <1>2, <1>3, <1>4 DEF AccountTypeOK
<1>6. ReadsAreTrue /\ ChangesAreSeen /\ RowIsTrue /\ OneWasMade
  BY <1>1 DEF ReadsAreTrue, ChangesAreSeen, RowIsTrue, OneWasMade
<1>7. \A n \in StripeAccounts : notices[n] <= changes[n] BY <1>1
<1> QED BY <1>1, <1>2, <1>5, <1>6, <1>7 DEF AccountInv

\* Stripe changes an account: what was read of it before is older.
LEMMA ChangeKeeps ==
  ASSUME AccountInv, NEW n \in StripeAccounts, NEW new \in Account, AccountChanges(n, new)
  PROVE  AccountInv'
<1>1. /\ standing' = [standing EXCEPT ![n] = new] /\ changes' = [changes EXCEPT ![n] = changes[n] + 1]
      /\ notices' = [notices EXCEPT ![n] = notices[n] + 1] /\ changes[n] < MaxChanges
      /\ UNCHANGED <<connect, repeats, copy, actions, newest, overtaken, missed, forgotten, settings>>
  BY DEF AccountChanges
<1>2. /\ standing \in [StripeAccounts -> Account] /\ changes \in [StripeAccounts -> 0..MaxChanges]
      /\ notices \in [StripeAccounts -> 0..MaxChanges] /\ newest \in Nat /\ copy.of \in 0..MaxAccounts
      /\ notices[n] <= changes[n] /\ MaxChanges \in Nat
      /\ \A a \in actions : a.at \in Nat /\ a.of \in 0..MaxAccounts /\ ReadIsTrue(a)
      /\ \A m \in 0..MaxAccounts : m # 0 => m \in StripeAccounts
  BY PayoutAccountsAssumption DEF AccountInv, AccountTypeOK, Action, ReadsAreTrue, StripeAccounts
<1>3. /\ standing' \in [StripeAccounts -> Account] /\ changes' \in [StripeAccounts -> 0..MaxChanges]
      /\ notices' \in [StripeAccounts -> 0..MaxChanges]
      /\ changes'[n] = changes[n] + 1 /\ changes'[n] # 0 /\ notices'[n] > 0
      /\ \A m \in StripeAccounts :
           /\ m # n => changes'[m] = changes[m] /\ standing'[m] = standing[m] /\ notices'[m] = notices[m]
           /\ changes[m] \in Nat /\ changes[m] <= changes'[m] /\ notices'[m] <= changes'[m]
  BY <1>1, <1>2 DEF AccountInv
<1>4. AccountTypeOK' BY <1>1, <1>3 DEF AccountInv, AccountTypeOK
<1>5. ReadsAreTrue'
  <2>1. ASSUME NEW a \in actions PROVE ReadIsTrue(a)'
    <3>1. CASE a.of = n
      <4>1. a.at <= changes[n] /\ a.at # changes'[n] BY <1>2, <1>3, <3>1 DEF ReadIsTrue, StripeAccounts
      <4> QED BY <1>2, <1>3, <3>1, <4>1 DEF ReadIsTrue
    <3>2. CASE a.of # n
      <4>1. a.of # 0 => changes'[a.of] = changes[a.of] /\ standing'[a.of] = standing[a.of]
        BY <1>2, <1>3, <3>2
      <4> QED BY <1>2, <4>1 DEF ReadIsTrue
    <3> QED BY <3>1, <3>2
  <2> QED BY <1>1, <1>3, <2>1 DEF AccountInv, ReadsAreTrue
<1>6. ChangesAreSeen' BY <1>1, <1>3 DEF AccountInv, ChangesAreSeen, Reconciles
<1>7. RowIsTrue'
  <2>1. CASE copy.of = n
    <3>1. newest <= changes[n] BY <1>2, <2>1 DEF AccountInv, RowIsTrue, StripeAccounts
    <3>2. newest <= changes'[n] /\ newest # changes'[n] BY <1>2, <1>3, <3>1
    <3> QED BY <1>1, <2>1, <3>2 DEF AccountInv, RowIsTrue
  <2>2. CASE copy.of # n
    <3>1. copy.of # 0 => changes'[copy.of] = changes[copy.of] /\ standing'[copy.of] = standing[copy.of]
      BY <1>2, <1>3, <2>2
    <3> QED BY <1>1, <3>1 DEF AccountInv, RowIsTrue
  <2> QED BY <2>1, <2>2
<1>8. \A a \in actions' : KnowsAccount(a)'
  BY <1>1 DEF AccountInv, KnowsAccount, Creating
<1>9. OneWasMade' BY <1>1 DEF AccountInv, OneWasMade, Creating
<1> QED BY <1>1, <1>3, <1>4, <1>5, <1>6, <1>7, <1>8, <1>9 DEF AccountInv

\* Stripe forgets the key of the creator's account.
LEMMA ForgettingKeeps == AccountInv /\ KeyForgotten => AccountInv'
<1> SUFFICES ASSUME AccountInv, KeyForgotten PROVE AccountInv'
  OBVIOUS
<1>1. /\ repeats' = 0 /\ repeats # 0
      /\ UNCHANGED <<connect, standing, changes, notices, copy, actions, newest, overtaken, missed, settings>>
      /\ forgotten' = IF \E a \in actions : Creating(a) THEN "during"
                      ELSE IF forgotten = "never" /\ copy.of = 0 THEN "between" ELSE forgotten
  BY DEF KeyForgotten
<1>2. AccountTypeOK' BY <1>1, PayoutAccountsAssumption DEF AccountInv, AccountTypeOK
<1>3. forgotten' # "during" => forgotten # "during" /\ \A a \in actions : ~Creating(a) BY <1>1
<1>4. \A a \in actions' : KnowsAccount(a)'
  BY <1>1, <1>3 DEF AccountInv, KnowsAccount, Creating
<1>5. OneWasMade'
  <2> SUFFICES ASSUME forgotten' = "never"
               PROVE  connect <= 1 /\ copy.of # 0 /\ \A a \in actions : ~Creating(a)
    BY <1>1 DEF OneWasMade, Creating
  <2>1. forgotten = "never" BY <1>1
  <2>2. copy.of # 0 /\ \A a \in actions : ~Creating(a) BY <1>1, <2>1
  <2> QED BY <2>1, <2>2 DEF AccountInv, OneWasMade
<1>6. ReadsAreTrue' BY <1>1 DEF AccountInv, ReadsAreTrue, ReadIsTrue
<1>7. ChangesAreSeen' /\ RowIsTrue' BY <1>1 DEF AccountInv, ChangesAreSeen, Reconciles, RowIsTrue
<1> QED BY <1>1, <1>2, <1>4, <1>5, <1>6, <1>7 DEF AccountInv

\* A new action reads everything anew.
LEMMA StartKeeps ==
  ASSUME AccountInv, NEW op \in {"status", "session", "reconcile"}, NEW by \in Callers,
         NEW of \in 0..MaxAccounts,
         actions' = actions \cup {Starts(op, by, of)}, settings' \in SettingsShape,
         \/ notices' = notices
         \/ /\ of \in StripeAccounts /\ op = "reconcile" /\ notices[of] > 0
            /\ notices' = [notices EXCEPT ![of] = notices[of] - 1],
         UNCHANGED <<stripeVars, copy, newest, overtaken, missed, forgotten>>
  PROVE  AccountInv'
<1> DEFINE b == Starts(op, by, of)
<1>1. b \in Action /\ b.op = op /\ b.phase = "find" /\ b.of = of /\ b.at = 0 /\ b.got = NewAccount
  BY PayoutAccountsAssumption DEF Starts, Action, Account, NewAccount
<1> HIDE DEF b
<1>2. actions' = actions \cup {b} BY DEF b
<1>3. /\ changes \in [StripeAccounts -> 0..MaxChanges] /\ notices \in [StripeAccounts -> 0..MaxChanges]
      /\ MaxChanges \in Nat /\ \A n \in StripeAccounts : notices[n] <= changes[n]
      /\ of # 0 => of \in StripeAccounts
  BY PayoutAccountsAssumption DEF AccountInv, AccountTypeOK, StripeAccounts
<1>4. /\ notices' \in [StripeAccounts -> 0..MaxChanges]
      /\ \A n \in StripeAccounts : /\ notices'[n] <= changes[n]
                                   /\ notices'[n] = notices[n] \/ (op = "reconcile" /\ n = of)
  <2>1. CASE notices' = notices BY <1>3, <2>1
  <2>2. CASE /\ of \in StripeAccounts /\ op = "reconcile" /\ notices[of] > 0
             /\ notices' = [notices EXCEPT ![of] = notices[of] - 1]
    BY <1>3, <2>2
  <2> QED BY <2>1, <2>2
<1>5. settings'.status \in Outcomes BY DEF SettingsShape
<1>6. UNCHANGED <<connect, repeats, standing, changes>> BY DEF stripeVars
<1>7. AccountTypeOK' BY <1>1, <1>2, <1>4, <1>5, <1>6 DEF AccountInv, AccountTypeOK, Outcomes
<1>8. ReadsAreTrue'
  <2>1. ReadIsTrue(b)' BY <1>1, <1>3, <1>6 DEF ReadIsTrue
  <2> QED BY <1>2, <1>6, <2>1 DEF AccountInv, ReadsAreTrue, ReadIsTrue
<1>9. ChangesAreSeen'
  BY <1>1, <1>2, <1>4, <1>6 DEF AccountInv, ChangesAreSeen, Reconciles
<1>10. RowIsTrue' BY <1>6 DEF AccountInv, RowIsTrue
<1>11. ~Creating(b) BY <1>1 DEF Creating
<1>12. \A a \in actions' : KnowsAccount(a)'
  BY <1>1, <1>2, <1>6, <1>11 DEF AccountInv, KnowsAccount, Creating
<1>13. OneWasMade' BY <1>2, <1>6, <1>11 DEF AccountInv, OneWasMade, Creating
<1> QED BY <1>4, <1>6, <1>7, <1>8, <1>9, <1>10, <1>12, <1>13 DEF AccountInv

\* What an action knows at its next step, when only the action moves on.
LEMMA NextStepKeeps ==
  ASSUME AccountInv, NEW a \in actions, NEW b \in Action,
         actions' = (actions \ {a}) \cup {b},
         UNCHANGED <<stripeVars, notices, copy, newest, overtaken, forgotten, settings>>,
         missed' \in BOOLEAN, missed => missed',
         ReadIsTrue(b), KnowsAccount(b), Creating(b) => Creating(a) \/ copy.of = 0,
         \A n \in StripeAccounts :
            Reconciles(a, n) /\ copy.of \in {0, n} => missed' \/ Reconciles(b, n)
  PROVE  AccountInv'
<1>1. UNCHANGED <<connect, repeats, standing, changes>> BY DEF stripeVars
<1>2. AccountTypeOK' BY <1>1 DEF AccountInv, AccountTypeOK
<1>3. ReadsAreTrue' BY <1>1 DEF AccountInv, ReadsAreTrue, ReadIsTrue
<1>4. \A c \in actions' : KnowsAccount(c)' BY <1>1 DEF AccountInv, KnowsAccount, Creating
<1>5. OneWasMade' BY <1>1 DEF AccountInv, OneWasMade, Creating
<1>6. ChangesAreSeen'
  <2> SUFFICES ASSUME ~missed', NEW n \in StripeAccounts, copy.of \in {0, n},
                      newest # changes[n], ~(notices[n] > 0)
               PROVE  \E c \in actions' : Reconciles(c, n)
    BY <1>1 DEF ChangesAreSeen, Reconciles
  <2>1. PICK c \in actions : Reconciles(c, n) BY DEF AccountInv, ChangesAreSeen
  <2>2. CASE c = a BY <2>1, <2>2
  <2>3. CASE c # a BY <2>1, <2>3
  <2> QED BY <2>2, <2>3
<1>7. RowIsTrue' BY <1>1 DEF AccountInv, RowIsTrue
<1> QED BY <1>1, <1>2, <1>3, <1>4, <1>5, <1>6, <1>7 DEF AccountInv

\* What is known of an action.
LEMMA OfAction ==
  ASSUME AccountInv, NEW a \in actions
  PROVE  /\ a \in Action /\ a.op \in {"status", "session", "reconcile"}
         /\ a.at \in 0..MaxChanges /\ a.got \in Account /\ a.of \in 0..MaxAccounts
         /\ a.got.ready \in BOOLEAN /\ a.got.bank \in BOOLEAN
         /\ ReadIsTrue(a) /\ KnowsAccount(a)
         /\ copy.of \in 0..MaxAccounts /\ copy.got \in Account /\ newest \in 0..MaxChanges
         /\ MaxChanges \in Nat /\ MaxAccounts \in Nat /\ missed \in BOOLEAN
         /\ \A n \in 0..MaxAccounts : n # 0 =>
              /\ n \in StripeAccounts /\ changes[n] \in 0..MaxChanges
              /\ standing[n] \in Account
              /\ standing[n].ready \in BOOLEAN /\ standing[n].bank \in BOOLEAN
<1>1. \A n \in 0..MaxAccounts : n # 0 => n \in StripeAccounts
  BY PayoutAccountsAssumption DEF StripeAccounts
<1> QED BY <1>1, PayoutAccountsAssumption
        DEF AccountInv, AccountTypeOK, Action, Account, ReadsAreTrue

\* The row is looked up.
LEMMA FindKeeps == ASSUME AccountInv, NEW a \in actions, Find(a) PROVE AccountInv'
<1>0. /\ a \in Action /\ a.op \in {"status", "session", "reconcile"} /\ ReadIsTrue(a)
      /\ a.of \in 0..MaxAccounts /\ copy.of \in 0..MaxAccounts /\ missed \in BOOLEAN /\ KnowsAccount(a)
      /\ \A n \in 0..MaxAccounts : n # 0 => n \in StripeAccounts /\ changes[n] \in 0..MaxChanges
      /\ MaxChanges \in Nat
  BY OfAction
<1>1. /\ a.phase = "find" /\ missed' = (missed \/ (a.op = "reconcile" /\ copy.of = 0))
      /\ UNCHANGED <<stripeVars, notices, copy, newest, overtaken, forgotten, settings>>
  BY DEF Find
<1>2. a.at = 0 /\ a.got = NewAccount BY <1>0, <1>1 DEF ReadIsTrue
<1>3. CASE Finds(a)
  <2> DEFINE b == [a EXCEPT !.of = copy.of, !.phase = IF a.op = "session" THEN "done" ELSE "account"]
  <2>1. actions' = (actions \ {a}) \cup {b} /\ copy.of # 0 /\ (a.op = "reconcile" => copy.of = a.of)
    BY <1>3 DEF Find, Finds, Becomes
  <2>2. /\ b \in Action /\ b.op = a.op /\ b.of = copy.of /\ b.at = 0 /\ b.got = NewAccount
        /\ b.phase = IF a.op = "session" THEN "done" ELSE "account"
    BY <1>0, <1>2 DEF Action
  <2> HIDE DEF b
  <2>3. ReadIsTrue(b) BY <1>0, <2>1, <2>2 DEF ReadIsTrue
  <2>4. KnowsAccount(b) /\ ~Creating(b) BY <1>0, <2>1, <2>2 DEF KnowsAccount, Creating
  <2>5. \A n \in StripeAccounts : Reconciles(a, n) /\ copy.of \in {0, n} => Reconciles(b, n)
    BY <2>1, <2>2 DEF Reconciles
  <2> QED BY <1>0, <1>1, <2>1, <2>2, <2>3, <2>4, <2>5, NextStepKeeps
<1>4. CASE ~Finds(a)
  <2> DEFINE b == [a EXCEPT !.phase = IF a.op = "session" THEN "create" ELSE "none"]
  <2>1. actions' = (actions \ {a}) \cup {b} BY <1>4 DEF Find, Becomes
  <2>2. /\ b \in Action /\ b.op = a.op /\ b.of = a.of /\ b.at = 0 /\ b.got = NewAccount
        /\ b.phase = IF a.op = "session" THEN "create" ELSE "none"
    BY <1>0, <1>2 DEF Action
  <2> HIDE DEF b
  <2>3. ReadIsTrue(b) BY <1>0, <2>2 DEF ReadIsTrue
  <2>4. Creating(b) => copy.of = 0 BY <1>4, <2>2 DEF Creating, Finds
  <2>5. KnowsAccount(b) BY <1>0, <2>2, <2>4 DEF KnowsAccount
  <2>6. \A n \in StripeAccounts : Reconciles(a, n) /\ copy.of \in {0, n} => missed'
    <3> SUFFICES ASSUME NEW n \in StripeAccounts, Reconciles(a, n), copy.of = n PROVE FALSE
      BY <1>1 DEF Reconciles
    <3> QED BY <1>4, PayoutAccountsAssumption DEF Reconciles, Finds, StripeAccounts
  <2> QED BY <1>0, <1>1, <2>1, <2>2, <2>3, <2>4, <2>5, <2>6, NextStepKeeps
<1> QED BY <1>3, <1>4

\* Stripe makes an account, or repeats the one it has made.
LEMMA MakingKeeps ==
  ASSUME AccountInv, NEW a \in actions, NEW n \in StripeAccounts, CreateAccount(a, n)
  PROVE  AccountInv'
<1>a. n \in 0..MaxAccounts /\ n # 0 /\ MaxAccounts \in Nat
  BY PayoutAccountsAssumption DEF StripeAccounts
<1>0. /\ a \in Action /\ a.op \in {"status", "session", "reconcile"} /\ ReadIsTrue(a)
      /\ KnowsAccount(a) /\ changes[n] \in 0..MaxChanges /\ MaxChanges \in Nat
      /\ n \in 0..MaxAccounts /\ n # 0 /\ MaxAccounts \in Nat
  BY <1>a, OfAction
<1>1. /\ a.phase = "create" /\ MakesAccount(n)
      /\ UNCHANGED <<standing, changes, notices, copy, newest, overtaken, missed, forgotten, settings>>
  BY DEF CreateAccount
<1>2. /\ connect \in 0..MaxAccounts /\ repeats \in 0..MaxAccounts
      /\ connect' \in 0..MaxAccounts /\ repeats' = n /\ (repeats # 0 => repeats' = repeats)
      /\ (repeats = 0 => connect' = connect + 1) /\ (repeats # 0 => connect' = connect)
  BY <1>0, <1>1 DEF MakesAccount, AccountInv, AccountTypeOK
<1> DEFINE b == [a EXCEPT !.phase = "save", !.of = n]
<1>3. actions' = (actions \ {a}) \cup {b} BY DEF CreateAccount, Becomes
<1>4. /\ b \in Action /\ b.op = a.op /\ b.phase = "save" /\ b.of = n /\ b.at = 0 /\ b.got = NewAccount
      /\ a.op = "session"
  BY <1>0, <1>1 DEF Action, ReadIsTrue, KnowsAccount
<1> HIDE DEF b
<1>5. Creating(a) BY <1>1, <1>4 DEF Creating
<1>6. AccountTypeOK' BY <1>0, <1>1, <1>2, <1>3, <1>4 DEF AccountInv, AccountTypeOK
<1>7. ReadsAreTrue'
  <2>1. ReadIsTrue(b)' BY <1>0, <1>1, <1>4 DEF ReadIsTrue, AccountInv, ReadsAreTrue
  <2> QED BY <1>1, <1>3, <2>1 DEF AccountInv, ReadsAreTrue, ReadIsTrue
<1>8. forgotten # "during" /\ copy.of # 0 => n = copy.of
  BY <1>0, <1>2, <1>5 DEF KnowsAccount
<1>9. forgotten # "during" => \A c \in actions : c.op = "session" /\ c.phase = "save" => n = c.of
  <2> SUFFICES ASSUME forgotten # "during", NEW c \in actions, c.op = "session", c.phase = "save"
               PROVE  n = c.of
    OBVIOUS
  <2>1. repeats = c.of /\ c.of # 0 BY DEF AccountInv, KnowsAccount, ReadsAreTrue, ReadIsTrue
  <2> QED BY <1>2, <2>1
<1>10. \A c \in actions' : KnowsAccount(c)'
  <2>1. KnowsAccount(b)' BY <1>1, <1>2, <1>4, <1>8 DEF KnowsAccount, Creating
  <2>2. ASSUME NEW c \in actions PROVE KnowsAccount(c)'
    BY <1>1, <1>2, <1>8, <1>9 DEF AccountInv, KnowsAccount, Creating
  <2> QED BY <1>3, <2>1, <2>2
<1>11. OneWasMade'
  <2>1. forgotten = "never" /\ connect = 1 => repeats # 0 BY <1>5 DEF AccountInv, OneWasMade
  <2> QED BY <1>0, <1>1, <1>2, <2>1 DEF AccountInv, OneWasMade
<1>12. ChangesAreSeen'
  <2>1. \A m \in StripeAccounts : ~Reconciles(a, m) BY <1>4 DEF Reconciles
  <2> QED BY <1>1, <1>3, <2>1 DEF AccountInv, ChangesAreSeen, Reconciles
<1>13. RowIsTrue' BY <1>1 DEF AccountInv, RowIsTrue
<1> QED BY <1>1, <1>6, <1>7, <1>10, <1>11, <1>12, <1>13 DEF AccountInv

\* The account is read, then its banks, or a request fails.
LEMMA ReadingKeeps ==
  ASSUME AccountInv, NEW a \in actions, ReadAccount(a) \/ ReadBanks(a) \/ Fails(a)
  PROVE  AccountInv'
<1>0. /\ a \in Action /\ a.op \in {"status", "session", "reconcile"} /\ ReadIsTrue(a) /\ KnowsAccount(a)
      /\ a.at \in 0..MaxChanges /\ a.of \in 0..MaxAccounts /\ a.got \in Account
      /\ a.got.ready \in BOOLEAN /\ a.got.bank \in BOOLEAN
      /\ MaxChanges \in Nat /\ missed \in BOOLEAN
      /\ \A n \in 0..MaxAccounts : n # 0 =>
           /\ n \in StripeAccounts /\ changes[n] \in 0..MaxChanges /\ standing[n] \in Account
           /\ standing[n].ready \in BOOLEAN /\ standing[n].bank \in BOOLEAN
  BY OfAction
<1>1. CASE ReadAccount(a)
  <2> DEFINE b == [a EXCEPT !.phase = "banks", !.got.ready = standing[a.of].ready, !.at = changes[a.of]]
  <2>1. /\ a.phase = "account" /\ actions' = (actions \ {a}) \cup {b}
        /\ UNCHANGED <<stripeVars, notices, copy, newest, overtaken, missed, forgotten, settings>>
    BY <1>1 DEF ReadAccount, Becomes
  <2>2. a.of # 0 BY <1>0, <2>1 DEF ReadIsTrue
  <2>3. /\ b \in Action /\ b.op = a.op /\ b.phase = "banks" /\ b.of = a.of
        /\ b.at = changes[a.of] /\ b.got.ready = standing[a.of].ready
    BY <1>0, <2>2 DEF Action, Account
  <2> HIDE DEF b
  <2>4. ReadIsTrue(b) BY <1>0, <2>2, <2>3 DEF ReadIsTrue
  <2>5. KnowsAccount(b) /\ ~Creating(b) BY <1>0, <2>1, <2>3 DEF KnowsAccount, Creating
  <2>6. \A n \in StripeAccounts : Reconciles(a, n) => Reconciles(b, n) BY <2>3 DEF Reconciles
  <2> QED BY <1>0, <2>1, <2>3, <2>4, <2>5, <2>6, NextStepKeeps
<1>2. CASE ReadBanks(a)
  <2> DEFINE b == [a EXCEPT !.phase = "save", !.got.bank = standing[a.of].bank]
  <2>1. /\ a.phase = "banks" /\ actions' = (actions \ {a}) \cup {b}
        /\ UNCHANGED <<stripeVars, notices, copy, newest, overtaken, missed, forgotten, settings>>
    BY <1>2 DEF ReadBanks, Becomes
  <2>2. a.of # 0 BY <1>0, <2>1 DEF ReadIsTrue
  <2>3. /\ b \in Action /\ b.op = a.op /\ b.phase = "save" /\ b.of = a.of /\ b.at = a.at
        /\ b.got \in Account /\ b.got.ready = a.got.ready /\ b.got.bank = standing[a.of].bank
    BY <1>0, <2>2 DEF Action, Account
  <2> HIDE DEF b
  <2>7. b.at = changes[b.of] => b.got = standing[b.of]
    <3>1. b.at = changes[b.of] => b.got.ready = standing[a.of].ready BY <1>0, <2>1, <2>3 DEF ReadIsTrue
    <3> QED BY <1>0, <2>2, <2>3, <3>1 DEF Account
  <2>4. ReadIsTrue(b) BY <1>0, <2>2, <2>3, <2>7 DEF ReadIsTrue
  <2>5. KnowsAccount(b) /\ ~Creating(b) BY <1>0, <2>1, <2>3 DEF KnowsAccount, Creating
  <2>6. \A n \in StripeAccounts : Reconciles(a, n) => Reconciles(b, n)
    BY <2>1, <2>3 DEF Reconciles
  <2> QED BY <1>0, <2>1, <2>3, <2>4, <2>5, <2>6, NextStepKeeps
<1>3. CASE Fails(a)
  <2> DEFINE b == [a EXCEPT !.phase = "failed"]
  <2>1. /\ actions' = (actions \ {a}) \cup {b} /\ missed' = (missed \/ a.op = "reconcile")
        /\ UNCHANGED <<stripeVars, notices, copy, newest, overtaken, forgotten, settings>>
    BY <1>3 DEF Fails, Becomes
  <2>3. b \in Action /\ b.op = a.op /\ b.phase = "failed" /\ b.of = a.of /\ b.at = a.at
    BY <1>0 DEF Action
  <2> HIDE DEF b
  <2>4. ReadIsTrue(b) BY <1>0, <2>3 DEF ReadIsTrue
  <2>5. KnowsAccount(b) /\ ~Creating(b) BY <1>0, <2>3 DEF KnowsAccount, Creating
  <2>6. \A n \in StripeAccounts : Reconciles(a, n) => missed' BY <2>1 DEF Reconciles
  <2> QED BY <1>0, <2>1, <2>3, <2>4, <2>5, <2>6, NextStepKeeps
<1> QED BY <1>1, <1>2, <1>3

\* What was read is saved, unless the row names another account.
LEMMA SaveKeeps == ASSUME AccountInv, NEW a \in actions, Save(a) PROVE AccountInv'
<1>0. /\ a \in Action /\ a.op \in {"status", "session", "reconcile"} /\ ReadIsTrue(a) /\ KnowsAccount(a)
      /\ a.at \in 0..MaxChanges /\ a.of \in 0..MaxAccounts /\ a.got \in Account
      /\ copy.of \in 0..MaxAccounts /\ newest \in 0..MaxChanges
      /\ MaxChanges \in Nat /\ missed \in BOOLEAN
      /\ \A n \in 0..MaxAccounts : n # 0 =>
           n \in StripeAccounts /\ changes[n] \in 0..MaxChanges
  BY OfAction
<1> DEFINE b == [a EXCEPT !.phase = "done"]
<1>1. /\ a.phase = "save" /\ actions' = (actions \ {a}) \cup {b}
      /\ UNCHANGED <<stripeVars, notices, forgotten, settings>>
  BY DEF Save, Becomes
<1>2. b \in Action /\ b.op = a.op /\ b.phase = "done" /\ b.of = a.of /\ b.at = a.at
  BY <1>0 DEF Action
<1> HIDE DEF b
<1>3. a.of # 0 /\ ReadIsTrue(b) /\ ~Creating(b) BY <1>0, <1>1, <1>2 DEF ReadIsTrue, Creating
<1>4. CASE ~Adopts(a.of)
  <2>1. UNCHANGED <<copy, newest, overtaken, missed>> BY <1>4 DEF Save
  <2>2. copy.of # 0 /\ copy.of # a.of BY <1>4 DEF Adopts
  <2>3. a.op = "session" /\ forgotten = "during"
    BY <1>0, <1>1, <2>2 DEF KnowsAccount, Creating
  <2>4. KnowsAccount(b) BY <1>2, <2>2, <2>3 DEF KnowsAccount, Creating
  <2>5. \A n \in StripeAccounts : ~Reconciles(a, n) BY <2>3 DEF Reconciles
  <2> QED BY <1>0, <1>1, <1>2, <1>3, <2>1, <2>4, <2>5, NextStepKeeps
<1>5. CASE Adopts(a.of)
  <2> DEFINE n == a.of
  <2>1. /\ copy' = [of |-> n, got |-> a.got] /\ newest' = IF a.at > newest THEN a.at ELSE newest
        /\ overtaken' = (a.at < newest) /\ missed' = (missed /\ a.at # changes[n])
        /\ copy.of = 0 \/ copy.of = n
    BY <1>5 DEF Save, Adopts
  <2>2. UNCHANGED <<connect, repeats, standing, changes>> BY <1>1 DEF stripeVars
  <2>3. /\ n \in StripeAccounts /\ n # 0 /\ n \in 0..MaxAccounts /\ changes[n] \in 0..MaxChanges
        /\ a.at <= changes[n]
    BY <1>0, <1>3 DEF ReadIsTrue
  <2>4. newest <= changes[n]
    <3>1. CASE copy.of = 0 BY <1>0, <2>3, <3>1 DEF AccountInv, RowIsTrue
    <3>2. CASE copy.of = n BY <2>3, <3>2 DEF AccountInv, RowIsTrue
    <3> QED BY <2>1, <3>1, <3>2
  <2>5. /\ newest' \in 0..MaxChanges /\ newest' <= changes[n]
        /\ (a.at = changes[n] => newest' = changes[n])
        /\ (~overtaken' => newest' = a.at)
        /\ (newest = changes[n] => newest' = changes[n])
    <3>1. CASE a.at > newest BY <1>0, <2>1, <2>3, <2>4, <3>1
    <3>2. CASE ~(a.at > newest)
      <4>1. newest' = newest BY <2>1, <3>2
      <4>2. ~(a.at < newest) => newest = a.at BY <1>0, <3>2
      <4>3. ~overtaken' => newest' = a.at BY <2>1, <4>1, <4>2
      <4>4. a.at = changes[n] => newest = changes[n] BY <1>0, <2>3, <2>4, <3>2
      <4> QED BY <1>0, <2>4, <4>1, <4>3, <4>4
    <3> QED BY <3>1, <3>2
  <2>6. copy' \in [of : 0..MaxAccounts, got : Account] /\ copy'.of = n /\ copy'.got = a.got
    BY <1>0, <2>1, <2>3
  <2> HIDE DEF n
  <2>7. AccountTypeOK' BY <1>1, <1>2, <2>2, <2>5, <2>6 DEF AccountInv, AccountTypeOK
  <2>8. ReadsAreTrue' BY <1>1, <1>3, <2>2 DEF AccountInv, ReadsAreTrue, ReadIsTrue
  <2>9. RowIsTrue'
    <3>1. newest' = changes[n] /\ ~overtaken' => a.got = standing[n]
      BY <1>0, <1>1, <2>5 DEF ReadIsTrue, n
    <3> QED BY <2>2, <2>3, <2>5, <2>6, <3>1 DEF RowIsTrue
  <2>10. ChangesAreSeen'
    <3> SUFFICES ASSUME ~missed', newest' # changes[n], ~(notices[n] > 0)
                 PROVE  \E c \in actions' : Reconciles(c, n)
      BY <1>1, <2>2, <2>3, <2>6 DEF ChangesAreSeen, Reconciles
    <3>1. ~missed /\ newest # changes[n] /\ a.at # changes[n] BY <2>1, <2>5
    <3>2. PICK c \in actions : Reconciles(c, n) BY <2>1, <2>3, <3>1 DEF AccountInv, ChangesAreSeen
    <3>3. c # a BY <1>1, <3>1, <3>2 DEF Reconciles
    <3> QED BY <1>1, <3>2, <3>3
  <2>11. \A c \in actions' : KnowsAccount(c)'
    <3>1. forgotten # "during" /\ a.op = "session" => repeats = n BY <1>0, <1>1 DEF KnowsAccount, n
    <3>2. a.op # "session" => copy.of = n BY <1>0, <1>1 DEF KnowsAccount, n
    <3>3. KnowsAccount(b)' BY <1>1, <1>2, <2>2, <2>3, <2>6 DEF KnowsAccount, Creating, n
    <3>4. ASSUME NEW c \in actions PROVE KnowsAccount(c)'
      <4>1. KnowsAccount(c) BY DEF AccountInv
      <4>2. c.op # "session" /\ c.phase \in {"account", "banks", "save", "done"} => c.of = n
        <5>1. ReadIsTrue(c) BY DEF AccountInv, ReadsAreTrue
        <5> QED BY <2>1, <4>1, <5>1 DEF KnowsAccount, ReadIsTrue
      <4>3. c.op = "session" /\ c.phase = "done" => copy.of = n BY <2>1, <4>1 DEF KnowsAccount
      <4>4. forgotten # "during" /\ Creating(c) => repeats = n
        BY <2>1, <2>3, <3>1, <3>2, <4>1 DEF KnowsAccount
      <4> QED BY <1>1, <2>2, <2>3, <2>6, <4>1, <4>2, <4>3, <4>4 DEF KnowsAccount, Creating
    <3> QED BY <1>1, <3>3, <3>4
  <2>12. OneWasMade'
    BY <1>1, <1>3, <2>2, <2>3, <2>6 DEF AccountInv, OneWasMade, Creating
  <2> QED BY <1>1, <2>1, <2>2, <2>5, <2>7, <2>8, <2>9, <2>10, <2>11, <2>12 DEF AccountInv
<1> QED BY <1>4, <1>5

\* The page hears of an action that has ended.
LEMMA ReturnKeeps == ASSUME AccountInv, NEW a \in actions, Returned(a) PROVE AccountInv'
<1>1. /\ UNCHANGED <<stripeVars, notices, copy, newest, overtaken, missed, forgotten>>
      /\ a.phase \in {"none", "done", "failed"} /\ actions' = actions \ {a}
  BY DEF Returned
<1>2. UNCHANGED <<connect, repeats, standing, changes>> BY <1>1 DEF stripeVars
<1>3. settings' \in SettingsShape
  <2>1. settings \in SettingsShape BY DEF AccountInv
  <2>2. StatusOf(a) \in Outcomes BY <1>1, <2>1 DEF StatusOf, SettingsShape, Outcomes
  <2>3. CASE a.op = "status"
    <3>1. settings' = [settings EXCEPT !.status = StatusOf(a)] BY <2>3 DEF Returned
    <3> QED BY <2>1, <2>2, <3>1 DEF SettingsShape
  <2>4. CASE a.op = "session" /\ a.by \in Components
    <3>1. settings' = [settings EXCEPT !.session[a.by] = IF a.phase = "done" THEN "open" ELSE "error"]
      BY <2>4 DEF Returned
    <3> QED BY <2>1, <2>4, <3>1 DEF SettingsShape
  <2>5. CASE ~(a.op = "status") /\ ~(a.op = "session" /\ a.by \in Components)
    <3>1. settings' = settings BY <2>5 DEF Returned
    <3> QED BY <2>1, <3>1
  <2> QED BY <2>3, <2>4, <2>5
<1>4. settings'.status \in Outcomes BY <1>3 DEF SettingsShape
<1>5. AccountTypeOK' BY <1>1, <1>2, <1>4 DEF AccountInv, AccountTypeOK, Outcomes
<1>6. ReadsAreTrue' BY <1>1, <1>2 DEF AccountInv, ReadsAreTrue, ReadIsTrue
<1>7. \A n \in StripeAccounts : ~Reconciles(a, n) BY <1>1 DEF Reconciles
<1>8. ChangesAreSeen' BY <1>1, <1>2, <1>7 DEF AccountInv, ChangesAreSeen, Reconciles
<1>9. RowIsTrue' BY <1>1, <1>2 DEF AccountInv, RowIsTrue
<1>10. \A c \in actions' : KnowsAccount(c)' BY <1>1, <1>2 DEF AccountInv, KnowsAccount, Creating
<1>11. OneWasMade' BY <1>1, <1>2 DEF AccountInv, OneWasMade, Creating
<1> QED BY <1>1, <1>2, <1>3, <1>5, <1>6, <1>8, <1>9, <1>10, <1>11 DEF AccountInv

\* Every step keeps the invariant.
LEMMA AccountKept == AccountInv /\ [AccountNext]_accountVars => AccountInv'
<1> SUFFICES ASSUME AccountInv, [AccountNext]_accountVars PROVE AccountInv'
  OBVIOUS
<1>0. "PayoutSettings" \in Callers /\ "elsewhere" \in Callers /\ Components \subseteq Callers
      /\ settings \in SettingsShape /\ 0 \in 0..MaxAccounts
  BY PayoutAccountsAssumption DEF Callers, Components, AccountInv
<1>1. ASSUME NEW n \in StripeAccounts, Notice(n) PROVE AccountInv'
  <2>1. n \in 0..MaxAccounts BY PayoutAccountsAssumption DEF StripeAccounts
  <2> QED BY <1>0, <1>1, <2>1, StartKeeps DEF Notice, ScheduledAction
<1>2. CASE Refetch BY <1>0, <1>2, StartKeeps DEF Refetch
<1>3. CASE PressElsewhere BY <1>0, <1>3, StartKeeps DEF PressElsewhere
<1>4. ASSUME NEW c \in Components, Press(c) PROVE AccountInv'
  <2>1. settings' \in SettingsShape BY <1>0, <1>4 DEF Press, SettingsShape
  <2> QED BY <1>0, <1>4, <2>1, StartKeeps DEF Press
<1>5. CASE UNCHANGED accountVars
  BY <1>5 DEF accountVars, stripeVars, AccountInv, AccountTypeOK, ReadsAreTrue, ReadIsTrue,
     ChangesAreSeen, Reconciles, RowIsTrue, KnowsAccount, Creating, OneWasMade
<1>6. ASSUME NEW a \in actions, ActionStep(a) \/ Fails(a) PROVE AccountInv'
  BY <1>6, FindKeeps, MakingKeeps, ReadingKeeps, SaveKeeps, ReturnKeeps DEF ActionStep
<1> QED BY <1>1, <1>2, <1>3, <1>4, <1>5, <1>6, ChangeKeeps, ForgettingKeeps DEF AccountNext

\* For any number of accounts, changes and actions: one account at Stripe, and only it in
\* the row and in sessions, but where Stripe forgot a key too early; and a copy that says
\* what Stripe says when everything is quiet, once what was delayed has been read again.
THEOREM AccountSafe == AccountSpec => [](AccountTypeOK /\ OneStripeAccount /\ SettledAccountIsCurrent)
<1>1. AccountInv => OneStripeAccount
  BY DEF AccountInv, OneWasMade, KnowsAccount, OneStripeAccount
<1>2. AccountInv => SettledAccountIsCurrent
  <2> SUFFICES ASSUME AccountInv, actions = {}, copy.of # 0, notices[copy.of] = 0, ~missed, ~overtaken
               PROVE  copy.got = standing[copy.of]
    BY DEF SettledAccountIsCurrent
  <2>1. copy.of \in StripeAccounts
    BY PayoutAccountsAssumption DEF AccountInv, AccountTypeOK, StripeAccounts
  <2>2. newest = changes[copy.of] BY <2>1 DEF AccountInv, ChangesAreSeen
  <2> QED BY <2>2 DEF AccountInv, RowIsTrue
<1>3. AccountInv => AccountTypeOK BY DEF AccountInv
<1> QED BY AccountStarts, AccountKept, <1>1, <1>2, <1>3, PTL DEF AccountSpec

\* A creator's settings, and a caller's, hold what Stripe and the ledger hold, for any
\* number of changes, actions, months, pages and cards.
THEOREM SettingsSafe == SettingsSpec => []SettingsAreSound
<1>1. /\ AccountTypeOK /\ OneStripeAccount /\ SettledAccountIsCurrent
      /\ ChartTypeOK /\ ChartIsComplete
      /\ CardsTypeOK /\ SavedCardsAreFound /\ ListIsCurrent
      => SettingsAreSound
  BY DEF SettingsAreSound
<1> QED BY AccountSafe, ChartSafe, CardsSafe, <1>1, PTL DEF SettingsSpec

-----------------------------------------------------------------------------
(* The caller's page: the inductive invariant.                             *)

Live == hotline.status = "LIVE"

\* The card form has been through with Stripe: the PaymentIntent wants no card any more.
Used(k) == hold[k].intent \notin {"none", "requires_payment_method"}

\* A payment gets its intent, its id, its hold and its place in the line in this order,
\* and only a payment with a place is captured or released, unless something failed.
HoldsInOrder ==
    /\ errors = 0 => declines = {}
    /\ \A k \in PayKeys :
        /\ k \notin page.drawn => ~hold[k].queued
        /\ hold[k].status = "NONE" => hold[k].intent = "none"
        /\ hold[k].status = "AUTHORIZED" => hold[k].attached /\ Used(k)
        /\ hold[k].queued => hold[k].attached /\ Used(k)
        /\ k \in releasing => hold[k].queued
        /\ entry.attempt = k => hold[k].queued
        /\ errors = 0 /\ ~hold[k].queued =>
              hold[k].status \in {"NONE", "CREATED", "AUTHORIZED"}

\* The caller has one call at a time, and their entry says so.
Active(n) == talks[n].status \in {"OPEN", "PAYMENT_PENDING"}
TalksInOrder ==
    /\ hotline.closing => ~Live
    /\ \A m, n \in DOMAIN talks : Active(m) /\ Active(n) => m = n
    /\ \A n \in DOMAIN talks :
        /\ talks[n].status = "OPEN" => Live /\ entry.status = "SELECTED"
        /\ talks[n].status = "PAYMENT_PENDING" =>
              entry.status = "SELECTED" \/ (entry.status = "ENDED" /\ ~Live)
    /\ entry.status = "SELECTED" /\ entry.attempt = 0 => Mine # {}
    /\ entry.status = "ENDED" /\ Live => Mine # {}

\* The hold of a caller who was picked, or whose entry is closed, does not stand.
PickedIsNotHeld ==
    entry.status \in {"SELECTED", "ENDED"} /\ entry.attempt # 0 => ~Standing(entry.attempt)

\* The page keeps this key for its tier.
Kept(k) == page.keys[TierOf[k]] = k

\* The page waits for one answer at most, and a key is joined with once: it is dropped
\* only when its join is answered.
AskIsRight(a) ==
    /\ a.op = "authorize" => a.phase \in {"prepare", "intent", "done", "failed"}
    /\ a.op = "join" => a.phase \in {"verify", "enter", "done", "failed"}
    /\ errors = 0 => a.heard
    /\ a.op = "authorize" /\ a.phase \in {"intent", "done"} => hold[a.key].status # "NONE"
    /\ a.heard => page.awaiting = a.op /\ Kept(a.key)
    /\ a.op = "join" => /\ Kept(a.key) /\ Used(a.key)
                        /\ a.phase \in {"verify", "enter"} => ~hold[a.key].queued
AsksInOrder ==
    /\ \A a \in asks : AskIsRight(a)
    /\ \A a, b \in asks : a.heard /\ b.heard => a = b
    /\ \A a, b \in asks : a.op = "join" /\ b.op = "join" /\ a.key = b.key => a = b
    /\ \A k \in PayKeys : errors = 0 /\ Kept(k) /\ hold[k].queued =>
          \E a \in asks : a.op = "join" /\ a.phase = "done" /\ a.key = k

\* The form or the card form is shown.
Asking == Live /\ Mine = {} /\ entry.status # "WAITING"

\* What is confirmed is kept and not joined with yet.
ConfirmIsRight ==
    page.awaiting = "confirm" =>
        /\ page.paying # 0 /\ Kept(page.paying)
        /\ Used(page.paying) /\ ~hold[page.paying].queued
        /\ \A a \in asks : a.op = "join" => a.key # page.paying
SubmittingIsRight ==
    page.submitting =>
        /\ Asking /\ page.card # 0
        /\ \/ hold[page.card].spare
           \/ page.awaiting = "confirm" /\ page.paying = page.card
           \/ \E a \in asks : /\ a.op = "join" /\ a.heard /\ a.phase # "done"
                              /\ a.key = page.card
PageInOrder ==
    /\ \A t \in Tiers : page.keys[t] # 0 =>
          page.keys[t] \in page.drawn /\ TierOf[page.keys[t]] = t
    /\ page.card # 0 /\ ~Used(page.card) => Kept(page.card)
    /\ page.awaiting = "authorize" => page.card = 0
    /\ ConfirmIsRight
    /\ SubmittingIsRight

\* What a hold may stand for: a key of the page, or a place in the line.
Excused(k) == hold[k].spare \/ hold[k].evicted
InLine(k) == entry.attempt = k /\ entry.status = "WAITING"
LineInOrder ==
    /\ \A k \in PayKeys : InLine(k) => page.keys[TierOf[k]] \in {0, k}
    /\ \A k \in PayKeys : Standing(k) => Excused(k) \/ Kept(k) \/ InLine(k)
    /\ \A a \in asks : a.op = "join" /\ a.phase = "done" /\ Standing(a.key) =>
          Excused(a.key) \/ InLine(a.key)

CallerInv == /\ CallerTypeOK /\ HoldsInOrder /\ TalksInOrder /\ PickedIsNotHeld
             /\ AsksInOrder /\ PageInOrder /\ LineInOrder

-----------------------------------------------------------------------------
(* What is shown.                                                          *)

\* The fields of the state.
LEMMA CallerFields ==
    ASSUME CallerTypeOK
    PROVE  /\ hotline.status \in {"LIVE", "ENDED"} /\ hotline.closing \in BOOLEAN
           /\ entry.status \in {"NONE", "WAITING", "SELECTED", "LEFT", "ENDED"}
           /\ entry.attempt \in 0..MaxKeys
           /\ page.keys \in [Tiers -> 0..MaxKeys] /\ page.drawn \subseteq PayKeys
           /\ page.card \in 0..MaxKeys /\ page.paying \in 0..MaxKeys
           /\ page.awaiting \in {"nothing", "authorize", "confirm", "join"}
           /\ page.leaving \in BOOLEAN /\ page.submitting \in BOOLEAN
           /\ \A n \in DOMAIN talks : /\ talks[n].status \in {"PAYMENT_PENDING", "OPEN", "ENDED", "FAILED"}
                                      /\ talks[n].attempt \in 0..MaxKeys
           /\ \A k \in PayKeys : /\ hold[k].status \in AttemptStatuses
                                 /\ hold[k].intent \in IntentStatuses
                                 /\ hold[k].attached \in BOOLEAN /\ hold[k].queued \in BOOLEAN
                                 /\ hold[k].spare \in BOOLEAN /\ hold[k].evicted \in BOOLEAN
<1>1. \A n \in DOMAIN talks : talks[n] \in Talk BY DEF CallerTypeOK
<1>2. \A k \in PayKeys : hold[k] \in Hold BY DEF CallerTypeOK
<1>3. page \in Page BY DEF CallerTypeOK
<1> QED BY <1>1, <1>2, <1>3 DEF CallerTypeOK, Talk, Hold, Page

\* The caller's call is none only if none is shown.
LEMMA MyCallIsRight ==
    ASSUME CallerTypeOK
    PROVE  IF Mine = {} THEN MyCall = "NONE" ELSE MyCall \in {"OPEN", "ENDED", "FAILED"}
<1>1. CASE Mine = {} BY <1>1 DEF MyCall
<1>2. CASE Mine # {}
  <2>1. Len(talks) \in Nat /\ DOMAIN talks = 1..Len(talks) BY DEF CallerTypeOK
  <2>2. Mine \in SUBSET (1..Len(talks)) BY <2>1 DEF Mine
  <2> DEFINE last == CHOOSE n \in Mine : \A m \in Mine : m <= n
  <2>3. \E n \in Mine : \A m \in Mine : m <= n BY <1>2, <2>1, <2>2, LargestExists
  <2>4. last \in Mine BY <2>3
  <2>5. MyCall = talks[last].status BY <1>2 DEF MyCall
  <2> HIDE DEF last
  <2> QED BY <1>2, <2>4, <2>5, CallerFields DEF Mine
<1> QED BY <1>1, <1>2

\* Where the caller is asked for their request.
PlaceIsRight == CallerTypeOK => (Place = "asking" <=> Asking)
LEMMA PlaceIsAsking == PlaceIsRight
<1> SUFFICES ASSUME CallerTypeOK PROVE Place = "asking" <=> Asking
  BY DEF PlaceIsRight
<1>1. hotline.status \in {"LIVE", "ENDED"} BY CallerFields
<1>2. CASE ~Live BY <1>1, <1>2 DEF Place, Asking, Live
<1>3. CASE Live /\ Mine = {} BY <1>3, MyCallIsRight DEF Place, Asking, Live
<1>4. CASE Live /\ Mine # {} BY <1>4, MyCallIsRight DEF Place, Asking, Live
<1> QED BY <1>2, <1>3, <1>4

\* In the next state too.
LEMMA PlaceIsAskingNext == CallerTypeOK' => (Place' = "asking" <=> Asking')
<1>1. PlaceIsRight' BY PlaceIsAsking, PTL
<1> QED BY <1>1 DEF PlaceIsRight

-----------------------------------------------------------------------------
(* What steps of a kind keep.                                              *)

\* The page becomes p, but for what is drawn of it.
Turns(p) ==
    /\ page'.keys = p.keys /\ page'.drawn = p.drawn /\ page'.card = p.card
    /\ page'.awaiting = p.awaiting /\ page'.paying = p.paying
    /\ page'.submitting <=> p.submitting /\ p.card # 0 /\ Asking'

\* Drawing keeps the page's shape.
LEMMA DrawsType == ASSUME NEW p \in Page, Draws(p) PROVE page' \in Page
<1> DEFINE b == p.submitting /\ p.card # 0 /\ Place' = "asking"
<1>1. b \in BOOLEAN OBVIOUS
<1>2. page' = [p EXCEPT !.submitting = b] BY DEF Draws
<1> HIDE DEF b
<1> QED BY <1>1, <1>2 DEF Page

\* What drawing does.
LEMMA DrawsTurns ==
    ASSUME CallerTypeOK', NEW p \in Page, Draws(p)
    PROVE  Turns(p)
<1> DEFINE b == p.submitting /\ p.card # 0 /\ Place' = "asking"
<1>1. page' = [p EXCEPT !.submitting = b] BY DEF Draws
<1>2. b <=> p.submitting /\ p.card # 0 /\ Asking' BY PlaceIsAskingNext
<1>3. b \in BOOLEAN OBVIOUS
<1> HIDE DEF b
<1>4. /\ page'.keys = p.keys /\ page'.drawn = p.drawn /\ page'.card = p.card
      /\ page'.awaiting = p.awaiting /\ page'.paying = p.paying /\ page'.submitting = b
  BY <1>1, <1>3 DEF Page
<1> QED BY <1>2, <1>4 DEF Turns

\* The page is as it was, but for what is drawn and whether the caller is leaving.
SamePage ==
    /\ page'.keys = page.keys /\ page'.drawn = page.drawn /\ page'.card = page.card
    /\ page'.awaiting = page.awaiting /\ page'.paying = page.paying
    /\ page'.submitting <=> page.submitting /\ page.card # 0 /\ Asking'

\* Payments only move on, and none is held that was not.
KeepsHold(k) ==
    /\ hold'[k].queued = hold[k].queued /\ hold'[k].spare = hold[k].spare
    /\ hold[k].evicted => hold'[k].evicted
    /\ hold[k].attached => hold'[k].attached
    /\ Used(k) => Used(k)'
    /\ hold[k].status # "NONE" => hold'[k].status # "NONE"
    /\ hold'[k].status = "NONE" => hold'[k].intent = "none"
    /\ hold'[k].status = "AUTHORIZED" => hold'[k].attached /\ Used(k)'
    /\ k \in releasing' => hold[k].queued
    /\ errors' = 0 /\ ~hold[k].queued => hold'[k].status \in {"NONE", "CREATED", "AUTHORIZED"}
    /\ Standing(k)' => Standing(k)
KeepsHolds == \A k \in PayKeys : KeepsHold(k)

\* The numbers of keys, and their tiers.
LEMMA KeyNumbers ==
    ASSUME CallerTypeOK
    PROVE  /\ MaxKeys \in Nat /\ PayKeys = 1..MaxKeys
           /\ \A k \in 0..MaxKeys : k # 0 => k \in PayKeys
           /\ page.card # 0 => page.card \in PayKeys
           /\ page.paying # 0 => page.paying \in PayKeys
           /\ entry.attempt # 0 => entry.attempt \in PayKeys
           /\ 0 \notin PayKeys
           /\ \A k \in PayKeys : TierOf[k] \in Tiers
           /\ \A t \in Tiers : page.keys[t] \in 0..MaxKeys
<1>1. MaxKeys \in Nat BY CallerPageAssumption
<1>2. TierOf \in [PayKeys -> Tiers] BY CallerPageAssumption DEF PayKeys
<1> QED BY <1>1, <1>2, CallerFields DEF PayKeys

\* The fields of an action.
LEMMA AskFields ==
    ASSUME NEW a \in Ask
    PROVE  /\ a.op \in {"authorize", "join"} /\ a.key \in PayKeys /\ a.heard \in BOOLEAN
           /\ a.phase \in {"prepare", "intent", "verify", "enter", "done", "failed"}
BY DEF Ask

\* Payments keep their order.
LEMMA KeepsHoldsInOrder ==
    ASSUME CallerInv, CallerTypeOK', KeepsHolds, page'.drawn = page.drawn,
           entry'.attempt = entry.attempt \/ entry'.attempt = 0,
           errors' = 0 => errors = 0 /\ declines' = {}
    PROVE  HoldsInOrder'
<1>1. HoldsInOrder BY DEF CallerInv
<1>2. CallerTypeOK BY DEF CallerInv
<1>3. \A k \in PayKeys : entry'.attempt = k => entry.attempt = k BY <1>2, KeyNumbers
<1> QED BY <1>1, <1>3 DEF HoldsInOrder, KeepsHolds, KeepsHold

\* The actions' order, when none moves.
LEMMA KeepsAsksInOrder ==
    ASSUME CallerInv, KeepsHolds, UNCHANGED asks, page'.keys = page.keys,
           page'.awaiting = page.awaiting, errors' = 0 => errors = 0
    PROVE  AsksInOrder'
<1>1. AsksInOrder /\ CallerTypeOK BY DEF CallerInv
<1>2. \A a \in asks : a.key \in PayKeys BY <1>1, AskFields DEF CallerTypeOK
<1>3. ASSUME NEW a \in asks PROVE AskIsRight(a)'
  <2>1. AskIsRight(a) /\ KeepsHold(a.key) BY <1>1, <1>2 DEF AsksInOrder, KeepsHolds
  <2> QED BY <2>1 DEF AskIsRight, KeepsHold, Kept
<1>4. \A k \in PayKeys : KeepsHold(k) BY DEF KeepsHolds
<1> QED BY <1>1, <1>3, <1>4 DEF AsksInOrder, KeepsHold, Kept

\* What a step of the server does to the line.
KeepsLine ==
    /\ \A k \in PayKeys : InLine(k)' => InLine(k)
    /\ \A k \in PayKeys : Standing(k)' /\ InLine(k) => InLine(k)' \/ hold'[k].evicted
    /\ errors' = 0 => errors = 0 /\ declines' = {}
    /\ entry'.attempt = entry.attempt \/ entry'.attempt = 0

\* What such a step leaves of the line and of the page.
LEMMA LineStays ==
    ASSUME CallerInv, KeepsHolds, KeepsLine, SamePage,
           \A a \in asks' : a.op = "join" /\ a.phase = "done" => a \in asks,
           page.awaiting = "confirm" => \A a \in asks' : a.op = "join" => a.key # page.paying,
           \A a \in asks : a.op = "join" /\ a.heard /\ a.phase # "done" =>
                \E b \in asks' : /\ b.op = "join" /\ b.heard /\ b.phase # "done"
                                 /\ b.key = a.key
    PROVE  PageInOrder' /\ LineInOrder'
<1>0. CallerTypeOK /\ PageInOrder /\ LineInOrder /\ AsksInOrder BY DEF CallerInv
<1>1. \A k \in PayKeys : KeepsHold(k) BY DEF KeepsHolds
<1>2. /\ page.card # 0 => page.card \in PayKeys
      /\ page.paying # 0 => page.paying \in PayKeys
      /\ \A a \in asks : a.key \in PayKeys
  BY <1>0, KeyNumbers, AskFields DEF CallerTypeOK
<1>3. \A k : Kept(k)' <=> Kept(k) BY DEF Kept, SamePage
<1>4. \A k \in PayKeys : Excused(k) => Excused(k)' BY <1>1 DEF Excused, KeepsHold
<1>5. LineInOrder'
  <2>1. \A k \in PayKeys : InLine(k)' => page'.keys[TierOf[k]] \in {0, k}
    BY <1>0 DEF LineInOrder, KeepsLine, SamePage
  <2>2. \A k \in PayKeys : Standing(k)' => Excused(k)' \/ Kept(k)' \/ InLine(k)'
    BY <1>0, <1>1, <1>3, <1>4 DEF LineInOrder, KeepsLine, KeepsHold, Excused
  <2>3. ASSUME NEW a \in asks', a.op = "join", a.phase = "done", Standing(a.key)'
        PROVE  Excused(a.key)' \/ InLine(a.key)'
    <3>1. a \in asks /\ a.key \in PayKeys BY <1>2, <2>3
    <3>2. Standing(a.key) BY <1>1, <2>3, <3>1 DEF KeepsHold
    <3>3. Excused(a.key) \/ InLine(a.key) BY <1>0, <2>3, <3>1, <3>2 DEF LineInOrder
    <3> QED BY <1>4, <2>3, <3>1, <3>3 DEF KeepsLine, Excused
  <2> QED BY <2>1, <2>2, <2>3 DEF LineInOrder
<1>6. ConfirmIsRight'
  <2> SUFFICES ASSUME page.awaiting = "confirm"
               PROVE  /\ page.paying # 0 /\ Kept(page.paying)
                      /\ Used(page.paying)' /\ ~hold'[page.paying].queued
                      /\ \A a \in asks' : a.op = "join" => a.key # page.paying
    BY <1>3 DEF ConfirmIsRight, SamePage, Used
  <2>1. ConfirmIsRight BY <1>0 DEF PageInOrder
  <2>2. KeepsHold(page.paying) BY <1>1, <1>2, <2>1 DEF ConfirmIsRight
  <2> QED BY <2>1, <2>2 DEF ConfirmIsRight, KeepsHold
<1>7. SubmittingIsRight'
  <2> SUFFICES ASSUME page'.submitting PROVE SubmittingIsRight'
    BY DEF SubmittingIsRight
  <2>1. page.submitting /\ page.card # 0 /\ Asking' BY DEF SamePage
  <2>2. KeepsHold(page.card) BY <1>1, <1>2, <2>1
  <2>3. \/ hold[page.card].spare
        \/ page.awaiting = "confirm" /\ page.paying = page.card
        \/ \E a \in asks : /\ a.op = "join" /\ a.heard /\ a.phase # "done"
                           /\ a.key = page.card
    BY <1>0, <2>1 DEF PageInOrder, SubmittingIsRight
  <2>4. \/ hold'[page.card].spare
        \/ page.awaiting = "confirm" /\ page.paying = page.card
        \/ \E a \in asks' : /\ a.op = "join" /\ a.heard /\ a.phase # "done"
                            /\ a.key = page.card
    BY <2>2, <2>3 DEF KeepsHold
  <2> QED BY <2>1, <2>4 DEF SubmittingIsRight, SamePage
<1>8. (page.card # 0 /\ ~Used(page.card) => Kept(page.card))'
  <2>1. page.card # 0 /\ ~Used(page.card)' => Kept(page.card)
    BY <1>0, <1>1, <1>2 DEF PageInOrder, KeepsHold, Used, SamePage
  <2> QED BY <1>3, <2>1 DEF SamePage, Used
<1>9. \A t \in Tiers : page'.keys[t] # 0 =>
         page'.keys[t] \in page'.drawn /\ TierOf[page'.keys[t]] = t
  BY <1>0 DEF PageInOrder, SamePage
<1>10. page'.awaiting = "authorize" => page'.card = 0
  BY <1>0 DEF PageInOrder, SamePage
<1> QED BY <1>5, <1>6, <1>7, <1>8, <1>9, <1>10 DEF PageInOrder

\* A step of the server that moves no action.
LEMMA ServerStep ==
    ASSUME CallerInv, CallerTypeOK', KeepsHolds, KeepsLine, SamePage, UNCHANGED asks,
           TalksInOrder', PickedIsNotHeld'
    PROVE  CallerInv'
<1>1. HoldsInOrder' BY KeepsHoldsInOrder DEF KeepsLine, SamePage
<1>2. AsksInOrder' BY KeepsAsksInOrder DEF KeepsLine, SamePage
<1>3. page.awaiting = "confirm" => \A a \in asks : a.op = "join" => a.key # page.paying
  BY DEF CallerInv, PageInOrder, ConfirmIsRight
<1>4. PageInOrder' /\ LineInOrder' BY <1>3, LineStays
<1> QED BY <1>1, <1>2, <1>4 DEF CallerInv

\* What is unchanged keeps the calls in order.
LEMMA SameTalks ==
    ASSUME CallerInv, UNCHANGED <<hotline, entry, talks>> PROVE TalksInOrder' /\ Mine' = Mine
BY DEF CallerInv, TalksInOrder, Live, Active, Mine

\* A caller who was picked stays without a standing hold.
LEMMA SamePicked ==
    ASSUME CallerInv, UNCHANGED entry, KeepsHolds PROVE PickedIsNotHeld'
<1>1. CallerTypeOK /\ PickedIsNotHeld BY DEF CallerInv
<1>2. entry.attempt # 0 => entry.attempt \in PayKeys BY <1>1, KeyNumbers
<1>3. entry.attempt # 0 => (Standing(entry.attempt)' => Standing(entry.attempt))
  <2>1. ASSUME entry.attempt # 0 PROVE KeepsHold(entry.attempt) BY <1>2, <2>1 DEF KeepsHolds
  <2> QED BY <2>1 DEF KeepsHold, Standing
<1> QED BY <1>1, <1>3 DEF PickedIsNotHeld, Standing

\* An action that moves from one phase to the next, short of the end of a join.
AskMoves(a, ph) ==
    /\ asks' = (asks \ {a}) \cup {[a EXCEPT !.phase = ph]}
    /\ a.op = "authorize" => /\ ph \in {"intent", "done", "failed"}
                             /\ ph # "failed" => hold'[a.key].status # "NONE"
    /\ a.op = "join" => ph \in {"enter", "failed"} /\ (ph = "enter" => a.phase = "verify")
    /\ errors' = 0 => errors = 0 /\ a.phase # "done"

\* What such a step keeps.
LEMMA AskStep ==
    ASSUME CallerInv, CallerTypeOK', KeepsHolds, SamePage, NEW a \in asks, NEW ph,
           AskMoves(a, ph), UNCHANGED <<hotline, entry, talks, declines>>
    PROVE  CallerInv'
<1> DEFINE b == [a EXCEPT !.phase = ph]
<1>0. CallerTypeOK /\ PageInOrder /\ LineInOrder /\ AsksInOrder /\ HoldsInOrder BY DEF CallerInv
<1>1. a \in Ask /\ \A x \in asks : x \in Ask BY <1>0 DEF CallerTypeOK
<1>2. /\ b.op = a.op /\ b.key = a.key /\ b.heard = a.heard /\ b.phase = ph
      /\ a.key \in PayKeys /\ a.op \in {"authorize", "join"}
  BY <1>1 DEF Ask
<1>3. asks' = (asks \ {a}) \cup {b} BY DEF AskMoves
<1> HIDE DEF b
<1>4. TalksInOrder' /\ Mine' = Mine BY SameTalks
<1>5. PickedIsNotHeld' BY SamePicked
<1>6. KeepsLine
  <2>1. errors' = 0 => errors = 0 /\ declines' = {} BY <1>0 DEF AskMoves, HoldsInOrder
  <2> QED BY <2>1 DEF KeepsLine, InLine
<1>7. HoldsInOrder' BY <1>6, KeepsHoldsInOrder DEF KeepsLine, SamePage
<1>8. /\ \A k \in PayKeys : KeepsHold(k) /\ (Kept(k)' <=> Kept(k))
      /\ \A x \in asks : x.key \in PayKeys
  BY <1>0, <1>1, AskFields DEF KeepsHolds, Kept, SamePage
<1>9. \A x \in asks : AskIsRight(x) /\ KeepsHold(x.key) /\ (Kept(x.key)' <=> Kept(x.key))
  BY <1>0, <1>8 DEF AsksInOrder
<1>10. AsksInOrder'
  <2>1. ASSUME NEW x \in asks PROVE AskIsRight(x)'
    <3>1. errors' = 0 => errors = 0 BY DEF AskMoves
    <3>2. page'.awaiting = page.awaiting BY DEF SamePage
    <3> QED BY <1>9, <3>1, <3>2 DEF AskIsRight, KeepsHold
  <2>2. AskIsRight(b)'
    <3>1. AskIsRight(a) /\ KeepsHold(a.key) /\ (Kept(b.key)' <=> Kept(a.key)) BY <1>2, <1>9
    <3>2. page'.awaiting = page.awaiting BY DEF SamePage
    <3> QED BY <1>2, <3>1, <3>2 DEF AskIsRight, KeepsHold, AskMoves, Used
  <2>3. \A x \in asks' : AskIsRight(x)' BY <1>3, <2>1, <2>2
  <2>4. /\ \A x, y \in asks' : x.heard /\ y.heard => x = y
        /\ \A x, y \in asks' : x.op = "join" /\ y.op = "join" /\ x.key = y.key => x = y
    BY <1>0, <1>2, <1>3 DEF AsksInOrder
  <2>5. ASSUME NEW k \in PayKeys, errors' = 0, Kept(k)', hold'[k].queued
        PROVE  \E x \in asks' : x.op = "join" /\ x.phase = "done" /\ x.key = k
    <3>1. errors = 0 /\ a.phase # "done" BY <2>5 DEF AskMoves
    <3>2. Kept(k) /\ hold[k].queued BY <1>8, <2>5 DEF KeepsHold
    <3>3. PICK x \in asks : x.op = "join" /\ x.phase = "done" /\ x.key = k
      BY <1>0, <3>1, <3>2 DEF AsksInOrder
    <3> QED BY <1>3, <3>1, <3>3
  <2> QED BY <2>3, <2>4, <2>5 DEF AsksInOrder
<1>11. PageInOrder' /\ LineInOrder'
  <2>1. ASSUME NEW x \in asks', x.op = "join", x.phase = "done" PROVE x \in asks
    BY <1>2, <1>3, <2>1 DEF AskMoves
  <2>2. page.awaiting = "confirm" => \A x \in asks' : x.op = "join" => x.key # page.paying
    BY <1>0, <1>2, <1>3 DEF PageInOrder, ConfirmIsRight
  <2>3. ASSUME NEW x \in asks, x.op = "join", x.heard, x.phase # "done"
        PROVE  \E y \in asks' : y.op = "join" /\ y.heard /\ y.phase # "done" /\ y.key = x.key
    <3>1. CASE x = a
      <4>1. b \in asks' /\ b.op = "join" /\ b.heard /\ b.phase # "done" /\ b.key = x.key
        BY <1>2, <1>3, <2>3, <3>1 DEF AskMoves
      <4> QED BY <4>1
    <3>2. CASE x # a BY <1>3, <2>3, <3>2
    <3> QED BY <3>1, <3>2
  <2> QED BY <1>6, <2>1, <2>2, <2>3, LineStays
<1> QED BY <1>4, <1>5, <1>7, <1>10, <1>11 DEF CallerInv

-----------------------------------------------------------------------------
(* The steps of the server.                                                *)

\* A page that is drawn again.
LEMMA RedrawsPage ==
    ASSUME CallerInv, Redraws
    PROVE  page' \in Page /\ (CallerTypeOK' => SamePage)
<1>1. page \in Page BY DEF CallerInv, CallerTypeOK
<1>2. Draws(page) BY DEF Redraws
<1> QED BY <1>1, <1>2, DrawsType, DrawsTurns DEF Turns, SamePage

\* So is one on which the caller is leaving, or has left.
LEMMA LeavingPage ==
    ASSUME CallerInv, NEW b \in BOOLEAN, Draws([page EXCEPT !.leaving = b])
    PROVE  page' \in Page /\ (CallerTypeOK' => SamePage)
<1> DEFINE p == [page EXCEPT !.leaving = b]
<1>1. page \in Page BY DEF CallerInv, CallerTypeOK
<1>2. /\ p \in Page
      /\ p.keys = page.keys /\ p.drawn = page.drawn /\ p.card = page.card
      /\ p.awaiting = page.awaiting /\ p.paying = page.paying
      /\ p.submitting = page.submitting
  BY <1>1 DEF Page
<1>3. Draws(p) OBVIOUS
<1> HIDE DEF p
<1> QED BY <1>2, <1>3, DrawsType, DrawsTurns DEF Turns, SamePage

\* Calls that change one by one are calls.
LEMMA TalksType ==
    ASSUME CallerTypeOK, NEW t \in [DOMAIN talks -> Talk]
    PROVE  t \in Seq(Talk) /\ Len(t) = Len(talks) /\ Len(t) <= MaxTalks /\ DOMAIN t = DOMAIN talks
<1>1. DOMAIN talks = 1..Len(talks) /\ Len(talks) \in Nat /\ Len(talks) <= MaxTalks
  BY DEF CallerTypeOK
<1>2. t \in [1..Len(talks) -> Talk] BY <1>1
<1> QED BY <1>1, <1>2

\* A payment that is left alone.
LEMMA SameHold ==
    ASSUME CallerInv, NEW k \in PayKeys, hold'[k] = hold[k], errors' = 0 => errors = 0,
           k \in releasing' => hold[k].queued,
           k \in releasing => k \in releasing' \/ hold[k].status \notin {"CREATED", "AUTHORIZED"}
    PROVE  KeepsHold(k)
<1>1. HoldsInOrder BY DEF CallerInv
<1> QED BY <1>1 DEF HoldsInOrder, KeepsHold, Used, Standing

\* All payments are left alone.
LEMMA SameHolds ==
    ASSUME CallerInv, UNCHANGED <<hold, releasing>>, errors' = 0 => errors = 0
    PROVE  KeepsHolds
<1>1. HoldsInOrder BY DEF CallerInv
<1>2. ASSUME NEW k \in PayKeys PROVE KeepsHold(k) BY <1>1, SameHold DEF HoldsInOrder
<1> QED BY <1>2 DEF KeepsHolds

\* The calls that were shown are still shown.
LEMMA MineStays ==
    ASSUME DOMAIN talks' = DOMAIN talks,
           \A n \in DOMAIN talks : talks[n].status # "PAYMENT_PENDING" =>
                                      talks'[n].status # "PAYMENT_PENDING"
    PROVE  Mine \subseteq Mine'
BY DEF Mine

\* No declined card is waiting for its event while nothing has failed.
LEMMA NoDeclines == ASSUME CallerInv PROVE errors = 0 => declines = {}
BY DEF CallerInv, HoldsInOrder

\* A call that is open or awaits its payment says where its caller is.
LEMMA ActiveEntry ==
    ASSUME CallerInv
    PROVE  /\ \A n \in DOMAIN talks : talks[n].status = "OPEN" => Live /\ entry.status = "SELECTED"
           /\ \A n \in DOMAIN talks : talks[n].status = "PAYMENT_PENDING" =>
                 entry.status \in {"SELECTED", "ENDED"} /\ (Live => entry.status = "SELECTED")
BY DEF CallerInv, TalksInOrder

\* calls.transition.
LEMMA TalkEndsKeeps == ASSUME CallerInv, TalkEnds PROVE CallerInv'
<1>0. CallerTypeOK /\ TalksInOrder /\ PickedIsNotHeld BY DEF CallerInv
<1>1. \A n \in DOMAIN talks : talks[n] \in Talk BY <1>0 DEF CallerTypeOK
<1>2. Over \in [DOMAIN talks -> Talk] BY <1>1 DEF Over, Talk
<1>3. talks' = Over /\ DOMAIN talks' = DOMAIN talks BY DEF TalkEnds, Over
<1>4. \A n \in DOMAIN talks : talks'[n].status =
            IF talks[n].status = "OPEN" THEN "ENDED" ELSE talks[n].status
  BY <1>1, <1>3 DEF Over, OpenTalk, Talk
<1>5. PICK o \in DOMAIN talks : talks[o].status = "OPEN" BY DEF TalkEnds, OpenTalk
<1>6. Live /\ entry.status = "SELECTED" BY <1>5, ActiveEntry
<1>7. entry'.status = "ENDED" /\ entry'.attempt = entry.attempt
  BY <1>0 DEF TalkEnds, CallerTypeOK
<1>8. CallerTypeOK' /\ SamePage
  <2>1. page' \in Page BY RedrawsPage DEF TalkEnds
  <2>2. talks' \in Seq(Talk) /\ Len(talks') <= MaxTalks BY <1>0, <1>2, <1>3, TalksType
  <2>3. CallerTypeOK' BY <1>0, <2>1, <2>2 DEF TalkEnds, CallerTypeOK
  <2> QED BY <2>3, RedrawsPage DEF TalkEnds
<1>9. Mine \subseteq Mine' /\ Mine # {}
  <2>1. o \in Mine BY <1>5 DEF Mine
  <2> QED BY <1>3, <1>4, <2>1, MineStays
<1>10. TalksInOrder'
  <2>1. \A n \in DOMAIN talks' : talks'[n].status \notin {"OPEN", "PAYMENT_PENDING"}
    BY <1>0, <1>3, <1>4, <1>5 DEF TalksInOrder, Active
  <2> QED BY <1>0, <1>7, <1>9, <2>1 DEF TalksInOrder, Active, Live, TalkEnds
<1>11. KeepsHolds BY SameHolds DEF TalkEnds
<1>12. PickedIsNotHeld' BY <1>0, <1>6, <1>7 DEF PickedIsNotHeld, Standing, TalkEnds
<1>13. KeepsLine
  BY <1>6, <1>7, <1>9, NoDeclines DEF KeepsLine, InLine, Live, TalkEnds
<1> QED BY <1>8, <1>10, <1>11, <1>12, <1>13, ServerStep DEF TalkEnds

\* shows.end.
LEMMA EndKeeps == ASSUME CallerInv, End PROVE CallerInv'
<1>0. CallerTypeOK /\ TalksInOrder /\ PickedIsNotHeld BY DEF CallerInv
<1>1. \A n \in DOMAIN talks : talks[n] \in Talk BY <1>0 DEF CallerTypeOK
<1>2. Over \in [DOMAIN talks -> Talk] BY <1>1 DEF Over, Talk
<1>3. talks' = Over /\ DOMAIN talks' = DOMAIN talks BY DEF End, Over
<1>4. \A n \in DOMAIN talks : talks'[n].status =
            IF talks[n].status = "OPEN" THEN "ENDED" ELSE talks[n].status
  BY <1>1, <1>3 DEF Over, OpenTalk, Talk
<1>5. /\ entry' = entry \/ (entry.status = "SELECTED" /\ entry'.status = "ENDED")
      /\ entry'.attempt = entry.attempt
      /\ entry' \in [status : {"NONE", "WAITING", "SELECTED", "LEFT", "ENDED"},
                     attempt : 0..MaxKeys]
  <2>1. OpenTalk # {} => entry.status = "SELECTED" BY ActiveEntry DEF OpenTalk
  <2> QED BY <1>0, <2>1 DEF End, CallerTypeOK
<1>6. Live /\ ~Live' BY DEF End, Live
<1>8. CallerTypeOK' /\ SamePage
  <2>1. page' \in Page BY RedrawsPage DEF End
  <2>2. talks' \in Seq(Talk) /\ Len(talks') <= MaxTalks BY <1>0, <1>2, <1>3, TalksType
  <2>3. CallerTypeOK' BY <1>0, <1>5, <2>1, <2>2 DEF End, CallerTypeOK
  <2> QED BY <2>3, RedrawsPage DEF End
<1>9. Mine \subseteq Mine' BY <1>3, <1>4, MineStays
<1>10. TalksInOrder'
  <2>1. \A n \in DOMAIN talks' : /\ talks'[n].status # "OPEN"
                                 /\ talks'[n].status = "PAYMENT_PENDING" =>
                                      /\ talks[n].status = "PAYMENT_PENDING"
                                      /\ entry'.status \in {"SELECTED", "ENDED"}
    BY <1>3, <1>4, <1>5, ActiveEntry
  <2> QED BY <1>0, <1>3, <1>5, <1>6, <1>9, <2>1 DEF TalksInOrder, Active
<1>11. KeepsHolds BY SameHolds DEF End
<1>12. PickedIsNotHeld' BY <1>0, <1>5 DEF PickedIsNotHeld, Standing, End
<1>13. KeepsLine
  BY <1>5, <1>6, <1>9, NoDeclines DEF KeepsLine, InLine, End
<1> QED BY <1>8, <1>10, <1>11, <1>12, <1>13, ServerStep DEF End

\* calls.select.
LEMMA SelectKeeps == ASSUME CallerInv, Select PROVE CallerInv'
<1>0. CallerTypeOK /\ TalksInOrder /\ PickedIsNotHeld /\ HoldsInOrder BY DEF CallerInv
<1> DEFINE talk == [attempt |-> entry.attempt,
                    status |-> IF entry.attempt = 0 THEN "OPEN" ELSE "PAYMENT_PENDING"]
<1>1. talk \in Talk BY <1>0, CallerFields DEF Talk
<1>2. /\ talk.status = IF entry.attempt = 0 THEN "OPEN" ELSE "PAYMENT_PENDING"
      /\ talks' = Append(talks, talk)
  BY DEF Select
<1> HIDE DEF talk
<1>3. /\ entry.status = "WAITING" /\ entry'.status = "SELECTED" /\ entry'.attempt = entry.attempt
      /\ Live /\ Live'
  BY <1>0 DEF Select, CallerTypeOK, Live
<1>4. \A k \in PayKeys : hold'[k] = IF k = entry.attempt
                                     THEN [hold[k] EXCEPT !.status = "CAPTURING"] ELSE hold[k]
  BY DEF Select
<1>5. CallerTypeOK' /\ SamePage
  <2>1. page' \in Page BY RedrawsPage DEF Select
  <2>2. talks' \in Seq(Talk) /\ Len(talks') = Len(talks) + 1 BY <1>0, <1>1, <1>2 DEF CallerTypeOK
  <2>3. Len(talks') <= MaxTalks
    BY <1>0, <2>2, CallerPageAssumption DEF Select, CallerTypeOK
  <2>4. hold' \in [PayKeys -> Hold]
    <3>1. ASSUME NEW k \in PayKeys
          PROVE  (IF k = entry.attempt THEN [hold[k] EXCEPT !.status = "CAPTURING"] ELSE hold[k]) \in Hold
      <4>1. hold[k] \in Hold BY <1>0 DEF CallerTypeOK
      <4> QED BY <4>1 DEF Hold, AttemptStatuses
    <3> QED BY <3>1 DEF Select
  <2>5. CallerTypeOK' BY <1>0, <2>1, <2>2, <2>3, <2>4 DEF Select, CallerTypeOK
  <2> QED BY <2>5, RedrawsPage DEF Select
<1>6. /\ Len(talks) \in Nat /\ DOMAIN talks = 1..Len(talks) /\ DOMAIN talks' = 1..(Len(talks) + 1)
      /\ \A n \in DOMAIN talks : talks'[n] = talks[n]
      /\ talks'[Len(talks) + 1] = talk
  BY <1>0, <1>1, <1>2 DEF CallerTypeOK
<1>7. \A n \in DOMAIN talks : talks'[n].status \in {"ENDED", "FAILED"} BY <1>6 DEF Select
<1>8. Mine \subseteq Mine' /\ (entry.attempt = 0 => Mine' # {})
  <2>1. entry.attempt = 0 => Len(talks) + 1 \in Mine' BY <1>2, <1>6 DEF Mine
  <2> QED BY <1>6, <2>1 DEF Mine
<1>9. TalksInOrder'
  <2>1. \A n \in DOMAIN talks' : Active(n)' => n = Len(talks) + 1
    <3>1. \A n \in DOMAIN talks' : n \in DOMAIN talks \/ n = Len(talks) + 1 BY <1>6
    <3> QED BY <1>7, <3>1 DEF Active
  <2> QED BY <1>0, <1>3, <1>8, <2>1 DEF TalksInOrder, Active, Select, Live
<1>10. KeepsHolds
  <2>1. ASSUME NEW k \in PayKeys PROVE KeepsHold(k)
    <3>1. CASE k # entry.attempt
      BY <1>0, <1>4, <3>1, SameHold DEF Select, HoldsInOrder
    <3>2. CASE k = entry.attempt
      <4>1. hold[k] \in Hold BY <1>0 DEF CallerTypeOK
      <4>2. hold'[k] = [hold[k] EXCEPT !.status = "CAPTURING"] BY <1>4, <3>2
      <4>3. /\ hold'[k].queued = hold[k].queued /\ hold'[k].spare = hold[k].spare
            /\ hold'[k].evicted = hold[k].evicted /\ hold'[k].attached = hold[k].attached
            /\ hold'[k].intent = hold[k].intent /\ hold'[k].status = "CAPTURING"
        BY <4>1, <4>2 DEF Hold
      <4> QED BY <1>0, <3>2, <4>3 DEF KeepsHold, HoldsInOrder, Used, Standing, Select
    <3> QED BY <3>1, <3>2
  <2> QED BY <2>1 DEF KeepsHolds
<1>11. entry.attempt # 0 => ~Standing(entry.attempt)'
  <2>1. ASSUME entry.attempt # 0 PROVE hold'[entry.attempt].status = "CAPTURING"
    <3>1. entry.attempt \in PayKeys /\ hold[entry.attempt] \in Hold
      BY <1>0, <2>1, KeyNumbers DEF CallerTypeOK
    <3> QED BY <1>4, <3>1 DEF Hold
  <2> QED BY <1>3, <2>1 DEF Standing
<1>12. PickedIsNotHeld' BY <1>3, <1>11 DEF PickedIsNotHeld, Standing
<1>13. KeepsLine
  <2>1. \A k \in PayKeys : Standing(k)' /\ InLine(k) => FALSE
    BY <1>0, <1>3, <1>11, KeyNumbers DEF InLine, Standing
  <2> QED BY <1>3, <1>8, <2>1, NoDeclines DEF KeepsLine, InLine, Select
<1> QED BY <1>5, <1>9, <1>10, <1>12, <1>13, ServerStep DEF Select

\* recordCaptured.
LEMMA CapturedKeeps == ASSUME CallerInv, NEW k \in PayKeys, Captured(k) PROVE CallerInv'
<1>0. CallerTypeOK /\ TalksInOrder /\ PickedIsNotHeld /\ HoldsInOrder BY DEF CallerInv
<1>1. \A n \in DOMAIN talks : talks[n] \in Talk BY <1>0 DEF CallerTypeOK
<1>2. DOMAIN talks' = DOMAIN talks /\ talks' \in [DOMAIN talks -> Talk]
  BY <1>1 DEF Captured, Talk
<1>3. \A n \in DOMAIN talks : talks'[n].status =
            IF n \notin Pending(k) THEN talks[n].status
            ELSE IF Live THEN "OPEN" ELSE "FAILED"
  BY <1>1 DEF Captured, Talk, Live
<1>4. /\ entry' = entry \/ (Pending(k) # {} /\ entry.status \in {"SELECTED", "ENDED"}
                               /\ entry'.status = "ENDED")
      /\ Live => entry' = entry
      /\ entry'.attempt = entry.attempt
      /\ entry' \in [status : {"NONE", "WAITING", "SELECTED", "LEFT", "ENDED"},
                     attempt : 0..MaxKeys]
  <2>1. Pending(k) # {} => entry.status \in {"SELECTED", "ENDED"} BY ActiveEntry DEF Pending
  <2> QED BY <1>0, <2>1 DEF Captured, CallerTypeOK, Live
<1>5. /\ \A l \in PayKeys : l # k => hold'[l] = hold[l]
      /\ hold'[k] = [hold[k] EXCEPT !.status = "CAPTURED", !.intent = "succeeded"]
      /\ hold[k] \in Hold /\ hold' \in [PayKeys -> Hold]
  BY <1>0 DEF Captured, CallerTypeOK, Hold, AttemptStatuses, IntentStatuses
<1>6. /\ hold'[k].queued = hold[k].queued /\ hold'[k].spare = hold[k].spare
      /\ hold'[k].evicted = hold[k].evicted /\ hold'[k].attached = hold[k].attached
      /\ hold'[k].intent = "succeeded" /\ hold'[k].status = "CAPTURED"
  BY <1>5 DEF Hold
<1>7. CallerTypeOK' /\ SamePage
  <2>1. page' \in Page BY RedrawsPage DEF Captured
  <2>2. talks' \in Seq(Talk) /\ Len(talks') <= MaxTalks BY <1>0, <1>2, TalksType
  <2>3. CallerTypeOK' BY <1>0, <1>4, <1>5, <2>1, <2>2 DEF Captured, CallerTypeOK
  <2> QED BY <2>3, RedrawsPage DEF Captured
<1>8. Mine \subseteq Mine' /\ (Pending(k) # {} => Mine' # {})
  <2>1. \A n \in Pending(k) : n \in Mine' BY <1>2, <1>3 DEF Mine, Pending
  <2> QED BY <1>2, <1>3, <2>1, MineStays
<1>9. TalksInOrder'
  <2>1. \A n \in Pending(k) : n \in DOMAIN talks /\ talks[n].status = "PAYMENT_PENDING" BY DEF Pending
  <2>2. \A n \in DOMAIN talks : Active(n)' => Active(n) BY <1>3, <2>1 DEF Active
  <2>3. Live' <=> Live BY DEF Live, Captured
  <2>4. \A n \in DOMAIN talks : talks'[n].status = "OPEN" => Live /\ entry'.status = "SELECTED"
    BY <1>3, <1>4, <2>1, ActiveEntry
  <2>5. \A n \in DOMAIN talks : talks'[n].status = "PAYMENT_PENDING" =>
              entry'.status = "SELECTED" \/ (entry'.status = "ENDED" /\ ~Live)
    BY <1>3, <1>4, ActiveEntry
  <2>6. entry'.status = "SELECTED" /\ entry'.attempt = 0 => Mine' # {}
    BY <1>0, <1>4, <1>8 DEF TalksInOrder
  <2>7. entry'.status = "ENDED" /\ Live' => Mine' # {}
    BY <1>0, <1>4, <1>8, <2>3 DEF TalksInOrder
  <2>8. hotline' = hotline BY DEF Captured
  <2> QED BY <1>0, <1>2, <2>2, <2>3, <2>4, <2>5, <2>6, <2>7, <2>8 DEF TalksInOrder
<1>10. KeepsHolds
  <2>1. ASSUME NEW l \in PayKeys PROVE KeepsHold(l)
    <3>1. CASE l # k BY <1>0, <1>5, <3>1, SameHold DEF Captured, HoldsInOrder
    <3>2. CASE l = k BY <1>0, <1>6, <3>2 DEF KeepsHold, HoldsInOrder, Used, Standing, Captured
    <3> QED BY <3>1, <3>2
  <2> QED BY <2>1 DEF KeepsHolds
<1>11. \A l \in PayKeys : Standing(l)' => Standing(l) BY <1>10 DEF KeepsHolds, KeepsHold
<1>12. PickedIsNotHeld'
  <2>1. entry.attempt # 0 => entry.attempt \in PayKeys BY <1>0, KeyNumbers
  <2>2. entry.attempt # 0 /\ Standing(entry.attempt)' => Standing(entry.attempt)
    BY <1>4, <1>11, <2>1 DEF Standing
  <2> QED BY <1>0, <1>4, <2>2 DEF PickedIsNotHeld, Standing
<1>13. KeepsLine
  <2>1. Mine' = {} => entry' = entry /\ Mine = {} BY <1>4, <1>8
  <2>2. \A l \in PayKeys : InLine(l) => InLine(l)' BY <1>4 DEF InLine
  <2> QED BY <1>4, <2>1, <2>2, NoDeclines DEF KeepsLine, InLine, Captured, Live
<1> QED BY <1>7, <1>9, <1>10, <1>12, <1>13, ServerStep DEF Captured

\* recordNotCaptured.
LEMMA NotCapturedKeeps ==
    ASSUME CallerInv, NEW k \in PayKeys, NEW st \in {"FAILED", "CANCELED"},
           NEW in \in {hold[k].intent, "canceled"}, NotCaptured(k, st, in),
           in = "canceled" => Used(k),
           errors' = 0 => errors = 0 /\ hold[k].queued,
           errors' \in 0..MaxErrors,
           releasing' = releasing \/ (releasing' = releasing \ {k} /\ hold[k].status # "CAPTURED"),
           declines' \subseteq declines, UNCHANGED <<hotline, asks>>, Redraws
    PROVE  CallerInv'
<1>0. CallerTypeOK /\ TalksInOrder /\ PickedIsNotHeld /\ HoldsInOrder BY DEF CallerInv
<1>1. hold[k] \in Hold /\ \A l \in PayKeys : hold[l] \in Hold BY <1>0 DEF CallerTypeOK
<1>2. in \in IntentStatuses BY <1>1 DEF Hold, IntentStatuses
<1>3. \A n \in DOMAIN talks : talks[n] \in Talk BY <1>0 DEF CallerTypeOK
<1>4. DOMAIN talks' = DOMAIN talks /\ talks' \in [DOMAIN talks -> Talk]
  <2>1. talks \in [DOMAIN talks -> Talk] BY <1>0, <1>3 DEF CallerTypeOK
  <2>2. \A n \in DOMAIN talks : CallWithout(k, talks[n]) \in Talk BY <1>3 DEF CallWithout, Talk
  <2> QED BY <2>1, <2>2 DEF NotCaptured
<1>5. /\ \A n \in DOMAIN talks : talks'[n].status = talks[n].status
                                  \/ (n \in Pending(k) /\ talks'[n].status = "FAILED")
      /\ entry' # entry => \A n \in Pending(k) : talks'[n].status = "FAILED"
  BY <1>3 DEF NotCaptured, CallWithout, Pending, Talk
<1>6. /\ entry' = entry \/ (Drops(k) /\ hold[k].status # "CAPTURED" /\ entry'.status = "LEFT")
      /\ entry'.attempt = entry.attempt
      /\ entry' \in [status : {"NONE", "WAITING", "SELECTED", "LEFT", "ENDED"},
                     attempt : 0..MaxKeys]
  BY <1>0 DEF NotCaptured, CallerTypeOK
<1>7. hold' \in [PayKeys -> Hold]
  <2>1. CASE hold[k].status = "CAPTURED"
    <3>1. hold' = [hold EXCEPT ![k].intent = in] BY <2>1 DEF NotCaptured
    <3> QED BY <1>0, <1>1, <1>2, <3>1 DEF CallerTypeOK, Hold
  <2>2. CASE hold[k].status # "CAPTURED"
    <3>1. [hold[k] EXCEPT !.status = st, !.intent = in] \in Hold
      BY <1>1, <1>2 DEF Hold, AttemptStatuses
    <3>2. ASSUME NEW l \in PayKeys, NEW b \in BOOLEAN PROVE [hold[l] EXCEPT !.evicted = b] \in Hold
      BY <1>1 DEF Hold
    <3>3. ASSUME NEW l \in PayKeys
          PROVE  [hold[l] EXCEPT !.evicted = @ \/ (l = entry.attempt /\ Drops(k))] \in Hold
      BY <3>2
    <3> QED BY <2>2, <3>1, <3>3 DEF NotCaptured
  <2> QED BY <2>1, <2>2
<1>8. /\ hold'[k].queued = hold[k].queued /\ hold'[k].spare = hold[k].spare
      /\ hold'[k].evicted = hold[k].evicted /\ hold'[k].attached = hold[k].attached
      /\ hold'[k].intent = in
      /\ hold'[k].status = IF hold[k].status = "CAPTURED" THEN "CAPTURED" ELSE st
  <2>1. CASE hold[k].status = "CAPTURED"
    <3>1. hold'[k] = [hold[k] EXCEPT !.intent = in] BY <1>0, <2>1 DEF NotCaptured, CallerTypeOK
    <3> QED BY <1>1, <2>1, <3>1 DEF Hold
  <2>2. CASE hold[k].status # "CAPTURED"
    <3>1. hold'[k] = [hold[k] EXCEPT !.status = st, !.intent = in] BY <2>2 DEF NotCaptured
    <3> QED BY <1>1, <2>2, <3>1 DEF Hold
  <2> QED BY <2>1, <2>2
<1>9. ASSUME NEW l \in PayKeys, l # k
      PROVE  /\ hold'[l].queued = hold[l].queued /\ hold'[l].spare = hold[l].spare
             /\ hold[l].evicted => hold'[l].evicted
             /\ l = entry.attempt /\ entry' # entry => hold'[l].evicted
             /\ hold'[l].attached = hold[l].attached
             /\ hold'[l].intent = hold[l].intent /\ hold'[l].status = hold[l].status
  <2>1. CASE hold[k].status = "CAPTURED"
    <3>1. hold'[l] = hold[l] /\ entry' = entry BY <1>0, <1>9, <2>1 DEF NotCaptured, CallerTypeOK
    <3> QED BY <3>1
  <2>2. CASE hold[k].status # "CAPTURED"
    <3> DEFINE b == hold[l].evicted \/ (l = entry.attempt /\ Drops(k))
    <3>1. hold'[l] = [hold[l] EXCEPT !.evicted = b] BY <1>9, <2>2 DEF NotCaptured
    <3>2. l = entry.attempt /\ entry' # entry => b BY <1>6
    <3>3. hold[l].evicted => b OBVIOUS
    <3>4. hold[l] \in Hold BY <1>1
    <3> HIDE DEF b
    <3> QED BY <3>1, <3>2, <3>3, <3>4 DEF Hold
  <2> QED BY <2>1, <2>2
<1>10. CallerTypeOK' /\ SamePage
  <2>1. page' \in Page BY RedrawsPage
  <2>2. talks' \in Seq(Talk) /\ Len(talks') <= MaxTalks BY <1>0, <1>4, TalksType
  <2>3. CallerTypeOK' BY <1>0, <1>6, <1>7, <2>1, <2>2 DEF CallerTypeOK
  <2> QED BY <2>3, RedrawsPage
<1>11. Mine \subseteq Mine' /\ (entry' # entry /\ entry.status = "SELECTED" => Mine' # {})
  <2>1. \A n \in DOMAIN talks : talks[n].status # "PAYMENT_PENDING" => talks'[n].status # "PAYMENT_PENDING"
    BY <1>5
  <2>2. ASSUME entry' # entry, entry.status = "SELECTED" PROVE Mine' # {}
    <3>1. PICK n : n \in Pending(k) BY <1>6, <2>2 DEF Drops
    <3>2. n \in DOMAIN talks /\ talks'[n].status = "FAILED" BY <1>5, <2>2, <3>1 DEF Pending
    <3>3. n \in Mine' BY <1>4, <3>2 DEF Mine
    <3> QED BY <3>3
  <2> QED BY <1>4, <2>1, <2>2, MineStays
<1>12. TalksInOrder'
  <2>1. \A n \in DOMAIN talks : Active(n)' => Active(n) /\ talks'[n].status = talks[n].status
    BY <1>5 DEF Active
  <2>2. Live' <=> Live BY DEF Live
  <2>3. ASSUME NEW n \in DOMAIN talks, Active(n)', entry' # entry PROVE FALSE
    <3>1. Active(n) /\ talks'[n].status = talks[n].status BY <2>1, <2>3
    <3>2. entry.status # "WAITING" BY <3>1, ActiveEntry DEF Active
    <3>3. PICK m : m \in Pending(k) BY <1>6, <2>3, <3>2 DEF Drops
    <3>4. m = n BY <1>0, <3>1, <3>3 DEF TalksInOrder, Active, Pending
    <3>5. talks'[n].status = "FAILED" BY <1>5, <2>3, <3>3, <3>4
    <3> QED BY <2>3, <3>5 DEF Active
  <2>4. \A n \in DOMAIN talks : talks'[n].status = "OPEN" => Live /\ entry'.status = "SELECTED"
    BY <2>1, <2>3, ActiveEntry DEF Active
  <2>5. \A n \in DOMAIN talks : talks'[n].status = "PAYMENT_PENDING" =>
              entry'.status = "SELECTED" \/ (entry'.status = "ENDED" /\ ~Live)
    BY <2>1, <2>3, ActiveEntry DEF Active
  <2>6. entry'.status = "SELECTED" /\ entry'.attempt = 0 => Mine' # {}
    BY <1>0, <1>6, <1>11 DEF TalksInOrder
  <2>7. entry'.status = "ENDED" /\ Live' => Mine' # {}
    BY <1>0, <1>6, <1>11, <2>2 DEF TalksInOrder
  <2> QED BY <1>0, <1>4, <2>1, <2>2, <2>4, <2>5, <2>6, <2>7 DEF TalksInOrder
<1>13. KeepsHolds
  <2>1. ASSUME NEW l \in PayKeys PROVE KeepsHold(l)
    <3>1. CASE l # k BY <1>0, <1>9, <3>1 DEF KeepsHold, HoldsInOrder, Used, Standing
    <3>2. CASE l = k BY <1>0, <1>8, <3>2 DEF KeepsHold, HoldsInOrder, Used, Standing
    <3> QED BY <3>1, <3>2
  <2> QED BY <2>1 DEF KeepsHolds
<1>14. PickedIsNotHeld'
  <2>1. CASE entry' = entry BY <1>13, <2>1, SamePicked
  <2>2. CASE entry' # entry BY <1>6, <2>2 DEF PickedIsNotHeld
  <2> QED BY <2>1, <2>2
<1>15. KeepsLine
  <2>1. Mine' = {} => /\ Mine = {}
                      /\ entry.status \in {"SELECTED", "ENDED"} => entry'.status \in {"SELECTED", "ENDED"}
    <3>1. entry' # entry => entry.status \in {"WAITING", "SELECTED"} BY <1>6 DEF Drops
    <3> QED BY <1>11, <3>1
  <2>2. ASSUME NEW l \in PayKeys, Standing(l)', InLine(l) PROVE InLine(l)' \/ hold'[l].evicted
    <3>1. CASE l = k BY <1>6, <1>8, <2>2, <3>1 DEF InLine, Standing
    <3>2. CASE l # k BY <1>6, <1>9, <2>2, <3>2 DEF InLine
    <3> QED BY <3>1, <3>2
  <2>3. errors' = 0 => errors = 0 /\ declines' = {} BY NoDeclines
  <2> QED BY <1>6, <2>1, <2>2, <2>3 DEF KeepsLine, InLine, Live
<1> QED BY <1>10, <1>12, <1>13, <1>14, <1>15, ServerStep

\* The capture is given up.
LEMMA CaptureFailsKeeps == ASSUME CallerInv, NEW k \in PayKeys, CaptureFails(k) PROVE CallerInv'
<1>0. CallerTypeOK BY DEF CallerInv
<1>1. errors' \in 0..MaxErrors /\ errors' # 0
  BY <1>0, CallerPageAssumption DEF CaptureFails, CallerTypeOK
<1>2. hold[k].intent = "canceled" => Used(k) BY DEF Used
<1> QED BY <1>1, <1>2, NotCapturedKeeps DEF CaptureFails

\* cancelIntent.
LEMMA CancelIntentKeeps == ASSUME CallerInv, NEW k \in PayKeys, CancelIntent(k) PROVE CallerInv'
<1>0. CallerTypeOK /\ HoldsInOrder BY DEF CallerInv
<1>1. hold[k].queued /\ hold[k].attached /\ Used(k) BY <1>0 DEF CancelIntent, HoldsInOrder
<1>2. UNCHANGED <<hotline, declines, asks, errors>> /\ Redraws /\ releasing' = releasing \ {k}
  BY DEF CancelIntent
<1>3. errors' \in 0..MaxErrors BY <1>0, <1>2 DEF CallerTypeOK
<1>4. CASE hold[k].status \in {"CREATED", "AUTHORIZED"}
  <2>1. NotCaptured(k, "CANCELED", "canceled") BY <1>1, <1>4 DEF CancelIntent
  <2> QED BY <1>1, <1>2, <1>3, <1>4, <2>1, NotCapturedKeeps
<1>5. CASE hold[k].status \notin {"CREATED", "AUTHORIZED"}
  <2>1. UNCHANGED <<hold, talks, entry>> BY <1>5 DEF CancelIntent
  <2>2. CallerTypeOK' /\ SamePage
    <3>1. CallerTypeOK' BY <1>0, <1>2, <2>1, RedrawsPage DEF CallerTypeOK
    <3> QED BY <1>2, <3>1, RedrawsPage
  <2>3. KeepsHolds
    <3>1. ASSUME NEW l \in PayKeys PROVE KeepsHold(l)
      BY <1>0, <1>2, <1>5, <2>1, SameHold DEF HoldsInOrder
    <3> QED BY <3>1 DEF KeepsHolds
  <2>4. TalksInOrder' /\ Mine' = Mine BY <1>2, <2>1, SameTalks
  <2>5. PickedIsNotHeld' BY <2>1, <2>3, SamePicked
  <2>6. KeepsLine BY <1>2, <2>1, <2>4, NoDeclines DEF KeepsLine, InLine, Live
  <2> QED BY <1>2, <2>2, <2>3, <2>4, <2>5, <2>6, ServerStep
<1> QED BY <1>4, <1>5

\* The event of a declined card.
LEMMA DeclineEventKeeps == ASSUME CallerInv, NEW k \in PayKeys, DeclineEvent(k) PROVE CallerInv'
<1>0. CallerTypeOK BY DEF CallerInv
<1>1. errors' \in 0..MaxErrors /\ errors' # 0
  BY <1>0, NoDeclines DEF DeclineEvent, CallerTypeOK
<1>2. hold[k].intent = "canceled" => Used(k) BY DEF Used
<1> QED BY <1>1, <1>2, NotCapturedKeeps DEF DeclineEvent

\* A hold that is given back.
LEMMA CancelsHold ==
    ASSUME CallerInv, Cancels(entry.attempt), UNCHANGED <<hold, errors>>
    PROVE  /\ KeepsHolds /\ releasing' \subseteq PayKeys
           /\ entry.attempt # 0 => ~(/\ hold'[entry.attempt].status \in {"CREATED", "AUTHORIZED"}
                                     /\ entry.attempt \notin releasing')
<1>0. CallerTypeOK /\ HoldsInOrder BY DEF CallerInv
<1>1. entry.attempt # 0 => entry.attempt \in PayKeys BY <1>0, KeyNumbers
<1>2. ASSUME NEW k \in PayKeys PROVE KeepsHold(k)
  BY <1>0, SameHold DEF HoldsInOrder, Cancels
<1> QED BY <1>0, <1>1, <1>2 DEF KeepsHolds, Cancels, CallerTypeOK

\* closeQueue.
LEMMA CloseKeeps == ASSUME CallerInv, Close PROVE CallerInv'
<1>0. CallerTypeOK /\ TalksInOrder /\ PickedIsNotHeld /\ HoldsInOrder BY DEF CallerInv
<1>1. /\ entry'.status = IF entry.status \in {"WAITING", "SELECTED"} THEN "ENDED" ELSE entry.status
      /\ entry'.attempt = entry.attempt
      /\ entry' \in [status : {"NONE", "WAITING", "SELECTED", "LEFT", "ENDED"},
                     attempt : 0..MaxKeys]
  BY <1>0 DEF Close, CallerTypeOK
<1>2. ~Live /\ ~Live' /\ ~hotline'.closing
  BY <1>0 DEF Close, TalksInOrder, CallerTypeOK, Live
<1>3. /\ KeepsHolds /\ releasing' \subseteq PayKeys
      /\ entry.status = "WAITING" /\ entry.attempt # 0 => ~Standing(entry.attempt)'
  <2>1. CASE entry.status = "WAITING"
    <3>1. Cancels(entry.attempt) BY <2>1 DEF Close, GivesBack
    <3> QED BY <1>1, <3>1, CancelsHold DEF Close, Standing
  <2>2. CASE entry.status # "WAITING" BY <1>0, <2>2, SameHolds DEF Close, CallerTypeOK
  <2> QED BY <2>1, <2>2
<1>4. CallerTypeOK' /\ SamePage
  <2>1. page' \in Page BY RedrawsPage DEF Close
  <2>2. hotline' \in [status : {"LIVE", "ENDED"}, closing : BOOLEAN] BY <1>0 DEF Close, CallerTypeOK
  <2>3. CallerTypeOK' BY <1>0, <1>1, <1>3, <2>1, <2>2 DEF Close, CallerTypeOK
  <2> QED BY <2>3, RedrawsPage DEF Close
<1>5. Mine' = Mine BY DEF Mine, Close
<1>6. TalksInOrder'
  <2>1. \A n \in DOMAIN talks : /\ talks[n].status # "OPEN"
                                /\ talks[n].status = "PAYMENT_PENDING" => entry'.status = "ENDED"
    BY <1>1, <1>2, ActiveEntry
  <2> QED BY <1>0, <1>1, <1>2, <1>5, <2>1 DEF TalksInOrder, Active, Close
<1>7. PickedIsNotHeld'
  <2> SUFFICES ASSUME entry'.status \in {"SELECTED", "ENDED"}, entry'.attempt # 0
               PROVE  ~Standing(entry.attempt)'
    BY DEF PickedIsNotHeld, Standing
  <2>1. CASE entry.status = "WAITING" BY <1>1, <1>3, <2>1
  <2>2. CASE entry.status # "WAITING"
    <3>1. ~Standing(entry.attempt) BY <1>0, <1>1, <2>2 DEF PickedIsNotHeld
    <3>2. entry.attempt \in PayKeys BY <1>0, <1>1, KeyNumbers
    <3>3. KeepsHold(entry.attempt) BY <1>3, <3>2 DEF KeepsHolds
    <3> QED BY <1>1, <3>1, <3>3 DEF KeepsHold, Standing
  <2> QED BY <2>1, <2>2
<1>8. KeepsLine
  <2>1. \A k \in PayKeys : Standing(k)' /\ InLine(k) => FALSE
    BY <1>0, <1>1, <1>3, KeyNumbers DEF InLine, Standing
  <2> QED BY <1>1, <1>2, <1>5, <2>1, NoDeclines DEF KeepsLine, InLine, Close
<1> QED BY <1>3, <1>4, <1>6, <1>7, <1>8, ServerStep DEF Close

\* queue.leave.
LEMMA LeaveKeeps == ASSUME CallerInv, Leave PROVE CallerInv'
<1>0. CallerTypeOK /\ TalksInOrder /\ PickedIsNotHeld /\ HoldsInOrder BY DEF CallerInv
<1>1. CASE entry.status = "WAITING"
  <2>1. /\ entry'.status = "LEFT" /\ entry'.attempt = entry.attempt
        /\ entry' \in [status : {"NONE", "WAITING", "SELECTED", "LEFT", "ENDED"},
                       attempt : 0..MaxKeys]
        /\ Cancels(entry.attempt)
    BY <1>0, <1>1 DEF Leave, CallerTypeOK
  <2>2. /\ KeepsHolds /\ releasing' \subseteq PayKeys
        /\ entry.attempt # 0 => ~Standing(entry.attempt)'
    BY <2>1, CancelsHold DEF Leave, Standing
  <2>3. CallerTypeOK' /\ SamePage
    <3>1. page' \in Page BY LeavingPage DEF Leave
    <3>2. CallerTypeOK' BY <1>0, <2>1, <2>2, <3>1 DEF Leave, CallerTypeOK
    <3> QED BY <3>2, LeavingPage DEF Leave
  <2>4. Mine' = Mine BY DEF Mine, Leave
  <2>5. TalksInOrder'
    <3>1. \A n \in DOMAIN talks : talks[n].status \notin {"OPEN", "PAYMENT_PENDING"}
      BY <1>1, ActiveEntry
    <3> QED BY <1>0, <2>1, <3>1 DEF TalksInOrder, Active, Leave, Live
  <2>6. PickedIsNotHeld' BY <2>1 DEF PickedIsNotHeld
  <2>7. KeepsLine
    <3>1. \A k \in PayKeys : Standing(k)' /\ InLine(k) => FALSE
      BY <1>0, <2>1, <2>2, KeyNumbers DEF InLine, Standing
    <3> QED BY <1>1, <2>1, <2>4, <3>1, NoDeclines DEF KeepsLine, InLine, Leave, Live
  <2> QED BY <2>2, <2>3, <2>5, <2>6, <2>7, ServerStep DEF Leave
<1>2. CASE entry.status # "WAITING"
  <2>1. UNCHANGED <<serverVars, asks, errors>> BY <1>2 DEF Leave, serverVars
  <2>2. CallerTypeOK' /\ SamePage
    <3>1. page' \in Page BY LeavingPage DEF Leave
    <3>2. CallerTypeOK' BY <1>0, <2>1, <3>1 DEF CallerTypeOK, serverVars
    <3> QED BY <3>2, LeavingPage DEF Leave
  <2>3. KeepsHolds BY <2>1, SameHolds DEF serverVars
  <2>4. TalksInOrder' /\ Mine' = Mine BY <2>1, SameTalks DEF serverVars
  <2>5. PickedIsNotHeld' BY <2>1, <2>3, SamePicked DEF serverVars
  <2>6. KeepsLine BY <2>1, <2>4, NoDeclines DEF KeepsLine, InLine, Live, serverVars
  <2> QED BY <2>1, <2>2, <2>3, <2>4, <2>5, <2>6, ServerStep
<1> QED BY <1>1, <1>2

\* The caller asks to be taken out of the line.
LEMMA WithdrawKeeps == ASSUME CallerInv, Withdraw PROVE CallerInv'
<1>0. CallerTypeOK BY DEF CallerInv
<1>1. UNCHANGED <<serverVars, asks, errors>> BY DEF Withdraw
<1>2. CallerTypeOK' /\ SamePage
  <2>1. page' \in Page BY LeavingPage DEF Withdraw
  <2>2. CallerTypeOK' BY <1>0, <1>1, <2>1 DEF CallerTypeOK, serverVars
  <2> QED BY <2>2, LeavingPage DEF Withdraw
<1>3. KeepsHolds BY <1>1, SameHolds DEF serverVars
<1>4. TalksInOrder' /\ Mine' = Mine BY <1>1, SameTalks DEF serverVars
<1>5. PickedIsNotHeld' BY <1>1, <1>3, SamePicked DEF serverVars
<1>6. KeepsLine BY <1>1, <1>4, NoDeclines DEF KeepsLine, InLine, Live, serverVars
<1> QED BY <1>1, <1>2, <1>3, <1>4, <1>5, <1>6, ServerStep

\* While the form or the card form is shown, the caller is asking.
LEMMA FormIsAsking ==
    ASSUME CallerTypeOK
    PROVE  /\ View = "form" => Asking /\ page.card = 0
           /\ View = "card" => Asking /\ page.card # 0 /\ page.card \in PayKeys
<1>1. Place \in {"closed", "call", "complete", "waiting", "asking"}
  BY CallerFields, MyCallIsRight DEF Place
<1>2. Place = "asking" <=> Asking BY PlaceIsAsking DEF PlaceIsRight
<1> QED BY <1>1, <1>2, KeyNumbers DEF View

\* The bank declines the card.
LEMMA ConfirmDeclinedKeeps == ASSUME CallerInv, ConfirmDeclined PROVE CallerInv'
<1>0. CallerTypeOK BY DEF CallerInv
<1>1. errors' \in 0..MaxErrors /\ errors' # 0
  BY <1>0, CallerPageAssumption DEF ConfirmDeclined, CallerTypeOK
<1>2. CallerTypeOK' /\ SamePage
  <2>1. page' \in Page BY RedrawsPage DEF ConfirmDeclined
  <2>2. page.card \in PayKeys BY <1>0, FormIsAsking DEF ConfirmDeclined
  <2>3. CallerTypeOK' BY <1>0, <1>1, <2>1, <2>2 DEF CallerTypeOK, ConfirmDeclined
  <2> QED BY <2>3, RedrawsPage DEF ConfirmDeclined
<1>3. KeepsHolds BY <1>1, SameHolds DEF ConfirmDeclined
<1>4. TalksInOrder' /\ Mine' = Mine BY SameTalks DEF ConfirmDeclined
<1>5. PickedIsNotHeld' BY <1>3, SamePicked DEF ConfirmDeclined
<1>6. KeepsLine BY <1>1, <1>4 DEF KeepsLine, InLine, Live, ConfirmDeclined
<1> QED BY <1>2, <1>3, <1>4, <1>5, <1>6, ServerStep DEF ConfirmDeclined

\* A page that awaits nothing is heard by no action.
LEMMA NothingHeard ==
    ASSUME CallerInv, page.awaiting \in {"nothing", "confirm"} PROVE \A a \in asks : ~a.heard
<1>1. \A a \in asks : a.op \in {"authorize", "join"} BY AskFields DEF CallerInv, CallerTypeOK
<1> QED BY <1>1 DEF CallerInv, AsksInOrder, AskIsRight

\* queue.join for a free tier.
LEMMA JoinFreeKeeps == ASSUME CallerInv, JoinFree PROVE CallerInv'
<1>0. CallerTypeOK /\ TalksInOrder /\ PickedIsNotHeld /\ HoldsInOrder BY DEF CallerInv
<1>1. Asking BY <1>0, FormIsAsking DEF JoinFree
<1>2. \/ entry' = entry
      \/ entry.status \in {"NONE", "LEFT"} /\ entry'.status = "WAITING" /\ entry'.attempt = 0
  BY DEF JoinFree
<1>3. CallerTypeOK' /\ SamePage
  <2>1. page' \in Page BY RedrawsPage DEF JoinFree
  <2>2. entry' \in [status : {"NONE", "WAITING", "SELECTED", "LEFT", "ENDED"}, attempt : 0..MaxKeys]
    BY <1>0, CallerPageAssumption DEF JoinFree, CallerTypeOK
  <2>3. CallerTypeOK' BY <1>0, <2>1, <2>2 DEF JoinFree, CallerTypeOK
  <2> QED BY <2>3, RedrawsPage DEF JoinFree
<1>4. KeepsHolds BY SameHolds DEF JoinFree
<1>5. Mine' = Mine BY DEF Mine, JoinFree
<1>6. TalksInOrder'
  <2>1. CASE entry' = entry BY <2>1, SameTalks DEF JoinFree
  <2>2. CASE entry.status \in {"NONE", "LEFT"} /\ entry'.status = "WAITING"
    <3>1. \A n \in DOMAIN talks : talks[n].status \notin {"OPEN", "PAYMENT_PENDING"}
      BY <2>2, ActiveEntry
    <3> QED BY <1>0, <2>2, <3>1 DEF TalksInOrder, Active, JoinFree, Live
  <2> QED BY <1>2, <2>1, <2>2
<1>7. PickedIsNotHeld'
  <2>1. CASE entry' = entry BY <1>4, <2>1, SamePicked
  <2>2. CASE entry'.status = "WAITING" BY <2>2 DEF PickedIsNotHeld
  <2> QED BY <1>2, <2>1, <2>2
<1>8. KeepsLine
  <2>1. \A k \in PayKeys : k # 0 BY <1>0, KeyNumbers
  <2> QED BY <1>2, <2>1, NoDeclines DEF KeepsLine, JoinFree, InLine
<1> QED BY <1>3, <1>4, <1>6, <1>7, <1>8, ServerStep DEF JoinFree

-----------------------------------------------------------------------------
(* The steps of the actions.                                               *)

\* An action and the one it becomes.
LEMMA AsksType ==
    ASSUME CallerTypeOK, NEW a \in asks,
           NEW ph \in {"prepare", "intent", "verify", "enter", "done", "failed"}, Goes(a, ph)
    PROVE  asks' \subseteq Ask
<1>1. a \in Ask /\ asks \subseteq Ask BY DEF CallerTypeOK
<1>2. [a EXCEPT !.phase = ph] \in Ask BY <1>1 DEF Ask
<1> QED BY <1>1, <1>2 DEF Goes

\* A step of an action that leaves the payments alone.
LEMMA AskFailsStep ==
    ASSUME CallerInv, NEW a \in asks, Goes(a, "failed"), UNCHANGED serverVars, Redraws,
           errors' \in 0..MaxErrors, errors' = 0 => errors = 0 /\ a.phase # "done"
    PROVE  CallerInv'
<1>0. CallerTypeOK BY DEF CallerInv
<1>1. CallerTypeOK' /\ SamePage
  <2>1. page' \in Page BY RedrawsPage
  <2>2. asks' \subseteq Ask BY <1>0, AsksType
  <2>3. CallerTypeOK' BY <1>0, <2>1, <2>2 DEF CallerTypeOK, serverVars
  <2> QED BY <2>3, RedrawsPage
<1>2. KeepsHolds BY SameHolds DEF serverVars
<1>3. AskMoves(a, "failed") BY DEF AskMoves, Goes
<1> QED BY <1>1, <1>2, <1>3, AskStep DEF serverVars

\* A step of an action that moves its payment on.
LEMMA AskHoldStep ==
    ASSUME CallerInv, NEW a \in asks,
           NEW ph \in {"intent", "enter", "done", "failed"}, Goes(a, ph),
           UNCHANGED <<hotline, entry, talks, declines, releasing>>, Redraws,
           errors' \in 0..MaxErrors, NEW h \in Hold,
           hold' = [hold EXCEPT ![a.key] = h],
           hold'[a.key] = h /\ a.key \in PayKeys => KeepsHold(a.key),
           hold'[a.key] = h => AskMoves(a, ph)
    PROVE  CallerInv'
<1>0. CallerTypeOK /\ HoldsInOrder BY DEF CallerInv
<1>1. a.key \in PayKeys BY <1>0, AskFields DEF CallerTypeOK
<1>2. hold' \in [PayKeys -> Hold] /\ hold'[a.key] = h /\ \A k \in PayKeys : k # a.key => hold'[k] = hold[k]
  BY <1>0, <1>1 DEF CallerTypeOK
<1>3. AskMoves(a, ph) BY <1>2
<1>4. CallerTypeOK' /\ SamePage
  <2>1. page' \in Page BY RedrawsPage
  <2>2. asks' \subseteq Ask BY <1>0, AsksType
  <2>3. CallerTypeOK' BY <1>0, <1>2, <2>1, <2>2 DEF CallerTypeOK
  <2> QED BY <2>3, RedrawsPage
<1>5. KeepsHolds
  <2>1. ASSUME NEW k \in PayKeys PROVE KeepsHold(k)
    <3>1. CASE k = a.key BY <1>1, <1>2, <3>1
    <3>2. CASE k # a.key BY <1>0, <1>2, <1>3, <3>2, SameHold DEF HoldsInOrder, AskMoves
    <3> QED BY <3>1, <3>2
  <2> QED BY <2>1 DEF KeepsHolds
<1> QED BY <1>3, <1>4, <1>5, AskStep

\* What is known of an action.
LEMMA AskFacts ==
    ASSUME CallerInv, NEW a \in asks
    PROVE  /\ AskIsRight(a) /\ a.key \in PayKeys /\ a.op \in {"authorize", "join"}
           /\ hold[a.key] \in Hold /\ a.heard \in BOOLEAN
<1>0. CallerTypeOK /\ AsksInOrder BY DEF CallerInv
<1> QED BY <1>0, AskFields DEF CallerTypeOK, AsksInOrder

\* prepare.
LEMMA PrepareKeeps == ASSUME CallerInv, NEW a \in asks, Prepare(a) PROVE CallerInv'
<1>0. CallerTypeOK /\ HoldsInOrder BY DEF CallerInv
<1>1. a.op = "authorize" /\ a.key \in PayKeys /\ hold[a.key] \in Hold
  BY AskFacts DEF Prepare, AskIsRight
<1>2. UNCHANGED <<hotline, entry, talks, declines, releasing, errors>> /\ Redraws
      /\ errors' \in 0..MaxErrors
  BY <1>0 DEF Prepare, CallerTypeOK
<1>3. CASE hotline.status = "LIVE"
  <2> DEFINE h == [hold[a.key] EXCEPT !.status = IF @ = "NONE" THEN "CREATED" ELSE @]
  <2>1. /\ h \in Hold /\ h.queued = hold[a.key].queued /\ h.spare = hold[a.key].spare
        /\ h.evicted = hold[a.key].evicted /\ h.attached = hold[a.key].attached
        /\ h.intent = hold[a.key].intent
        /\ h.status = IF hold[a.key].status = "NONE" THEN "CREATED" ELSE hold[a.key].status
    BY <1>1 DEF Hold, AttemptStatuses
  <2>2. hold' = [hold EXCEPT ![a.key] = h] /\ Goes(a, "intent") BY <1>3 DEF Prepare
  <2> HIDE DEF h
  <2>3. ASSUME hold'[a.key] = h PROVE KeepsHold(a.key)
    BY <1>0, <1>1, <1>2, <2>1, <2>3 DEF KeepsHold, HoldsInOrder, Used, Standing
  <2>4. ASSUME hold'[a.key] = h PROVE AskMoves(a, "intent")
    BY <1>1, <1>2, <2>1, <2>2, <2>4 DEF AskMoves, Goes, Prepare
  <2> QED BY <1>2, <2>1, <2>2, <2>3, <2>4, AskHoldStep
<1>4. CASE hotline.status # "LIVE"
  BY <1>2, <1>4, AskFailsStep DEF Prepare, serverVars
<1> QED BY <1>3, <1>4

\* The PaymentIntent, made and attached.
LEMMA AttachIntentKeeps == ASSUME CallerInv, NEW a \in asks, AttachIntent(a) PROVE CallerInv'
<1>0. CallerTypeOK /\ HoldsInOrder BY DEF CallerInv
<1>1. /\ a.op = "authorize" /\ a.key \in PayKeys /\ hold[a.key] \in Hold
      /\ hold[a.key].status # "NONE"
  BY AskFacts DEF AttachIntent, AskIsRight
<1>2. UNCHANGED <<hotline, entry, talks, declines, releasing, errors>> /\ Redraws
      /\ errors' \in 0..MaxErrors
  BY <1>0 DEF AttachIntent, CallerTypeOK
<1> DEFINE h == [hold[a.key] EXCEPT !.attached = TRUE,
                    !.intent = IF @ = "none" THEN "requires_payment_method" ELSE @]
<1>3. /\ h \in Hold /\ h.queued = hold[a.key].queued /\ h.spare = hold[a.key].spare
      /\ h.evicted = hold[a.key].evicted /\ h.attached
      /\ h.intent = IF hold[a.key].intent = "none" THEN "requires_payment_method"
                    ELSE hold[a.key].intent
      /\ h.status = hold[a.key].status
  BY <1>1 DEF Hold, IntentStatuses
<1>4. hold' = [hold EXCEPT ![a.key] = h] /\ Goes(a, "done")
  BY <1>0, <1>1 DEF AttachIntent, CallerTypeOK
<1> HIDE DEF h
<1>5. ASSUME hold'[a.key] = h PROVE KeepsHold(a.key)
  BY <1>0, <1>1, <1>2, <1>3, <1>5 DEF KeepsHold, HoldsInOrder, Used, Standing
<1>6. ASSUME hold'[a.key] = h PROVE AskMoves(a, "done")
  BY <1>1, <1>2, <1>3, <1>4, <1>6 DEF AskMoves, Goes, AttachIntent
<1> QED BY <1>2, <1>3, <1>4, <1>5, <1>6, AskHoldStep

\* Stripe cannot be reached.
LEMMA IntentFailsKeeps == ASSUME CallerInv, NEW a \in asks, IntentFails(a) PROVE CallerInv'
<1>0. CallerTypeOK /\ HoldsInOrder BY DEF CallerInv
<1>1. /\ a.op = "authorize" /\ a.key \in PayKeys /\ hold[a.key] \in Hold
      /\ hold[a.key].status # "NONE"
  BY AskFacts DEF IntentFails, AskIsRight
<1>2. UNCHANGED <<hotline, entry, talks, declines, releasing>> /\ Redraws
      /\ errors' \in 0..MaxErrors /\ errors' # 0 /\ Goes(a, "failed")
  BY <1>0, CallerPageAssumption DEF IntentFails, CallerTypeOK
<1> DEFINE h == [hold[a.key] EXCEPT !.intent = IF @ = "none" THEN "requires_payment_method" ELSE @]
<1>3. /\ h \in Hold /\ h.queued = hold[a.key].queued /\ h.spare = hold[a.key].spare
      /\ h.evicted = hold[a.key].evicted /\ h.attached = hold[a.key].attached
      /\ h.intent = IF hold[a.key].intent = "none" THEN "requires_payment_method"
                    ELSE hold[a.key].intent
      /\ h.status = hold[a.key].status
  BY <1>1 DEF Hold, IntentStatuses
<1>4. hold' = hold \/ hold' = [hold EXCEPT ![a.key] = h]
  BY <1>0, <1>1 DEF IntentFails, CallerTypeOK
<1> HIDE DEF h
<1>5. ASSUME hold'[a.key] = h PROVE KeepsHold(a.key)
  BY <1>0, <1>1, <1>2, <1>3, <1>5 DEF KeepsHold, HoldsInOrder, Used, Standing
<1>6. ASSUME hold'[a.key] = h PROVE AskMoves(a, "failed")
  BY <1>1, <1>2 DEF AskMoves, Goes
<1>7. CASE hold' = hold BY <1>2, <1>7, AskFailsStep DEF serverVars
<1>8. CASE hold' = [hold EXCEPT ![a.key] = h] BY <1>2, <1>3, <1>5, <1>6, <1>8, AskHoldStep
<1> QED BY <1>4, <1>7, <1>8

\* verifyAuthorization.
LEMMA VerifyKeeps == ASSUME CallerInv, NEW a \in asks, Verify(a) PROVE CallerInv'
<1>0. CallerTypeOK /\ HoldsInOrder BY DEF CallerInv
<1>1. a.op = "join" /\ a.key \in PayKeys /\ hold[a.key] \in Hold
  BY AskFacts DEF Verify, AskIsRight
<1>2. UNCHANGED <<hotline, entry, talks, declines, releasing, errors>> /\ Redraws
      /\ errors' \in 0..MaxErrors
  BY <1>0 DEF Verify, CallerTypeOK
<1>3. CASE Goes(a, "failed") /\ UNCHANGED hold
  BY <1>2, <1>3, AskFailsStep DEF serverVars, Verify
<1> DEFINE h == [hold[a.key] EXCEPT !.status = "AUTHORIZED"]
<1>4. /\ h \in Hold /\ h.queued = hold[a.key].queued /\ h.spare = hold[a.key].spare
      /\ h.evicted = hold[a.key].evicted /\ h.attached = hold[a.key].attached
      /\ h.intent = hold[a.key].intent /\ h.status = "AUTHORIZED"
  BY <1>1 DEF Hold, AttemptStatuses
<1>5. CASE /\ hold[a.key].status = "AUTHORIZED" /\ hold' = hold /\ Goes(a, "enter")
  <2>1. hold' = [hold EXCEPT ![a.key] = hold[a.key]] BY <1>0, <1>5 DEF CallerTypeOK
  <2>2. KeepsHold(a.key) BY <1>0, <1>1, <1>2, <1>5, SameHold DEF HoldsInOrder
  <2>3. AskMoves(a, "enter") BY <1>1, <1>2, <1>5 DEF AskMoves, Goes, Verify
  <2> QED BY <1>1, <1>2, <1>5, <2>1, <2>2, <2>3, AskHoldStep
<1>6. CASE /\ hold[a.key].status = "CREATED" /\ hold[a.key].attached
           /\ hold[a.key].intent = "requires_capture"
           /\ hold' = [hold EXCEPT ![a.key].status = "AUTHORIZED"] /\ Goes(a, "enter")
  <2>1. hold' = [hold EXCEPT ![a.key] = h] BY <1>6
  <2> HIDE DEF h
  <2>2. ASSUME hold'[a.key] = h PROVE KeepsHold(a.key)
    BY <1>0, <1>1, <1>2, <1>4, <1>6, <2>2 DEF KeepsHold, HoldsInOrder, Used, Standing
  <2>3. AskMoves(a, "enter") BY <1>1, <1>2, <1>6 DEF AskMoves, Goes, Verify
  <2> QED BY <1>2, <1>4, <1>6, <2>1, <2>2, <2>3, AskHoldStep
<1> QED BY <1>3, <1>5, <1>6 DEF Verify

\* A request fails, or its answer is lost.
LEMMA AskFailsKeeps == ASSUME CallerInv, NEW a \in asks, AskFails(a) PROVE CallerInv'
<1>0. CallerTypeOK BY DEF CallerInv
<1>1. errors' \in 0..MaxErrors /\ errors' # 0
  BY <1>0, CallerPageAssumption DEF AskFails, CallerTypeOK
<1> QED BY <1>1, AskFailsStep DEF AskFails

-----------------------------------------------------------------------------
(* The steps of the page.                                                  *)

\* What is shown while show, entry and calls stay.
LEMMA SamePlace ==
    ASSUME CallerInv, UNCHANGED <<hotline, entry, talks>>
    PROVE  /\ TalksInOrder' /\ Mine' = Mine /\ (Live' <=> Live) /\ (Asking' <=> Asking)
           /\ \A k \in PayKeys : InLine(k)' <=> InLine(k)
BY SameTalks DEF Asking, Live, InLine

\* What holds while the server's state stays.
LEMMA SameServer ==
    ASSUME CallerInv, UNCHANGED serverVars, page'.drawn = page.drawn, errors' = 0 => errors = 0
    PROVE  /\ TalksInOrder' /\ HoldsInOrder' /\ PickedIsNotHeld' /\ Mine' = Mine
           /\ (Live' <=> Live) /\ (Asking' <=> Asking)
           /\ hold' = hold /\ entry' = entry /\ releasing' = releasing
           /\ \A k \in PayKeys : /\ (InLine(k)' <=> InLine(k)) /\ (Used(k)' <=> Used(k))
                                 /\ (Standing(k)' <=> Standing(k)) /\ (Excused(k)' <=> Excused(k))
<1>0. CallerTypeOK BY DEF CallerInv
<1>1. UNCHANGED <<hotline, entry, talks, hold, declines, releasing>> BY DEF serverVars
<1> QED BY <1>1, SamePlace
     DEF CallerInv, HoldsInOrder, PickedIsNotHeld, Used, Standing, Excused, InLine

\* The line, while the server's state and the page's keys stay.
LEMMA SameLine ==
    ASSUME CallerInv, UNCHANGED serverVars, page'.drawn = page.drawn, errors' = 0 => errors = 0,
           page'.keys = page.keys,
           \A x \in asks' : \E a \in asks \cup asks' :
                /\ x.key = a.key /\ x.op = a.op /\ x.phase = a.phase
                /\ a.op = "join" /\ a.phase = "done" => a \in asks
    PROVE  LineInOrder'
<1>0. CallerTypeOK /\ LineInOrder BY DEF CallerInv
<1>1. /\ hold' = hold /\ entry' = entry /\ releasing' = releasing BY SameServer
<1>2. \A k : (Standing(k)' <=> Standing(k)) /\ (Excused(k)' <=> Excused(k))
             /\ (InLine(k)' <=> InLine(k)) /\ (Kept(k)' <=> Kept(k))
  BY <1>1 DEF Standing, Excused, InLine, Kept
<1>3. ASSUME NEW x \in asks', x.op = "join", x.phase = "done", Standing(x.key)
      PROVE  Excused(x.key) \/ InLine(x.key)
  <2>1. PICK a \in asks : x.key = a.key /\ a.op = "join" /\ a.phase = "done" BY <1>3
  <2> QED BY <1>0, <1>3, <2>1 DEF LineInOrder
<1> QED BY <1>0, <1>2, <1>3 DEF LineInOrder

\* The caller goes back from the card form.
LEMMA BackKeeps == ASSUME CallerInv, Back PROVE CallerInv'
<1>0. CallerTypeOK /\ AsksInOrder /\ PageInOrder BY DEF CallerInv
<1> DEFINE p == [page EXCEPT !.card = 0]
<1>1. /\ p \in Page /\ p.card = 0 /\ p.keys = page.keys /\ p.drawn = page.drawn
      /\ p.awaiting = page.awaiting /\ p.paying = page.paying
  <2>1. page \in Page /\ 0 \in 0..MaxKeys BY <1>0, CallerPageAssumption DEF CallerTypeOK
  <2> QED BY <2>1 DEF Page
<1>2. UNCHANGED <<serverVars, asks, errors>> /\ Draws(p) BY DEF Back
<1> HIDE DEF p
<1>3. CallerTypeOK' /\ Turns(p)
  <2>1. CallerTypeOK' BY <1>0, <1>1, <1>2, DrawsType DEF CallerTypeOK, serverVars
  <2> QED BY <1>1, <1>2, <2>1, DrawsTurns
<1>4. /\ page'.keys = page.keys /\ page'.drawn = page.drawn /\ page'.card = 0
      /\ page'.awaiting = page.awaiting /\ page'.paying = page.paying /\ ~page'.submitting
  BY <1>1, <1>3 DEF Turns
<1>5. TalksInOrder' /\ HoldsInOrder' /\ PickedIsNotHeld' /\ hold' = hold
  BY <1>2, <1>4, SameServer
<1>6. AsksInOrder' BY <1>0, <1>2, <1>4, <1>5 DEF AsksInOrder, AskIsRight, Used, Kept
<1>7. PageInOrder'
  BY <1>0, <1>2, <1>4, <1>5 DEF PageInOrder, ConfirmIsRight, SubmittingIsRight, Kept, Used
<1>8. LineInOrder' BY <1>2, <1>4, SameLine
<1> QED BY <1>3, <1>5, <1>6, <1>7, <1>8 DEF CallerInv

\* An action the page has just called.
LEMMA NewAsk ==
    ASSUME NEW o \in {"authorize", "join"}, NEW k \in PayKeys, NEW ph \in {"prepare", "verify"}
    PROVE  \E b \in Ask : /\ b = [op |-> o, key |-> k, heard |-> TRUE, phase |-> ph]
                          /\ b.op = o /\ b.key = k /\ b.heard /\ b.phase = ph
<1> DEFINE b == [op |-> o, key |-> k, heard |-> TRUE, phase |-> ph]
<1>1. b \in Ask BY DEF Ask
<1>2. b.op = o /\ b.key = k /\ b.heard /\ b.phase = ph OBVIOUS
<1> HIDE DEF b
<1>3. b = [op |-> o, key |-> k, heard |-> TRUE, phase |-> ph] BY DEF b
<1> QED BY <1>1, <1>2, <1>3

\* The page joins.
LEMMA JoinKeeps == ASSUME CallerInv, Join PROVE CallerInv'
<1>0. CallerTypeOK /\ AsksInOrder /\ PageInOrder /\ LineInOrder BY DEF CallerInv
<1> DEFINE p == [page EXCEPT !.awaiting = "join"]
           k == page.paying
<1>1. /\ p \in Page /\ p.card = page.card /\ p.keys = page.keys /\ p.drawn = page.drawn
      /\ p.awaiting = "join" /\ p.submitting = page.submitting /\ p.paying = page.paying
  BY <1>0 DEF CallerTypeOK, Page
<1>2. /\ page.awaiting = "confirm" /\ k \in PayKeys /\ Kept(k)
      /\ Used(k) /\ ~hold[k].queued
      /\ \A a \in asks : ~a.heard /\ (a.op = "join" => a.key # k)
  BY <1>0, KeyNumbers, NothingHeard DEF Join, PageInOrder, ConfirmIsRight
<1>3. PICK b \in Ask : /\ b = [op |-> "join", key |-> k, heard |-> TRUE, phase |-> "verify"]
                       /\ b.op = "join" /\ b.key = k /\ b.heard /\ b.phase = "verify"
  BY <1>2, NewAsk
<1>4. UNCHANGED <<serverVars, errors>> /\ Draws(p) /\ asks' = asks \cup {b} BY <1>3 DEF Join
<1> HIDE DEF p
<1>5. CallerTypeOK' /\ Turns(p)
  <2>1. CallerTypeOK' BY <1>0, <1>1, <1>3, <1>4, DrawsType DEF CallerTypeOK, serverVars
  <2> QED BY <1>1, <1>4, <2>1, DrawsTurns
<1>6. /\ page'.keys = page.keys /\ page'.drawn = page.drawn /\ page'.card = page.card
      /\ page'.awaiting = "join" /\ page'.paying = page.paying
      /\ page'.submitting => page.submitting /\ page.card # 0 /\ Asking'
  BY <1>1, <1>5 DEF Turns
<1>7. TalksInOrder' /\ HoldsInOrder' /\ PickedIsNotHeld' /\ hold' = hold
  BY <1>4, <1>6, SameServer
<1> HIDE DEF k
<1>8. AsksInOrder'
  <2>1. \A x \in asks : AskIsRight(x)'
    BY <1>0, <1>2, <1>4, <1>6, <1>7 DEF AsksInOrder, AskIsRight, Used, Kept
  <2>2. AskIsRight(b)' BY <1>2, <1>3, <1>6, <1>7 DEF AskIsRight, Used, Kept
  <2>3. \A x, y \in asks' : /\ x.heard /\ y.heard => x = y
                            /\ x.op = "join" /\ y.op = "join" /\ x.key = y.key => x = y
    <3>1. \A x, y \in asks' : x.heard /\ y.heard => x = y
      BY <1>0, <1>2, <1>3, <1>4
    <3>2. ASSUME NEW x \in asks', NEW y \in asks', x.op = "join", y.op = "join", x.key = y.key
          PROVE  x = y
      <4>1. CASE x \in asks /\ y \in asks BY <1>0, <3>2, <4>1 DEF AsksInOrder
      <4>2. CASE ~(x \in asks /\ y \in asks) BY <1>2, <1>3, <1>4, <3>2, <4>2
      <4> QED BY <4>1, <4>2
    <3> QED BY <3>1, <3>2
  <2>4. \A l \in PayKeys : errors' = 0 /\ Kept(l)' /\ hold'[l].queued =>
              \E x \in asks' : x.op = "join" /\ x.phase = "done" /\ x.key = l
    BY <1>0, <1>4, <1>6, <1>7 DEF AsksInOrder, Kept
  <2> QED BY <1>4, <2>1, <2>2, <2>3, <2>4 DEF AsksInOrder
<1>9. PageInOrder'
  <2>1. ASSUME page'.submitting
        PROVE  \/ hold[page.card].spare
               \/ \E x \in asks' : /\ x.op = "join" /\ x.heard /\ x.phase # "done"
                                   /\ x.key = page.card
    <3>1. hold[page.card].spare \/ k = page.card
      BY <1>0, <1>2, <1>6, <2>1 DEF PageInOrder, SubmittingIsRight, k
    <3> QED BY <1>3, <1>4, <3>1
  <2>2. SubmittingIsRight' BY <1>6, <1>7, <2>1 DEF SubmittingIsRight
  <2> QED BY <1>0, <1>6, <1>7, <2>2 DEF PageInOrder, ConfirmIsRight, Used, Kept
<1>10. LineInOrder' BY <1>3, <1>4, <1>6, SameLine
<1> QED BY <1>5, <1>7, <1>8, <1>9, <1>10 DEF CallerInv

\* The caller reloads.
LEMMA ReloadKeeps == ASSUME CallerInv, Reload PROVE CallerInv'
<1>0. CallerTypeOK /\ AsksInOrder /\ PageInOrder /\ LineInOrder BY DEF CallerInv
<1> DEFINE p == [page EXCEPT !.card = 0, !.awaiting = "nothing", !.leaving = FALSE,
                             !.submitting = FALSE]
<1>1. /\ p \in Page /\ p.card = 0 /\ p.keys = page.keys /\ p.drawn = page.drawn
      /\ p.awaiting = "nothing"
  <2>1. page \in Page /\ 0 \in 0..MaxKeys BY <1>0, CallerPageAssumption DEF CallerTypeOK
  <2> QED BY <2>1 DEF Page
<1>2. UNCHANGED serverVars /\ Draws(p) BY DEF Reload
<1> HIDE DEF p
<1>3. errors' \in 0..MaxErrors /\ errors' # 0
  BY <1>0, CallerPageAssumption DEF Reload, CallerTypeOK
<1>4. \A x \in asks' : \E a \in asks : /\ x = [a EXCEPT !.heard = FALSE] /\ x \in Ask
                                       /\ x.op = a.op /\ x.key = a.key /\ x.phase = a.phase
                                       /\ ~x.heard
  <2>1. ASSUME NEW a \in asks
        PROVE  LET x == [a EXCEPT !.heard = FALSE]
               IN /\ x \in Ask /\ x.op = a.op /\ x.key = a.key /\ x.phase = a.phase /\ ~x.heard
    <3>1. a \in Ask BY <1>0 DEF CallerTypeOK
    <3> QED BY <3>1 DEF Ask
  <2>2. asks' = {[a EXCEPT !.heard = FALSE] : a \in asks} BY DEF Reload
  <2> QED BY <2>1, <2>2
<1>5. CallerTypeOK' /\ Turns(p)
  <2>1. asks' \subseteq Ask BY <1>4
  <2>2. CallerTypeOK' BY <1>0, <1>1, <1>2, <1>3, <2>1, DrawsType DEF CallerTypeOK, serverVars
  <2> QED BY <1>1, <1>2, <2>2, DrawsTurns
<1>6. /\ page'.keys = page.keys /\ page'.drawn = page.drawn /\ page'.card = 0
      /\ page'.awaiting = "nothing" /\ ~page'.submitting
  BY <1>1, <1>5 DEF Turns
<1>7. TalksInOrder' /\ HoldsInOrder' /\ PickedIsNotHeld' /\ hold' = hold
  BY <1>2, <1>3, <1>6, SameServer
<1>8. AsksInOrder'
  <2>1. ASSUME NEW x \in asks' PROVE AskIsRight(x)'
    <3>1. PICK a \in asks : /\ x.op = a.op /\ x.key = a.key /\ x.phase = a.phase /\ ~x.heard
      BY <1>4
    <3>2. AskIsRight(a) BY <1>0 DEF AsksInOrder
    <3> QED BY <1>3, <1>6, <1>7, <3>1, <3>2 DEF AskIsRight, Used, Kept
  <2>2. ASSUME NEW x \in asks', NEW y \in asks', x.op = "join", y.op = "join", x.key = y.key
        PROVE  x = y
    <3>1. PICK a \in asks : x = [a EXCEPT !.heard = FALSE] /\ x.op = a.op /\ x.key = a.key
      BY <1>4
    <3>2. PICK b \in asks : y = [b EXCEPT !.heard = FALSE] /\ y.op = b.op /\ y.key = b.key
      BY <1>4
    <3>3. a = b BY <1>0, <2>2, <3>1, <3>2 DEF AsksInOrder
    <3> QED BY <3>1, <3>2, <3>3
  <2> QED BY <1>3, <1>4, <2>1, <2>2 DEF AsksInOrder
<1>9. PageInOrder' BY <1>0, <1>6, <1>7 DEF PageInOrder, ConfirmIsRight, SubmittingIsRight
<1>10. LineInOrder' BY <1>2, <1>3, <1>4, <1>6, SameLine
<1> QED BY <1>5, <1>7, <1>8, <1>9, <1>10 DEF CallerInv

\* The hold is placed.
LEMMA ConfirmKeeps == ASSUME CallerInv, Confirm PROVE CallerInv'
<1>0. CallerTypeOK /\ AsksInOrder /\ PageInOrder /\ LineInOrder /\ HoldsInOrder /\ TalksInOrder
      /\ PickedIsNotHeld
  BY DEF CallerInv
<1> DEFINE k == page.card
           p == [page EXCEPT !.awaiting = "confirm", !.paying = k, !.submitting = TRUE]
           h == [hold[k] EXCEPT !.intent = "requires_capture"]
<1>1. /\ p \in Page /\ p.card = page.card /\ p.keys = page.keys /\ p.drawn = page.drawn
      /\ p.awaiting = "confirm" /\ p.paying = k /\ p.submitting
  BY <1>0 DEF CallerTypeOK, Page
<1>2. Asking /\ k # 0 /\ k \in PayKeys BY <1>0, FormIsAsking DEF Confirm
<1>3. hold[k].intent = "requires_payment_method" BY DEF Confirm
<1>4. Kept(k) /\ ~Used(k)
  <2>1. ~Used(k) BY <1>3 DEF Used
  <2> QED BY <1>0, <1>2, <2>1 DEF PageInOrder
<1>5. ~hold[k].queued /\ hold[k].status \notin {"NONE", "AUTHORIZED"} /\ entry.attempt # k
      /\ k \notin releasing
  BY <1>0, <1>2, <1>3, <1>4 DEF HoldsInOrder
<1>6. hold[k] \in Hold BY <1>0, <1>2 DEF CallerTypeOK
<1>7. /\ h \in Hold /\ h.queued = hold[k].queued /\ h.spare = hold[k].spare
      /\ h.evicted = hold[k].evicted /\ h.attached = hold[k].attached
      /\ h.intent = "requires_capture" /\ h.status = hold[k].status
  BY <1>6 DEF Hold, IntentStatuses
<1>8. /\ hold' = [hold EXCEPT ![k] = h] /\ Draws(p)
      /\ UNCHANGED <<hotline, entry, talks, declines, releasing, asks, errors>>
      /\ page.awaiting = "nothing"
  BY DEF Confirm
<1> HIDE DEF p, h
<1>9. /\ hold' \in [PayKeys -> Hold] /\ hold'[k] = h
      /\ \A l \in PayKeys : l # k => hold'[l] = hold[l]
  BY <1>0, <1>2, <1>7, <1>8 DEF CallerTypeOK
<1>10. CallerTypeOK' /\ Turns(p)
  <2>1. CallerTypeOK' BY <1>0, <1>1, <1>8, <1>9, DrawsType DEF CallerTypeOK
  <2> QED BY <1>1, <1>8, <2>1, DrawsTurns
<1>11. TalksInOrder' /\ (Asking' <=> Asking) /\ \A l \in PayKeys : InLine(l)' <=> InLine(l)
  BY <1>8, SamePlace
<1>12. /\ page'.keys = page.keys /\ page'.drawn = page.drawn /\ page'.card = k
       /\ page'.awaiting = "confirm" /\ page'.paying = k /\ page'.submitting
  BY <1>1, <1>2, <1>10, <1>11 DEF Turns
<1> HIDE DEF k
<1>13. HoldsInOrder'
  <2>1. ASSUME NEW l \in PayKeys
        PROVE  /\ l \notin page'.drawn => ~hold'[l].queued
               /\ hold'[l].status = "NONE" => hold'[l].intent = "none"
               /\ hold'[l].status = "AUTHORIZED" => hold'[l].attached /\ Used(l)'
               /\ hold'[l].queued => hold'[l].attached /\ Used(l)'
               /\ l \in releasing' => hold'[l].queued
               /\ entry'.attempt = l => hold'[l].queued
               /\ errors' = 0 /\ ~hold'[l].queued =>
                     hold'[l].status \in {"NONE", "CREATED", "AUTHORIZED"}
    <3>1. CASE l = k BY <1>0, <1>5, <1>7, <1>8, <1>9, <1>12, <3>1 DEF HoldsInOrder, Used
    <3>2. CASE l # k BY <1>0, <1>8, <1>9, <1>12, <3>2 DEF HoldsInOrder, Used
    <3> QED BY <3>1, <3>2
  <2> QED BY <1>0, <1>8, <2>1 DEF HoldsInOrder
<1>14. PickedIsNotHeld'
  <2>1. entry.attempt # 0 => entry.attempt \in PayKeys BY <1>0, KeyNumbers
  <2> QED BY <1>0, <1>5, <1>8, <1>9, <2>1 DEF PickedIsNotHeld, Standing
<1>15. \A a \in asks : ~a.heard /\ (a.op = "join" => a.key # k)
  <2>1. \A a \in asks : a.op = "join" => Used(a.key) BY <1>0 DEF AsksInOrder, AskIsRight
  <2> QED BY <1>4, <1>8, <2>1, NothingHeard
<1>16. \A l \in PayKeys : hold'[l].spare = hold[l].spare /\ hold'[l].evicted = hold[l].evicted
                          /\ hold'[l].queued = hold[l].queued /\ hold'[l].status = hold[l].status
  BY <1>7, <1>9
<1>17. \A l : Kept(l)' <=> Kept(l) BY <1>12 DEF Kept
<1>18. AsksInOrder'
  <2>1. ASSUME NEW a \in asks PROVE AskIsRight(a)'
    <3>1. AskIsRight(a) /\ a.key \in PayKeys BY AskFacts
    <3>2. a.op = "join" => (Used(a.key)' <=> Used(a.key)) BY <1>9, <1>15, <3>1 DEF Used
    <3> QED BY <1>8, <1>15, <1>16, <1>17, <3>1, <3>2 DEF AskIsRight
  <2>2. \A l \in PayKeys : errors' = 0 /\ Kept(l)' /\ hold'[l].queued =>
              \E x \in asks' : x.op = "join" /\ x.phase = "done" /\ x.key = l
    BY <1>0, <1>8, <1>16, <1>17 DEF AsksInOrder
  <2> QED BY <1>0, <1>8, <2>1, <2>2 DEF AsksInOrder
<1>19. PageInOrder'
  <2>1. ConfirmIsRight'
    BY <1>2, <1>4, <1>5, <1>7, <1>8, <1>9, <1>12, <1>15, <1>17 DEF ConfirmIsRight, Used
  <2>2. SubmittingIsRight' BY <1>2, <1>11, <1>12 DEF SubmittingIsRight
  <2>3. page'.keys[TierOf[page'.card]] = page'.card BY <1>4, <1>12 DEF Kept
  <2>4. (page.card # 0 /\ ~Used(page.card) => Kept(page.card))' BY <1>12, <2>3 DEF Kept, Used
  <2> QED BY <1>0, <1>12, <2>1, <2>2, <2>4 DEF PageInOrder
<1>20. LineInOrder'
  <2>1. \A l \in PayKeys : InLine(l)' => page'.keys[TierOf[l]] \in {0, l}
    BY <1>0, <1>11, <1>12 DEF LineInOrder
  <2>2. ASSUME NEW l \in PayKeys, Standing(l)' PROVE Excused(l)' \/ Kept(l)' \/ InLine(l)'
    <3>1. CASE l = k BY <1>4, <1>17, <3>1
    <3>2. CASE l # k
      <4>1. Standing(l) BY <1>8, <1>9, <2>2, <3>2 DEF Standing
      <4> QED BY <1>0, <1>11, <1>16, <1>17, <4>1 DEF LineInOrder, Excused
    <3> QED BY <3>1, <3>2
  <2>3. ASSUME NEW a \in asks, a.op = "join", a.phase = "done", Standing(a.key)'
        PROVE  Excused(a.key)' \/ InLine(a.key)'
    <3>1. a.key \in PayKeys /\ a.key # k BY <1>15, <2>3, AskFacts
    <3>2. Standing(a.key) BY <1>8, <1>9, <2>3, <3>1 DEF Standing
    <3> QED BY <1>0, <1>11, <1>16, <2>3, <3>1, <3>2 DEF LineInOrder, Excused
  <2> QED BY <1>8, <2>1, <2>2, <2>3 DEF LineInOrder
<1> QED BY <1>10, <1>11, <1>13, <1>14, <1>18, <1>19, <1>20 DEF CallerInv

\* "Continue to payment".
LEMMA SubmitKeeps == ASSUME CallerInv, NEW t \in Tiers, Submit(t) PROVE CallerInv'
<1>0. CallerTypeOK /\ AsksInOrder /\ PageInOrder /\ LineInOrder /\ HoldsInOrder /\ TalksInOrder
      /\ PickedIsNotHeld
  BY DEF CallerInv
<1> DEFINE k == PaymentKey(t)
<1>1. /\ k \in PayKeys /\ TierOf[k] = t
      /\ page.keys[t] # 0 => k = page.keys[t]
      /\ page.keys[t] = 0 => k \notin page.drawn
  <2>1. k # 0 BY DEF Submit
  <2>2. CASE page.keys[t] # 0
    BY <1>0, <2>2, KeyNumbers DEF PaymentKey, PageInOrder
  <2>3. CASE page.keys[t] = 0
    <3>1. Fresh(t) # {} /\ k = CHOOSE l \in Fresh(t) : TRUE BY <2>1, <2>3 DEF PaymentKey
    <3>2. k \in Fresh(t) BY <3>1
    <3> QED BY <2>3, <3>2 DEF Fresh
  <2> QED BY <2>2, <2>3
<1> DEFINE m == [page.keys EXCEPT ![t] = k]
           d == page.drawn \cup {k}
           p == [page EXCEPT !.keys = m, !.drawn = d, !.awaiting = "authorize"]
<1>2. Draws(p)
  <2>1. p = [page EXCEPT !.keys[t] = k, !.drawn = @ \cup {k}, !.awaiting = "authorize"]
    BY <1>0 DEF CallerTypeOK, Page
  <2> QED BY <2>1 DEF Submit
<1>3. /\ asks' = asks \cup
            {[op |-> "authorize", key |-> k, heard |-> TRUE, phase |-> "prepare"]}
      /\ UNCHANGED <<serverVars, errors>>
  BY DEF Submit
<1> HIDE DEF k
<1>4. /\ m \in [Tiers -> 0..MaxKeys] /\ d \subseteq PayKeys
      /\ m[t] = k /\ \A u \in Tiers : u # t => m[u] = page.keys[u]
  BY <1>0, <1>1, CallerFields, KeyNumbers
<1> HIDE DEF m, d
<1>5. /\ p \in Page /\ p.keys = m /\ p.drawn = d /\ p.card = page.card
      /\ p.awaiting = "authorize" /\ p.submitting = page.submitting
  BY <1>0, <1>4 DEF CallerTypeOK, Page
<1>6. Asking /\ page.card = 0 /\ page.awaiting = "nothing" BY <1>0, FormIsAsking DEF Submit
<1>7. PICK b \in Ask : /\ b = [op |-> "authorize", key |-> k, heard |-> TRUE, phase |-> "prepare"]
                       /\ b.op = "authorize" /\ b.key = k /\ b.heard /\ b.phase = "prepare"
  BY <1>1, NewAsk
<1>8. asks' = asks \cup {b} BY <1>3, <1>7
<1> HIDE DEF p
<1>9. CallerTypeOK' /\ Turns(p)
  <2>1. CallerTypeOK' BY <1>0, <1>2, <1>3, <1>5, <1>7, <1>8, DrawsType DEF CallerTypeOK, serverVars
  <2> QED BY <1>2, <1>5, <2>1, DrawsTurns
<1>10. /\ page'.keys = m /\ page'.drawn = d /\ page'.card = 0
       /\ page'.awaiting = "authorize" /\ ~page'.submitting
  BY <1>5, <1>6, <1>9 DEF Turns
<1>11. UNCHANGED <<hotline, entry, talks, hold, declines, releasing, errors>>
  BY <1>3 DEF serverVars
<1>12. TalksInOrder' BY <1>11, SamePlace
<1>13. HoldsInOrder' BY <1>0, <1>10, <1>11 DEF HoldsInOrder, Used, d
<1>14. PickedIsNotHeld' BY <1>0, <1>11 DEF PickedIsNotHeld, Standing
<1>15. ASSUME NEW l \in PayKeys
       PROVE  /\ Kept(l) => Kept(l)'
              /\ Kept(l)' => Kept(l) \/ (l = k /\ page.keys[t] = 0)
  <2>1. l # 0 /\ TierOf[l] \in Tiers BY <1>0, KeyNumbers
  <2> QED BY <1>1, <1>4, <1>10, <2>1 DEF Kept
<1>16. \A a \in asks : ~a.heard /\ a.key \in PayKeys /\ AskIsRight(a)
  BY <1>6, AskFacts, NothingHeard
<1>17. AsksInOrder'
  <2>1. ASSUME NEW a \in asks PROVE AskIsRight(a)'
    BY <1>11, <1>15, <1>16 DEF AskIsRight, Used
  <2>2. Kept(b.key)' BY <1>1, <1>4, <1>7, <1>10 DEF Kept
  <2>3. AskIsRight(b)' BY <1>7, <1>10, <2>2 DEF AskIsRight
  <2>4. \A x, y \in asks' : /\ x.heard /\ y.heard => x = y
                            /\ x.op = "join" /\ y.op = "join" /\ x.key = y.key => x = y
    <3>1. \A x, y \in asks' : x.heard /\ y.heard => x = y
      BY <1>0, <1>7, <1>8, <1>16
    <3>2. \A x, y \in asks' : x.op = "join" /\ y.op = "join" /\ x.key = y.key => x = y
      BY <1>0, <1>7, <1>8, <1>16 DEF AsksInOrder
    <3> QED BY <3>1, <3>2
  <2>5. ASSUME NEW l \in PayKeys, errors' = 0, Kept(l)', hold'[l].queued
        PROVE  \E x \in asks' : x.op = "join" /\ x.phase = "done" /\ x.key = l
    <3>1. Kept(l) BY <1>0, <1>1, <1>11, <1>15, <2>5 DEF HoldsInOrder
    <3> QED BY <1>0, <1>8, <1>11, <2>5, <3>1 DEF AsksInOrder
  <2> QED BY <1>8, <2>1, <2>3, <2>4, <2>5 DEF AsksInOrder
<1>18. PageInOrder'
  <2>1. ASSUME NEW u \in Tiers, page'.keys[u] # 0
        PROVE  page'.keys[u] \in page'.drawn /\ TierOf[page'.keys[u]] = u
    <3>1. CASE u = t BY <1>1, <1>4, <1>10, <3>1 DEF d
    <3>2. CASE u # t BY <1>0, <1>4, <1>10, <2>1, <3>2 DEF PageInOrder, d
    <3> QED BY <3>1, <3>2
  <2> QED BY <1>10, <2>1 DEF PageInOrder, ConfirmIsRight, SubmittingIsRight
<1>19. LineInOrder'
  <2>1. \A l : (InLine(l)' <=> InLine(l)) /\ (Standing(l)' <=> Standing(l))
               /\ (Excused(l)' <=> Excused(l))
    BY <1>11 DEF InLine, Standing, Excused
  <2>2. \A l \in PayKeys : ~InLine(l) BY <1>6 DEF InLine, Asking
  <2>3. \A x \in asks' : x.op = "join" => x \in asks BY <1>7, <1>8
  <2> QED BY <1>0, <1>15, <2>1, <2>2, <2>3 DEF LineInOrder
<1> QED BY <1>9, <1>12, <1>13, <1>14, <1>17, <1>18, <1>19 DEF CallerInv

\* The answer to payments.authorize.
LEMMA AuthorizedKeeps == ASSUME CallerInv, NEW a \in asks, Authorized(a) PROVE CallerInv'
<1>0. CallerTypeOK /\ AsksInOrder /\ PageInOrder /\ LineInOrder BY DEF CallerInv
<1>1. /\ a.op = "authorize" /\ a.key \in PayKeys /\ AskIsRight(a) /\ a.heard \in BOOLEAN
      /\ asks' = asks \ {a} /\ UNCHANGED <<serverVars, errors>>
  BY AskFacts DEF Authorized
<1> DEFINE c == IF a.phase = "done" THEN a.key ELSE page.card
           p == IF a.heard THEN [page EXCEPT !.awaiting = "nothing", !.card = c] ELSE page
<1>2. Draws(p) BY DEF Authorized, Redraws
<1>3. c \in 0..MaxKeys /\ (c = page.card \/ c = a.key)
  BY <1>0, <1>1, CallerFields, KeyNumbers
<1> HIDE DEF c
<1>4. /\ p \in Page /\ p.keys = page.keys /\ p.drawn = page.drawn /\ p.paying = page.paying
      /\ p.submitting = page.submitting
      /\ p.card \in {page.card, a.key} /\ (~a.heard => p.card = page.card)
      /\ p.awaiting = IF a.heard THEN "nothing" ELSE page.awaiting
  BY <1>0, <1>3 DEF CallerTypeOK, Page
<1> HIDE DEF p
<1>5. CallerTypeOK' /\ Turns(p)
  <2>1. CallerTypeOK' BY <1>0, <1>1, <1>2, <1>4, DrawsType DEF CallerTypeOK, serverVars
  <2> QED BY <1>2, <1>4, <2>1, DrawsTurns
<1>6. /\ page'.keys = page.keys /\ page'.drawn = page.drawn /\ page'.paying = page.paying
      /\ page'.card \in {page.card, a.key} /\ (~a.heard => page'.card = page.card)
      /\ page'.awaiting = IF a.heard THEN "nothing" ELSE page.awaiting
      /\ page'.submitting <=> page.submitting /\ page'.card # 0 /\ Asking'
  BY <1>4, <1>5 DEF Turns
<1>7. TalksInOrder' /\ HoldsInOrder' /\ PickedIsNotHeld' /\ hold' = hold /\ errors' = errors
  BY <1>1, <1>6, SameServer
<1>8. a.heard => Kept(a.key) /\ page.awaiting = "authorize" /\ \A x \in asks : x.heard => x = a
  BY <1>0, <1>1 DEF AskIsRight, AsksInOrder
<1>9. \A l : Kept(l)' <=> Kept(l) BY <1>6 DEF Kept
<1>10. AsksInOrder'
  <2>1. ASSUME NEW x \in asks' PROVE AskIsRight(x)'
    <3>1. AskIsRight(x) BY <1>0, <1>1 DEF AsksInOrder
    <3>2. a.heard => ~x.heard BY <1>1, <1>8
    <3> QED BY <1>6, <1>7, <1>9, <3>1, <3>2 DEF AskIsRight, Used
  <2>2. \A l \in PayKeys : errors' = 0 /\ Kept(l)' /\ hold'[l].queued =>
              \E x \in asks' : x.op = "join" /\ x.phase = "done" /\ x.key = l
    BY <1>0, <1>1, <1>7, <1>9 DEF AsksInOrder
  <2> QED BY <1>0, <1>1, <2>1, <2>2 DEF AsksInOrder
<1>11. PageInOrder'
  <2>1. page'.card # 0 /\ ~Used(page'.card) => Kept(page'.card)
    BY <1>0, <1>1, <1>6, <1>8 DEF PageInOrder
  <2>2. ConfirmIsRight'
    <3>1. CASE a.heard BY <1>6, <3>1 DEF ConfirmIsRight
    <3>2. CASE ~a.heard
      BY <1>0, <1>1, <1>6, <1>7, <1>9, <3>2 DEF PageInOrder, ConfirmIsRight, Used
    <3> QED BY <1>1, <3>1, <3>2
  <2>3. SubmittingIsRight'
    <3> SUFFICES ASSUME page'.submitting PROVE SubmittingIsRight' BY DEF SubmittingIsRight
    <3>1. page.submitting /\ Asking' /\ page'.card # 0 BY <1>6
    <3>2. \/ hold[page.card].spare
          \/ page.awaiting = "confirm" /\ page.paying = page.card
          \/ \E x \in asks : /\ x.op = "join" /\ x.heard /\ x.phase # "done"
                             /\ x.key = page.card
      BY <1>0, <3>1 DEF PageInOrder, SubmittingIsRight
    <3>3. CASE ~a.heard
      BY <1>1, <1>6, <1>7, <3>1, <3>2, <3>3 DEF SubmittingIsRight
    <3>4. CASE a.heard
      <4>1. page.card = 0 BY <1>0, <1>8, <3>4 DEF PageInOrder
      <4>2. page.card # 0 BY <1>0, <3>1 DEF PageInOrder, SubmittingIsRight
      <4> QED BY <4>1, <4>2
    <3> QED BY <1>1, <3>3, <3>4
  <2>4. page'.awaiting = "authorize" => page'.card = 0
    BY <1>0, <1>1, <1>6 DEF PageInOrder
  <2> QED BY <1>0, <1>6, <1>7, <1>9, <2>1, <2>2, <2>3, <2>4 DEF PageInOrder, Used
<1>12. LineInOrder' BY <1>1, <1>6, SameLine
<1> QED BY <1>5, <1>7, <1>10, <1>11, <1>12 DEF CallerInv

\* The answer to queue.joinPaid.
LEMMA JoinedKeeps == ASSUME CallerInv, NEW a \in asks, Joined(a) PROVE CallerInv'
<1>0. CallerTypeOK /\ AsksInOrder /\ PageInOrder /\ LineInOrder BY DEF CallerInv
<1>1. /\ a.op = "join" /\ a.key \in PayKeys /\ AskIsRight(a) /\ a.heard \in BOOLEAN
      /\ a.phase \in {"done", "failed"} /\ TierOf[a.key] \in Tiers
      /\ asks' = asks \ {a} /\ UNCHANGED <<serverVars, errors>>
  BY <1>0, AskFacts, KeyNumbers DEF Joined
<1> DEFINE t == TierOf[a.key]
           q == IF a.phase = "done" THEN 0 ELSE page.keys[t]
           m == [page.keys EXCEPT ![t] = q]
           s == page.submitting /\ a.phase = "done"
           p == IF a.heard THEN [page EXCEPT !.awaiting = "nothing", !.keys = m, !.submitting = s]
                ELSE page
<1>2. Draws(p)
  <2>1. [page EXCEPT !.awaiting = "nothing",
            !.keys[TierOf[a.key]] = IF a.phase = "done" THEN KeyAfterJoin ELSE @,
            !.submitting = SubmittingAfter(a)]
        = [page EXCEPT !.awaiting = "nothing", !.keys = m, !.submitting = s]
    BY <1>0 DEF CallerTypeOK, Page, KeyAfterJoin, SubmittingAfter
  <2> QED BY <2>1 DEF Joined, Redraws
<1>3. /\ m \in [Tiers -> 0..MaxKeys]
      /\ a.phase = "done" => m[t] = 0
      /\ a.phase # "done" => m = page.keys
      /\ \A u \in Tiers : u # t => m[u] = page.keys[u]
      /\ s \in BOOLEAN /\ (s <=> page.submitting /\ a.phase = "done")
  BY <1>0, <1>1, CallerFields, KeyNumbers
<1> HIDE DEF m, s
<1>4. /\ p \in Page /\ p.drawn = page.drawn /\ p.card = page.card /\ p.paying = page.paying
      /\ p.keys = IF a.heard THEN m ELSE page.keys
      /\ p.awaiting = IF a.heard THEN "nothing" ELSE page.awaiting
      /\ p.submitting = IF a.heard THEN s ELSE page.submitting
  BY <1>0, <1>3 DEF CallerTypeOK, Page
<1> HIDE DEF p
<1>5. CallerTypeOK' /\ Turns(p)
  <2>1. CallerTypeOK' BY <1>0, <1>1, <1>2, <1>4, DrawsType DEF CallerTypeOK, serverVars
  <2> QED BY <1>2, <1>4, <2>1, DrawsTurns
<1>6. /\ page'.keys = (IF a.heard THEN m ELSE page.keys)
      /\ page'.drawn = page.drawn /\ page'.card = page.card /\ page'.paying = page.paying
      /\ page'.awaiting = IF a.heard THEN "nothing" ELSE page.awaiting
      /\ page'.submitting => /\ page.submitting /\ page'.card # 0 /\ Asking'
                             /\ a.heard => a.phase = "done"
  BY <1>3, <1>4, <1>5 DEF Turns
<1>7. /\ TalksInOrder' /\ HoldsInOrder' /\ PickedIsNotHeld'
      /\ hold' = hold /\ errors' = errors
      /\ \A k \in PayKeys : /\ (InLine(k)' <=> InLine(k)) /\ (Used(k)' <=> Used(k))
                            /\ (Standing(k)' <=> Standing(k)) /\ (Excused(k)' <=> Excused(k))
  BY <1>1, <1>6, SameServer
<1>8. /\ Kept(a.key) /\ Used(a.key)
      /\ a.heard => page.awaiting = "join" /\ \A x \in asks' : ~x.heard
      /\ \A x \in asks' : x.op = "join" => x.key # a.key
  BY <1>0, <1>1 DEF AskIsRight, AsksInOrder
\* The key of the join is dropped, if the page hears that it is done; the others stay.
<1>9. ASSUME NEW l \in PayKeys
      PROVE  /\ Kept(l)' => Kept(l)
             /\ l # a.key => (Kept(l) => Kept(l)')
             /\ Kept(a.key)' => a.phase = "failed" \/ ~a.heard
             /\ ~(a.heard /\ a.phase = "done") => (Kept(l) => Kept(l)')
  <2>1. l # 0 /\ a.key # 0 /\ TierOf[l] \in Tiers BY <1>0, <1>1, KeyNumbers
  <2>2. l # a.key /\ Kept(l) => TierOf[l] # t BY <1>8 DEF Kept
  <2> QED BY <1>1, <1>3, <1>6, <1>8, <2>1, <2>2 DEF Kept
<1> HIDE DEF t
<1>10. AsksInOrder'
  <2>1. ASSUME NEW x \in asks' PROVE AskIsRight(x)'
    <3>1. AskIsRight(x) /\ x.key \in PayKeys /\ x \in asks BY <1>1, AskFacts
    <3>2. x.op = "join" => Kept(x.key)' BY <1>8, <1>9, <3>1 DEF AskIsRight
    <3>3. x.heard => page'.awaiting = x.op /\ Kept(x.key)'
      BY <1>1, <1>6, <1>8, <1>9, <3>1 DEF AskIsRight
    <3> QED BY <1>7, <3>1, <3>2, <3>3 DEF AskIsRight, Used
  <2>2. ASSUME NEW l \in PayKeys, errors' = 0, Kept(l)', hold'[l].queued
        PROVE  \E x \in asks' : x.op = "join" /\ x.phase = "done" /\ x.key = l
    <3>1. errors = 0 /\ a.heard /\ Kept(l) BY <1>1, <1>7, <1>9, <2>2 DEF AskIsRight
    <3>2. PICK x \in asks : x.op = "join" /\ x.phase = "done" /\ x.key = l
      BY <1>0, <1>7, <2>2, <3>1 DEF AsksInOrder
    <3>3. x # a
      <4> SUFFICES ASSUME x = a PROVE FALSE OBVIOUS
      <4> QED BY <1>9, <2>2, <3>1, <3>2
    <3> QED BY <1>1, <3>2, <3>3
  <2>3. \A x, y \in asks' : /\ x.heard /\ y.heard => x = y
                            /\ x.op = "join" /\ y.op = "join" /\ x.key = y.key => x = y
    BY <1>0, <1>1 DEF AsksInOrder
  <2> QED BY <2>1, <2>2, <2>3 DEF AsksInOrder
<1>11. PageInOrder'
  <2>1. page.card # 0 /\ ~Used(page.card)' => Kept(page.card)'
    <3>1. page.card # 0 => page.card \in PayKeys BY <1>0, KeyNumbers
    <3>2. page.card # 0 /\ ~Used(page.card) => Kept(page.card) /\ page.card # a.key
      BY <1>0, <1>8 DEF PageInOrder
    <3> QED BY <1>6, <1>7, <1>9, <3>1, <3>2
  <2>2. ConfirmIsRight'
    <3>1. CASE a.heard BY <1>6, <3>1 DEF ConfirmIsRight
    <3>2. CASE ~a.heard
      BY <1>0, <1>1, <1>6, <1>7, <3>2 DEF PageInOrder, ConfirmIsRight, Used, Kept
    <3> QED BY <1>1, <3>1, <3>2
  <2>3. SubmittingIsRight'
    <3> SUFFICES ASSUME page'.submitting PROVE SubmittingIsRight' BY DEF SubmittingIsRight
    <3>1. /\ page.submitting /\ Asking' /\ page'.card # 0 /\ page'.card = page.card
          /\ a.heard => a.phase = "done"
      BY <1>6
    <3>2. \/ hold[page.card].spare
          \/ page.awaiting = "confirm" /\ page.paying = page.card
          \/ \E x \in asks : /\ x.op = "join" /\ x.heard /\ x.phase # "done"
                             /\ x.key = page.card
      BY <1>0, <3>1 DEF PageInOrder, SubmittingIsRight
    <3>3. CASE ~a.heard
      BY <1>1, <1>6, <1>7, <3>1, <3>2, <3>3 DEF SubmittingIsRight
    <3>4. CASE a.heard
      <4>1. \A x \in asks : x.heard => x = a BY <1>1, <1>8, <3>4
      <4>2. hold[page.card].spare BY <1>8, <3>1, <3>2, <3>4, <4>1
      <4> QED BY <1>7, <3>1, <4>2 DEF SubmittingIsRight
    <3> QED BY <1>1, <3>3, <3>4
  <2>4. page'.awaiting = "authorize" => page'.card = 0
    BY <1>0, <1>6 DEF PageInOrder
  <2>5. ASSUME NEW u \in Tiers, page'.keys[u] # 0
        PROVE  page'.keys[u] \in page'.drawn /\ TierOf[page'.keys[u]] = u
    <3>1. page'.keys[u] = page.keys[u] BY <1>1, <1>3, <1>6, <2>5
    <3> QED BY <1>0, <1>6, <2>5, <3>1 DEF PageInOrder
  <2>6. (page.card # 0 /\ ~Used(page.card) => Kept(page.card))'
    BY <1>6, <2>1 DEF Used, Kept
  <2> QED BY <2>2, <2>3, <2>4, <2>5, <2>6 DEF PageInOrder
<1>12. LineInOrder'
  <2>1. ASSUME NEW l \in PayKeys, InLine(l)' PROVE page'.keys[TierOf[l]] \in {0, l}
    <3>1. page.keys[TierOf[l]] \in {0, l} BY <1>0, <1>7, <2>1 DEF LineInOrder
    <3>2. page'.keys[TierOf[l]] \in {0, page.keys[TierOf[l]]}
      <4>1. TierOf[l] \in Tiers BY <1>0, KeyNumbers
      <4> QED BY <1>1, <1>3, <1>6, <4>1
    <3> QED BY <3>1, <3>2
  <2>2. ASSUME NEW l \in PayKeys, Standing(l)' PROVE Excused(l)' \/ Kept(l)' \/ InLine(l)'
    <3>1. Standing(l) /\ (Excused(l) \/ Kept(l) \/ InLine(l)) BY <1>0, <1>7, <2>2 DEF LineInOrder
    <3>2. CASE l = a.key /\ a.heard /\ a.phase = "done"
      BY <1>0, <1>1, <1>7, <3>1, <3>2 DEF LineInOrder
    <3>3. CASE ~(l = a.key /\ a.heard /\ a.phase = "done") BY <1>7, <1>9, <3>1, <3>3
    <3> QED BY <3>2, <3>3
  <2>3. ASSUME NEW x \in asks', x.op = "join", x.phase = "done", Standing(x.key)'
        PROVE  Excused(x.key)' \/ InLine(x.key)'
    <3>1. x \in asks /\ x.key \in PayKeys BY <1>1, AskFacts
    <3> QED BY <1>0, <1>7, <2>3, <3>1 DEF LineInOrder
  <2> QED BY <2>1, <2>2, <2>3 DEF LineInOrder
<1> QED BY <1>5, <1>7, <1>10, <1>11, <1>12 DEF CallerInv

\* joinWithPayment finds the caller in the line: the payment stays unused.
LEMMA EnterUnused ==
    ASSUME CallerInv, NEW a \in asks, a.phase = "enter",
           hold' = [hold EXCEPT ![a.key].spare = TRUE], Goes(a, "done"),
           UNCHANGED <<hotline, entry, talks, declines, releasing, errors>>, Redraws
    PROVE  CallerInv'
<1>0. CallerTypeOK /\ AsksInOrder /\ PageInOrder /\ LineInOrder /\ HoldsInOrder /\ PickedIsNotHeld
  BY DEF CallerInv
<1>1. a.op = "join" /\ a.key \in PayKeys /\ AskIsRight(a) /\ a \in Ask /\ hold[a.key] \in Hold
  BY <1>0, AskFacts DEF AskIsRight, CallerTypeOK
<1>2. PICK b \in Ask : /\ asks' = (asks \ {a}) \cup {b}
                       /\ b.op = "join" /\ b.key = a.key /\ b.heard = a.heard /\ b.phase = "done"
  <2> DEFINE b == [a EXCEPT !.phase = "done"]
  <2>1. b \in Ask /\ b.op = "join" /\ b.key = a.key /\ b.heard = a.heard /\ b.phase = "done"
    BY <1>1 DEF Ask
  <2>2. asks' = (asks \ {a}) \cup {b} BY DEF Goes
  <2> HIDE DEF b
  <2> QED BY <2>1, <2>2
<1>3. /\ hold' \in [PayKeys -> Hold]
      /\ \A l \in PayKeys : l # a.key => hold'[l] = hold[l]
      /\ hold'[a.key] = [hold[a.key] EXCEPT !.spare = TRUE]
  BY <1>0, <1>1 DEF CallerTypeOK, Hold
<1>4. \A l \in PayKeys : /\ hold'[l].status = hold[l].status /\ hold'[l].intent = hold[l].intent
                         /\ hold'[l].attached = hold[l].attached
                         /\ hold'[l].evicted = hold[l].evicted /\ hold'[l].queued = hold[l].queued
                         /\ hold[l].spare => hold'[l].spare
                         /\ l = a.key => hold'[l].spare
  BY <1>1, <1>3 DEF Hold
<1>5. CallerTypeOK' /\ SamePage
  <2>1. CallerTypeOK' BY <1>0, <1>2, <1>3, RedrawsPage DEF CallerTypeOK
  <2> QED BY <2>1, RedrawsPage
<1>6. /\ page'.keys = page.keys /\ page'.drawn = page.drawn /\ page'.card = page.card
      /\ page'.awaiting = page.awaiting /\ page'.paying = page.paying
      /\ page'.submitting => page.submitting /\ page.card # 0 /\ Asking'
  BY <1>5 DEF SamePage
<1>7. TalksInOrder' /\ (Asking' <=> Asking) /\ \A l \in PayKeys : InLine(l)' <=> InLine(l)
  BY SamePlace
<1>8. \A l \in PayKeys : /\ (Standing(l)' <=> Standing(l)) /\ (Used(l)' <=> Used(l))
                         /\ Excused(l) => Excused(l)'
  BY <1>4 DEF Standing, Used, Excused
<1>9. \A l : Kept(l)' <=> Kept(l) BY <1>6 DEF Kept
<1>10. HoldsInOrder'
  <2>1. ASSUME NEW l \in PayKeys
        PROVE  /\ l \notin page'.drawn => ~hold'[l].queued
               /\ hold'[l].status = "NONE" => hold'[l].intent = "none"
               /\ hold'[l].status = "AUTHORIZED" => hold'[l].attached /\ Used(l)'
               /\ hold'[l].queued => hold'[l].attached /\ Used(l)'
               /\ l \in releasing' => hold'[l].queued
               /\ entry'.attempt = l => hold'[l].queued
               /\ errors' = 0 /\ ~hold'[l].queued =>
                     hold'[l].status \in {"NONE", "CREATED", "AUTHORIZED"}
    BY <1>0, <1>4, <1>6, <1>8 DEF HoldsInOrder
  <2> QED BY <1>0, <2>1 DEF HoldsInOrder
<1>11. PickedIsNotHeld'
  <2>1. entry.attempt # 0 => entry.attempt \in PayKeys BY <1>0, KeyNumbers
  <2> QED BY <1>0, <1>4, <2>1 DEF PickedIsNotHeld, Standing
<1>12. \A x \in asks : x.op = "join" /\ x.key = a.key => x = a BY <1>0, <1>1 DEF AsksInOrder
<1>13. AsksInOrder'
  <2>1. ASSUME NEW x \in asks PROVE AskIsRight(x)'
    <3>1. AskIsRight(x) /\ x.key \in PayKeys BY AskFacts
    <3> QED BY <1>4, <1>6, <1>8, <1>9, <3>1 DEF AskIsRight
  <2>2. AskIsRight(b)' BY <1>1, <1>2, <1>6, <1>8, <1>9 DEF AskIsRight
  <2>3. \A x, y \in asks' : /\ x.heard /\ y.heard => x = y
                            /\ x.op = "join" /\ y.op = "join" /\ x.key = y.key => x = y
    BY <1>0, <1>1, <1>2 DEF AsksInOrder
  <2>4. ASSUME NEW l \in PayKeys, errors' = 0, Kept(l)', hold'[l].queued
        PROVE  \E x \in asks' : x.op = "join" /\ x.phase = "done" /\ x.key = l
    <3>1. PICK x \in asks : x.op = "join" /\ x.phase = "done" /\ x.key = l
      BY <1>0, <1>4, <1>9, <2>4 DEF AsksInOrder
    <3> QED BY <1>2, <3>1
  <2> QED BY <1>2, <2>1, <2>2, <2>3, <2>4 DEF AsksInOrder
<1>14. PageInOrder'
  <2>1. page.card # 0 => page.card \in PayKeys BY <1>0, KeyNumbers
  <2>2. page.card # 0 /\ ~Used(page.card)' => Kept(page.card)
    BY <1>0, <1>4, <1>6, <2>1 DEF PageInOrder, Used
  <2>3. ConfirmIsRight'
    <3> SUFFICES ASSUME page.awaiting = "confirm"
                 PROVE  /\ page.paying # 0 /\ Kept(page.paying)
                        /\ Used(page.paying)' /\ ~hold'[page.paying].queued
                        /\ \A x \in asks' : x.op = "join" => x.key # page.paying
      BY <1>6, <1>9 DEF ConfirmIsRight, Used
    <3>1. ConfirmIsRight /\ (page.paying # 0 => page.paying \in PayKeys)
      BY <1>0, KeyNumbers DEF PageInOrder
    <3> QED BY <1>1, <1>2, <1>4, <1>6, <3>1 DEF ConfirmIsRight, Used
  <2>4. SubmittingIsRight'
    <3> SUFFICES ASSUME page'.submitting PROVE SubmittingIsRight' BY DEF SubmittingIsRight
    <3>1. page.submitting /\ Asking' /\ page.card # 0 BY <1>6
    <3>2. \/ hold[page.card].spare
          \/ page.awaiting = "confirm" /\ page.paying = page.card
          \/ \E x \in asks : /\ x.op = "join" /\ x.heard /\ x.phase # "done"
                             /\ x.key = page.card
      BY <1>0, <3>1 DEF PageInOrder, SubmittingIsRight
    <3>3. \/ hold'[page.card].spare
          \/ page.awaiting = "confirm" /\ page.paying = page.card
          \/ \E x \in asks' : /\ x.op = "join" /\ x.heard /\ x.phase # "done"
                              /\ x.key = page.card
      <4>1. CASE page.card = a.key BY <1>1, <1>4, <4>1
      <4>2. CASE page.card # a.key BY <1>2, <1>4, <2>1, <3>1, <3>2, <4>2
      <4> QED BY <4>1, <4>2
    <3> QED BY <1>6, <3>1, <3>3 DEF SubmittingIsRight
  <2> QED BY <1>0, <1>6, <1>9, <2>2, <2>3, <2>4 DEF PageInOrder, Used
<1>15. LineInOrder'
  <2>1. \A l \in PayKeys : InLine(l)' => page'.keys[TierOf[l]] \in {0, l}
    BY <1>0, <1>6, <1>7 DEF LineInOrder
  <2>2. \A l \in PayKeys : Standing(l)' => Excused(l)' \/ Kept(l)' \/ InLine(l)'
    BY <1>0, <1>7, <1>8, <1>9 DEF LineInOrder
  <2>3. ASSUME NEW x \in asks', x.op = "join", x.phase = "done", Standing(x.key)'
        PROVE  Excused(x.key)' \/ InLine(x.key)'
    <3>1. CASE x = b BY <1>1, <1>2, <1>4, <3>1 DEF Excused
    <3>2. CASE x # b
      <4>1. x \in asks /\ x.key \in PayKeys BY <1>2, <3>2, AskFacts
      <4> QED BY <1>0, <1>7, <1>8, <2>3, <4>1 DEF LineInOrder
    <3> QED BY <3>1, <3>2
  <2> QED BY <2>1, <2>2, <2>3 DEF LineInOrder
<1> QED BY <1>5, <1>7, <1>10, <1>11, <1>13, <1>14, <1>15 DEF CallerInv

\* joinWithPayment puts the caller in the line.
LEMMA EnterQueued ==
    ASSUME CallerInv, NEW a \in asks, a.phase = "enter", entry.status \in {"NONE", "LEFT"},
           hold[a.key].status = "AUTHORIZED",
           entry' = [status |-> "WAITING", attempt |-> a.key],
           hold' = [hold EXCEPT ![a.key].queued = TRUE], Goes(a, "done"),
           UNCHANGED <<hotline, talks, declines, releasing, errors>>, Redraws
    PROVE  CallerInv'
<1>0. CallerTypeOK /\ AsksInOrder /\ PageInOrder /\ LineInOrder /\ HoldsInOrder /\ TalksInOrder
  BY DEF CallerInv
<1>1. /\ a.op = "join" /\ a.key \in PayKeys /\ AskIsRight(a) /\ Kept(a.key)
      /\ a \in Ask /\ hold[a.key] \in Hold /\ TierOf[a.key] \in Tiers /\ a.key # 0
  BY <1>0, AskFacts, KeyNumbers DEF AskIsRight, CallerTypeOK
<1>2. PICK b \in Ask : /\ asks' = (asks \ {a}) \cup {b}
                       /\ b.op = "join" /\ b.key = a.key /\ b.heard = a.heard /\ b.phase = "done"
  <2> DEFINE b == [a EXCEPT !.phase = "done"]
  <2>1. b \in Ask /\ b.op = "join" /\ b.key = a.key /\ b.heard = a.heard /\ b.phase = "done"
    BY <1>1 DEF Ask
  <2>2. asks' = (asks \ {a}) \cup {b} BY DEF Goes
  <2> HIDE DEF b
  <2> QED BY <2>1, <2>2
<1>3. /\ entry'.status = "WAITING" /\ entry'.attempt = a.key
      /\ entry' \in [status : {"NONE", "WAITING", "SELECTED", "LEFT", "ENDED"}, attempt : 0..MaxKeys]
  BY <1>0, <1>1, KeyNumbers
<1>4. /\ hold' \in [PayKeys -> Hold]
      /\ \A l \in PayKeys : l # a.key => hold'[l] = hold[l]
      /\ hold'[a.key] = [hold[a.key] EXCEPT !.queued = TRUE]
  BY <1>0, <1>1 DEF CallerTypeOK, Hold
<1>5. \A l \in PayKeys : /\ hold'[l].status = hold[l].status /\ hold'[l].intent = hold[l].intent
                         /\ hold'[l].attached = hold[l].attached /\ hold'[l].spare = hold[l].spare
                         /\ hold'[l].evicted = hold[l].evicted
                         /\ l # a.key => hold'[l].queued = hold[l].queued
                         /\ l = a.key => hold'[l].queued
  BY <1>1, <1>4 DEF Hold
<1>6. CallerTypeOK' /\ SamePage
  <2>1. CallerTypeOK' BY <1>0, <1>2, <1>3, <1>4, RedrawsPage DEF CallerTypeOK
  <2> QED BY <2>1, RedrawsPage
<1>7. /\ page'.keys = page.keys /\ page'.drawn = page.drawn /\ page'.card = page.card
      /\ page'.awaiting = page.awaiting /\ page'.paying = page.paying /\ ~page'.submitting
  BY <1>3, <1>6 DEF SamePage, Asking
<1>8. TalksInOrder'
  <2>1. \A n \in DOMAIN talks : talks[n].status \notin {"OPEN", "PAYMENT_PENDING"}
    BY ActiveEntry
  <2> QED BY <1>0, <1>3, <2>1 DEF TalksInOrder, Active, Live, Mine
<1>9. \A l \in PayKeys : (Standing(l)' <=> Standing(l)) /\ (Used(l)' <=> Used(l))
                         /\ (Excused(l)' <=> Excused(l)) /\ ~InLine(l)
  BY <1>5 DEF Standing, Used, Excused, InLine
<1>10. \A l : Kept(l)' <=> Kept(l) BY <1>7 DEF Kept
<1>11. HoldsInOrder'
  <2>1. a.key \in page.drawn BY <1>0, <1>1 DEF PageInOrder, Kept
  <2>2. ASSUME NEW l \in PayKeys
        PROVE  /\ l \notin page'.drawn => ~hold'[l].queued
               /\ hold'[l].status = "NONE" => hold'[l].intent = "none"
               /\ hold'[l].status = "AUTHORIZED" => hold'[l].attached /\ Used(l)'
               /\ hold'[l].queued => hold'[l].attached /\ Used(l)'
               /\ l \in releasing' => hold'[l].queued
               /\ entry'.attempt = l => hold'[l].queued
               /\ errors' = 0 /\ ~hold'[l].queued =>
                     hold'[l].status \in {"NONE", "CREATED", "AUTHORIZED"}
    <3>1. CASE l = a.key
      <4>1. hold[l].status = "AUTHORIZED" /\ hold[l].attached /\ Used(l) BY <1>0, <3>1 DEF HoldsInOrder
      <4> QED BY <1>5, <1>7, <1>9, <2>1, <3>1, <4>1
    <3>2. CASE l # a.key BY <1>0, <1>3, <1>5, <1>7, <1>9, <3>2 DEF HoldsInOrder
    <3> QED BY <3>1, <3>2
  <2> QED BY <1>0, <2>2 DEF HoldsInOrder
<1>12. PickedIsNotHeld' BY <1>3 DEF PickedIsNotHeld
<1>13. \A x \in asks : x.op = "join" /\ x.key = a.key => x = a BY <1>0, <1>1 DEF AsksInOrder
<1>14. AsksInOrder'
  <2>1. ASSUME NEW x \in asks, x # a PROVE AskIsRight(x)'
    <3>1. AskIsRight(x) /\ x.key \in PayKeys BY AskFacts
    <3>2. x.op = "join" => x.key # a.key BY <1>13, <2>1
    <3> QED BY <1>5, <1>7, <1>9, <1>10, <3>1, <3>2 DEF AskIsRight
  <2>2. AskIsRight(b)' BY <1>1, <1>2, <1>7, <1>9, <1>10 DEF AskIsRight
  <2>3. \A x, y \in asks' : /\ x.heard /\ y.heard => x = y
                            /\ x.op = "join" /\ y.op = "join" /\ x.key = y.key => x = y
    BY <1>0, <1>1, <1>2 DEF AsksInOrder
  <2>4. ASSUME NEW l \in PayKeys, errors' = 0, Kept(l)', hold'[l].queued
        PROVE  \E x \in asks' : x.op = "join" /\ x.phase = "done" /\ x.key = l
    <3>1. CASE l = a.key BY <1>2, <3>1
    <3>2. CASE l # a.key
      <4>1. PICK x \in asks : x.op = "join" /\ x.phase = "done" /\ x.key = l
        BY <1>0, <1>5, <1>10, <2>4, <3>2 DEF AsksInOrder
      <4> QED BY <1>2, <4>1
    <3> QED BY <3>1, <3>2
  <2> QED BY <1>2, <2>1, <2>2, <2>3, <2>4 DEF AsksInOrder
<1>15. PageInOrder'
  <2>1. page.card # 0 => page.card \in PayKeys BY <1>0, KeyNumbers
  <2>2. page.card # 0 /\ ~Used(page.card)' => Kept(page.card)
    BY <1>0, <1>5, <1>7, <2>1 DEF PageInOrder, Used
  <2>3. ConfirmIsRight'
    <3> SUFFICES ASSUME page.awaiting = "confirm"
                 PROVE  /\ page.paying # 0 /\ Kept(page.paying)
                        /\ Used(page.paying)' /\ ~hold'[page.paying].queued
                        /\ \A x \in asks' : x.op = "join" => x.key # page.paying
      BY <1>7, <1>10 DEF ConfirmIsRight, Used
    <3>1. ConfirmIsRight /\ (page.paying # 0 => page.paying \in PayKeys)
      BY <1>0, KeyNumbers DEF PageInOrder
    <3>2. page.paying # a.key BY <1>1, <3>1 DEF ConfirmIsRight
    <3> QED BY <1>1, <1>2, <1>5, <1>7, <3>1, <3>2 DEF ConfirmIsRight, Used
  <2>4. SubmittingIsRight' BY <1>7 DEF SubmittingIsRight
  <2> QED BY <1>0, <1>7, <1>10, <2>2, <2>3, <2>4 DEF PageInOrder, Used
<1>16. LineInOrder'
  <2>1. \A l \in PayKeys : InLine(l)' => page'.keys[TierOf[l]] \in {0, l}
    BY <1>1, <1>3, <1>7 DEF InLine, Kept
  <2>2. \A l \in PayKeys : Standing(l)' => Excused(l)' \/ Kept(l)' \/ InLine(l)'
    BY <1>0, <1>9, <1>10 DEF LineInOrder
  <2>3. ASSUME NEW x \in asks', x.op = "join", x.phase = "done", Standing(x.key)'
        PROVE  Excused(x.key)' \/ InLine(x.key)'
    <3>1. CASE x = b BY <1>2, <1>3, <3>1 DEF InLine
    <3>2. CASE x # b
      <4>1. x \in asks /\ x.key \in PayKeys BY <1>2, <3>2, AskFacts
      <4> QED BY <1>0, <1>9, <2>3, <4>1 DEF LineInOrder
    <3> QED BY <3>1, <3>2
  <2> QED BY <2>1, <2>2, <2>3 DEF LineInOrder
<1> QED BY <1>6, <1>8, <1>11, <1>12, <1>14, <1>15, <1>16 DEF CallerInv

\* joinWithPayment.
LEMMA EnterKeeps == ASSUME CallerInv, NEW a \in asks, Enter(a) PROVE CallerInv'
<1>0. CallerTypeOK BY DEF CallerInv
<1>1. /\ UNCHANGED <<hotline, talks, declines, releasing, errors>> /\ Redraws /\ a.phase = "enter"
      /\ errors' \in 0..MaxErrors
  BY <1>0 DEF Enter, CallerTypeOK
<1>2. CASE Goes(a, "failed") /\ UNCHANGED <<entry, hold>>
  BY <1>1, <1>2, AskFailsStep DEF serverVars
<1>3. CASE Live /\ entry.status \notin {"NONE", "LEFT"}
  <2>1. Goes(a, "done") /\ UNCHANGED entry /\ hold' = [hold EXCEPT ![a.key].spare = TRUE]
    BY <1>3 DEF Enter, Live
  <2> QED BY <1>1, <2>1, EnterUnused
<1>4. CASE Live /\ entry.status \in {"NONE", "LEFT"} /\ hold[a.key].status = "AUTHORIZED"
  <2>1. /\ entry' = [status |-> "WAITING", attempt |-> a.key]
        /\ hold' = [hold EXCEPT ![a.key].queued = TRUE] /\ Goes(a, "done")
    BY <1>4 DEF Enter, Live
  <2> QED BY <1>1, <1>4, <2>1, EnterQueued
<1>5. CASE ~Live BY <1>2, <1>5 DEF Enter, Live
<1>6. CASE Live /\ entry.status \in {"NONE", "LEFT"} /\ hold[a.key].status # "AUTHORIZED"
  BY <1>2, <1>6 DEF Enter, Live
<1> QED BY <1>3, <1>4, <1>5, <1>6

-----------------------------------------------------------------------------
(* The theorem.                                                            *)

\* Every step of the caller, the page and the server keeps the invariant.
LEMMA CallerNextKeeps == ASSUME CallerInv, CallerNext PROVE CallerInv'
<1>1. ASSUME NEW a \in asks, Server(a) \/ Answer(a) \/ IntentFails(a) \/ AskFails(a)
      PROVE  CallerInv'
  BY <1>1, PrepareKeeps, AttachIntentKeeps, VerifyKeeps, EnterKeeps, AuthorizedKeeps,
     JoinedKeeps, IntentFailsKeeps, AskFailsKeeps DEF Server, Answer
<1>2. ASSUME NEW k \in PayKeys,
             Captured(k) \/ CaptureFails(k) \/ CancelIntent(k) \/ DeclineEvent(k)
      PROVE  CallerInv'
  BY <1>2, CapturedKeeps, CaptureFailsKeeps, CancelIntentKeeps, DeclineEventKeeps
<1>3. ASSUME NEW t \in Tiers, Submit(t) PROVE CallerInv' BY <1>3, SubmitKeeps
<1> QED BY <1>1, <1>2, <1>3, JoinFreeKeeps, BackKeeps, ConfirmKeeps, ConfirmDeclinedKeeps,
           JoinKeeps, WithdrawKeeps, LeaveKeeps, ReloadKeeps, SelectKeeps, TalkEndsKeeps,
           EndKeeps, CloseKeeps
     DEF CallerNext

\* The page starts with nothing.
LEMMA CallerInitInv == ASSUME CallerInit PROVE CallerInv
<1>1. CallerTypeOK
  <2>1. MaxKeys \in Nat /\ MaxTalks \in Nat /\ MaxErrors \in Nat BY CallerPageAssumption
  <2>2. NoHold \in Hold BY DEF NoHold, Hold, AttemptStatuses, IntentStatuses
  <2>3. page \in Page BY <2>1 DEF CallerInit, Page
  <2>4. talks \in Seq(Talk) /\ Len(talks) <= MaxTalks BY <2>1 DEF CallerInit
  <2> QED BY <2>1, <2>2, <2>3, <2>4 DEF CallerInit, CallerTypeOK
<1>2. \A k \in PayKeys : hold[k] = NoHold BY DEF CallerInit
<1>3. /\ entry.status = "NONE" /\ entry.attempt = 0 /\ hotline.status = "LIVE" /\ ~hotline.closing
      /\ talks = <<>> /\ asks = {} /\ declines = {} /\ releasing = {}
      /\ page.keys = [t \in Tiers |-> 0] /\ page.drawn = {} /\ page.card = 0
      /\ page.awaiting = "nothing" /\ ~page.submitting
  BY DEF CallerInit
<1>4. \A k \in PayKeys : /\ ~Standing(k) /\ ~hold[k].queued
                         /\ hold[k].status = "NONE" /\ hold[k].intent = "none"
  BY <1>2 DEF NoHold, Standing
<1>5. HoldsInOrder
  <2>1. 0 \notin PayKeys BY <1>1, KeyNumbers
  <2> QED BY <1>3, <1>4, <2>1 DEF HoldsInOrder
<1>6. TalksInOrder BY <1>3 DEF TalksInOrder, Live
<1>7. PickedIsNotHeld BY <1>3 DEF PickedIsNotHeld
<1>8. AsksInOrder BY <1>3, <1>4 DEF AsksInOrder
<1>9. PageInOrder BY <1>3 DEF PageInOrder, ConfirmIsRight, SubmittingIsRight
<1>10. LineInOrder BY <1>3, <1>4 DEF LineInOrder, InLine
<1> QED BY <1>1, <1>5, <1>6, <1>7, <1>8, <1>9, <1>10 DEF CallerInv

\* What the invariant says of the holds and of the page.
LEMMA CallerInvSound == ASSUME CallerInv PROVE CallerPageIsSound
<1>0. CallerTypeOK /\ AsksInOrder /\ PageInOrder /\ LineInOrder /\ HoldsInOrder /\ TalksInOrder
      /\ PickedIsNotHeld
  BY DEF CallerInv
<1>1. RetriesReuseHold
  <2> SUFFICES ASSUME NEW k \in PayKeys, NEW l \in PayKeys, k # l, TierOf[k] = TierOf[l],
                      Standing(k), Standing(l)
               PROVE  Excused(k) \/ Excused(l)
    BY DEF RetriesReuseHold, Excused
  <2>1. \A m, n \in PayKeys : m # n /\ TierOf[m] = TierOf[n] /\ Kept(m) /\ InLine(n) => FALSE
    BY <1>0, KeyNumbers DEF LineInOrder, Kept
  <2>2. \A m \in PayKeys : Standing(m) => Excused(m) \/ Kept(m) \/ InLine(m)
    BY <1>0 DEF LineInOrder
  <2>3. ~(InLine(k) /\ InLine(l)) /\ ~(Kept(k) /\ Kept(l)) BY DEF InLine, Kept
  <2> QED BY <2>1, <2>2, <2>3
<1>2. KeyIsUsable
  <2> SUFFICES ASSUME page.awaiting = "nothing", errors = 0, NEW t \in Tiers, page.keys[t] # 0
               PROVE  hold[page.keys[t]].status \in {"NONE", "CREATED", "AUTHORIZED"}
    BY DEF KeyIsUsable
  <2> DEFINE k == page.keys[t]
  <2>1. k \in PayKeys /\ Kept(k) BY <1>0, KeyNumbers DEF PageInOrder, Kept
  <2>2. asks = {}
    <3>1. \A a \in asks : a.heard BY <1>0 DEF AsksInOrder, AskIsRight
    <3> QED BY <3>1, NothingHeard
  <2> HIDE DEF k
  <2>3. ~hold[k].queued BY <1>0, <2>1, <2>2 DEF AsksInOrder
  <2>4. hold[k].status \in {"NONE", "CREATED", "AUTHORIZED"} BY <1>0, <2>1, <2>3 DEF HoldsInOrder
  <2> QED BY <2>4 DEF k
<1>3. JoinedHoldsGo BY <1>0 DEF JoinedHoldsGo, PickedIsNotHeld
<1>4. CardFormReturns
  <2>1. ASSUME NEW a \in asks, a.op = "join", a.heard PROVE page.awaiting # "nothing"
    BY <1>0, <2>1 DEF AsksInOrder, AskIsRight
  <2> QED BY <1>0, <2>1 DEF CardFormReturns, PageInOrder, SubmittingIsRight
<1> QED BY <1>0, <1>1, <1>2, <1>3, <1>4 DEF CallerPageIsSound

\* The caller's page and the server agree on the payment they talk of: whatever fails,
\* however often the caller starts over, withdraws or reloads, and whatever the host
\* and the bank do meanwhile, a card is not held twice for one tier but for a join that
\* found the caller in the line or a caller put out of it, a key stays usable until
\* something fails, and the card form comes back.
THEOREM CallerPageSafe == CallerSpec => []CallerPageIsSound
<1>1. CallerInit => CallerInv BY CallerInitInv
<1>2. CallerInv /\ [CallerNext]_callerVars => CallerInv'
  <2>1. ASSUME CallerInv, UNCHANGED callerVars PROVE CallerInv'
    BY <2>1 DEF callerVars, serverVars, CallerInv, CallerTypeOK, HoldsInOrder, TalksInOrder,
       PickedIsNotHeld, AsksInOrder, AskIsRight, PageInOrder, ConfirmIsRight, SubmittingIsRight,
       LineInOrder, InLine, Excused, Kept, Asking, Live, Mine, Active, Used, Standing
  <2> QED BY <2>1, CallerNextKeeps
<1>3. CallerInv => CallerPageIsSound BY CallerInvSound
<1> QED BY <1>1, <1>2, <1>3, PTL DEF CallerSpec
=============================================================================
