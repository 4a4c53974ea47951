------------------------ MODULE ClientSession_proofs ------------------------
(***************************************************************************)
(* For any set of clients, topics and publications, any sizes of the       *)
(* tables and any number of requests, losses and broken connections: every *)
(* step keeps the types of the Client objects, the queues and the packets, *)
(* and the number of saved PUBLISHes within its bound; and what the broker *)
(* publishes once is in one place at most.                                 *)
(*                                                                         *)
(* A publication moves from one sequence to another: on the way from the   *)
(* broker, in the packet queue, saved, held, on the way to the device.     *)
(* Has and Twice say of each of them what the second proof needs; how      *)
(* Append, Tail, Posted and WithoutIndex change them is a lemma of its     *)
(* own, and the step of a handler is then a matter of these predicates     *)
(* alone.                                                                  *)
(*                                                                         *)
(* At the end are two properties that come from the order of the queues:   *)
(* RegisterFirst (the queue to the devices) and WillFresh (the packet      *)
(* queue).                                                                 *)
(***************************************************************************)
EXTENDS ClientSession, TLAPS, SequenceTheorems, FiniteSetTheorems

-----------------------------------------------------------------------------
(* Packets                                                                 *)

(* The packets the gateway makes have their types.                         *)
LEMMA MadePackets ==
    /\ \A ok \in BOOLEAN : [type |-> "CONNACK", accepted |-> ok] \in SnPacket \cap BrokerPacket
    /\ \A t \in {"WILLTOPICREQ", "WILLMSGREQ", "DISCONNECT", "PINGRESP"} : [type |-> t] \in SnPacket
    /\ \A m \in 1..MaxSnMsgId, t \in Nat : [type |-> "REGISTER", msgId |-> m, tid |-> t] \in SnPacket
    /\ \A m \in Pubs, t \in Nat : [type |-> "PUBLISH", pub |-> m, tid |-> t] \in SnPacket
    /\ \A conn \in Conn : [type |-> "CONNECT", conn |-> conn] \in GwPacket
    /\ \A t \in {"DISCONNECT", "PINGREQ"} : [type |-> t] \in GwPacket
    /\ \A t \in {"PUBACK", "PUBREC"}, m \in Pubs : [type |-> t, pub |-> m] \in GwPacket
    /\ \A t \in {"PINGRESP", "DISCONNECT"} : [type |-> t] \in BrokerPacket
    /\ \A m \in Pubs : [type |-> "PUBLISH", pub |-> m] \in BrokerPacket
<1>1. \A m \in 1..MaxSnMsgId : m \in Nat
  BY SessionAssumption
<1> QED
  BY <1>1 DEF SnPacket, BrokerPacket, GwPacket

(* The fields of a packet follow from its type.                            *)
LEMMA DeviceFields ==
    ASSUME NEW p \in DevicePacket
    PROVE  /\ p.type = "CONNECT" => p.clean \in BOOLEAN /\ p.will \in BOOLEAN /\ p.try \in Nat
           /\ p.type \in {"WILLTOPIC", "WILLMSG"} => p.try \in Nat
           /\ p.type = "DISCONNECT" => p.sleep \in BOOLEAN
           /\ p.type = "REGACK" => p.msgId \in Nat
  BY DEF DevicePacket

(* The fields of a packet of the broker.                                   *)
LEMMA BrokerFields ==
    ASSUME NEW p \in BrokerPacket
    PROVE  /\ p.type = "CONNACK" => p.accepted \in BOOLEAN
           /\ p.type = "PUBLISH" => p.pub \in Pubs
  BY DEF BrokerPacket

(* The fields of a packet to a device.                                     *)
LEMMA SnFields ==
    ASSUME NEW p \in SnPacket
    PROVE  /\ p.type = "CONNACK" => p.accepted \in BOOLEAN
           /\ p.type = "REGISTER" => p.msgId \in Nat /\ p.tid \in Nat
           /\ p.type = "PUBLISH" => p.pub \in Pubs
  BY DEF SnPacket

-----------------------------------------------------------------------------
(* Operators on a Client, a connection and a device                        *)

(* updateStatus and disconnected return a Client and leave what it saves.  *)
LEMMA DisconnectedType ==
    ASSUME NEW r \in Client
    PROVE  Disconnected(r) \in Client /\ Disconnected(r).sleepQ = r.sleepQ
  BY DEF Client, Disconnected, Status

(* A change of the status alone keeps a Client a Client.                   *)
LEMMA SetStatusType ==
    ASSUME NEW r \in Client, NEW s \in Status
    PROVE  /\ [r EXCEPT !.status = s] \in Client
           /\ [r EXCEPT !.status = s].sleepQ = r.sleepQ
  BY DEF Client

(* So does a step of the will handshake, which changes the connect data.   *)
LEMMA SetConnType ==
    ASSUME NEW r \in Client, NEW k \in Conn, NEW b \in BOOLEAN
    PROVE  /\ [r EXCEPT !.waitWill = b, !.conn = k] \in Client
           /\ [r EXCEPT !.waitWill = b, !.conn = k].sleepQ = r.sleepQ
<1> HIDE DEF Conn
<1> QED
  BY DEF Client

(* So does a change of the held PUBLISHes and of the held PINGREQ.         *)
LEMMA SetHeldType ==
    ASSUME NEW r \in Client, NEW h \in Seq(Held), NEW b \in BOOLEAN
    PROVE  /\ [r EXCEPT !.held = h, !.holdPing = b] \in Client
           /\ [r EXCEPT !.held = h, !.holdPing = b].sleepQ = r.sleepQ
<1> HIDE DEF Held
<1> QED
  BY DEF Client

(* Client::updateStatus changes nothing but the status and the will flag.  *)
LEMMA UpdatedStatusType ==
    ASSUME NEW r \in Client, NEW p
    PROVE  UpdatedStatus(r, p) \in Client /\ UpdatedStatus(r, p).sleepQ = r.sleepQ
<1>1. \A s \in Status : /\ [r EXCEPT !.status = s] \in Client
                        /\ [r EXCEPT !.status = s].sleepQ = r.sleepQ
  BY SetStatusType
<1>2. {"Active", "Asleep", "Awake"} \subseteq Status
  BY DEF Status
<1>3. r \in Client /\ r.sleepQ = r.sleepQ
  OBVIOUS
<1>4. CASE r.status = "Active"
  BY <1>1, <1>2, <1>3, <1>4, DisconnectedType DEF UpdatedStatus
<1>5. CASE r.status \in {"Awake", "Asleep"}
  <2>1. CASE p.type = "CONNECT"
    BY <1>1, <1>2, <1>5, <2>1 DEF UpdatedStatus
  <2>2. CASE p.type = "DISCONNECT"
    BY <1>5, <2>2, DisconnectedType DEF UpdatedStatus
  <2>3. CASE p.type = "PINGREQ"
    BY <1>1, <1>2, <1>5, <2>3 DEF UpdatedStatus
  <2>4. CASE p.type = "PINGRESP"
    BY <1>1, <1>2, <1>5, <2>4 DEF UpdatedStatus
  <2>5. CASE p.type \notin {"CONNECT", "DISCONNECT", "PINGREQ", "PINGRESP"}
    BY <1>5, <2>5 DEF UpdatedStatus
  <2> QED
    BY <2>1, <2>2, <2>3, <2>4, <2>5
<1>6. CASE r.status \notin {"Active", "Awake", "Asleep"}
  BY <1>6 DEF UpdatedStatus
<1> QED
  BY <1>4, <1>5, <1>6

(* The broker's answer is a connection again, with typed packets on it.    *)
LEMMA ReactionsType ==
    ASSUME NEW link \in Link, NEW p, NEW l \in Reactions(link, p)
    PROVE  l \in Link
<1>1. ASSUME NEW ok \in BOOLEAN
      PROVE  <<[type |-> "CONNACK", accepted |-> ok]>> \in Seq(BrokerPacket)
  <2>1. [type |-> "CONNACK", accepted |-> ok] \in BrokerPacket
    BY MadePackets
  <2> HIDE DEF BrokerPacket
  <2> QED
    BY <2>1
<1>2. Append(link.down, [type |-> "PINGRESP"]) \in Seq(BrokerPacket)
  BY MadePackets DEF Link
<1> QED
  BY <1>1, <1>2 DEF Reactions, Link

(* The connection that BrokerSendTask opens, and the closed one.           *)
LEMMA LinkTypes == NoLink \in Link /\ NewLink \in Link
  BY DEF NoLink, NewLink, Link

(* A change of the status leaves the topic table, the PUBLISHes and the    *)
(* connect data alone; waitWill it leaves alone or clears.                 *)
OnlyStatus(q, r) ==
    /\ q.held = r.held /\ q.sleepQ = r.sleepQ /\ q.tid = r.tid /\ q.conn = r.conn
    /\ q.waitWill \in {r.waitWill, FALSE}

LEMMA StatusFields ==
    ASSUME NEW r \in Client
    PROVE  /\ OnlyStatus(Disconnected(r), r)
           /\ \A s \in Status : OnlyStatus([r EXCEPT !.status = s], r)
           /\ \A p : OnlyStatus(UpdatedStatus(r, p), r)
<1>1. OnlyStatus(r, r) /\ OnlyStatus(Disconnected(r), r)
  BY DEF Disconnected, Client, OnlyStatus
<1>2. \A s \in Status : OnlyStatus([r EXCEPT !.status = s], r)
  BY DEF Client, OnlyStatus
<1>3. ASSUME NEW p
      PROVE  \/ UpdatedStatus(r, p) \in {r, Disconnected(r)}
             \/ \E s \in Status : UpdatedStatus(r, p) = [r EXCEPT !.status = s]
  <2>1. "Asleep" \in Status /\ "Active" \in Status /\ "Awake" \in Status
    BY DEF Status
  <2> QED
    BY <2>1 DEF UpdatedStatus
<1>4. ASSUME NEW p PROVE OnlyStatus(UpdatedStatus(r, p), r)
  BY ZenonT(40), <1>1, <1>2, <1>3
<1> QED
  BY <1>1, <1>2, <1>4

(* A change of one Client, Client by Client.                               *)
LEMMA ChangedClient ==
    ASSUME TypeOK, NEW c \in Clients, NEW r, cl' = [cl EXCEPT ![c] = r]
    PROVE  \A d \in Clients : cl'[d] = IF d = c THEN r ELSE cl[d]
  BY DEF TypeOK

(* A step that changes the status of one Client.                           *)
LEMMA StatusStep ==
    ASSUME TypeOK, NEW c \in Clients, NEW r, OnlyStatus(r, cl[c]), cl' = [cl EXCEPT ![c] = r]
    PROVE  \A d \in Clients : OnlyStatus(cl'[d], cl[d])
<1>1. \A d \in Clients : OnlyStatus(cl[d], cl[d])
  BY DEF OnlyStatus
<1>2. \A d \in Clients : cl'[d] = IF d = c THEN r ELSE cl[d]
  BY ChangedClient
<1> QED
  BY <1>1, <1>2

(* Whatever it receives, a device stays a device.                          *)
LEMMA ReceivedType ==
    ASSUME NEW d \in Device, NEW p \in SnPacket
    PROVE  Received(d, p) \in Device
<1>1. \A s \in DeviceState : [d EXCEPT !.st = s] \in Device
  BY DEF Device
<1>2. {"active", "off", "topicReq", "msgReq", "asleep"} \subseteq DeviceState
  BY DEF DeviceState
<1>3. p.type = "REGISTER" => [d EXCEPT !.told = @ \cup {p.tid}, !.regs = @ \cup {p.msgId}] \in Device
  BY SnFields DEF Device
<1>4. p.type = "PUBLISH" => [d EXCEPT !.got = @ \cup {p.pub}] \in Device
  BY SnFields DEF Device
<1> QED
  BY <1>1, <1>2, <1>3, <1>4 DEF Received

(* Removing an element of the list of held PUBLISHes leaves such a list.   *)
LEMMA WithoutIndexType ==
    ASSUME NEW S, NEW s \in Seq(S), NEW i \in DOMAIN s
    PROVE  WithoutIndex(s, i) \in Seq(S)
<1>1. DOMAIN s = 1..Len(s) /\ Len(s) \in Nat
  BY LenProperties
<1>2. i \in 1..Len(s) /\ i \in Int /\ i - 1 \in Int /\ i + 1 \in Int /\ Len(s) \in Int
  BY <1>1
<1>3. \A j \in 1..Len(s) : s[j] \in S
  BY ElementOfSeq
<1>4. (\A j \in 1..(i - 1) : s[j] \in S) /\ (\A j \in (i + 1)..Len(s) : s[j] \in S)
  BY <1>2, <1>3
<1>5. SubSeq(s, 1, i - 1) \in Seq(S)
  BY <1>2, <1>4, SubSeqProperties
<1>6. SubSeq(s, i + 1, Len(s)) \in Seq(S)
  BY <1>2, <1>4, SubSeqProperties
<1> QED
  BY <1>5, <1>6, ConcatProperties DEF WithoutIndex

-----------------------------------------------------------------------------
(* Type correctness                                                        *)

(* TypeOK in three parts: the Client objects, the queues, and the rest.    *)
ClientsTyped == /\ cl \in [Clients -> Client]
                /\ \A c \in Clients : Len(cl[c].sleepQ) <= MaxSaved

QueuesTyped == /\ packetQ \in Seq(PacketEvent)
               /\ brokerQ \in Seq(Event(GwPacket))
               /\ clientQ \in Seq(Event(SnPacket))

RestTyped == /\ upd \in DeviceEvent \cup {None}
             /\ sent \in Event(GwPacket) \cup {None}
             /\ net \in [Clients -> Link]
             /\ dev \in [Clients -> Device]
             /\ published \in [Clients -> SUBSET Pubs]
             /\ faults \in Nat

(* TypeOK in three parts: the steps change one or two of them.             *)
LEMMA TypeParts == TypeOK <=> ClientsTyped /\ QueuesTyped /\ RestTyped
  BY DEF TypeOK, ClientsTyped, QueuesTyped, RestTyped

(* A typed event at the end of a queue.                                    *)
LEMMA AppendEvent ==
    ASSUME NEW P, NEW q \in Seq(Event(P)), NEW c \in Clients, NEW p \in P
    PROVE  Append(q, To(c, p)) \in Seq(Event(P))
<1>1. To(c, p) \in Event(P)
  BY DEF To, Event
<1> QED
  BY <1>1, AppendProperties

(* Posting typed events keeps the packet queue typed.                      *)
LEMMA PostedType ==
    ASSUME NEW q \in Seq(PacketEvent), NEW events \in Seq(PacketEvent)
    PROVE  Posted(q, events) \in Seq(PacketEvent)
<1> DEFINE all == q \o events
<1>1. all \in Seq(PacketEvent) /\ MaxPackets \in Nat \ {0}
  BY ConcatProperties, SessionAssumption
<1>2. CASE Len(all) <= MaxPackets
  BY <1>1, <1>2 DEF Posted
<1>3. CASE ~(Len(all) <= MaxPackets)
  <2>1. 1..MaxPackets \subseteq 1..Len(all)
    BY <1>1, <1>3, LenProperties
  <2>2. \A i \in 1..MaxPackets : all[i] \in PacketEvent
    <3> HIDE DEF all
    <3> QED
      BY <1>1, <2>1, ElementOfSeq
  <2> HIDE DEF all
  <2>3. SubSeq(all, 1, MaxPackets) \in Seq(PacketEvent)
    BY <1>1, <2>2, SubSeqProperties
  <2> USE DEF all
  <2> QED
    BY <1>1, <1>3, <2>3 DEF Posted
<1> QED
  BY <1>2, <1>3

(* A typed event of BrokerRecvTask posted to the packet queue.             *)
LEMMA PostBrokerRecv ==
    ASSUME NEW q \in Seq(PacketEvent), NEW c \in Clients, NEW p \in BrokerPacket
    PROVE  Posted(q, <<BrokerRecv(c, p)>>) \in Seq(PacketEvent)
<1>1. BrokerRecv(c, p) \in PacketEvent
  BY DEF BrokerRecv, PacketEvent, BrokerEvent
<1> HIDE DEF PacketEvent
<1>2. <<BrokerRecv(c, p)>> \in Seq(PacketEvent)
  BY <1>1
<1> QED
  BY <1>2, PostedType

(* A typed event of ClientRecvTask posted to the packet queue.             *)
LEMMA PostClientRecv ==
    ASSUME NEW q \in Seq(PacketEvent), NEW c \in Clients, NEW p \in DevicePacket
    PROVE  Posted(q, <<ClientRecv(c, p)>>) \in Seq(PacketEvent)
<1>1. ClientRecv(c, p) \in PacketEvent
  BY DEF ClientRecv, PacketEvent, DeviceEvent
<1> HIDE DEF PacketEvent
<1>2. <<ClientRecv(c, p)>> \in Seq(PacketEvent)
  BY <1>1
<1> QED
  BY <1>2, PostedType

(* The event that PacketHandleTask takes.                                  *)
LEMMA TakeDevice ==
    ASSUME TypeOK, NEW type, FromDevice(type)
    PROVE  /\ Head(packetQ).client \in Clients
           /\ Head(packetQ).pkt \in DevicePacket
           /\ Head(packetQ).pkt.type = type
           /\ Tail(packetQ) \in Seq(PacketEvent)
           /\ RestTyped'
<1>1. Head(packetQ) \in PacketEvent /\ Tail(packetQ) \in Seq(PacketEvent)
  BY HeadTailProperties DEF TypeOK, FromDevice
<1>2. Head(packetQ) \in DeviceEvent
  BY <1>1 DEF PacketEvent, BrokerEvent, FromDevice
<1>3. RestTyped'
  BY <1>2 DEF TypeOK, RestTyped, FromDevice
<1> QED
  BY <1>1, <1>2, <1>3 DEF DeviceEvent, FromDevice

(* What the handlers of the packets of the broker find in the event.       *)
LEMMA TakeBroker ==
    ASSUME TypeOK, NEW type, FromBroker(type)
    PROVE  /\ Head(packetQ).client \in Clients
           /\ Head(packetQ).pkt \in BrokerPacket
           /\ Head(packetQ).pkt.type = type
           /\ Tail(packetQ) \in Seq(PacketEvent)
           /\ net' \in [Clients -> Link] => RestTyped'
<1>1. Head(packetQ) \in PacketEvent /\ Tail(packetQ) \in Seq(PacketEvent)
  BY HeadTailProperties DEF TypeOK, FromBroker
<1>2. Head(packetQ) \in BrokerEvent
  BY <1>1 DEF PacketEvent, DeviceEvent, FromBroker
<1> QED
  BY <1>1, <1>2 DEF BrokerEvent, TypeOK, RestTyped, FromBroker

(* The Client objects after one of them has changed.                       *)
LEMMA ChangeClient ==
    ASSUME ClientsTyped, NEW c \in Clients, NEW r \in Client, Len(r.sleepQ) <= MaxSaved,
           cl' = [cl EXCEPT ![c] = r]
    PROVE  ClientsTyped'
  BY DEF ClientsTyped

(* The events of the saved PUBLISHes.                                      *)
LEMMA StoredEventsType ==
    ASSUME TypeOK, NEW c \in Clients
    PROVE  StoredEvents(c) \in Seq(PacketEvent)
<1>1. cl[c].sleepQ \in Seq(Pubs)
  BY DEF TypeOK, Client
<1>2. Len(cl[c].sleepQ) \in Nat /\ DOMAIN cl[c].sleepQ = 1..Len(cl[c].sleepQ)
  BY <1>1, LenProperties
<1>3. ASSUME NEW i \in 1..Len(cl[c].sleepQ)
      PROVE  BrokerRecv(c, [type |-> "PUBLISH", pub |-> cl[c].sleepQ[i]]) \in PacketEvent
  <2>1. cl[c].sleepQ[i] \in Pubs
    BY <1>1, ElementOfSeq
  <2>2. [type |-> "PUBLISH", pub |-> cl[c].sleepQ[i]] \in BrokerPacket
    BY <2>1, MadePackets
  <2> QED
    BY <2>2 DEF BrokerRecv, PacketEvent, BrokerEvent
<1>4. StoredEvents(c) \in [1..Len(cl[c].sleepQ) -> PacketEvent]
  BY <1>2, <1>3 DEF StoredEvents
<1> QED
  BY <1>2, <1>4, SeqDef

(* The packets of the devices.                                             *)
LEMMA DeviceHandlersType ==
    ASSUME TypeOK, HandleConnect \/ HandleWilltopic \/ HandleWillmsg \/ HandleDisconnect
                   \/ HandlePingreq \/ HandleRegAck
    PROVE  TypeOK'
<1> DEFINE c == Head(packetQ).client
           p == Head(packetQ).pkt
<1>1. ClientsTyped /\ QueuesTyped /\ RestTyped
  BY TypeParts
<1>2. \A d \in Clients : cl[d] \in Client /\ Len(cl[d].sleepQ) <= MaxSaved
  BY <1>1 DEF ClientsTyped
<1>3. Len(<<>>) <= MaxSaved /\ <<>> \in Seq(Pubs)
  BY SessionAssumption
<1>4. SUFFICES ClientsTyped' /\ QueuesTyped' /\ RestTyped'
  BY TypeParts, PTL
<1>5. CASE HandleConnect
  <2>1. FromDevice("CONNECT")
    BY <1>5 DEF HandleConnect
  <2>2. /\ c \in Clients /\ Tail(packetQ) \in Seq(PacketEvent) /\ RestTyped'
        /\ p.clean \in BOOLEAN /\ p.will \in BOOLEAN /\ p.try \in Nat
    BY <2>1, TakeDevice, DeviceFields
  <2> DEFINE conn == [NoConn EXCEPT !.will = p.will, !.clean = p.clean, !.try = p.try]
             r == [Disconnected(cl[c]) EXCEPT !.conn = conn, !.clean = p.clean,
                                              !.tid = IF p.clean THEN NoTopics ELSE cl[c].tid]
  <2>3. CASE Sleeping(c)
    <3>1. [cl[c] EXCEPT !.sleepQ = <<>>] \in Client
      BY <1>2, <1>3, <2>2 DEF Client
    <3>2. cl' = [cl EXCEPT ![c] = [cl[c] EXCEPT !.sleepQ = <<>>]]
      BY <1>5, <2>3 DEF HandleConnect
    <3>3. Len([cl[c] EXCEPT !.sleepQ = <<>>].sleepQ) <= MaxSaved
      BY <1>2, <1>3, <2>2 DEF Client
    <3>4. ClientsTyped'
      BY <1>1, <2>2, <3>1, <3>2, <3>3, ChangeClient
    <3>5. Posted(Tail(packetQ), StoredEvents(c)) \in Seq(PacketEvent)
      BY <2>2, StoredEventsType, PostedType
    <3>6. Append(clientQ, To(c, [type |-> "CONNACK", accepted |-> TRUE])) \in Seq(Event(SnPacket))
      BY <1>1, <2>2, AppendEvent, MadePackets DEF QueuesTyped
    <3>7. QueuesTyped'
      BY <1>1, <1>5, <2>3, <3>5, <3>6 DEF HandleConnect, QueuesTyped
    <3> QED
      BY <2>2, <3>4, <3>7
  <2>4. CASE ~Sleeping(c)
    <3>1. conn \in Conn
      BY <2>2 DEF NoConn, Conn
    <3>2. Disconnected(cl[c]) \in Client /\ Disconnected(cl[c]).sleepQ = cl[c].sleepQ
      BY <1>2, <2>2, DisconnectedType
    <3>3. NoTopics \in [Topics -> Nat]
      BY DEF NoTopics
    <3>4. r \in Client /\ r.sleepQ = cl[c].sleepQ
      BY <1>2, <2>2, <3>1, <3>2, <3>3 DEF Client
    <3>5. cl' = [cl EXCEPT ![c] = r]
      BY <1>5, <2>4 DEF HandleConnect
    <3>6. ClientsTyped'
      BY <1>1, <1>2, <2>2, <3>4, <3>5, ChangeClient
    <3>7. Append(clientQ, To(c, [type |-> "WILLTOPICREQ"])) \in Seq(Event(SnPacket))
      BY <1>1, <2>2, AppendEvent, MadePackets DEF QueuesTyped
    <3>8. Append(brokerQ, To(c, [type |-> "CONNECT", conn |-> conn])) \in Seq(Event(GwPacket))
      BY <1>1, <2>2, <3>1, AppendEvent, MadePackets DEF QueuesTyped
    <3>9. QueuesTyped'
      BY <1>1, <1>5, <2>2, <2>4, <3>7, <3>8 DEF HandleConnect, QueuesTyped
    <3> QED
      BY <2>2, <3>6, <3>9
  <2> QED
    BY <2>3, <2>4
<1>6. CASE HandleWilltopic
  <2>1. FromDevice("WILLTOPIC")
    BY <1>6 DEF HandleWilltopic
  <2>2. c \in Clients /\ Tail(packetQ) \in Seq(PacketEvent) /\ RestTyped' /\ p.try \in Nat
    BY <2>1, TakeDevice, DeviceFields
  <2> DEFINE r == [cl[c] EXCEPT !.waitWill = TRUE, !.conn.topic = p.try]
  <2>3. r \in Client /\ r.sleepQ = cl[c].sleepQ
    <3> DEFINE k == [cl[c].conn EXCEPT !.topic = p.try]
    <3>1. cl[c] \in Client /\ cl[c].conn \in Conn
      BY <1>2, <2>2 DEF Client
    <3>2. k \in Conn
      BY <2>2, <3>1 DEF Conn
    <3>3. r = [cl[c] EXCEPT !.waitWill = TRUE, !.conn = k]
      OBVIOUS
    <3>4. TRUE \in BOOLEAN
      OBVIOUS
    <3> HIDE DEF r, k
    <3> QED
      BY <3>1, <3>2, <3>3, <3>4, SetConnType
  <2>4. cl' = [cl EXCEPT ![c] = r]
    BY <1>6 DEF HandleWilltopic
  <2>5. ClientsTyped'
    BY <1>1, <1>2, <2>2, <2>3, <2>4, ChangeClient
  <2>6. Append(clientQ, To(c, [type |-> "WILLMSGREQ"])) \in Seq(Event(SnPacket))
    BY <1>1, <2>2, AppendEvent, MadePackets DEF QueuesTyped
  <2>7. QueuesTyped'
    BY <1>1, <1>6, <2>2, <2>6 DEF HandleWilltopic, QueuesTyped
  <2> QED
    BY <2>2, <2>5, <2>7
<1>7. CASE HandleWillmsg
  <2>1. FromDevice("WILLMSG")
    BY <1>7 DEF HandleWillmsg
  <2>2. c \in Clients /\ Tail(packetQ) \in Seq(PacketEvent) /\ RestTyped' /\ p.try \in Nat
    BY <2>1, TakeDevice, DeviceFields
  <2> DEFINE conn == [cl[c].conn EXCEPT !.msg = p.try]
             r == [cl[c] EXCEPT !.conn = conn, !.waitWill = FALSE]
  <2>3. conn \in Conn
    BY <1>2, <2>2 DEF Client, Conn
  <2>4. r \in Client /\ r.sleepQ = cl[c].sleepQ
    BY <1>2, <2>2, <2>3 DEF Client
  <2>5. cl' = [cl EXCEPT ![c] = r] \/ cl' = cl
    BY <1>7 DEF HandleWillmsg
  <2>6. ClientsTyped'
    BY <1>1, <1>2, <2>2, <2>4, <2>5, ChangeClient DEF ClientsTyped
  <2>7. Append(brokerQ, To(c, [type |-> "CONNECT", conn |-> conn])) \in Seq(Event(GwPacket))
    BY <1>1, <2>2, <2>3, AppendEvent, MadePackets DEF QueuesTyped
  <2>8. QueuesTyped'
    BY <1>1, <1>7, <2>2, <2>7 DEF HandleWillmsg, QueuesTyped
  <2> QED
    BY <2>2, <2>6, <2>8
<1>8. CASE HandleDisconnect
  <2>1. FromDevice("DISCONNECT")
    BY <1>8 DEF HandleDisconnect
  <2>2. c \in Clients /\ Tail(packetQ) \in Seq(PacketEvent) /\ RestTyped'
    BY <2>1, TakeDevice
  <2>3. Append(clientQ, To(c, [type |-> "DISCONNECT"])) \in Seq(Event(SnPacket))
    BY <1>1, <2>2, AppendEvent, MadePackets DEF QueuesTyped
  <2>4. Append(brokerQ, To(c, [type |-> "DISCONNECT"])) \in Seq(Event(GwPacket))
    BY <1>1, <2>2, AppendEvent, MadePackets DEF QueuesTyped
  <2> QED
    BY <1>1, <1>8, <2>2, <2>3, <2>4 DEF HandleDisconnect, QueuesTyped, ClientsTyped
<1>9. CASE HandlePingreq
  <2>1. FromDevice("PINGREQ")
    BY <1>9 DEF HandlePingreq
  <2>2. c \in Clients /\ Tail(packetQ) \in Seq(PacketEvent) /\ RestTyped'
    BY <2>1, TakeDevice
  <2> DEFINE r == [cl[c] EXCEPT !.sleepQ = <<>>, !.holdPing = TRUE]
             s == [cl[c] EXCEPT !.holdPing = FALSE]
  <2>3. r \in Client /\ s \in Client /\ r.sleepQ = <<>> /\ s.sleepQ = cl[c].sleepQ
    BY <1>2, <1>3, <2>2 DEF Client
  <2>4. cl' = [cl EXCEPT ![c] = r] \/ cl' = [cl EXCEPT ![c] = s]
    BY <1>9 DEF HandlePingreq
  <2>5. ClientsTyped'
    BY <1>1, <1>2, <1>3, <2>2, <2>3, <2>4, ChangeClient
  <2>6. Posted(Tail(packetQ), StoredEvents(c)) \in Seq(PacketEvent)
    BY <2>2, StoredEventsType, PostedType
  <2>7. Append(brokerQ, To(c, [type |-> "PINGREQ"])) \in Seq(Event(GwPacket))
    BY <1>1, <2>2, AppendEvent, MadePackets DEF QueuesTyped
  <2>8. QueuesTyped'
    BY <1>1, <1>9, <2>2, <2>6, <2>7 DEF HandlePingreq, QueuesTyped
  <2> QED
    BY <2>2, <2>5, <2>8
<1>10. CASE HandleRegAck
  <2>1. FromDevice("REGACK")
    BY <1>10 DEF HandleRegAck
  <2>2. c \in Clients /\ Tail(packetQ) \in Seq(PacketEvent) /\ RestTyped'
    BY <2>1, TakeDevice
  <2> DEFINE found == FirstHeld(c, p.msgId)
             k == CHOOSE i \in found : TRUE
             left == IF found = {} THEN cl[c].held ELSE WithoutIndex(cl[c].held, k)
             h == cl[c].held[k]
             pub == [type |-> "PUBLISH", pub |-> h.pub, tid |-> h.tid]
             ping == cl[c].holdPing /\ left = <<>>
             r == [cl[c] EXCEPT !.held = left, !.holdPing = @ /\ ~ping]
  <2>3. cl[c].held \in Seq(Held) /\ cl[c].holdPing \in BOOLEAN
    BY <1>2, <2>2 DEF Client
  <2>4. found # {} => k \in DOMAIN cl[c].held
    BY DEF FirstHeld
  <2>5. left \in Seq(Held)
    BY <2>3, <2>4, WithoutIndexType
  <2>6. found # {} => h \in Held
    BY <2>3, <2>4, ElementOfSeq, LenProperties
  <2>7. found # {} => pub \in SnPacket
    BY <2>6, MadePackets DEF Held
  <2>8. r \in Client /\ r.sleepQ = cl[c].sleepQ
    <3>1. r = [cl[c] EXCEPT !.held = left, !.holdPing = cl[c].holdPing /\ ~ping]
      OBVIOUS
    <3>2. (cl[c].holdPing /\ ~ping) \in BOOLEAN
      OBVIOUS
    <3> HIDE DEF left, ping, r
    <3> QED
      BY <1>2, <2>2, <2>5, <3>1, <3>2, SetHeldType
  <2>9. cl' = [cl EXCEPT ![c] = r] \/ cl' = cl
    BY <1>10 DEF HandleRegAck
  <2>10. ClientsTyped'
    BY <1>1, <1>2, <2>2, <2>8, <2>9, ChangeClient DEF ClientsTyped
  <2>11. found # {} => Append(clientQ, To(c, pub)) \in Seq(Event(SnPacket))
    BY <1>1, <2>2, <2>7, AppendEvent DEF QueuesTyped
  <2>12. Append(brokerQ, To(c, [type |-> "PINGREQ"])) \in Seq(Event(GwPacket))
    BY <1>1, <2>2, AppendEvent, MadePackets DEF QueuesTyped
  <2>13. clientQ' \in {clientQ, Append(clientQ, To(c, pub))} /\ (found = {} => clientQ' = clientQ)
    BY <1>10 DEF HandleRegAck
  <2>14. brokerQ' \in {brokerQ, Append(brokerQ, To(c, [type |-> "PINGREQ"]))}
    BY <1>10 DEF HandleRegAck
  <2>15. packetQ' = Tail(packetQ)
    BY <1>10 DEF HandleRegAck
  <2>16. QueuesTyped'
    BY <1>1, <2>2, <2>11, <2>12, <2>13, <2>14, <2>15 DEF QueuesTyped
  <2> QED
    BY <2>2, <2>10, <2>16
<1> QED
  BY <1>5, <1>6, <1>7, <1>8, <1>9, <1>10

(* updateStatus() after a packet of a device.                              *)
LEMMA UpdateStatusType == TypeOK /\ UpdateStatus => TypeOK'
<1> SUFFICES ASSUME TypeOK, UpdateStatus PROVE TypeOK'
  OBVIOUS
<1>1. ClientsTyped /\ QueuesTyped /\ RestTyped
  BY TypeParts
<1>2. upd.client \in Clients
  BY DEF TypeOK, UpdateStatus, DeviceEvent
<1> DEFINE r == UpdatedStatus(cl[upd.client], upd.pkt)
<1>3. r \in Client /\ Len(r.sleepQ) <= MaxSaved
  BY <1>1, <1>2, UpdatedStatusType DEF ClientsTyped
<1>4. cl' = [cl EXCEPT ![upd.client] = r]
  BY DEF UpdateStatus
<1>5. ClientsTyped'
  BY <1>1, <1>2, <1>3, <1>4, ChangeClient
<1> QED
  BY <1>1, <1>5 DEF UpdateStatus, TypeOK, ClientsTyped

(* The PUBLISHes of the broker.                                            *)
LEMMA HandlePublishType == TypeOK /\ HandlePublish => TypeOK'
<1> SUFFICES ASSUME TypeOK, HandlePublish PROVE TypeOK'
  OBVIOUS
<1> DEFINE c == Head(packetQ).client
           m == Head(packetQ).pkt.pub
           t == TopicOf[m]
<1>1. ClientsTyped /\ QueuesTyped /\ RestTyped
  BY TypeParts
<1>2. FromBroker("PUBLISH") /\ net' = net /\ packetQ' = Tail(packetQ)
  BY DEF HandlePublish
<1>3. c \in Clients /\ m \in Pubs /\ packetQ' \in Seq(PacketEvent) /\ RestTyped'
  BY <1>1, <1>2, TakeBroker, BrokerFields DEF RestTyped
<1>4. /\ cl[c] \in Client /\ Len(cl[c].sleepQ) <= MaxSaved
      /\ t \in Topics /\ cl[c].tid \in [Topics -> Nat]
  BY <1>1, <1>3, SessionAssumption DEF ClientsTyped, Client
<1>5. SUFFICES ClientsTyped' /\ brokerQ' \in Seq(Event(GwPacket))
                            /\ clientQ' \in Seq(Event(SnPacket))
  BY <1>3 DEF TypeOK, ClientsTyped, RestTyped
<1>6. ReplyAck(c, m) \in Seq(Event(GwPacket))
  <2>1. \A a \in {"PUBACK", "PUBREC"} :
            Append(brokerQ, To(c, [type |-> a, pub |-> m])) \in Seq(Event(GwPacket))
    BY <1>1, <1>3, AppendEvent, MadePackets DEF QueuesTyped
  <2> QED
    BY <1>1, <2>1 DEF ReplyAck, QueuesTyped
<1>7. CASE PublishDropped(c)
  BY <1>1, <1>7 DEF PublishDropped, ClientsTyped, QueuesTyped
<1>8. CASE PublishSaved(c, m)
  <2> DEFINE r == [cl[c] EXCEPT !.sleepQ = Append(cl[c].sleepQ, m)]
  <2>1. cl[c].sleepQ \in Seq(Pubs)
    BY <1>4 DEF Client
  <2>2. r \in Client /\ r.sleepQ = Append(cl[c].sleepQ, m)
    BY <1>3, <1>4, <2>1, AppendProperties DEF Client
  <2>3. HasRoom(cl[c].sleepQ) => Len(r.sleepQ) <= MaxSaved
    BY <1>3, <2>1, <2>2, AppendProperties, LenProperties, SessionAssumption DEF HasRoom
  <2>4. \/ HasRoom(cl[c].sleepQ) /\ cl' = [cl EXCEPT ![c] = r]
        \/ cl' = cl
    BY <1>8 DEF PublishSaved
  <2>5. ClientsTyped'
    BY <1>1, <1>3, <2>2, <2>3, <2>4, ChangeClient DEF ClientsTyped
  <2> QED
    BY <1>1, <1>6, <1>8, <2>5 DEF PublishSaved, QueuesTyped
<1>9. CASE PublishKnown(c, m)
  <2>1. cl[c].tid[t] \in Nat
    BY <1>4
  <2>2. Append(clientQ, To(c, [type |-> "PUBLISH", pub |-> m, tid |-> cl[c].tid[t]]))
            \in Seq(Event(SnPacket))
    BY <1>1, <1>3, <2>1, AppendEvent, MadePackets DEF QueuesTyped
  <2> QED
    BY <1>1, <1>9, <2>2 DEF PublishKnown, ClientsTyped, QueuesTyped
<1>10. CASE PublishUnmatched(c, m)
  BY <1>1, <1>6, <1>10 DEF PublishUnmatched, ClientsTyped, QueuesTyped
<1>11. CASE PublishRegister(c, m)
  <2>1. CASE cl' = cl /\ clientQ' = clientQ
    BY <1>1, <1>11, <2>1 DEF PublishRegister, ClientsTyped, QueuesTyped
  <2>2. CASE Cardinality(NormalTopics(c)) < MaxNormal
    <3> DEFINE tid == NextTid(c)
               id == NextSnMsgId(c)
               h == [msgId |-> id, pub |-> m, tid |-> tid]
               r == [cl[c] EXCEPT !.held = Append(cl[c].held, h), !.snMsgId = id,
                                  !.nextTid = tid, !.tid[t] = tid]
    <3>1. /\ tid \in Nat /\ tid \in Nat \ {0} /\ tid \in 0..MaxTid
          /\ id \in 1..MaxSnMsgId /\ id \in 0..MaxSnMsgId
      <4>1. cl[c].nextTid \in 0..MaxTid /\ cl[c].snMsgId \in 0..MaxSnMsgId
        BY <1>4 DEF Client
      <4> QED
        BY <4>1, SessionAssumption DEF NextSnMsgId, NextTid
    <3>2. h \in Held
      BY <1>3, <3>1 DEF Held
    <3>3. cl[c].held \in Seq(Held) /\ Append(cl[c].held, h) \in Seq(Held)
      BY <1>4, <3>2, AppendProperties DEF Client
    <3>4. [cl[c].tid EXCEPT ![t] = tid] \in [Topics -> Nat]
      BY <1>4, <3>1
    <3> HIDE DEF tid, id, h
    <3>5. r \in Client /\ r.sleepQ = cl[c].sleepQ
      BY <1>4, <3>1, <3>3, <3>4 DEF Client
    <3>6. cl' = [cl EXCEPT ![c] = r]
      BY <1>11, <2>2 DEF PublishRegister, tid, id, h
    <3>7. ClientsTyped'
      BY <1>1, <1>3, <1>4, <3>5, <3>6, ChangeClient
    <3>8. clientQ' = PostRegister(c, id, tid)
      BY <1>11, <2>2 DEF PublishRegister, tid, id
    <3>9. clientQ' \in Seq(Event(SnPacket))
      BY <1>1, <1>3, <3>1, <3>8, AppendEvent, MadePackets DEF PostRegister, QueuesTyped
    <3> QED
      BY <1>1, <1>11, <3>7, <3>9 DEF PublishRegister, QueuesTyped
  <2> QED
    BY <1>11, <2>1, <2>2 DEF PublishRegister
<1> QED
  BY <1>7, <1>8, <1>9, <1>10, <1>11 DEF HandlePublish

(* The other packets of the broker.                                        *)
LEMMA BrokerHandlersType ==
    TypeOK /\ (HandleConnack \/ HandlePingresp \/ HandleBrokerDisconnect) => TypeOK'
<1> SUFFICES ASSUME TypeOK, HandleConnack \/ HandlePingresp \/ HandleBrokerDisconnect
             PROVE  TypeOK'
  OBVIOUS
<1> DEFINE c == Head(packetQ).client
           p == Head(packetQ).pkt
<1>1. ClientsTyped /\ QueuesTyped /\ RestTyped
  BY TypeParts
<1>2. \A d \in Clients : cl[d] \in Client /\ Len(cl[d].sleepQ) <= MaxSaved
  BY <1>1 DEF ClientsTyped
<1>3. SUFFICES ClientsTyped' /\ QueuesTyped' /\ RestTyped'
  BY DEF TypeOK, ClientsTyped, QueuesTyped, RestTyped
<1>4. CASE HandleConnack
  <2>1. FromBroker("CONNACK") /\ net' = net
    BY <1>4 DEF HandleConnack
  <2>2. c \in Clients /\ p.accepted \in BOOLEAN /\ Tail(packetQ) \in Seq(PacketEvent) /\ RestTyped'
    BY <1>1, <2>1, TakeBroker, BrokerFields DEF RestTyped
  <2> DEFINE r == [cl[c] EXCEPT !.status = "Active"]
             s == Disconnected(cl[c])
  <2>3. r \in Client /\ s \in Client /\ r.sleepQ = cl[c].sleepQ /\ s.sleepQ = cl[c].sleepQ
    <3>1. cl[c] \in Client /\ "Active" \in Status
      BY <1>2, <2>2 DEF Status
    <3> QED
      BY <3>1, SetStatusType, DisconnectedType
  <2>4. cl' = [cl EXCEPT ![c] = r] \/ cl' = [cl EXCEPT ![c] = s]
    BY <1>4 DEF HandleConnack
  <2>5. ClientsTyped'
    BY <1>1, <1>2, <2>2, <2>3, <2>4, ChangeClient
  <2>6. Append(clientQ, To(c, [type |-> "CONNACK", accepted |-> p.accepted]))
            \in Seq(Event(SnPacket))
    BY <1>1, <2>2, AppendEvent, MadePackets DEF QueuesTyped
  <2>7. QueuesTyped'
    BY <1>1, <1>4, <2>2, <2>6 DEF HandleConnack, QueuesTyped
  <2> QED
    BY <2>2, <2>5, <2>7
<1>5. CASE HandlePingresp
  <2>1. FromBroker("PINGRESP") /\ net' = net
    BY <1>5 DEF HandlePingresp
  <2>2. c \in Clients /\ Tail(packetQ) \in Seq(PacketEvent) /\ RestTyped'
    BY <1>1, <2>1, TakeBroker DEF RestTyped
  <2> DEFINE r == UpdatedStatus(cl[c], [type |-> "PINGRESP"])
  <2>3. r \in Client /\ Len(r.sleepQ) <= MaxSaved
    BY <1>2, <2>2, UpdatedStatusType
  <2>4. cl' = [cl EXCEPT ![c] = r]
    BY <1>5 DEF HandlePingresp
  <2>5. ClientsTyped'
    BY <1>1, <2>2, <2>3, <2>4, ChangeClient
  <2>6. Append(clientQ, To(c, [type |-> "PINGRESP"])) \in Seq(Event(SnPacket))
    BY <1>1, <2>2, AppendEvent, MadePackets DEF QueuesTyped
  <2>7. QueuesTyped'
    BY <1>1, <1>5, <2>2, <2>6 DEF HandlePingresp, QueuesTyped
  <2> QED
    BY <2>2, <2>5, <2>7
<1>6. CASE HandleBrokerDisconnect
  <2>1. FromBroker("DISCONNECT") /\ net' = net
    BY <1>6 DEF HandleBrokerDisconnect
  <2>2. net' \in [Clients -> Link]
    BY <1>1, <2>1 DEF RestTyped
  <2>3. c \in Clients /\ Tail(packetQ) \in Seq(PacketEvent) /\ RestTyped'
    BY <2>1, <2>2, TakeBroker
  <2>4. cl' = [cl EXCEPT ![c] = Disconnected(cl[c])]
    BY <1>6 DEF HandleBrokerDisconnect
  <2>5. ClientsTyped'
    BY <1>1, <1>2, <2>3, <2>4, DisconnectedType, ChangeClient
  <2>6. QueuesTyped'
    BY <1>1, <1>6, <2>3 DEF HandleBrokerDisconnect, QueuesTyped
  <2> QED
    BY <2>3, <2>5, <2>6
<1> QED
  BY <1>4, <1>5, <1>6

(* BrokerSendTask.                                                         *)
LEMMA BrokerSendType == TypeOK /\ BrokerSendStep => TypeOK'
<1> SUFFICES ASSUME TypeOK, BrokerSendStep PROVE TypeOK'
  OBVIOUS
<1>1. ClientsTyped /\ QueuesTyped /\ RestTyped
  BY TypeParts
<1>2. \A d \in Clients : cl[d] \in Client /\ Len(cl[d].sleepQ) <= MaxSaved
  BY <1>1 DEF ClientsTyped
<1>3. SUFFICES ClientsTyped' /\ QueuesTyped' /\ RestTyped'
  BY DEF TypeOK, ClientsTyped, QueuesTyped, RestTyped
<1> DEFINE c == Head(brokerQ).client
           p == Head(brokerQ).pkt
<1>4. brokerQ # <<>> => /\ Head(brokerQ) \in Event(GwPacket)
                       /\ Tail(brokerQ) \in Seq(Event(GwPacket))
                       /\ c \in Clients
  <2>1. \A e \in Event(GwPacket) : e.client \in Clients
    BY DEF Event
  <2> QED
    BY <1>1, <2>1, HeadTailProperties DEF QueuesTyped
<1>5. CASE BrokerSend
  <2>1. PICK link \in Reactions(IF Reuses(c, p) THEN net[c] ELSE NewLink, p) :
            net' = [net EXCEPT ![c] = link]
    BY <1>5 DEF BrokerSend
  <2>2. link \in Link
    BY <1>1, <1>4, <1>5, <2>1, LinkTypes, ReactionsType DEF BrokerSend, RestTyped
  <2> QED
    BY <1>1, <1>4, <1>5, <2>1, <2>2 DEF BrokerSend, ClientsTyped, QueuesTyped, RestTyped
<1>6. CASE BrokerSent
  <2>1. sent.client \in Clients
    BY <1>1, <1>6 DEF BrokerSent, RestTyped, Event
  <2> DEFINE r == [cl[sent.client] EXCEPT !.status = "Connecting"]
             s == Disconnected(cl[sent.client])
  <2>2. /\ r \in Client /\ r.sleepQ = cl[sent.client].sleepQ
        /\ s \in Client /\ s.sleepQ = cl[sent.client].sleepQ
    <3>1. cl[sent.client] \in Client /\ "Connecting" \in Status
      BY <1>2, <2>1 DEF Status
    <3> QED
      BY <3>1, SetStatusType, DisconnectedType
  <2>3. cl' = [cl EXCEPT ![sent.client] = r] \/ cl' = [cl EXCEPT ![sent.client] = s]
    BY <1>6 DEF BrokerSent
  <2>4. ClientsTyped'
    BY <1>1, <1>2, <2>1, <2>2, <2>3, ChangeClient
  <2>5. net' \in [Clients -> Link]
    BY <1>1, <1>6, LinkTypes DEF BrokerSent, RestTyped
  <2> QED
    BY <1>1, <1>6, <2>4, <2>5 DEF BrokerSent, QueuesTyped, RestTyped
<1>7. CASE BrokerConnectFails
  <2>1. net' \in [Clients -> Link]
    BY <1>1, <1>7, LinkTypes DEF BrokerConnectFails, RestTyped
  <2> QED
    BY <1>1, <1>4, <1>7, <2>1 DEF BrokerConnectFails, ClientsTyped, QueuesTyped, RestTyped
<1>8. CASE BrokerSendFails
  <2>1. net' \in [Clients -> Link]
    BY <1>1, <1>8, LinkTypes DEF BrokerSendFails, RestTyped
  <2>2. packetQ' \in Seq(PacketEvent)
    BY <1>1, <1>4, <1>8, PostBrokerRecv, MadePackets DEF BrokerSendFails, QueuesTyped
  <2> QED
    BY <1>1, <1>4, <1>8, <2>1, <2>2 DEF BrokerSendFails, ClientsTyped, QueuesTyped, RestTyped
<1> QED
  BY <1>5, <1>6, <1>7, <1>8 DEF BrokerSendStep

(* BrokerRecvTask and the broker.                                          *)
LEMMA BrokerRecvType ==
    ASSUME TypeOK, NEW c \in Clients, BrokerRecvStep(c) \/ BrokerStep(c)
    PROVE  TypeOK'
<1>1. ClientsTyped /\ QueuesTyped /\ RestTyped
  BY TypeParts
<1>2. cl[c] \in Client /\ Len(cl[c].sleepQ) <= MaxSaved /\ net[c] \in Link
  BY <1>1 DEF ClientsTyped, RestTyped
<1>3. SUFFICES ClientsTyped' /\ QueuesTyped' /\ RestTyped'
  BY DEF TypeOK, ClientsTyped, QueuesTyped, RestTyped
<1>4. CASE BrokerRecvPacket(c)
  <2>1. net[c].down \in Seq(BrokerPacket) /\ net[c].down # <<>>
    BY <1>2, <1>4 DEF BrokerRecvPacket, Link
  <2>2. Head(net[c].down) \in BrokerPacket /\ Tail(net[c].down) \in Seq(BrokerPacket)
    BY <2>1, HeadTailProperties
  <2>3. packetQ' \in Seq(PacketEvent)
    BY <1>1, <1>4, <2>2, PostBrokerRecv DEF BrokerRecvPacket, QueuesTyped
  <2>4. [net[c] EXCEPT !.down = Tail(@)] \in Link
    BY <1>2, <2>2 DEF Link
  <2>5. net' \in [Clients -> Link]
    BY <1>1, <1>4, <2>4 DEF BrokerRecvPacket, RestTyped
  <2> QED
    BY <1>1, <1>4, <2>3, <2>5 DEF BrokerRecvPacket, ClientsTyped, QueuesTyped, RestTyped
<1>5. CASE BrokerRecvClosed(c)
  <2>1. cl' = [cl EXCEPT ![c] = Disconnected(cl[c])]
    BY <1>5 DEF BrokerRecvClosed
  <2>2. ClientsTyped'
    BY <1>1, <1>2, <2>1, DisconnectedType, ChangeClient
  <2>3. net' \in [Clients -> Link]
    BY <1>1, <1>5, LinkTypes DEF BrokerRecvClosed, RestTyped
  <2> QED
    BY <1>1, <1>5, <2>2, <2>3 DEF BrokerRecvClosed, QueuesTyped, RestTyped
<1>6. ASSUME NEW m \in Pubs, BrokerPublish(c, m)
      PROVE  ClientsTyped' /\ QueuesTyped' /\ RestTyped'
  <2>1. Append(net[c].down, [type |-> "PUBLISH", pub |-> m]) \in Seq(BrokerPacket)
    BY <1>2, MadePackets, AppendProperties DEF Link
  <2>2. [net[c] EXCEPT !.down = Append(@, [type |-> "PUBLISH", pub |-> m])] \in Link
    BY <1>2, <2>1 DEF Link
  <2>3. net' \in [Clients -> Link]
    BY <1>1, <1>6, <2>2 DEF BrokerPublish, RestTyped
  <2>4. published' \in [Clients -> SUBSET Pubs]
    BY <1>1, <1>6 DEF BrokerPublish, RestTyped
  <2> QED
    BY <1>1, <1>6, <2>3, <2>4 DEF BrokerPublish, ClientsTyped, QueuesTyped, RestTyped
<1>7. CASE BrokerCloses(c)
  <2>1. [net[c] EXCEPT !.peer = "gone"] \in Link
    BY <1>2 DEF Link
  <2>2. net' \in [Clients -> Link]
    BY <1>1, <1>7, <2>1 DEF BrokerCloses, RestTyped
  <2> QED
    BY <1>1, <1>7, <2>2 DEF BrokerCloses, ClientsTyped, QueuesTyped, RestTyped
<1> QED
  BY <1>4, <1>5, <1>6, <1>7 DEF BrokerRecvStep, BrokerStep

(* ClientSendTask: a packet arrives at the device or is lost.              *)
LEMMA ClientSendType == TypeOK /\ (ClientSend \/ ClientSendLost) => TypeOK'
<1> SUFFICES ASSUME TypeOK, ClientSend \/ ClientSendLost PROVE TypeOK'
  OBVIOUS
<1> DEFINE c == Head(clientQ).client
           p == Head(clientQ).pkt
<1>1. ClientsTyped /\ QueuesTyped /\ RestTyped
  BY TypeParts
<1>2. SUFFICES ClientsTyped' /\ QueuesTyped' /\ RestTyped'
  BY DEF TypeOK, ClientsTyped, QueuesTyped, RestTyped
<1>3. Head(clientQ) \in Event(SnPacket) /\ Tail(clientQ) \in Seq(Event(SnPacket))
  BY <1>1, HeadTailProperties DEF ClientSend, ClientSendLost, QueuesTyped
<1>4. c \in Clients /\ p \in SnPacket
  BY <1>3 DEF Event
<1>5. CASE ClientSend
  <2>1. Received(dev[c], p) \in Device
    BY <1>1, <1>4, ReceivedType DEF RestTyped
  <2>2. dev' \in [Clients -> Device]
    BY <1>1, <1>5, <2>1 DEF ClientSend, RestTyped
  <2> QED
    BY <1>1, <1>3, <1>5, <2>2 DEF ClientSend, ClientsTyped, QueuesTyped, RestTyped
<1>6. CASE ClientSendLost
  BY <1>1, <1>3, <1>6 DEF ClientSendLost, ClientsTyped, QueuesTyped, RestTyped
<1> QED
  BY <1>5, <1>6

(* Out of turn or not, a device adds one fault at most.                    *)
LEMMA AsksType ==
    ASSUME TypeOK, NEW inTurn, Asks(inTurn) \/ UNCHANGED faults
    PROVE  faults' \in Nat
  BY DEF TypeOK, Asks

(* A packet of a device reaches the packet queue or is answered at once.   *)
LEMMA DeviceSendsType ==
    ASSUME TypeOK, NEW c \in Clients, NEW d \in Device, NEW p \in DevicePacket,
           DeviceSends(c, d, p), faults' \in Nat
    PROVE  TypeOK'
<1>1. ClientsTyped /\ QueuesTyped /\ RestTyped
  BY TypeParts
<1>2. Append(clientQ, To(c, [type |-> "DISCONNECT"])) \in Seq(Event(SnPacket))
  BY <1>1, AppendEvent, MadePackets DEF QueuesTyped
<1>3. Posted(packetQ, <<ClientRecv(c, p)>>) \in Seq(PacketEvent)
  BY <1>1, PostClientRecv DEF QueuesTyped
<1>4. QueuesTyped'
  BY <1>1, <1>2, <1>3 DEF DeviceSends, RecvFromDevice, QueuesTyped
<1>5. RestTyped'
  BY <1>1 DEF DeviceSends, RestTyped
<1>6. ClientsTyped'
  BY <1>1 DEF DeviceSends, ClientsTyped
<1> QED
  BY <1>4, <1>5, <1>6 DEF TypeOK, ClientsTyped, QueuesTyped, RestTyped

(* The requests of a device.                                               *)
LEMMA DeviceRequestsType ==
    ASSUME TypeOK, NEW c \in Clients, NEW from, NEW to \in DeviceState, NEW p \in DevicePacket,
           DeviceRequests(c, from, to, p)
    PROVE  TypeOK'
<1>1. dev[c] \in Device
  BY DEF TypeOK
<1>2. dev[c].requests + 1 \in Nat
  BY <1>1 DEF Device
<1>3. [dev[c] EXCEPT !.st = to, !.requests = dev[c].requests + 1] \in Device
  BY <1>1, <1>2 DEF Device
<1> QED
  BY <1>3, DeviceSendsType, AsksType DEF DeviceRequests

(* Every request and answer of a device.                                   *)
LEMMA DeviceType == ASSUME TypeOK, NEW c \in Clients, DeviceStep(c) PROVE TypeOK'
<1>1. dev[c] \in Device
  BY DEF TypeOK
<1>2. {"connecting", "sleepReq", "discReq", "pinging", "awake"} \subseteq DeviceState
  BY DEF DeviceState
<1>3. CASE DeviceConnect(c)
  <2>1. PICK clean \in CleanFlags, will \in WillFlags :
            DeviceSends(c, [dev[c] EXCEPT !.st = "connecting", !.try = @ + 1, !.will = will,
                                          !.regs = {}],
                        [type |-> "CONNECT", clean |-> clean, will |-> will,
                         try |-> dev[c].try + 1])
    BY <1>3 DEF DeviceConnect
  <2>2. clean \in BOOLEAN /\ will \in BOOLEAN
    BY SessionAssumption
  <2>3. dev[c].try + 1 \in Nat /\ {} \in SUBSET Nat
    BY <1>1 DEF Device
  <2>4. [dev[c] EXCEPT !.st = "connecting", !.try = dev[c].try + 1, !.will = will, !.regs = {}]
            \in Device
    BY <1>1, <1>2, <2>2, <2>3 DEF Device
  <2>5. [type |-> "CONNECT", clean |-> clean, will |-> will, try |-> dev[c].try + 1]
            \in DevicePacket
    BY <2>2, <2>3 DEF DevicePacket
  <2>6. faults' \in Nat
    BY <1>3, AsksType DEF DeviceConnect
  <2> QED
    BY <2>1, <2>4, <2>5, <2>6, DeviceSendsType
<1>4. ASSUME NEW t \in {"WILLTOPIC", "WILLMSG"}, UNCHANGED faults,
             DeviceSends(c, [dev[c] EXCEPT !.st = "connecting"], [type |-> t, try |-> dev[c].try])
      PROVE  TypeOK'
  <2>1. [dev[c] EXCEPT !.st = "connecting"] \in Device
    BY <1>1, <1>2 DEF Device
  <2>2. [type |-> t, try |-> dev[c].try] \in DevicePacket
    BY <1>1 DEF Device, DevicePacket
  <2> QED
    BY <1>4, <2>1, <2>2, DeviceSendsType, AsksType
<1>5. CASE DeviceWilltopic(c)
  BY <1>4, <1>5 DEF DeviceWilltopic
<1>6. CASE DeviceWillmsg(c)
  BY <1>4, <1>6 DEF DeviceWillmsg
<1>7. CASE DeviceRegAck(c)
  <2>1. PICK id \in dev[c].regs :
            DeviceSends(c, [dev[c] EXCEPT !.regs = @ \ {id}], [type |-> "REGACK", msgId |-> id])
    BY <1>7 DEF DeviceRegAck
  <2>2. id \in Nat /\ [dev[c] EXCEPT !.regs = @ \ {id}] \in Device
    BY <1>1 DEF Device
  <2>3. [type |-> "REGACK", msgId |-> id] \in DevicePacket
    BY <2>2 DEF DevicePacket
  <2> QED
    BY <1>7, <2>1, <2>2, <2>3, DeviceSendsType, AsksType DEF DeviceRegAck
<1>8. \A b \in BOOLEAN : [type |-> "DISCONNECT", sleep |-> b] \in DevicePacket
  BY DEF DevicePacket
<1>9. [type |-> "PINGREQ"] \in DevicePacket
  BY DEF DevicePacket
<1>10. CASE DeviceSleep(c)
  BY <1>2, <1>8, <1>10, DeviceRequestsType DEF DeviceSleep
<1>11. CASE DeviceDisconnect(c)
  BY <1>2, <1>8, <1>11, DeviceRequestsType DEF DeviceDisconnect
<1>12. CASE DevicePing(c)
  BY <1>2, <1>9, <1>12, DeviceRequestsType DEF DevicePing
<1>13. CASE DeviceWake(c)
  BY <1>2, <1>9, <1>13, DeviceRequestsType DEF DeviceWake
<1> QED
  BY <1>3, <1>5, <1>6, <1>7, <1>10, <1>11, <1>12, <1>13 DEF DeviceStep, DeviceAnswers

-----------------------------------------------------------------------------
(* The gateway starts with new Clients and empty queues.                   *)
LEMMA InitType == Init => TypeOK
<1> SUFFICES ASSUME Init PROVE TypeOK
  OBVIOUS
<1>1. NewClient \in Client /\ Len(NewClient.sleepQ) <= MaxSaved
  BY SessionAssumption DEF NewClient, Client, NoConn, Conn, NoTopics, Status
<1>2. NewDevice \in Device
  BY DEF NewDevice, Device, DeviceState
<1> QED
  BY <1>1, <1>2, LinkTypes DEF Init, TypeOK

(* Every step of every task, of a device and of the broker keeps the types *)
(* and the bound on the saved PUBLISHes.                                   *)
LEMMA NextType == TypeOK /\ [Next]_vars => TypeOK'
<1> SUFFICES ASSUME TypeOK, [Next]_vars PROVE TypeOK'
  OBVIOUS
<1>1. CASE PacketHandle
  BY <1>1, DeviceHandlersType, UpdateStatusType, HandlePublishType, BrokerHandlersType
     DEF PacketHandle
<1>2. CASE BrokerSendStep
  BY <1>2, BrokerSendType
<1>3. CASE ClientSend \/ ClientSendLost
  BY <1>3, ClientSendType
<1>4. ASSUME NEW c \in Clients, BrokerRecvStep(c) \/ DeviceStep(c) \/ BrokerStep(c)
      PROVE  TypeOK'
  BY <1>4, BrokerRecvType, DeviceType
<1>5. CASE UNCHANGED vars
  BY <1>5 DEF vars, TypeOK
<1> QED
  BY <1>1, <1>2, <1>3, <1>4, <1>5 DEF Next

(* TypeOK holds in every reachable state, whatever is lost, repeated or    *)
(* interleaved: PacketQue::post never lets more than MaxSaved packets be   *)
(* saved, and the message ids that getNextSnMsgId gives stay in 1..255.    *)
THEOREM TypeCorrect == Spec => []TypeOK
  BY InitType, NextType, PTL DEF Spec

-----------------------------------------------------------------------------
(* What the broker publishes once is in one place at most                  *)

(* An element of E is in s, and two of them are.                           *)
Has(s, E) == \E i \in DOMAIN s : s[i] \in E
Twice(s, E) == \E i, j \in DOMAIN s : i # j /\ s[i] \in E /\ s[j] \in E

(* Publication m for client c in each of the sequences.                    *)
DownPub(m) == { p \in BrokerPacket : p.type = "PUBLISH" /\ p.pub = m }
QueuedPub(c, m) == { e \in PacketEvent : /\ e.client = c /\ e.src = "broker"
                                         /\ e.pkt.type = "PUBLISH" /\ e.pkt.pub = m }
HeldPub(m) == { h \in Held : h.pub = m }
PostedPub(c, m) == { e \in Event(SnPacket) : /\ e.client = c
                                             /\ e.pkt.type = "PUBLISH" /\ e.pkt.pub = m }

InDown(c, m) == Has(net[c].down, DownPub(m))
InQueue(c, m) == Has(packetQ, QueuedPub(c, m))
Saved(c, m) == Has(cl[c].sleepQ, {m})
InHeld(c, m) == Has(cl[c].held, HeldPub(m))
InClientQ(c, m) == Has(clientQ, PostedPub(c, m))
Got(c, m) == m \in dev[c].got

(* In no sequence twice.                                                   *)
NoTwice(c, m) ==
    /\ ~Twice(net[c].down, DownPub(m))
    /\ ~Twice(packetQ, QueuedPub(c, m))
    /\ ~Twice(cl[c].sleepQ, {m})
    /\ ~Twice(cl[c].held, HeldPub(m))
    /\ ~Twice(clientQ, PostedPub(c, m))

(* In one sequence only.                                                   *)
Apart(c, m) ==
    /\ InDown(c, m) => ~(InQueue(c, m) \/ Saved(c, m) \/ InHeld(c, m) \/ InClientQ(c, m) \/ Got(c, m))
    /\ InQueue(c, m) => ~(Saved(c, m) \/ InHeld(c, m) \/ InClientQ(c, m) \/ Got(c, m))
    /\ Saved(c, m) => ~(InHeld(c, m) \/ InClientQ(c, m) \/ Got(c, m))
    /\ InHeld(c, m) => ~(InClientQ(c, m) \/ Got(c, m))
    /\ InClientQ(c, m) => ~Got(c, m)

Somewhere(c, m) ==
    InDown(c, m) \/ InQueue(c, m) \/ Saved(c, m) \/ InHeld(c, m) \/ InClientQ(c, m) \/ Got(c, m)

(* AtMostOnce is not inductive by itself: what the broker may still        *)
(* publish must be nowhere.                                                *)
Once(c, m) == /\ NoTwice(c, m) /\ Apart(c, m)
              /\ Somewhere(c, m) => m \in published[c]

OnceInv == TypeOK /\ \A c \in Clients, m \in Pubs : Once(c, m)

-----------------------------------------------------------------------------
(* Has and Twice of the sequences that the handlers make                   *)

(* Append adds its element and nothing else.                               *)
LEMMA HasAppend ==
    ASSUME NEW S, NEW s \in Seq(S), NEW e \in S, NEW E
    PROVE  /\ Has(Append(s, e), E) <=> Has(s, E) \/ e \in E
           /\ Twice(Append(s, e), E) => Twice(s, E) \/ (Has(s, E) /\ e \in E)
<1> DEFINE t == Append(s, e)
<1>1. /\ DOMAIN s = 1..Len(s) /\ Len(s) \in Nat
      /\ DOMAIN t = 1..(Len(s) + 1)
      /\ \A i \in 1..Len(s) : t[i] = s[i]
      /\ t[Len(s) + 1] = e
  BY AppendProperties, LenProperties
<1> HIDE DEF t
<1>2. Has(t, E) <=> Has(s, E) \/ e \in E
  BY <1>1 DEF Has
<1>3. ASSUME Twice(t, E) PROVE Twice(s, E) \/ (Has(s, E) /\ e \in E)
  <2>1. PICK i \in DOMAIN t, j \in DOMAIN t : i # j /\ t[i] \in E /\ t[j] \in E
    BY <1>3 DEF Twice
  <2>2. CASE i \in 1..Len(s) /\ j \in 1..Len(s)
    BY <1>1, <2>1, <2>2 DEF Twice
  <2>3. CASE i \in 1..Len(s) /\ j = Len(s) + 1
    BY <1>1, <2>1, <2>3 DEF Has
  <2>4. CASE i = Len(s) + 1 /\ j \in 1..Len(s)
    BY <1>1, <2>1, <2>4 DEF Has
  <2> QED
    BY <1>1, <2>1, <2>2, <2>3, <2>4
<1> QED
  BY <1>2, <1>3 DEF t

(* Two sequences one after the other.                                      *)
LEMMA HasConcat ==
    ASSUME NEW S, NEW s \in Seq(S), NEW t \in Seq(S), NEW E
    PROVE  /\ Has(s \o t, E) => Has(s, E) \/ Has(t, E)
           /\ Twice(s \o t, E) => Twice(s, E) \/ Twice(t, E) \/ (Has(s, E) /\ Has(t, E))
<1> DEFINE u == s \o t
           n == Len(s)
<1>1. /\ DOMAIN s = 1..n /\ n \in Nat /\ DOMAIN t = 1..Len(t) /\ Len(t) \in Nat
      /\ DOMAIN u = 1..(n + Len(t))
      /\ \A i \in 1..(n + Len(t)) : u[i] = IF i <= n THEN s[i] ELSE t[i - n]
  BY ConcatProperties, LenProperties
<1> HIDE DEF u, n
<1>2. ASSUME NEW i \in DOMAIN u
      PROVE  \/ i \in DOMAIN s /\ u[i] = s[i]
             \/ i - n \in DOMAIN t /\ u[i] = t[i - n]
  BY <1>1, <1>2
<1>3. ASSUME Has(u, E) PROVE Has(s, E) \/ Has(t, E)
  BY <1>2, <1>3 DEF Has
<1>4. ASSUME Twice(u, E) PROVE Twice(s, E) \/ Twice(t, E) \/ (Has(s, E) /\ Has(t, E))
  <2>1. PICK i \in DOMAIN u, j \in DOMAIN u : i # j /\ u[i] \in E /\ u[j] \in E
    BY <1>4 DEF Twice
  <2>2. CASE i \in DOMAIN s /\ u[i] = s[i] /\ j \in DOMAIN s /\ u[j] = s[j]
    BY <2>1, <2>2 DEF Twice
  <2>3. CASE i - n \in DOMAIN t /\ u[i] = t[i - n] /\ j - n \in DOMAIN t /\ u[j] = t[j - n]
    <3>1. i - n # j - n
      BY <1>1, <2>1
    <3> QED
      BY <2>1, <2>3, <3>1 DEF Twice
  <2>4. CASE i \in DOMAIN s /\ u[i] = s[i] /\ j - n \in DOMAIN t /\ u[j] = t[j - n]
    BY <2>1, <2>4 DEF Has
  <2>5. CASE i - n \in DOMAIN t /\ u[i] = t[i - n] /\ j \in DOMAIN s /\ u[j] = s[j]
    BY <2>1, <2>5 DEF Has
  <2> QED
    BY <1>2, <2>1, <2>2, <2>3, <2>4, <2>5
<1> QED
  BY <1>3, <1>4 DEF u

(* A sequence whose elements are some of another's, in the same order.     *)
LEMMA HasSelected ==
    ASSUME NEW s, NEW t, NEW E, NEW f \in [DOMAIN t -> DOMAIN s],
           \A i \in DOMAIN t : t[i] = s[f[i]],
           \A i, j \in DOMAIN t : i # j => f[i] # f[j]
    PROVE  (Has(t, E) => Has(s, E)) /\ (Twice(t, E) => Twice(s, E))
<1>1. Has(t, E) => Has(s, E)
  BY DEF Has
<1>2. Twice(t, E) => Twice(s, E)
  BY DEF Twice
<1> QED
  BY <1>1, <1>2

(* The first elements of a sequence.                                       *)
LEMMA HasPrefix ==
    ASSUME NEW S, NEW s \in Seq(S), NEW n \in Nat, n <= Len(s), NEW E
    PROVE  /\ Has(SubSeq(s, 1, n), E) => Has(s, E)
           /\ Twice(SubSeq(s, 1, n), E) => Twice(s, E)
<1> DEFINE t == SubSeq(s, 1, n)
<1>1. DOMAIN s = 1..Len(s) /\ Len(s) \in Nat /\ \A i \in 1..Len(s) : s[i] \in S
  BY LenProperties, ElementOfSeq
<1>2. \A i \in 1..n : i \in 1..Len(s)
  BY <1>1
<1>3. \A i \in 1..n : s[i] \in S
  BY <1>1, <1>2
<1>4. t \in Seq(S) /\ Len(t) = n /\ \A i \in 1..n : t[i] = s[i]
  BY <1>1, <1>3, SubSeqProperties
<1>5. DOMAIN t = 1..n
  BY <1>4, LenProperties
<1> HIDE DEF t
<1>6. [i \in 1..n |-> i] \in [DOMAIN t -> DOMAIN s]
  BY <1>1, <1>2, <1>5
<1>7. (Has(t, E) => Has(s, E)) /\ (Twice(t, E) => Twice(s, E))
  BY <1>4, <1>5, <1>6, HasSelected
<1> QED
  BY <1>7 DEF t

(* The event that a task takes, and what it leaves.                        *)
LEMMA HasTail ==
    ASSUME NEW S, NEW s \in Seq(S), s # <<>>, NEW E
    PROVE  /\ Head(s) \in S /\ Tail(s) \in Seq(S)
           /\ Has(Tail(s), E) => Has(s, E)
           /\ Twice(Tail(s), E) => Twice(s, E)
           /\ Head(s) \in E => Has(s, E)
           /\ Head(s) \in E /\ Has(Tail(s), E) => Twice(s, E)
<1> DEFINE t == Tail(s)
<1>1. DOMAIN s = 1..Len(s) /\ Len(s) \in Nat /\ Len(s) # 0
  BY LenProperties, EmptySeq
<1>2. /\ Head(s) \in S /\ t \in Seq(S) /\ Head(s) = s[1]
      /\ Len(t) = Len(s) - 1 /\ \A i \in 1..Len(t) : t[i] = s[i + 1]
  BY HeadTailProperties
<1>3. DOMAIN t = 1..(Len(s) - 1)
  BY <1>2, LenProperties
<1> HIDE DEF t
<1>4. 1 \in DOMAIN s /\ \A i \in DOMAIN t : i + 1 \in DOMAIN s /\ i + 1 # 1
  BY <1>1, <1>3
<1>5. \A i, j \in DOMAIN t : i # j => i + 1 # j + 1
  BY <1>1, <1>3
<1> DEFINE f == [i \in DOMAIN t |-> i + 1]
<1>6. /\ f \in [DOMAIN t -> DOMAIN s]
      /\ \A i \in DOMAIN t : t[i] = s[f[i]]
      /\ \A i, j \in DOMAIN t : i # j => f[i] # f[j]
  BY <1>2, <1>3, <1>4, <1>5
<1> HIDE DEF f
<1>7. (Has(t, E) => Has(s, E)) /\ (Twice(t, E) => Twice(s, E))
  BY <1>6, HasSelected
<1>8. Head(s) \in E => Has(s, E)
  BY <1>2, <1>4 DEF Has
<1>9. ASSUME Head(s) \in E, Has(t, E) PROVE Twice(s, E)
  <2>1. PICK i \in DOMAIN t : t[i] \in E
    BY <1>9 DEF Has
  <2>2. s[1] \in E /\ s[i + 1] \in E
    BY <1>2, <1>3, <1>9, <2>1
  <2> QED
    BY <1>4, <2>1, <2>2 DEF Twice
<1> QED
  BY <1>2, <1>7, <1>8, <1>9 DEF t

(* Posting to the packet queue, which drops what has no room.              *)
LEMMA HasPosted ==
    ASSUME NEW q \in Seq(PacketEvent), NEW events \in Seq(PacketEvent), NEW E
    PROVE  /\ Has(Posted(q, events), E) => Has(q, E) \/ Has(events, E)
           /\ Twice(Posted(q, events), E) =>
                 Twice(q, E) \/ Twice(events, E) \/ (Has(q, E) /\ Has(events, E))
<1> DEFINE all == q \o events
<1>1. all \in Seq(PacketEvent) /\ Len(all) \in Nat /\ MaxPackets \in Nat
  BY ConcatProperties, LenProperties, SessionAssumption
<1>2. /\ Has(all, E) => Has(q, E) \/ Has(events, E)
      /\ Twice(all, E) => Twice(q, E) \/ Twice(events, E) \/ (Has(q, E) /\ Has(events, E))
  BY HasConcat
<1>3. CASE Len(all) <= MaxPackets
  BY <1>2, <1>3 DEF Posted
<1>4. CASE ~(Len(all) <= MaxPackets)
  <2>1. Posted(q, events) = SubSeq(all, 1, MaxPackets) /\ MaxPackets <= Len(all)
    BY <1>1, <1>4 DEF Posted
  <2> HIDE DEF all
  <2>2. /\ Has(SubSeq(all, 1, MaxPackets), E) => Has(all, E)
        /\ Twice(SubSeq(all, 1, MaxPackets), E) => Twice(all, E)
    BY <1>1, <2>1, HasPrefix
  <2> QED
    BY <1>2, <2>1, <2>2
<1> QED
  BY <1>3, <1>4

(* One event.                                                              *)
LEMMA HasOne ==
    ASSUME NEW e, NEW E
    PROVE  (Has(<<e>>, E) <=> e \in E) /\ ~Twice(<<e>>, E)
  BY DEF Has, Twice

(* The PUBLISH that handleRegAck takes out is not there any more.          *)
LEMMA HasWithoutIndex ==
    ASSUME NEW S, NEW s \in Seq(S), NEW i \in DOMAIN s, NEW E
    PROVE  /\ Has(WithoutIndex(s, i), E) => Has(s, E)
           /\ Twice(WithoutIndex(s, i), E) => Twice(s, E)
           /\ s[i] \in E /\ Has(WithoutIndex(s, i), E) => Twice(s, E)
<1> DEFINE t == WithoutIndex(s, i)
           f == [k \in 1..(Len(s) - 1) |-> IF k < i THEN k ELSE k + 1]
<1>1. DOMAIN s = 1..Len(s) /\ Len(s) \in Nat /\ i \in 1..Len(s)
  BY LenProperties
<1>2. \A j \in 1..Len(s) : s[j] \in S
  BY <1>1, ElementOfSeq
<1> DEFINE front == SubSeq(s, 1, i - 1)
           back == SubSeq(s, i + 1, Len(s))
<1>3. (\A j \in 1..(i - 1) : s[j] \in S) /\ (\A j \in (i + 1)..Len(s) : s[j] \in S)
  BY <1>1, <1>2
<1>4. /\ front \in Seq(S)
      /\ Len(front) = i - 1
      /\ \A j \in 1..(i - 1) : front[j] = s[j]
  <2>1. /\ front \in Seq(S)
        /\ Len(front) = IF 1 <= i - 1 THEN (i - 1) - 1 + 1 ELSE 0
        /\ \A j \in 1..((i - 1) - 1 + 1) : front[j] = s[1 + j - 1]
    BY <1>1, <1>3, SubSeqProperties
  <2> HIDE DEF front
  <2>2. (i - 1) - 1 + 1 = i - 1 /\ \A j \in 1..(i - 1) : 1 + j - 1 = j
    BY <1>1
  <2> QED
    BY <1>1, <2>1, <2>2
<1>5. /\ back \in Seq(S)
      /\ Len(back) = Len(s) - i
      /\ \A j \in 1..(Len(s) - i) : back[j] = s[i + j]
  <2>1. /\ back \in Seq(S)
        /\ Len(back) = IF i + 1 <= Len(s) THEN Len(s) - (i + 1) + 1 ELSE 0
        /\ \A j \in 1..(Len(s) - (i + 1) + 1) : back[j] = s[(i + 1) + j - 1]
    BY <1>1, <1>3, SubSeqProperties
  <2> HIDE DEF back
  <2>2. Len(s) - (i + 1) + 1 = Len(s) - i /\ \A j \in 1..(Len(s) - i) : (i + 1) + j - 1 = i + j
    BY <1>1
  <2> QED
    BY <1>1, <2>1, <2>2
<1> HIDE DEF front, back
<1>6. t = front \o back
  BY DEF WithoutIndex, front, back
<1> HIDE DEF t
<1>7. /\ DOMAIN t = 1..(Len(s) - 1)
      /\ \A k \in 1..(Len(s) - 1) : t[k] = IF k <= i - 1 THEN front[k] ELSE back[k - (i - 1)]
  <2>1. Len(front) + Len(back) = Len(s) - 1
    BY <1>1, <1>4, <1>5
  <2>2. /\ t \in Seq(S) /\ Len(t) = Len(front) + Len(back)
        /\ \A k \in 1..(Len(front) + Len(back)) :
              t[k] = IF k <= Len(front) THEN front[k] ELSE back[k - Len(front)]
    BY <1>4, <1>5, <1>6, ConcatProperties
  <2>3. DOMAIN t = 1..(Len(s) - 1)
    BY <2>1, <2>2, LenProperties
  <2>4. Len(front) = i - 1
    BY <1>4
  <2> QED
    BY <2>1, <2>2, <2>3, <2>4
<1>8. \A k \in DOMAIN t : t[k] = s[f[k]] /\ f[k] \in DOMAIN s /\ f[k] # i
  <2> SUFFICES ASSUME NEW k \in 1..(Len(s) - 1)
               PROVE  t[k] = s[f[k]] /\ f[k] \in DOMAIN s /\ f[k] # i
    BY <1>7
  <2>1. CASE k < i
    <3>1. k \in 1..(i - 1) /\ f[k] = k /\ k <= i - 1 /\ k \in 1..Len(s) /\ k # i
      BY <1>1, <2>1
    <3> QED
      BY <1>1, <1>4, <1>7, <3>1
  <2>2. CASE ~(k < i)
    <3>1. /\ k - (i - 1) \in 1..(Len(s) - i) /\ f[k] = k + 1 /\ ~(k <= i - 1)
          /\ i + (k - (i - 1)) = k + 1 /\ k + 1 \in 1..Len(s) /\ k + 1 # i
      BY <1>1, <2>2
    <3> QED
      BY <1>1, <1>5, <1>7, <3>1
  <2> QED
    BY <2>1, <2>2
<1>9. f \in [DOMAIN t -> DOMAIN s]
  BY <1>7, <1>8
<1>10. \A j, k \in DOMAIN t : j # k => f[j] # f[k]
  BY <1>1, <1>7
<1> HIDE DEF f
<1>11. (Has(t, E) => Has(s, E)) /\ (Twice(t, E) => Twice(s, E))
  BY <1>8, <1>9, <1>10, HasSelected
<1>12. s[i] \in E /\ Has(t, E) => Twice(s, E)
  BY <1>8 DEF Has, Twice
<1> QED
  BY <1>11, <1>12 DEF t

-----------------------------------------------------------------------------
(* Steps that bring a publication nowhere new                              *)

LessDown(c, m) == /\ InDown(c, m)' => InDown(c, m)
                  /\ Twice(net[c].down, DownPub(m))' => Twice(net[c].down, DownPub(m))

LessQueue(c, m) == /\ InQueue(c, m)' => InQueue(c, m)
                   /\ Twice(packetQ, QueuedPub(c, m))' => Twice(packetQ, QueuedPub(c, m))

LessSaved(c, m) == /\ Saved(c, m)' => Saved(c, m)
                   /\ Twice(cl[c].sleepQ, {m})' => Twice(cl[c].sleepQ, {m})

LessHeld(c, m) == /\ InHeld(c, m)' => InHeld(c, m)
                  /\ Twice(cl[c].held, HeldPub(m))' => Twice(cl[c].held, HeldPub(m))

LessClientQ(c, m) == /\ InClientQ(c, m)' => InClientQ(c, m)
                     /\ Twice(clientQ, PostedPub(c, m))' => Twice(clientQ, PostedPub(c, m))

LessGot(c, m) == Got(c, m)' => Got(c, m)

StillPublished(c, m) == m \in published[c] => m \in published'[c]

(* The sequences of a publication lose elements, or keep them.             *)
LEMMA FewerKeeps ==
    ASSUME NEW c, NEW m, Once(c, m),
           LessDown(c, m), LessQueue(c, m), LessSaved(c, m), LessHeld(c, m), LessClientQ(c, m),
           LessGot(c, m), StillPublished(c, m)
    PROVE  Once(c, m)'
  BY DEF Once, NoTwice, Apart, Somewhere, LessDown, LessQueue, LessSaved, LessHeld, LessClientQ,
         LessGot, StillPublished

(* What a step leaves alone.                                               *)
LEMMA LeftAlone ==
    ASSUME NEW c, NEW m
    PROVE  /\ net'[c].down = net[c].down => LessDown(c, m)
           /\ packetQ' = packetQ => LessQueue(c, m)
           /\ cl'[c].sleepQ = cl[c].sleepQ => LessSaved(c, m)
           /\ cl'[c].held = cl[c].held => LessHeld(c, m)
           /\ clientQ' = clientQ => LessClientQ(c, m)
           /\ dev'[c].got = dev[c].got => LessGot(c, m)
           /\ published' = published => StillPublished(c, m)
  BY DEF LessDown, LessQueue, LessSaved, LessHeld, LessClientQ, LessGot, StillPublished,
         InDown, InQueue, Saved, InHeld, InClientQ, Got

(* The Client objects after a step that touches neither list of PUBLISHes. *)
ListsKept == \A c \in Clients : cl'[c].sleepQ = cl[c].sleepQ /\ cl'[c].held = cl[c].held

LEMMA KeptLists ==
    ASSUME ListsKept, NEW c \in Clients, NEW m
    PROVE  LessSaved(c, m) /\ LessHeld(c, m)
  BY LeftAlone DEF ListsKept

(* A task takes an event.                                                  *)
LEMMA OnceTaken ==
    ASSUME TypeOK, NEW c, NEW m
    PROVE  /\ packetQ # <<>> /\ packetQ' = Tail(packetQ) => LessQueue(c, m)
           /\ clientQ # <<>> /\ clientQ' = Tail(clientQ) => LessClientQ(c, m)
<1>1. packetQ \in Seq(PacketEvent) /\ clientQ \in Seq(Event(SnPacket))
  BY DEF TypeOK
<1>2. ASSUME packetQ # <<>>, packetQ' = Tail(packetQ) PROVE LessQueue(c, m)
  <2>1. /\ Has(Tail(packetQ), QueuedPub(c, m)) => Has(packetQ, QueuedPub(c, m))
        /\ Twice(Tail(packetQ), QueuedPub(c, m)) => Twice(packetQ, QueuedPub(c, m))
    BY <1>1, <1>2, HasTail
  <2> QED
    BY <1>2, <2>1 DEF LessQueue, InQueue, QueuedPub
<1>3. ASSUME clientQ # <<>>, clientQ' = Tail(clientQ) PROVE LessClientQ(c, m)
  <2>1. /\ Has(Tail(clientQ), PostedPub(c, m)) => Has(clientQ, PostedPub(c, m))
        /\ Twice(Tail(clientQ), PostedPub(c, m)) => Twice(clientQ, PostedPub(c, m))
    BY <1>1, <1>3, HasTail
  <2> QED
    BY <1>3, <2>1 DEF LessClientQ, InClientQ, PostedPub
<1> QED
  BY <1>2, <1>3

(* An event is posted that is not this publication.                        *)
LEMMA PostedOther ==
    ASSUME TypeOK, NEW c, NEW m
    PROVE  /\ \A e \in PacketEvent :
                 e \notin QueuedPub(c, m) /\ packetQ' = Posted(packetQ, <<e>>) => LessQueue(c, m)
           /\ \A e \in Event(SnPacket) :
                 e \notin PostedPub(c, m) /\ clientQ' = Append(clientQ, e) => LessClientQ(c, m)
<1>1. packetQ \in Seq(PacketEvent) /\ clientQ \in Seq(Event(SnPacket))
  BY DEF TypeOK
<1>2. ASSUME NEW e \in PacketEvent, e \notin QueuedPub(c, m), packetQ' = Posted(packetQ, <<e>>)
      PROVE  LessQueue(c, m)
  <2>1. <<e>> \in Seq(PacketEvent)
    OBVIOUS
  <2>2. ~Has(<<e>>, QueuedPub(c, m)) /\ ~Twice(<<e>>, QueuedPub(c, m))
    BY <1>2, HasOne
  <2>3. /\ Has(packetQ', QueuedPub(c, m)) => Has(packetQ, QueuedPub(c, m))
        /\ Twice(packetQ', QueuedPub(c, m)) => Twice(packetQ, QueuedPub(c, m))
    BY <1>1, <1>2, <2>1, <2>2, HasPosted
  <2> QED
    BY <2>3 DEF LessQueue, InQueue, QueuedPub
<1>3. ASSUME NEW e \in Event(SnPacket), e \notin PostedPub(c, m), clientQ' = Append(clientQ, e)
      PROVE  LessClientQ(c, m)
  <2>1. /\ Has(clientQ', PostedPub(c, m)) => Has(clientQ, PostedPub(c, m))
        /\ Twice(clientQ', PostedPub(c, m)) => Twice(clientQ, PostedPub(c, m))
    BY <1>1, <1>3, HasAppend
  <2> QED
    BY <2>1 DEF LessClientQ, InClientQ, PostedPub
<1> QED
  BY <1>2, <1>3

(* A control packet for a device.                                          *)
LEMMA PostedControl ==
    ASSUME TypeOK, NEW c, NEW m, NEW c1 \in Clients, NEW p \in SnPacket, p.type # "PUBLISH",
           clientQ' = Append(clientQ, To(c1, p))
    PROVE  LessClientQ(c, m)
<1>1. To(c1, p) \in Event(SnPacket) /\ To(c1, p) \notin PostedPub(c, m)
  BY DEF To, Event, PostedPub
<1> QED
  BY <1>1, PostedOther

(* A connection that is closed, or on which something else arrives.        *)
LEMMA DownOther ==
    ASSUME TypeOK, NEW c \in Clients, NEW m, NEW c1 \in Clients, NEW link \in Link,
           net' = [net EXCEPT ![c1] = link],
           \/ link.down \in {<<>>, net[c1].down}
           \/ \E p \in BrokerPacket : /\ p.type # "PUBLISH"
                                      /\ link.down \in {<<p>>, Append(net[c1].down, p)}
    PROVE  LessDown(c, m)
<1>1. net \in [Clients -> Link] /\ net[c1].down \in Seq(BrokerPacket)
  BY DEF TypeOK, Link
<1>2. CASE c # c1
  BY <1>1, <1>2, LeftAlone
<1>3. CASE c = c1
  <2>1. net'[c].down = link.down
    BY <1>1, <1>3
  <2>2. ~Has(<<>>, DownPub(m)) /\ ~Twice(<<>>, DownPub(m))
    BY DEF Has, Twice
  <2>3. ASSUME NEW p \in BrokerPacket, p.type # "PUBLISH"
        PROVE  /\ ~Has(<<p>>, DownPub(m)) /\ ~Twice(<<p>>, DownPub(m))
               /\ Has(Append(net[c1].down, p), DownPub(m)) => Has(net[c1].down, DownPub(m))
               /\ Twice(Append(net[c1].down, p), DownPub(m)) => Twice(net[c1].down, DownPub(m))
    <3>1. p \notin DownPub(m)
      BY <2>3 DEF DownPub
    <3> QED
      BY <1>1, <3>1, HasOne, HasAppend
  <2>4. /\ Has(link.down, DownPub(m)) => Has(net[c1].down, DownPub(m))
        /\ Twice(link.down, DownPub(m)) => Twice(net[c1].down, DownPub(m))
    BY <2>2, <2>3
  <2> QED
    BY <1>3, <2>1, <2>4 DEF LessDown, InDown, DownPub
<1> QED
  BY <1>2, <1>3

-----------------------------------------------------------------------------
(* The steps                                                               *)

(* At most one packet that is no PUBLISH is posted to a device.            *)
ControlPosted ==
    \/ clientQ' = clientQ
    \/ \E c \in Clients, p \in SnPacket : /\ p.type # "PUBLISH"
                                          /\ clientQ' = Append(clientQ, To(c, p))

LEMMA ControlOnly ==
    ASSUME TypeOK, ControlPosted, NEW c, NEW m
    PROVE  LessClientQ(c, m)
  BY LeftAlone, PostedControl DEF ControlPosted

(* A handler that posts no PUBLISH and touches no list of them.            *)
LEMMA QuietHandler ==
    ASSUME TypeOK, packetQ' \in {packetQ, Tail(packetQ)}, packetQ' # packetQ => packetQ # <<>>,
           ListsKept, ControlPosted, UNCHANGED <<net, dev, published>>,
           NEW c \in Clients, NEW m, Once(c, m)
    PROVE  Once(c, m)'
<1>1. LessQueue(c, m)
  BY LeftAlone, OnceTaken
<1>2. LessClientQ(c, m) /\ LessSaved(c, m) /\ LessHeld(c, m)
  BY ControlOnly, KeptLists
<1>3. LessDown(c, m) /\ LessGot(c, m) /\ StillPublished(c, m)
  BY LeftAlone
<1> QED
  BY <1>1, <1>2, <1>3, FewerKeeps

(* The handlers of PacketHandleTask that move no PUBLISH.                  *)
LEMMA QuietHandlers ==
    ASSUME TypeOK,
           \/ HandleConnect /\ ~Sleeping(Head(packetQ).client)
           \/ HandleWilltopic \/ HandleWillmsg \/ HandleDisconnect
           \/ HandlePingreq /\ packetQ' = Tail(packetQ)
           \/ UpdateStatus \/ HandleConnack \/ HandlePingresp \/ HandleBrokerDisconnect,
           NEW d \in Clients, NEW m, Once(d, m)
    PROVE  Once(d, m)'
<1> DEFINE c == Head(packetQ).client
           p == Head(packetQ).pkt
<1>0. cl \in [Clients -> Client]
  BY DEF TypeOK
<1>1. \A b \in Clients : cl[b] \in Client
  BY <1>0
<1>2. ASSUME NEW r, OnlyStatus(r, cl[c]), c \in Clients, cl' = [cl EXCEPT ![c] = r] PROVE ListsKept
  BY <1>2, ChangedClient DEF OnlyStatus, ListsKept
<1>3. cl' = cl => ListsKept
  BY DEF ListsKept
<1>4. CASE HandleConnect /\ ~Sleeping(c)
  <2>1. /\ packetQ # <<>> /\ packetQ' = Tail(packetQ) /\ UNCHANGED <<net, dev, published>>
        /\ FromDevice("CONNECT")
    BY <1>4 DEF HandleConnect, FromDevice
  <2>2. c \in Clients
    BY <2>1, TakeDevice
  <2>3. ListsKept
    <3> DEFINE conn == [NoConn EXCEPT !.will = p.will, !.clean = p.clean, !.try = p.try]
               s == [Disconnected(cl[c]) EXCEPT !.conn = conn, !.clean = p.clean,
                                       !.tid = IF p.clean THEN NoTopics ELSE cl[c].tid]
    <3>1. cl' = [cl EXCEPT ![c] = s]
      BY <1>4 DEF HandleConnect
    <3>2. OnlyStatus(Disconnected(cl[c]), cl[c]) /\ Disconnected(cl[c]) \in Client
      BY <1>1, <2>2, StatusFields, DisconnectedType
    <3>3. s.sleepQ = cl[c].sleepQ /\ s.held = cl[c].held
      BY <3>2 DEF Client, OnlyStatus
    <3> HIDE DEF s
    <3> QED
      BY <2>2, <3>1, <3>3, ChangedClient DEF ListsKept
  <2>4. clientQ' \in {clientQ, Append(clientQ, To(c, [type |-> "WILLTOPICREQ"]))}
    BY <1>4 DEF HandleConnect
  <2>5. ControlPosted
    BY <2>2, <2>4, MadePackets DEF ControlPosted
  <2> QED
    BY <2>1, <2>3, <2>5, QuietHandler
<1>5. CASE HandleWilltopic
  <2>1. /\ packetQ # <<>> /\ packetQ' = Tail(packetQ) /\ UNCHANGED <<net, dev, published>>
        /\ FromDevice("WILLTOPIC")
    BY <1>5 DEF HandleWilltopic, FromDevice
  <2>2. c \in Clients
    BY <2>1, TakeDevice
  <2>3. ListsKept
    BY <1>1, <1>5, <2>2 DEF HandleWilltopic, Client, ListsKept, TypeOK
  <2>4. ControlPosted
    BY <1>5, <2>2, MadePackets DEF HandleWilltopic, ControlPosted
  <2> QED
    BY <2>1, <2>3, <2>4, QuietHandler
<1>6. CASE HandleWillmsg
  <2>1. /\ packetQ # <<>> /\ packetQ' = Tail(packetQ) /\ UNCHANGED <<clientQ, net, dev, published>>
        /\ FromDevice("WILLMSG")
    BY <1>6 DEF HandleWillmsg, FromDevice
  <2>2. c \in Clients
    BY <2>1, TakeDevice
  <2>3. ListsKept
    <3> DEFINE r == [cl[c] EXCEPT !.conn = [cl[c].conn EXCEPT !.msg = p.try], !.waitWill = FALSE]
    <3>1. r.held = cl[c].held /\ r.sleepQ = cl[c].sleepQ
      BY <1>1, <2>2 DEF Client
    <3>2. cl' = [cl EXCEPT ![c] = r] \/ cl' = cl
      BY <1>6 DEF HandleWillmsg
    <3> HIDE DEF r
    <3>3. CASE cl' = [cl EXCEPT ![c] = r]
      <4>1. \A b \in Clients : cl'[b] = IF b = c THEN r ELSE cl[b]
        BY <1>0, <2>2, <3>3
      <4> QED
        BY <3>1, <4>1 DEF ListsKept
    <3> QED
      BY <1>3, <3>2, <3>3
  <2> QED
    BY <2>1, <2>3, QuietHandler DEF ControlPosted
<1>7. CASE HandleDisconnect
  <2>1. /\ packetQ # <<>> /\ packetQ' = Tail(packetQ) /\ UNCHANGED <<cl, net, dev, published>>
        /\ FromDevice("DISCONNECT")
    BY <1>7 DEF HandleDisconnect, FromDevice
  <2>2. c \in Clients
    BY <2>1, TakeDevice
  <2>3. ControlPosted
    BY <1>7, <2>2, MadePackets DEF HandleDisconnect, ControlPosted
  <2> QED
    BY <1>3, <2>1, <2>3, QuietHandler
<1>8. CASE HandlePingreq /\ packetQ' = Tail(packetQ)
  <2>1. /\ packetQ # <<>> /\ packetQ' = Tail(packetQ) /\ UNCHANGED <<clientQ, net, dev, published>>
        /\ FromDevice("PINGREQ")
    BY <1>8 DEF HandlePingreq, FromDevice
  <2>2. c \in Clients
    BY <2>1, TakeDevice
  <2> DEFINE r == [cl[c] EXCEPT !.sleepQ = <<>>, !.holdPing = TRUE]
             s == [cl[c] EXCEPT !.holdPing = FALSE]
  <2>3. /\ r.held = cl[c].held /\ r.sleepQ = <<>>
        /\ s.held = cl[c].held /\ s.sleepQ = cl[c].sleepQ
    BY <1>1, <2>2 DEF Client
  <2>4. \/ cl' = [cl EXCEPT ![c] = s]
        \/ cl' = [cl EXCEPT ![c] = r]
    BY <1>8 DEF HandlePingreq
  <2> HIDE DEF r, s
  <2>5. \A b \in Clients : cl'[b].held = cl[b].held /\ cl'[b].sleepQ \in {cl[b].sleepQ, <<>>}
    <3>1. CASE cl' = [cl EXCEPT ![c] = s]
      <4>1. \A b \in Clients : cl'[b] = IF b = c THEN s ELSE cl[b]
        BY <1>0, <2>2, <3>1
      <4> QED
        BY <2>3, <4>1
    <3>2. CASE cl' = [cl EXCEPT ![c] = r]
      <4>1. \A b \in Clients : cl'[b] = IF b = c THEN r ELSE cl[b]
        BY <1>0, <2>2, <3>2
      <4> QED
        BY <2>3, <4>1
    <3> QED
      BY <2>4, <3>1, <3>2
  <2>6. ~Has(<<>>, {m}) /\ ~Twice(<<>>, {m})
    BY DEF Has, Twice
  <2>7. LessSaved(d, m)
    BY <2>5, <2>6 DEF LessSaved, Saved
  <2>8. LessHeld(d, m) /\ LessClientQ(d, m) /\ LessDown(d, m) /\ LessGot(d, m) /\ StillPublished(d, m)
    BY <2>1, <2>5, LeftAlone
  <2>9. LessQueue(d, m)
    BY <2>1, OnceTaken
  <2> QED
    BY <2>7, <2>8, <2>9, FewerKeeps
<1>9. CASE UpdateStatus
  <2>1. /\ packetQ' = packetQ /\ clientQ' = clientQ /\ UNCHANGED <<net, dev, published>>
        /\ cl' = [cl EXCEPT ![upd.client] = UpdatedStatus(cl[upd.client], upd.pkt)]
    BY <1>9 DEF UpdateStatus
  <2>2. upd.client \in Clients
    BY <1>9 DEF UpdateStatus, TypeOK, DeviceEvent
  <2>3. OnlyStatus(UpdatedStatus(cl[upd.client], upd.pkt), cl[upd.client])
    BY <1>1, <2>2, StatusFields
  <2>4. ListsKept
    BY <2>1, <2>2, <2>3, ChangedClient DEF OnlyStatus, ListsKept
  <2> QED
    BY <2>1, <2>4, QuietHandler DEF ControlPosted
<1>10. CASE HandleConnack
  <2>1. /\ packetQ # <<>> /\ packetQ' = Tail(packetQ) /\ UNCHANGED <<net, dev, published>>
        /\ FromBroker("CONNACK")
    BY <1>10 DEF HandleConnack, FromBroker
  <2>2. c \in Clients /\ p.accepted \in BOOLEAN
    BY <2>1, TakeBroker, BrokerFields
  <2>3. \E r \in {[cl[c] EXCEPT !.status = "Active"], Disconnected(cl[c])} : cl' = [cl EXCEPT ![c] = r]
    BY <1>10 DEF HandleConnack
  <2>4. ListsKept
    BY <1>1, <1>2, <2>2, <2>3, StatusFields DEF Status
  <2>5. ControlPosted
    BY <1>10, <2>2, MadePackets DEF HandleConnack, ControlPosted
  <2> QED
    BY <2>1, <2>4, <2>5, QuietHandler
<1>11. CASE HandlePingresp
  <2>1. /\ packetQ # <<>> /\ packetQ' = Tail(packetQ) /\ UNCHANGED <<net, dev, published>>
        /\ FromBroker("PINGRESP")
    BY <1>11 DEF HandlePingresp, FromBroker
  <2>2. c \in Clients
    BY <2>1, TakeBroker
  <2>3. ListsKept
    BY <1>1, <1>2, <1>11, <2>2, StatusFields DEF HandlePingresp
  <2>4. ControlPosted
    BY <1>11, <2>2, MadePackets DEF HandlePingresp, ControlPosted
  <2> QED
    BY <2>1, <2>3, <2>4, QuietHandler
<1>12. CASE HandleBrokerDisconnect
  <2>1. /\ packetQ # <<>> /\ packetQ' = Tail(packetQ) /\ UNCHANGED <<clientQ, net, dev, published>>
        /\ FromBroker("DISCONNECT")
    BY <1>12 DEF HandleBrokerDisconnect, FromBroker
  <2>2. c \in Clients
    BY <2>1, TakeBroker
  <2>3. ListsKept
    BY <1>1, <1>2, <1>12, <2>2, StatusFields DEF HandleBrokerDisconnect
  <2> QED
    BY <2>1, <2>3, QuietHandler DEF ControlPosted
<1> QED
  BY <1>4, <1>5, <1>6, <1>7, <1>8, <1>9, <1>10, <1>11, <1>12

(* A publication that was taken out of one sequence is nowhere else.       *)
Nowhere(c, m) == ~Somewhere(c, m) /\ NoTwice(c, m)

(* PacketHandleTask takes the PUBLISH of the broker.                       *)
LEMMA TakenPublish ==
    ASSUME TypeOK, packetQ # <<>>, packetQ' = Tail(packetQ), UNCHANGED <<net, dev, published>>,
           NEW c \in Clients, NEW m, Once(c, m), Head(packetQ) \in QueuedPub(c, m)
    PROVE  /\ ~InDown(c, m)' /\ ~InQueue(c, m)' /\ ~Got(c, m)'
           /\ ~Saved(c, m) /\ ~InHeld(c, m) /\ ~InClientQ(c, m)
           /\ ~Twice(net[c].down, DownPub(m))' /\ ~Twice(packetQ, QueuedPub(c, m))'
           /\ (m \in published[c])'
<1>1. packetQ \in Seq(PacketEvent)
  BY DEF TypeOK
<1>2. /\ Has(packetQ, QueuedPub(c, m))
      /\ Has(Tail(packetQ), QueuedPub(c, m)) => Twice(packetQ, QueuedPub(c, m))
      /\ Twice(Tail(packetQ), QueuedPub(c, m)) => Twice(packetQ, QueuedPub(c, m))
  BY <1>1, HasTail
<1>3. InQueue(c, m) /\ ~Twice(packetQ, QueuedPub(c, m))
  BY <1>2 DEF InQueue, Once, NoTwice
<1>4. /\ ~InDown(c, m) /\ ~Saved(c, m) /\ ~InHeld(c, m) /\ ~InClientQ(c, m) /\ ~Got(c, m)
      /\ ~Twice(net[c].down, DownPub(m)) /\ m \in published[c]
  BY <1>3 DEF Once, NoTwice, Apart, Somewhere
<1>5. ~InQueue(c, m)' /\ ~Twice(packetQ, QueuedPub(c, m))'
  BY <1>2, <1>3 DEF InQueue, QueuedPub
<1>6. ~InDown(c, m)' /\ ~Got(c, m)' /\ ~Twice(net[c].down, DownPub(m))' /\ (m \in published[c])'
  BY <1>4 DEF InDown, Got, DownPub
<1> QED
  BY <1>4, <1>5, <1>6

(* A PUBLISH is put at the end of a sequence, or is dropped.               *)
LEMMA HasAppended ==
    ASSUME NEW S, NEW s \in Seq(S), NEW e \in S, NEW t \in {s, Append(s, e)}, NEW E
    PROVE  /\ ~Has(s, E) => ~Twice(t, E)
           /\ e \notin E => (Has(t, E) => Has(s, E)) /\ (Twice(t, E) => Twice(s, E))
<1>1. Twice(s, E) => Has(s, E)
  BY DEF Twice, Has
<1> QED
  BY <1>1, HasAppend

(* MQTTGWPublishHandler::handlePublish takes the PUBLISH out of the packet *)
(* queue and puts it into one sequence at most.                            *)
LEMMA OncePublish ==
    ASSUME TypeOK, HandlePublish, NEW d \in Clients, NEW n \in Pubs, Once(d, n)
    PROVE  Once(d, n)'
<1>1. /\ FromBroker("PUBLISH") /\ packetQ # <<>> /\ packetQ' = Tail(packetQ)
      /\ UNCHANGED <<net, dev, published>>
  BY DEF HandlePublish, FromBroker
<1>2. PICK c \in Clients, m \in Pubs : c = Head(packetQ).client /\ m = Head(packetQ).pkt.pub
  BY <1>1, TakeBroker, BrokerFields
<1> DEFINE t == TopicOf[m]
<1>3. Head(packetQ) \in QueuedPub(c, m)
  <2>1. Head(packetQ) \in PacketEvent
    BY <1>1, HeadTailProperties DEF TypeOK
  <2> QED
    BY <1>1, <1>2, <2>1 DEF QueuedPub, FromBroker
<1>4. cl \in [Clients -> Client] /\ cl[c] \in Client /\ t \in Topics
  BY SessionAssumption DEF TypeOK
<1>5. cl[c].sleepQ \in Seq(Pubs) /\ cl[c].held \in Seq(Held) /\ clientQ \in Seq(Event(SnPacket))
  BY <1>4 DEF Client, TypeOK
<1> HIDE DEF t
(* It goes to one of three sequences or is gone. *)
<1> DEFINE ToSaved == /\ clientQ' = clientQ
                      /\ cl'[c].held = cl[c].held
                      /\ cl'[c].sleepQ \in {cl[c].sleepQ, Append(cl[c].sleepQ, m)}
           ToClientQ == /\ cl' = cl
                        /\ \E k \in Nat : clientQ' = Append(clientQ, To(c, [type |-> "PUBLISH", pub |-> m, tid |-> k]))
           ToHeld == /\ ControlPosted
                     /\ cl'[c].sleepQ = cl[c].sleepQ
                     /\ \E h \in Held : h.pub = m /\ cl'[c].held = Append(cl[c].held, h)
<1>6. /\ ToSaved \/ ToClientQ \/ ToHeld
      /\ \A b \in Clients : b # c => cl'[b] = cl[b]
  <2>1. CASE PublishDropped(c) \/ PublishUnmatched(c, m)
    BY <2>1 DEF PublishDropped, PublishUnmatched
  <2>2. CASE PublishSaved(c, m)
    <3> DEFINE r == [cl[c] EXCEPT !.sleepQ = Append(cl[c].sleepQ, m)]
    <3>1. clientQ' = clientQ /\ (cl' = cl \/ cl' = [cl EXCEPT ![c] = r])
      BY <2>2 DEF PublishSaved
    <3>2. r.held = cl[c].held /\ r.sleepQ = Append(cl[c].sleepQ, m)
      BY <1>4 DEF Client
    <3> HIDE DEF r
    <3>3. CASE cl' = cl
      BY <3>1, <3>3
    <3>4. CASE cl' = [cl EXCEPT ![c] = r]
      <4>1. \A b \in Clients : cl'[b] = IF b = c THEN r ELSE cl[b]
        BY <1>2, <1>4, <3>4
      <4> QED
        BY <1>2, <3>1, <3>2, <4>1
    <3> QED
      BY <3>1, <3>3, <3>4
  <2>3. CASE PublishKnown(c, m)
    <3>1. cl[c].tid[t] \in Nat
      BY <1>4 DEF Client
    <3> QED
      BY <2>3, <3>1 DEF PublishKnown, t
  <2>4. CASE PublishRegister(c, m)
    <3>1. CASE cl' = cl /\ clientQ' = clientQ
      BY <3>1
    <3>2. CASE Cardinality(NormalTopics(c)) < MaxNormal
      <4> DEFINE tid == NextTid(c)
                 id == NextSnMsgId(c)
                 h == [msgId |-> id, pub |-> m, tid |-> tid]
                 r == [cl[c] EXCEPT !.held = Append(cl[c].held, h), !.snMsgId = id,
                                    !.nextTid = tid, !.tid[t] = tid]
      <4>1. tid \in Nat \ {0} /\ tid \in Nat /\ id \in 1..MaxSnMsgId
        <5>1. cl[c].nextTid \in 0..MaxTid /\ cl[c].snMsgId \in 0..MaxSnMsgId
          BY <1>4 DEF Client
        <5> QED
          BY <5>1, SessionAssumption DEF NextSnMsgId, NextTid
      <4>2. /\ cl' = [cl EXCEPT ![c] = r]
            /\ clientQ' = Append(clientQ, To(c, [type |-> "REGISTER", msgId |-> id, tid |-> tid]))
        BY <2>4, <3>2 DEF PublishRegister, PostRegister, t
      <4> HIDE DEF tid, id
      <4>3. h \in Held /\ h.pub = m
        BY <1>2, <4>1 DEF Held
      <4> HIDE DEF h
      <4>4. r.sleepQ = cl[c].sleepQ /\ r.held = Append(cl[c].held, h)
        BY <1>4 DEF Client
      <4> HIDE DEF r
      <4>5. \A b \in Clients : cl'[b] = IF b = c THEN r ELSE cl[b]
        BY <1>2, <1>4, <4>2
      <4>6. ControlPosted
        <5>1. [type |-> "REGISTER", msgId |-> id, tid |-> tid] \in SnPacket
          BY <4>1, MadePackets
        <5> QED
          BY <1>2, <4>2, <5>1 DEF ControlPosted
      <4> QED
        BY <1>2, <4>3, <4>4, <4>5, <4>6
    <3> QED
      BY <2>4, <3>1, <3>2 DEF PublishRegister
  <2> QED
    BY <1>2, <2>1, <2>2, <2>3, <2>4 DEF HandlePublish
<1>7. CASE d = c /\ n = m
  <2>1. /\ ~InDown(c, m)' /\ ~InQueue(c, m)' /\ ~Got(c, m)'
        /\ ~Saved(c, m) /\ ~InHeld(c, m) /\ ~InClientQ(c, m)
        /\ ~Twice(net[c].down, DownPub(m))' /\ ~Twice(packetQ, QueuedPub(c, m))'
        /\ (m \in published[c])'
    BY <1>1, <1>2, <1>3, <1>7, TakenPublish
  <2>2. /\ ~Has(cl[c].sleepQ, {m}) /\ ~Has(cl[c].held, HeldPub(m)) /\ ~Has(clientQ, PostedPub(c, m))
        /\ ~Twice(cl[c].sleepQ, {m}) /\ ~Twice(cl[c].held, HeldPub(m)) /\ ~Twice(clientQ, PostedPub(c, m))
    BY <2>1, <1>7 DEF Saved, InHeld, InClientQ, Once, NoTwice
  <2>3. CASE ToSaved
    <3>1. ~Twice(cl'[c].sleepQ, {m})
      <4>1. ~Twice(Append(cl[c].sleepQ, m), {m})
        BY <1>5, <2>2, HasAppended
      <4> QED
        BY <2>2, <2>3, <4>1
    <3>2. LessHeld(c, m) /\ LessClientQ(c, m)
      BY <2>3, LeftAlone
    <3> QED
      BY <1>7, <2>1, <2>2, <3>1, <3>2
         DEF Once, NoTwice, Apart, Somewhere, LessHeld, LessClientQ
  <2>4. CASE ToClientQ
    <3> PICK k \in Nat : clientQ' = Append(clientQ, To(c, [type |-> "PUBLISH", pub |-> m, tid |-> k]))
      BY <2>4
    <3> DEFINE e == To(c, [type |-> "PUBLISH", pub |-> m, tid |-> k])
    <3>1. e \in Event(SnPacket)
      BY <1>2, MadePackets DEF To, Event
    <3>2. ~Twice(clientQ', PostedPub(c, m))
      <4> HIDE DEF e
      <4>1. clientQ' = Append(clientQ, e)
        BY DEF e
      <4> QED
        BY <1>5, <2>2, <3>1, <4>1, HasAppended
    <3>3. LessHeld(c, m) /\ LessSaved(c, m)
      BY <2>4, LeftAlone
    <3> QED
      BY <1>7, <2>1, <2>2, <3>2, <3>3
         DEF Once, NoTwice, Apart, Somewhere, LessHeld, LessSaved, PostedPub
  <2>5. CASE ToHeld
    <3> PICK h \in Held : h.pub = m /\ cl'[c].held = Append(cl[c].held, h)
      BY <2>5
    <3>1. ~Twice(cl'[c].held, HeldPub(m))
      BY <1>5, <2>2, HasAppended
    <3>2. LessSaved(c, m) /\ LessClientQ(c, m)
      BY <2>5, LeftAlone, ControlOnly
    <3> QED
      BY <1>7, <2>1, <2>2, <3>1, <3>2
         DEF Once, NoTwice, Apart, Somewhere, LessSaved, LessClientQ, HeldPub
  <2> QED
    BY <1>6, <2>3, <2>4, <2>5
<1>8. CASE ~(d = c /\ n = m)
  <2>1. LessQueue(d, n) /\ LessDown(d, n) /\ LessGot(d, n) /\ StillPublished(d, n)
    BY <1>1, OnceTaken, LeftAlone
  <2>2. LessSaved(d, n)
    <3>1. cl'[d].sleepQ = cl[d].sleepQ \/ (d = c /\ cl'[c].sleepQ = Append(cl[c].sleepQ, m))
      BY <1>6
    <3>2. CASE d = c /\ cl'[c].sleepQ = Append(cl[c].sleepQ, m)
      <4>1. m \notin {n}
        BY <1>8, <3>2
      <4>2. /\ Has(cl'[c].sleepQ, {n}) => Has(cl[c].sleepQ, {n})
            /\ Twice(cl'[c].sleepQ, {n}) => Twice(cl[c].sleepQ, {n})
        BY <1>2, <1>5, <3>2, <4>1, HasAppended
      <4> QED
        BY <3>2, <4>2 DEF LessSaved, Saved
    <3> QED
      BY <3>1, <3>2, LeftAlone
  <2>3. LessHeld(d, n)
    <3>1. \/ cl'[d].held = cl[d].held
          \/ d = c /\ \E h \in Held : h.pub = m /\ cl'[c].held = Append(cl[c].held, h)
      BY <1>6
    <3>2. ASSUME d = c, NEW h \in Held, h.pub = m, cl'[c].held = Append(cl[c].held, h)
          PROVE  LessHeld(d, n)
      <4>1. h \notin HeldPub(n)
        BY <1>8, <3>2 DEF HeldPub
      <4>2. /\ Has(cl'[c].held, HeldPub(n)) => Has(cl[c].held, HeldPub(n))
            /\ Twice(cl'[c].held, HeldPub(n)) => Twice(cl[c].held, HeldPub(n))
        BY <1>5, <3>2, <4>1, HasAppended
      <4> QED
        BY <3>2, <4>2 DEF LessHeld, InHeld, HeldPub
    <3> QED
      BY <3>1, <3>2, LeftAlone
  <2>4. LessClientQ(d, n)
    <3>1. ASSUME NEW k \in Nat,
                 clientQ' = Append(clientQ, To(c, [type |-> "PUBLISH", pub |-> m, tid |-> k]))
          PROVE  LessClientQ(d, n)
      <4> DEFINE e == To(c, [type |-> "PUBLISH", pub |-> m, tid |-> k])
      <4>1. e \in Event(SnPacket) /\ e \notin PostedPub(d, n)
        BY <1>2, <1>8, MadePackets DEF To, Event, PostedPub
      <4> HIDE DEF e
      <4>2. clientQ' = Append(clientQ, e)
        BY <3>1 DEF e
      <4> QED
        BY <4>1, <4>2, PostedOther
    <3> QED
      BY <1>6, <3>1, LeftAlone, ControlOnly
  <2> QED
    BY <2>1, <2>2, <2>3, <2>4, FewerKeeps
<1> QED
  BY <1>7, <1>8

(* MQTTSNConnectionHandler::sendStoredPublish: the events of the saved     *)
(* PUBLISHes are in the packet queue when the saved ones are not saved any *)
(* more.                                                                   *)
LEMMA StoredOnce ==
    ASSUME TypeOK, NEW c \in Clients, packetQ # <<>>,
           packetQ' = Posted(Tail(packetQ), StoredEvents(c)),
           \A b \in Clients : /\ cl'[b].held = cl[b].held
                              /\ cl'[b].sleepQ = IF b = c THEN <<>> ELSE cl[b].sleepQ,
           ControlPosted, UNCHANGED <<net, dev, published>>,
           NEW d \in Clients, NEW m, Once(d, m)
    PROVE  Once(d, m)'
<1> DEFINE new == StoredEvents(c)
           E == QueuedPub(d, m)
           saved == cl[c].sleepQ
<1>1. /\ new \in Seq(PacketEvent) /\ DOMAIN new = DOMAIN saved
      /\ \A i \in DOMAIN saved :
            /\ new[i].client = c /\ new[i].pkt.type = "PUBLISH" /\ new[i].pkt.pub = saved[i]
            /\ new[i].src = "broker" /\ new[i] \in PacketEvent
  <2>1. new \in Seq(PacketEvent)
    BY StoredEventsType
  <2>2. DOMAIN new = DOMAIN saved
    BY DEF StoredEvents
  <2>3. \A i \in DOMAIN new : new[i] \in PacketEvent
    BY <2>1, ElementOfSeq, LenProperties
  <2> QED
    BY <2>1, <2>2, <2>3 DEF StoredEvents, BrokerRecv
<1> HIDE DEF new
<1>2. \A i \in DOMAIN saved : new[i] \in E <=> d = c /\ saved[i] \in {m}
  BY <1>1 DEF QueuedPub
<1>3. /\ packetQ \in Seq(PacketEvent) /\ Tail(packetQ) \in Seq(PacketEvent)
      /\ Has(Tail(packetQ), E) => Has(packetQ, E)
      /\ Twice(Tail(packetQ), E) => Twice(packetQ, E)
  <2>1. packetQ \in Seq(PacketEvent)
    BY DEF TypeOK
  <2> QED
    BY <2>1, HasTail
<1>4. /\ Has(packetQ', E) => Has(packetQ, E) \/ Has(new, E)
      /\ Twice(packetQ', E) => Twice(packetQ, E) \/ Twice(new, E) \/ (Has(packetQ, E) /\ Has(new, E))
  <2>1. /\ Has(Posted(Tail(packetQ), new), E) => Has(Tail(packetQ), E) \/ Has(new, E)
        /\ Twice(Posted(Tail(packetQ), new), E) =>
              \/ Twice(Tail(packetQ), E) \/ Twice(new, E)
              \/ Has(Tail(packetQ), E) /\ Has(new, E)
    <3> HIDE DEF E
    <3> QED
      BY <1>1, <1>3, HasPosted
  <2> QED
    BY <1>3, <2>1 DEF new
<1>5. LessHeld(d, m) /\ LessClientQ(d, m) /\ LessDown(d, m) /\ LessGot(d, m) /\ StillPublished(d, m)
  BY LeftAlone, ControlOnly
<1>6. CASE d # c
  <2>1. ~Has(new, E) /\ ~Twice(new, E)
    BY <1>1, <1>2, <1>6 DEF Has, Twice
  <2>2. LessQueue(d, m)
    BY <1>4, <2>1 DEF LessQueue, InQueue, QueuedPub
  <2>3. LessSaved(d, m)
    BY <1>6, LeftAlone
  <2> QED
    BY <1>5, <2>2, <2>3, FewerKeeps
<1>7. CASE d = c
  <2>1. (Has(new, E) => Has(saved, {m})) /\ (Twice(new, E) => Twice(saved, {m}))
    BY <1>1, <1>2, <1>7 DEF Has, Twice
  <2>2. ~Saved(d, m)' /\ ~Twice(cl[d].sleepQ, {m})'
    BY <1>7 DEF Saved, Has, Twice
  <2>3. /\ InQueue(d, m)' => InQueue(d, m) \/ Saved(d, m)
        /\ Twice(packetQ, QueuedPub(d, m))' =>
              \/ Twice(packetQ, QueuedPub(d, m)) \/ Twice(cl[d].sleepQ, {m})
              \/ InQueue(d, m) /\ Saved(d, m)
    BY <1>4, <1>7, <2>1 DEF InQueue, Saved, QueuedPub
  <2> QED
    BY <1>5, <2>2, <2>3
       DEF Once, NoTwice, Apart, Somewhere, LessHeld, LessClientQ, LessDown, LessGot,
           StillPublished
<1> QED
  BY <1>6, <1>7

(* A CONNECT or a PINGREQ of a sleeping client.                            *)
LEMMA OnceStored ==
    ASSUME TypeOK, \/ HandleConnect /\ Sleeping(Head(packetQ).client)
                   \/ HandlePingreq /\ packetQ' # Tail(packetQ),
           NEW d \in Clients, NEW m, Once(d, m)
    PROVE  Once(d, m)'
<1>1. packetQ # <<>> /\ UNCHANGED <<net, dev, published>>
  BY DEF HandleConnect, HandlePingreq, FromDevice
<1>2. PICK c \in Clients : c = Head(packetQ).client
  BY TakeDevice DEF HandleConnect, HandlePingreq
<1>3. cl \in [Clients -> Client]
  BY DEF TypeOK
<1> DEFINE r == [cl[c] EXCEPT !.sleepQ = <<>>]
           s == [cl[c] EXCEPT !.sleepQ = <<>>, !.holdPing = TRUE]
<1>4. r.held = cl[c].held /\ r.sleepQ = <<>> /\ s.held = cl[c].held /\ s.sleepQ = <<>>
  BY <1>3 DEF Client
<1>5. /\ packetQ' = Posted(Tail(packetQ), StoredEvents(c))
      /\ cl' = [cl EXCEPT ![c] = r] \/ cl' = [cl EXCEPT ![c] = s]
      /\ clientQ' \in {clientQ, Append(clientQ, To(c, [type |-> "CONNACK", accepted |-> TRUE]))}
  BY <1>2 DEF HandleConnect, HandlePingreq
<1> HIDE DEF r, s
<1>6. ControlPosted
  BY <1>5, MadePackets DEF ControlPosted
<1>7. \A b \in Clients : /\ cl'[b].held = cl[b].held
                         /\ cl'[b].sleepQ = IF b = c THEN <<>> ELSE cl[b].sleepQ
  <2>1. CASE cl' = [cl EXCEPT ![c] = r]
    <3>1. \A b \in Clients : cl'[b] = IF b = c THEN r ELSE cl[b]
      BY <1>3, <2>1
    <3> QED
      BY <1>4, <3>1
  <2>2. CASE cl' = [cl EXCEPT ![c] = s]
    <3>1. \A b \in Clients : cl'[b] = IF b = c THEN s ELSE cl[b]
      BY <1>3, <2>2
    <3> QED
      BY <1>4, <3>1
  <2> QED
    BY <1>5, <2>1, <2>2
<1> QED
  BY <1>1, <1>5, <1>6, <1>7, StoredOnce

(* MQTTSNPublishHandler::handleRegAck: what it takes from the held         *)
(* PUBLISHes it posts to the device.                                       *)
LEMMA OnceRegAck ==
    ASSUME TypeOK, HandleRegAck, NEW d \in Clients, NEW m, Once(d, m)
    PROVE  Once(d, m)'
<1>1. /\ packetQ # <<>> /\ packetQ' = Tail(packetQ) /\ UNCHANGED <<net, dev, published>>
      /\ FromDevice("REGACK")
  BY DEF HandleRegAck, FromDevice
<1> DEFINE c == Head(packetQ).client
<1>2. c \in Clients
  BY <1>1, TakeDevice
<1>3. cl \in [Clients -> Client] /\ cl[c].held \in Seq(Held) /\ clientQ \in Seq(Event(SnPacket))
  BY <1>2 DEF TypeOK, Client
<1> DEFINE found == FirstHeld(c, Head(packetQ).pkt.msgId)
           i == CHOOSE j \in found : TRUE
           left == WithoutIndex(cl[c].held, i)
           kept == IF found = {} THEN cl[c].held ELSE left
           h == cl[c].held[i]
           e == To(c, [type |-> "PUBLISH", pub |-> h.pub, tid |-> h.tid])
           r == [cl[c] EXCEPT !.held = kept, !.holdPing = @ /\ ~(cl[c].holdPing /\ kept = <<>>)]
<1>4. \/ cl' = [cl EXCEPT ![c] = r] /\ clientQ' = IF found = {} THEN clientQ ELSE Append(clientQ, e)
      \/ cl' = cl /\ clientQ' = clientQ
  BY DEF HandleRegAck
<1>5. r.sleepQ = cl[c].sleepQ /\ r.held = kept
  BY <1>2, <1>3 DEF Client
<1>6. found # {} => i \in DOMAIN cl[c].held
  BY DEF FirstHeld
<1> HIDE DEF c, found, i, r
<1>7. CASE ListsKept /\ clientQ' = clientQ
  BY <1>1, <1>7, QuietHandler DEF ControlPosted
<1>8. CASE found = {} /\ clientQ' = clientQ /\ cl' = [cl EXCEPT ![c] = r]
  <2>1. \A b \in Clients : cl'[b] = IF b = c THEN r ELSE cl[b]
    BY <1>3, <1>8
  <2> QED
    BY <1>5, <1>7, <1>8, <2>1 DEF ListsKept
<1>9. CASE found # {} /\ clientQ' = Append(clientQ, e) /\ cl' = [cl EXCEPT ![c] = r]
  <2>1. \A b \in Clients : cl'[b] = IF b = c THEN r ELSE cl[b]
    BY <1>3, <1>9
  <2>2. i \in DOMAIN cl[c].held /\ h \in Held
    BY <1>3, <1>6, <1>9, ElementOfSeq, LenProperties
  <2>3. e \in Event(SnPacket) /\ (e \in PostedPub(d, m) <=> d = c /\ h \in HeldPub(m))
    <3>1. h.pub \in Pubs /\ h.tid \in Nat
      BY <2>2 DEF Held
    <3>2. [type |-> "PUBLISH", pub |-> h.pub, tid |-> h.tid] \in SnPacket
      BY <3>1, MadePackets
    <3> HIDE DEF h
    <3>3. e \in Event(SnPacket)
      BY <1>2, <3>2 DEF To, Event
    <3> QED
      BY <2>2, <3>3 DEF To, PostedPub, HeldPub
  <2>4. LessQueue(d, m) /\ LessDown(d, m) /\ LessGot(d, m) /\ StillPublished(d, m)
    BY <1>1, OnceTaken, LeftAlone
  <2>5. LessSaved(d, m)
    BY <1>5, <2>1, LeftAlone
  <2>6. /\ Has(left, HeldPub(m)) => Has(cl[c].held, HeldPub(m))
        /\ Twice(left, HeldPub(m)) => Twice(cl[c].held, HeldPub(m))
        /\ h \in HeldPub(m) /\ Has(left, HeldPub(m)) => Twice(cl[c].held, HeldPub(m))
    BY <1>3, <2>2, HasWithoutIndex
  <2> HIDE DEF left, e
  <2>7. LessHeld(d, m)
    <3>1. CASE d = c
      BY <1>5, <1>9, <2>1, <2>6, <3>1 DEF LessHeld, InHeld, HeldPub
    <3>2. CASE d # c
      BY <2>1, <3>2, LeftAlone
    <3> QED
      BY <3>1, <3>2
  <2>8. CASE ~(d = c /\ h \in HeldPub(m))
    <3>1. LessClientQ(d, m)
      BY <1>9, <2>3, <2>8, PostedOther
    <3> QED
      BY <2>4, <2>5, <2>7, <3>1, FewerKeeps
  <2>9. CASE d = c /\ h \in HeldPub(m)
    <3>1. InHeld(d, m)
      BY <2>2, <2>9 DEF InHeld, Has
    <3>2. ~Twice(cl[d].held, HeldPub(m)) /\ ~InClientQ(d, m)
      BY <3>1 DEF Once, NoTwice, Apart
    <3>3. ~InHeld(d, m)'
      BY <1>5, <1>9, <2>1, <2>6, <2>9, <3>2 DEF InHeld, HeldPub
    <3>4. ~Twice(clientQ, PostedPub(d, m))'
      <4>1. ~Has(clientQ, PostedPub(d, m))
        BY <3>2 DEF InClientQ
      <4>2. ~Twice(Append(clientQ, e), PostedPub(d, m))
        BY <1>3, <2>3, <4>1, HasAppended
      <4> QED
        BY <1>9, <4>2 DEF PostedPub
    <3> QED
      BY <2>4, <2>5, <2>7, <3>1, <3>2, <3>3, <3>4
         DEF Once, NoTwice, Apart, Somewhere, LessQueue, LessDown, LessGot, StillPublished,
             LessSaved, LessHeld
  <2> QED
    BY <2>8, <2>9
<1>10. CASE cl' = cl /\ clientQ' = clientQ
  BY <1>7, <1>10 DEF ListsKept
<1> QED
  BY <1>4, <1>8, <1>9, <1>10

(* BrokerSendTask.                                                         *)
LEMMA OnceBrokerSend ==
    ASSUME TypeOK, BrokerSendStep, NEW d \in Clients, NEW m, Once(d, m)
    PROVE  Once(d, m)'
<1>1. /\ UNCHANGED <<clientQ, dev, published>>
      /\ LessClientQ(d, m) /\ LessGot(d, m) /\ StillPublished(d, m)
  BY LeftAlone DEF BrokerSendStep, BrokerSend, BrokerSent, BrokerConnectFails, BrokerSendFails
<1>2. cl \in [Clients -> Client] /\ net \in [Clients -> Link] /\ brokerQ \in Seq(Event(GwPacket))
  BY DEF TypeOK
<1>3. ASSUME brokerQ # <<>> PROVE Head(brokerQ).client \in Clients
  <2>1. Head(brokerQ) \in Event(GwPacket)
    BY <1>2, <1>3, HeadTailProperties
  <2> QED
    BY <2>1 DEF Event
<1>4. ASSUME NEW c \in Clients, net' = [net EXCEPT ![c] = NoLink]
      PROVE  LessDown(d, m)
  BY <1>4, LinkTypes, DownOther DEF NoLink
<1>5. CASE BrokerSend
  <2> DEFINE c == Head(brokerQ).client
             p == Head(brokerQ).pkt
  <2>1. PICK link \in Reactions(IF Reuses(c, p) THEN net[c] ELSE NewLink, p) :
            net' = [net EXCEPT ![c] = link]
    BY <1>5 DEF BrokerSend
  <2>2. c \in Clients /\ link \in Link
    BY <1>2, <1>3, <1>5, <2>1, LinkTypes, ReactionsType DEF BrokerSend
  <2>3. \/ link.down \in {<<>>, net[c].down}
        \/ \E b \in BrokerPacket : /\ b.type # "PUBLISH"
                                   /\ link.down \in {<<b>>, Append(net[c].down, b)}
    <3> DEFINE old == IF Reuses(c, p) THEN net[c] ELSE NewLink
    <3>1. old \in Link /\ old.down \in {<<>>, net[c].down} /\ (old.peer = "session" => old = net[c])
      BY <1>2, <2>2, LinkTypes DEF NewLink
    <3> HIDE DEF old, c, p
    <3>2. CASE old.peer = "new" /\ p.type = "CONNECT"
      <4>1. PICK ok \in BOOLEAN : link.down = <<[type |-> "CONNACK", accepted |-> ok]>>
        BY <2>1, <3>1, <3>2 DEF Reactions, old, Link
      <4> QED
        BY <4>1, MadePackets
    <3>3. CASE old.peer = "session" /\ p.type = "PINGREQ"
      <4>1. link.down = Append(net[c].down, [type |-> "PINGRESP"])
        BY <2>1, <3>1, <3>3 DEF Reactions, old, Link
      <4> QED
        BY <4>1, MadePackets
    <3>4. CASE ~(old.peer = "new" /\ p.type = "CONNECT") /\ ~(old.peer = "session" /\ p.type = "PINGREQ")
      <4>1. link.down = old.down
        BY <2>1, <3>1, <3>4 DEF Reactions, old, Link
      <4> QED
        BY <3>1, <4>1
    <3> QED
      BY <3>2, <3>3, <3>4
  <2>4. LessDown(d, m)
    <3> HIDE DEF c
    <3> QED
      BY <2>1, <2>2, <2>3, DownOther
  <2>5. LessQueue(d, m) /\ LessSaved(d, m) /\ LessHeld(d, m)
    BY <1>5, LeftAlone DEF BrokerSend
  <2> QED
    BY <1>1, <2>4, <2>5, FewerKeeps
<1>6. CASE BrokerSent
  <2>1. PICK c \in Clients : c = sent.client
    BY <1>6 DEF BrokerSent, TypeOK, Event
  <2>2. LessQueue(d, m)
    BY <1>6, LeftAlone DEF BrokerSent
  <2>3. LessDown(d, m)
    BY <1>4, <1>6, <2>1, LeftAlone DEF BrokerSent
  <2>4. \E r \in {[cl[c] EXCEPT !.status = "Connecting"], Disconnected(cl[c])} : cl' = [cl EXCEPT ![c] = r]
    BY <1>6, <2>1 DEF BrokerSent
  <2>5. ListsKept
    <3> PICK r \in {[cl[c] EXCEPT !.status = "Connecting"], Disconnected(cl[c])} : cl' = [cl EXCEPT ![c] = r]
      BY <2>4
    <3>1. OnlyStatus(r, cl[c])
      BY <1>2, StatusFields DEF Status
    <3>2. \A b \in Clients : cl'[b] = IF b = c THEN r ELSE cl[b]
      BY <1>2
    <3> QED
      BY <3>1, <3>2 DEF OnlyStatus, ListsKept
  <2> QED
    BY <1>1, <2>2, <2>3, <2>5, KeptLists, FewerKeeps
<1>7. CASE BrokerConnectFails
  <2>1. LessQueue(d, m) /\ LessSaved(d, m) /\ LessHeld(d, m)
    BY <1>7, LeftAlone DEF BrokerConnectFails
  <2>2. LessDown(d, m)
    BY <1>3, <1>4, <1>7 DEF BrokerConnectFails
  <2> QED
    BY <1>1, <2>1, <2>2, FewerKeeps
<1>8. CASE BrokerSendFails
  <2>1. LessSaved(d, m) /\ LessHeld(d, m)
    BY <1>8, LeftAlone DEF BrokerSendFails
  <2>2. LessDown(d, m)
    BY <1>3, <1>4, <1>8 DEF BrokerSendFails
  <2> DEFINE e == BrokerRecv(Head(brokerQ).client, [type |-> "DISCONNECT"])
  <2>3. e \in PacketEvent /\ e \notin QueuedPub(d, m)
    BY <1>3, <1>8, MadePackets DEF BrokerSendFails, BrokerRecv, PacketEvent, BrokerEvent, QueuedPub
  <2>4. packetQ' = Posted(packetQ, <<e>>)
    BY <1>8 DEF BrokerSendFails
  <2> HIDE DEF e
  <2>5. LessQueue(d, m)
    BY <2>3, <2>4, PostedOther
  <2> QED
    BY <1>1, <2>1, <2>2, <2>5, FewerKeeps
<1> QED
  BY <1>5, <1>6, <1>7, <1>8 DEF BrokerSendStep

(* The broker publishes what it has not published to this client.          *)
LEMMA OncePublishes ==
    ASSUME TypeOK, NEW c \in Clients, NEW n \in Pubs, BrokerPublish(c, n),
           NEW d \in Clients, NEW m \in Pubs, Once(d, m)
    PROVE  Once(d, m)'
<1>1. UNCHANGED <<cl, packetQ, clientQ, dev>>
  BY DEF BrokerPublish
<1>2. LessQueue(d, m) /\ LessSaved(d, m) /\ LessHeld(d, m) /\ LessClientQ(d, m) /\ LessGot(d, m)
  BY <1>1, LeftAlone
<1>3. StillPublished(d, m)
  BY DEF BrokerPublish, StillPublished, TypeOK
<1> DEFINE p == [type |-> "PUBLISH", pub |-> n]
<1>4. /\ net \in [Clients -> Link] /\ net[c].down \in Seq(BrokerPacket)
      /\ p \in BrokerPacket /\ (p \in DownPub(m) <=> n = m)
  BY MadePackets DEF TypeOK, Link, DownPub
<1>5. \A b \in Clients : net'[b].down = IF b = c THEN Append(net[c].down, p) ELSE net[b].down
  BY <1>4 DEF BrokerPublish, Link
<1> HIDE DEF p
<1>6. CASE d = c /\ n = m
  <2>1. m \notin published[d] /\ m \in published'[d]
    BY <1>6 DEF BrokerPublish, TypeOK
  <2>2. ~Somewhere(d, m) /\ NoTwice(d, m)
    BY <2>1 DEF Once
  <2>3. ~Twice(net[d].down, DownPub(m))'
    <3>1. ~Has(net[c].down, DownPub(m))
      BY <1>6, <2>2 DEF Somewhere, InDown
    <3>2. ~Twice(Append(net[c].down, p), DownPub(m))
      BY <1>4, <3>1, HasAppended
    <3> QED
      BY <1>5, <1>6, <3>2 DEF DownPub
  <2> QED
    BY <1>2, <2>1, <2>2, <2>3
       DEF Once, NoTwice, Apart, Somewhere, LessQueue, LessSaved, LessHeld, LessClientQ, LessGot
<1>7. CASE ~(d = c /\ n = m)
  <2>1. LessDown(d, m)
    <3>1. CASE d = c
      <4>1. /\ Has(Append(net[c].down, p), DownPub(m)) => Has(net[c].down, DownPub(m))
            /\ Twice(Append(net[c].down, p), DownPub(m)) => Twice(net[c].down, DownPub(m))
        BY <1>4, <1>7, <3>1, HasAppended
      <4> QED
        BY <1>5, <3>1, <4>1 DEF LessDown, InDown, DownPub
    <3>2. CASE d # c
      BY <1>5, <3>2, LeftAlone
    <3> QED
      BY <3>1, <3>2
  <2> QED
    BY <1>2, <1>3, <2>1, FewerKeeps
<1> QED
  BY <1>6, <1>7

(* BrokerRecvTask takes a PUBLISH from the connection to the packet queue. *)
LEMMA OnceReceives ==
    ASSUME TypeOK, NEW c \in Clients, BrokerRecvPacket(c),
           NEW d \in Clients, NEW m, Once(d, m)
    PROVE  Once(d, m)'
<1>1. LessSaved(d, m) /\ LessHeld(d, m) /\ LessClientQ(d, m) /\ LessGot(d, m) /\ StillPublished(d, m)
  BY LeftAlone DEF BrokerRecvPacket
<1>2. /\ net \in [Clients -> Link] /\ net[c].down \in Seq(BrokerPacket) /\ net[c].down # <<>>
      /\ packetQ \in Seq(PacketEvent)
  BY DEF TypeOK, Link, BrokerRecvPacket
<1> DEFINE down == net[c].down
           p == Head(down)
           e == BrokerRecv(c, p)
<1>3. \A b \in Clients : net'[b].down = IF b = c THEN Tail(down) ELSE net[b].down
  BY <1>2 DEF BrokerRecvPacket, Link
<1>4. packetQ' = Posted(packetQ, <<e>>)
  BY DEF BrokerRecvPacket
<1>5. /\ p \in BrokerPacket
      /\ Has(Tail(down), DownPub(m)) => Has(down, DownPub(m))
      /\ Twice(Tail(down), DownPub(m)) => Twice(down, DownPub(m))
      /\ p \in DownPub(m) => Has(down, DownPub(m))
      /\ p \in DownPub(m) /\ Has(Tail(down), DownPub(m)) => Twice(down, DownPub(m))
  BY <1>2, HasTail
<1> HIDE DEF p
<1>6. e \in PacketEvent /\ (e \in QueuedPub(d, m) <=> d = c /\ p \in DownPub(m))
  BY <1>5 DEF BrokerRecv, PacketEvent, BrokerEvent, QueuedPub, DownPub
<1> HIDE DEF e
<1>7. LessDown(d, m)
  <2>1. CASE d = c
    BY <1>3, <1>5, <2>1 DEF LessDown, InDown, DownPub
  <2>2. CASE d # c
    BY <1>3, <2>2, LeftAlone
  <2> QED
    BY <2>1, <2>2
<1>8. CASE ~(d = c /\ p \in DownPub(m))
  <2>1. LessQueue(d, m)
    BY <1>4, <1>6, <1>8, PostedOther
  <2> QED
    BY <1>1, <1>7, <2>1, FewerKeeps
<1>9. CASE d = c /\ p \in DownPub(m)
  <2>1. InDown(d, m)
    BY <1>5, <1>9 DEF InDown
  <2>2. ~Twice(net[d].down, DownPub(m)) /\ ~InQueue(d, m)
    BY <2>1 DEF Once, NoTwice, Apart
  <2>3. ~InDown(d, m)'
    BY <1>3, <1>5, <1>9, <2>2 DEF InDown, DownPub
  <2>4. ~Twice(packetQ, QueuedPub(d, m))'
    <3>1. ~Has(packetQ, QueuedPub(d, m)) /\ ~Twice(packetQ, QueuedPub(d, m))
      BY <2>2 DEF InQueue, Has, Twice
    <3>2. <<e>> \in Seq(PacketEvent)
      BY <1>6
    <3>3. ~Twice(<<e>>, QueuedPub(d, m))
      BY HasOne
    <3>4. ~Twice(Posted(packetQ, <<e>>), QueuedPub(d, m))
      BY <1>2, <3>1, <3>2, <3>3, HasPosted
    <3> QED
      BY <1>4, <3>4 DEF QueuedPub
  <2> QED
    BY <1>1, <1>7, <2>1, <2>2, <2>3, <2>4
       DEF Once, NoTwice, Apart, Somewhere, LessSaved, LessHeld, LessClientQ, LessGot,
           StillPublished, LessDown
<1> QED
  BY <1>8, <1>9

(* A connection is closed, by the broker or by BrokerRecvTask.             *)
LEMMA OnceCloses ==
    ASSUME TypeOK, NEW c \in Clients, BrokerCloses(c) \/ BrokerRecvClosed(c),
           NEW d \in Clients, NEW m, Once(d, m)
    PROVE  Once(d, m)'
<1>1. LessQueue(d, m) /\ LessClientQ(d, m) /\ LessGot(d, m) /\ StillPublished(d, m)
  BY LeftAlone DEF BrokerCloses, BrokerRecvClosed
<1>2. net \in [Clients -> Link] /\ cl \in [Clients -> Client]
  BY DEF TypeOK
<1>3. CASE BrokerCloses(c)
  <2>1. [net[c] EXCEPT !.peer = "gone"] \in Link /\ [net[c] EXCEPT !.peer = "gone"].down = net[c].down
    BY <1>2 DEF Link
  <2>2. LessDown(d, m)
    BY <1>3, <2>1, DownOther DEF BrokerCloses
  <2>3. LessSaved(d, m) /\ LessHeld(d, m)
    BY <1>3, LeftAlone DEF BrokerCloses
  <2> QED
    BY <1>1, <2>2, <2>3, FewerKeeps
<1>4. CASE BrokerRecvClosed(c)
  <2>1. LessDown(d, m)
    BY <1>4, LinkTypes, DownOther DEF BrokerRecvClosed, NoLink
  <2>2. OnlyStatus(Disconnected(cl[c]), cl[c])
    BY <1>2, StatusFields
  <2>3. \A b \in Clients : cl'[b] = IF b = c THEN Disconnected(cl[c]) ELSE cl[b]
    BY <1>2, <1>4 DEF BrokerRecvClosed
  <2>4. ListsKept
    BY <2>2, <2>3 DEF OnlyStatus, ListsKept
  <2> QED
    BY <1>1, <2>1, <2>4, KeptLists, FewerKeeps
<1> QED
  BY <1>3, <1>4

(* ClientSendTask: the device gets the packet or it is lost.               *)
LEMMA OnceSent ==
    ASSUME TypeOK, ClientSend \/ ClientSendLost, NEW d \in Clients, NEW m \in Pubs, Once(d, m)
    PROVE  Once(d, m)'
<1>1. /\ LessDown(d, m) /\ LessQueue(d, m) /\ LessSaved(d, m) /\ LessHeld(d, m)
      /\ StillPublished(d, m)
  BY LeftAlone DEF ClientSend, ClientSendLost
<1>2. LessClientQ(d, m)
  BY OnceTaken DEF ClientSend, ClientSendLost
<1>3. CASE LessGot(d, m)
  BY <1>1, <1>2, <1>3, FewerKeeps
<1>4. CASE ClientSendLost
  BY <1>3, <1>4, LeftAlone DEF ClientSendLost
<1>5. CASE ClientSend /\ ~LessGot(d, m)
  <2> DEFINE e == Head(clientQ)
  <2>1. /\ e \in Event(SnPacket)
        /\ e \in PostedPub(d, m) => Has(clientQ, PostedPub(d, m))
        /\ e \in PostedPub(d, m) /\ Has(Tail(clientQ), PostedPub(d, m)) => Twice(clientQ, PostedPub(d, m))
    <3>1. clientQ \in Seq(Event(SnPacket)) /\ clientQ # <<>>
      BY <1>5 DEF TypeOK, ClientSend
    <3> QED
      BY <3>1, HasTail
  <2>2. e.client \in Clients /\ e.pkt \in SnPacket /\ dev \in [Clients -> Device]
    BY <2>1 DEF Event, TypeOK
  <2>3. dev' = [dev EXCEPT ![e.client] = Received(dev[e.client], e.pkt)]
    BY <1>5 DEF ClientSend
  <2>4. /\ e.pkt.type # "PUBLISH" => Received(dev[e.client], e.pkt).got = dev[e.client].got
        /\ e.pkt.type = "PUBLISH" =>
              Received(dev[e.client], e.pkt).got = dev[e.client].got \cup {e.pkt.pub}
    BY <2>2 DEF Received, Device
  <2>5. e \in PostedPub(d, m)
    <3> HIDE DEF e
    <3>1. m \in dev'[d].got /\ m \notin dev[d].got
      BY <1>5 DEF LessGot, Got
    <3>2. d = e.client /\ dev'[d] = Received(dev[e.client], e.pkt)
      BY <2>2, <2>3, <3>1
    <3>3. e.pkt.type = "PUBLISH" /\ e.pkt.pub = m
      BY <2>4, <3>1, <3>2
    <3> QED
      BY <2>1, <3>2, <3>3 DEF PostedPub
  <2>6. InClientQ(d, m) /\ ~Twice(clientQ, PostedPub(d, m))
    BY <2>1, <2>5 DEF InClientQ, Once, NoTwice
  <2>7. ~InClientQ(d, m)'
    BY <1>5, <2>1, <2>5, <2>6 DEF ClientSend, InClientQ, PostedPub
  <2> QED
    BY <1>1, <1>2, <2>6, <2>7
       DEF Once, NoTwice, Apart, Somewhere, LessDown, LessQueue, LessSaved, LessHeld, StillPublished,
           LessClientQ
<1> QED
  BY <1>3, <1>4, <1>5

(* A packet of a device is no PUBLISH.                                     *)
LEMMA OnceDevice ==
    ASSUME TypeOK, NEW c \in Clients, NEW new, new.got = dev[c].got, NEW p \in DevicePacket,
           DeviceSends(c, new, p), NEW d \in Clients, NEW m, Once(d, m)
    PROVE  Once(d, m)'
<1>1. LessDown(d, m) /\ LessSaved(d, m) /\ LessHeld(d, m) /\ StillPublished(d, m)
  BY LeftAlone DEF DeviceSends
<1>2. LessGot(d, m)
  <2>1. dev \in [Clients -> Device] /\ dev' = [dev EXCEPT ![c] = new]
    BY DEF TypeOK, DeviceSends
  <2>2. dev'[d].got = dev[d].got
    BY <2>1
  <2> QED
    BY <2>2, LeftAlone
<1>3. LessQueue(d, m)
  <2>1. ClientRecv(c, p) \in PacketEvent /\ ClientRecv(c, p) \notin QueuedPub(d, m)
    BY DEF ClientRecv, PacketEvent, DeviceEvent, QueuedPub
  <2> QED
    BY <2>1, LeftAlone, PostedOther DEF DeviceSends, RecvFromDevice
<1>4. LessClientQ(d, m)
  BY LeftAlone, PostedControl, MadePackets DEF DeviceSends, RecvFromDevice
<1> QED
  BY <1>1, <1>2, <1>3, <1>4, FewerKeeps

LEMMA OnceDeviceStep ==
    ASSUME TypeOK, NEW c \in Clients, DeviceStep(c), NEW d \in Clients, NEW m, Once(d, m)
    PROVE  Once(d, m)'
<1>1. dev[c] \in Device
  BY DEF TypeOK
<1>2. CASE DeviceConnect(c)
  <2>1. PICK clean \in CleanFlags, will \in WillFlags :
            DeviceSends(c, [dev[c] EXCEPT !.st = "connecting", !.try = @ + 1, !.will = will,
                                          !.regs = {}],
                        [type |-> "CONNECT", clean |-> clean, will |-> will,
                         try |-> dev[c].try + 1])
    BY <1>2 DEF DeviceConnect
  <2>2. [type |-> "CONNECT", clean |-> clean, will |-> will, try |-> dev[c].try + 1] \in DevicePacket
    BY <1>1, SessionAssumption DEF Device, DevicePacket
  <2>3. [dev[c] EXCEPT !.st = "connecting", !.try = @ + 1, !.will = will, !.regs = {}].got = dev[c].got
    BY <1>1 DEF Device
  <2> QED
    BY <2>1, <2>2, <2>3, OnceDevice
<1>3. CASE DeviceWilltopic(c) \/ DeviceWillmsg(c)
  <2>1. \A t \in {"WILLTOPIC", "WILLMSG"} : [type |-> t, try |-> dev[c].try] \in DevicePacket
    BY <1>1 DEF Device, DevicePacket
  <2>2. [dev[c] EXCEPT !.st = "connecting"].got = dev[c].got
    BY <1>1 DEF Device
  <2> QED
    BY <1>3, <2>1, <2>2, OnceDevice DEF DeviceWilltopic, DeviceWillmsg
<1>4. CASE DeviceRegAck(c)
  <2>1. PICK id \in dev[c].regs :
            DeviceSends(c, [dev[c] EXCEPT !.regs = @ \ {id}], [type |-> "REGACK", msgId |-> id])
    BY <1>4 DEF DeviceRegAck
  <2>2. [type |-> "REGACK", msgId |-> id] \in DevicePacket
    BY <1>1 DEF Device, DevicePacket
  <2>3. [dev[c] EXCEPT !.regs = @ \ {id}].got = dev[c].got
    BY <1>1 DEF Device
  <2> QED
    BY <2>1, <2>2, <2>3, OnceDevice
<1>5. ASSUME NEW from, NEW to, NEW p \in DevicePacket, DeviceRequests(c, from, to, p)
      PROVE  Once(d, m)'
  <2>1. [dev[c] EXCEPT !.st = to, !.requests = @ + 1].got = dev[c].got
    BY <1>1 DEF Device
  <2> QED
    BY <1>5, <2>1, OnceDevice DEF DeviceRequests
<1>6. /\ \A b \in BOOLEAN : [type |-> "DISCONNECT", sleep |-> b] \in DevicePacket
      /\ [type |-> "PINGREQ"] \in DevicePacket
  BY DEF DevicePacket
<1>7. CASE DeviceSleep(c)
  BY <1>5, <1>6, <1>7 DEF DeviceSleep
<1>8. CASE DeviceDisconnect(c)
  BY <1>5, <1>6, <1>8 DEF DeviceDisconnect
<1>9. CASE DevicePing(c)
  BY <1>5, <1>6, <1>9 DEF DevicePing
<1>10. CASE DeviceWake(c)
  BY <1>5, <1>6, <1>10 DEF DeviceWake
<1> QED
  BY <1>2, <1>3, <1>4, <1>7, <1>8, <1>9, <1>10 DEF DeviceStep, DeviceAnswers

-----------------------------------------------------------------------------
(* Nothing is published yet.                                               *)
LEMMA InitOnce == Init => OnceInv
<1> SUFFICES ASSUME Init, NEW c \in Clients, NEW m \in Pubs PROVE Once(c, m)
  BY InitType DEF OnceInv
<1>1. ~Has(<<>>, DownPub(m)) /\ ~Twice(<<>>, DownPub(m))
  BY DEF Has, Twice
<1>2. ~Has(<<>>, QueuedPub(c, m)) /\ ~Twice(<<>>, QueuedPub(c, m))
  BY DEF Has, Twice
<1>3. ~Has(<<>>, {m}) /\ ~Twice(<<>>, {m})
  BY DEF Has, Twice
<1>4. ~Has(<<>>, HeldPub(m)) /\ ~Twice(<<>>, HeldPub(m))
  BY DEF Has, Twice
<1>5. ~Has(<<>>, PostedPub(c, m)) /\ ~Twice(<<>>, PostedPub(c, m))
  BY DEF Has, Twice
<1>6. /\ net[c].down = <<>> /\ packetQ = <<>> /\ cl[c].sleepQ = <<>> /\ cl[c].held = <<>>
      /\ clientQ = <<>> /\ dev[c].got = {}
  BY DEF Init, NoLink, NewClient, NewDevice
<1> QED
  BY <1>1, <1>2, <1>3, <1>4, <1>5, <1>6
     DEF Once, NoTwice, Apart, Somewhere, InDown, InQueue, Saved, InHeld, InClientQ, Got

(* Every step takes a publication from one sequence to the next, drops it  *)
(* or leaves it.                                                           *)
LEMMA NextOnce == OnceInv /\ [Next]_vars => OnceInv'
<1> SUFFICES ASSUME OnceInv, [Next]_vars, NEW d \in Clients, NEW m \in Pubs
             PROVE  Once(d, m)'
  BY NextType DEF OnceInv
<1>1. TypeOK /\ Once(d, m)
  BY DEF OnceInv
<1>2. CASE PacketHandle
  <2>1. CASE HandleConnect \/ HandlePingreq
    BY <1>1, <2>1, QuietHandlers, OnceStored
  <2>2. CASE HandleRegAck
    BY <1>1, <2>2, OnceRegAck
  <2>3. CASE HandlePublish
    BY <1>1, <2>3, OncePublish
  <2>4. CASE \/ HandleWilltopic \/ HandleWillmsg \/ HandleDisconnect
             \/ UpdateStatus \/ HandleConnack \/ HandlePingresp \/ HandleBrokerDisconnect
    BY <1>1, <2>4, QuietHandlers
  <2> QED
    BY <1>2, <2>1, <2>2, <2>3, <2>4 DEF PacketHandle
<1>3. CASE BrokerSendStep
  BY <1>1, <1>3, OnceBrokerSend
<1>4. CASE ClientSend \/ ClientSendLost
  BY <1>1, <1>4, OnceSent
<1>5. ASSUME NEW c \in Clients, BrokerRecvStep(c) PROVE Once(d, m)'
  BY <1>1, <1>5, OnceReceives, OnceCloses DEF BrokerRecvStep
<1>6. ASSUME NEW c \in Clients, DeviceStep(c) PROVE Once(d, m)'
  BY <1>1, <1>6, OnceDeviceStep
<1>7. ASSUME NEW c \in Clients, BrokerStep(c) PROVE Once(d, m)'
  BY <1>1, <1>7, OncePublishes, OnceCloses DEF BrokerStep
<1>8. CASE UNCHANGED vars
  BY <1>1, <1>8, LeftAlone, FewerKeeps DEF vars
<1> QED
  BY <1>2, <1>3, <1>4, <1>5, <1>6, <1>7, <1>8 DEF Next

(* In no sequence twice and in one sequence only: in one place at most.    *)
LEMMA OnePlace ==
    ASSUME TypeOK, NEW c \in Clients, NEW m \in Pubs, Once(c, m)
    PROVE  Cardinality(Places(c, m)) <= 1
<1>1. /\ \A i \in DOMAIN net[c].down : net[c].down[i] \in BrokerPacket
      /\ \A i \in DOMAIN packetQ : packetQ[i] \in PacketEvent
      /\ \A i \in DOMAIN cl[c].held : cl[c].held[i] \in Held
      /\ \A i \in DOMAIN clientQ : clientQ[i] \in Event(SnPacket)
  <2>1. /\ net[c].down \in Seq(BrokerPacket) /\ packetQ \in Seq(PacketEvent)
        /\ cl[c].held \in Seq(Held) /\ clientQ \in Seq(Event(SnPacket))
    BY DEF TypeOK, Link, Client
  <2> QED
    BY <2>1, ElementOfSeq, LenProperties
<1>2. ASSUME NEW x \in Places(c, m)
      PROVE  \/ x[1] = "down" /\ x = <<"down", x[2]>> /\ x[2] \in DOMAIN net[c].down
                /\ net[c].down[x[2]] \in DownPub(m)
             \/ x[1] = "packetQ" /\ x = <<"packetQ", x[2]>> /\ x[2] \in DOMAIN packetQ
                /\ packetQ[x[2]] \in QueuedPub(c, m)
             \/ x[1] = "sleepQ" /\ x = <<"sleepQ", x[2]>> /\ x[2] \in DOMAIN cl[c].sleepQ
                /\ cl[c].sleepQ[x[2]] \in {m}
             \/ x[1] = "held" /\ x = <<"held", x[2]>> /\ x[2] \in DOMAIN cl[c].held
                /\ cl[c].held[x[2]] \in HeldPub(m)
             \/ x[1] = "clientQ" /\ x = <<"clientQ", x[2]>> /\ x[2] \in DOMAIN clientQ
                /\ clientQ[x[2]] \in PostedPub(c, m)
             \/ x = <<"got", 0>> /\ Got(c, m)
  BY <1>1, <1>2 DEF Places, DownPub, QueuedPub, HeldPub, PostedPub, Got
<1>3. ASSUME NEW x \in Places(c, m), NEW y \in Places(c, m) PROVE x = y
  <2>1. /\ x[1] = "down" => InDown(c, m)
        /\ x[1] = "packetQ" => InQueue(c, m)
        /\ x[1] = "sleepQ" => Saved(c, m)
        /\ x[1] = "held" => InHeld(c, m)
        /\ x[1] = "clientQ" => InClientQ(c, m)
        /\ x[1] = "got" => Got(c, m)
    BY <1>2 DEF InDown, InQueue, Saved, InHeld, InClientQ, Has
  <2>2. /\ y[1] = "down" => InDown(c, m)
        /\ y[1] = "packetQ" => InQueue(c, m)
        /\ y[1] = "sleepQ" => Saved(c, m)
        /\ y[1] = "held" => InHeld(c, m)
        /\ y[1] = "clientQ" => InClientQ(c, m)
        /\ y[1] = "got" => Got(c, m)
    BY <1>2 DEF InDown, InQueue, Saved, InHeld, InClientQ, Has
  <2>3. /\ x[1] \in {"down", "packetQ", "sleepQ", "held", "clientQ", "got"}
        /\ y[1] \in {"down", "packetQ", "sleepQ", "held", "clientQ", "got"}
    BY <1>2
  <2>4. x[1] = y[1]
    BY <2>1, <2>2, <2>3 DEF Once, Apart
  <2>5. x[2] = y[2] /\ x = <<x[1], x[2]>> /\ y = <<y[1], y[2]>>
    BY <1>2, <2>4 DEF Once, NoTwice, Twice
  <2> QED
    BY <2>4, <2>5
<1>4. Places(c, m) = {} \/ \E x : Places(c, m) = {x}
  BY <1>3
<1>5. Cardinality({}) = 0 /\ \A x : Cardinality({x}) = 1
  BY FS_EmptySet, FS_Singleton
<1>6. Cardinality(Places(c, m)) \in {0, 1}
  <2> HIDE DEF Places
  <2> QED
    BY <1>4, <1>5
<1> QED
  BY <1>6

(* Saving, replaying, holding and releasing a PUBLISH never make two of    *)
(* it: sendStoredPublish and handleRegAck take from the Client what they   *)
(* post, and what is dropped is dropped whole.                             *)
THEOREM PublishedOnce == Spec => []AtMostOnce
<1>1. OnceInv => AtMostOnce
  BY OnePlace DEF OnceInv, AtMostOnce
<1> QED
  BY <1>1, InitOnce, NextOnce, PTL DEF Spec

-----------------------------------------------------------------------------
(* RegisterFirst: while no packet between the gateway and a device is      *)
(* lost, a device learns a topic id before the first PUBLISH that uses it. *)
(*                                                                         *)
(* RegisterFirst is not inductive: a PUBLISH is posted with the id that    *)
(* the topic table has (handlePublish) or that the held PUBLISH has        *)
(* (handleRegAck).  Inductive is that each of these ids is announced: the  *)
(* device has been told, or the REGISTER is in the queue to it.            *)

AllAnnounced(c, tid) == Announced(c, tid, Len(clientQ))

TableAnnounced ==
    \A c \in Clients, t \in Topics : cl[c].tid[t] # 0 => AllAnnounced(c, cl[c].tid[t])

HeldTids(c) == { cl[c].held[k].tid : k \in DOMAIN cl[c].held }

HeldAnnounced == \A c \in Clients : \A tid \in HeldTids(c) : AllAnnounced(c, tid)

RegisterInv == TypeOK /\ TableAnnounced /\ HeldAnnounced /\ RegisterFirst

(* The condition on an event that is about to be posted.                   *)
MayPost(e) ==
    (e.pkt.type = "PUBLISH" /\ e.pkt.tid # 0) => AllAnnounced(e.client, e.pkt.tid)

ToldKept == \A c \in Clients : dev'[c].told = dev[c].told

TidsKept == \A c \in Clients, t \in Topics : cl'[c].tid[t] \in {0, cl[c].tid[t]}

HeldKept == \A c \in Clients : HeldTids(c)' \subseteq HeldTids(c)

(* What is announced stays announced when an event is posted.              *)
LEMMA StaysAnnounced ==
    ASSUME TypeOK, ToldKept, NEW e \in Event(SnPacket),
           clientQ' \in {clientQ, Append(clientQ, e)},
           NEW c \in Clients, NEW tid, NEW n \in 0..Len(clientQ), Announced(c, tid, n)
    PROVE  Announced(c, tid, n)' /\ AllAnnounced(c, tid)'
<1>1. clientQ \in Seq(Event(SnPacket)) /\ Len(clientQ) \in Nat
  BY LenProperties DEF TypeOK
<1>2. /\ Len(clientQ') \in Nat /\ Len(clientQ') >= Len(clientQ)
      /\ \A j \in 1..Len(clientQ) : clientQ'[j] = clientQ[j]
  BY <1>1, AppendProperties
<1>3. CASE tid \in dev[c].told
  BY <1>3 DEF ToldKept, Announced, AllAnnounced
<1>4. CASE tid \notin dev[c].told
  <2>1. PICK j \in 1..n : /\ clientQ[j].client = c
                          /\ clientQ[j].pkt.type = "REGISTER"
                          /\ clientQ[j].pkt.tid = tid
    BY <1>4 DEF Announced
  <2>2. j \in 1..Len(clientQ) /\ j \in 1..Len(clientQ')
    BY <1>1, <1>2
  <2>3. clientQ'[j] = clientQ[j]
    BY <1>2, <2>2
  <2> QED
    BY <2>1, <2>2, <2>3 DEF Announced, AllAnnounced
<1> QED
  BY <1>3, <1>4

(* A posted PUBLISH whose id is announced has its REGISTER in front of it. *)
LEMMA RegisterFirstKept ==
    ASSUME RegisterInv, TypeOK', ToldKept, NEW e \in Event(SnPacket),
           clientQ' \in {clientQ, Append(clientQ, e)},
           clientQ' # clientQ => MayPost(e)
    PROVE  RegisterFirst'
<1> USE DEF RegisterInv
<1> SUFFICES ASSUME NEW i \in DOMAIN clientQ',
                    clientQ'[i].pkt.type = "PUBLISH", clientQ'[i].pkt.tid # 0
             PROVE  Announced(clientQ[i].client, clientQ[i].pkt.tid, i - 1)'
  BY DEF RegisterFirst
<1>1. clientQ \in Seq(Event(SnPacket)) /\ Len(clientQ) \in Nat
  BY LenProperties DEF TypeOK
<1>2. clientQ' \in Seq(Event(SnPacket)) /\ DOMAIN clientQ' = 1..Len(clientQ')
  BY LenProperties DEF TypeOK
<1>3. clientQ'[i] \in Event(SnPacket)
  BY <1>2, ElementOfSeq
<1>4. CASE i \in 1..Len(clientQ)
  <2>1. clientQ'[i] = clientQ[i] /\ i \in DOMAIN clientQ /\ i - 1 \in 0..Len(clientQ)
    BY <1>1, <1>4, AppendProperties, LenProperties
  <2>2. Announced(clientQ'[i].client, clientQ'[i].pkt.tid, i - 1)
    BY <2>1 DEF RegisterFirst
  <2>3. clientQ'[i].client \in Clients
    BY <1>3 DEF Event
  <2> QED
    BY <2>1, <2>2, <2>3, StaysAnnounced
<1>5. CASE i \notin 1..Len(clientQ)
  <2>1. clientQ' = Append(clientQ, e)
    BY <1>2, <1>5
  <2>2. Len(clientQ') = Len(clientQ) + 1 /\ clientQ'[Len(clientQ) + 1] = e
    BY <1>1, <2>1, AppendProperties
  <2>3. i = Len(clientQ) + 1 /\ i - 1 = Len(clientQ) /\ i - 1 \in 0..Len(clientQ)
    BY <1>1, <1>2, <1>5, <2>2
  <2>4. clientQ' # clientQ
    BY <1>1, <2>2
  <2>5. e.client \in Clients /\ Announced(e.client, e.pkt.tid, i - 1)
    BY <2>2, <2>3, <2>4 DEF MayPost, AllAnnounced, Event
  <2>6. Announced(e.client, e.pkt.tid, i - 1)'
    BY <2>3, <2>5, StaysAnnounced
  <2> QED
    BY <2>2, <2>3, <2>6 DEF Announced
<1> QED
  BY <1>4, <1>5

(* A step that announces nothing and withdraws nothing.                    *)
LEMMA OtherStep ==
    ASSUME RegisterInv, TypeOK', ToldKept, TidsKept, HeldKept,
           NEW e \in Event(SnPacket), clientQ' \in {clientQ, Append(clientQ, e)},
           clientQ' # clientQ => MayPost(e)
    PROVE  RegisterInv'
<1> USE DEF RegisterInv
<1>1. clientQ \in Seq(Event(SnPacket)) /\ Len(clientQ) \in Nat /\ Len(clientQ) \in 0..Len(clientQ)
  BY LenProperties DEF TypeOK
<1>2. TableAnnounced'
  <2> SUFFICES ASSUME NEW c \in Clients, NEW t \in Topics, cl'[c].tid[t] # 0
               PROVE  AllAnnounced(c, cl[c].tid[t])'
    BY DEF TableAnnounced
  <2>1. cl'[c].tid[t] = cl[c].tid[t]
    BY DEF TidsKept
  <2>2. Announced(c, cl[c].tid[t], Len(clientQ))
    BY <2>1 DEF TableAnnounced, AllAnnounced
  <2>3. \A tid : Announced(c, tid, Len(clientQ)) => AllAnnounced(c, tid)'
    BY <1>1, StaysAnnounced
  <2> QED
    BY <2>1, <2>2, <2>3 DEF AllAnnounced, Announced
<1>3. HeldAnnounced'
  <2> SUFFICES ASSUME NEW c \in Clients, NEW tid \in HeldTids(c)'
               PROVE  AllAnnounced(c, tid)'
    BY DEF HeldAnnounced
  <2>1. Announced(c, tid, Len(clientQ))
    BY DEF HeldKept, HeldAnnounced, AllAnnounced
  <2> QED
    BY <1>1, <2>1, StaysAnnounced
<1> QED
  BY <1>2, <1>3, RegisterFirstKept

(* What is left of a list after a removal was in the list.                 *)
LEMMA WithoutIndexElements ==
    ASSUME NEW S, NEW s \in Seq(S), NEW i \in DOMAIN s, NEW k \in DOMAIN WithoutIndex(s, i)
    PROVE  \E l \in DOMAIN s : WithoutIndex(s, i)[k] = s[l]
<1>1. DOMAIN s = 1..Len(s) /\ Len(s) \in Nat /\ i \in 1..Len(s)
  BY LenProperties
<1>2. \A j \in 1..Len(s) : s[j] \in S
  BY ElementOfSeq
<1> DEFINE front == SubSeq(s, 1, i - 1)
           back == SubSeq(s, i + 1, Len(s))
<1>3. \A j \in 1..(i - 1) : s[j] \in S
  BY <1>1, <1>2
<1>4. \A j \in (i + 1)..Len(s) : s[j] \in S
  BY <1>1, <1>2
<1>5. /\ front \in Seq(S)
      /\ Len(front) = IF 1 <= i - 1 THEN (i - 1) - 1 + 1 ELSE 0
      /\ \A j \in 1..((i - 1) - 1 + 1) : front[j] = s[1 + j - 1]
  BY <1>1, <1>3, SubSeqProperties
<1>6. /\ back \in Seq(S)
      /\ Len(back) = IF i + 1 <= Len(s) THEN Len(s) - (i + 1) + 1 ELSE 0
      /\ \A j \in 1..(Len(s) - (i + 1) + 1) : back[j] = s[(i + 1) + j - 1]
  BY <1>1, <1>4, SubSeqProperties
<1>7. Len(front) = i - 1 /\ Len(back) = Len(s) - i
  BY <1>1, <1>5, <1>6
<1> HIDE DEF front, back
<1>8. /\ WithoutIndex(s, i) = front \o back
      /\ DOMAIN (front \o back) = 1..(Len(front) + Len(back))
  BY <1>5, <1>6, ConcatProperties, LenProperties DEF WithoutIndex, front, back
<1>9. k \in 1..(Len(front) + Len(back))
  BY <1>8
<1>10. (front \o back)[k] = IF k <= Len(front) THEN front[k] ELSE back[k - Len(front)]
  BY <1>5, <1>6, <1>9, ConcatProperties
<1>11. CASE k <= Len(front)
  <2>1. k \in 1..((i - 1) - 1 + 1) /\ k \in 1..Len(s) /\ 1 + k - 1 = k
    BY <1>1, <1>7, <1>9, <1>11
  <2>2. WithoutIndex(s, i)[k] = s[k]
    BY <1>5, <1>8, <1>10, <1>11, <2>1
  <2> QED
    BY <1>1, <2>1, <2>2
<1>12. CASE ~(k <= Len(front))
  <2> DEFINE j == k - Len(front)
  <2>1. j \in 1..(Len(s) - (i + 1) + 1) /\ (i + 1) + j - 1 \in 1..Len(s)
    BY SMTT(30), <1>1, <1>7, <1>9, <1>12
  <2>2. WithoutIndex(s, i)[k] = s[(i + 1) + j - 1]
    BY <1>6, <1>8, <1>10, <1>12, <2>1
  <2> QED
    BY <1>1, <2>1, <2>2
<1> QED
  BY <1>11, <1>12

(* A step that leaves the clients' tables, held PUBLISHes and devices.     *)
LEMMA QuietStep ==
    ASSUME RegisterInv, TypeOK', ToldKept, clientQ' = clientQ,
           \A c \in Clients : /\ cl'[c].held = cl[c].held
                             /\ cl'[c].tid \in {NoTopics, cl[c].tid}
    PROVE  RegisterInv'
<1>1. TidsKept
  BY DEF TidsKept, NoTopics
<1>2. HeldKept
  BY DEF HeldKept, HeldTids
<1>3. ASSUME NEW e \in Event(SnPacket) PROVE RegisterInv'
  BY <1>1, <1>2, <1>3, OtherStep
<1>4. CASE Clients = {}
  <2>1. \A q : q \in Seq(Event(SnPacket)) => DOMAIN q = {} \/ \E e : e \in Event(SnPacket)
    BY ElementOfSeq, LenProperties
  <2>2. DOMAIN clientQ = {} \/ RegisterInv'
    BY <1>3, <2>1 DEF RegisterInv, TypeOK
  <2> QED
    BY <1>4, <2>2 DEF RegisterInv, TableAnnounced, HeldAnnounced, RegisterFirst
<1>5. CASE Clients # {}
  <2>1. PICK c \in Clients : TRUE
    BY <1>5
  <2>2. To(c, [type |-> "PINGRESP"]) \in Event(SnPacket)
    BY MadePackets DEF To, Event
  <2> QED
    BY <1>3, <2>2
<1> QED
  BY <1>4, <1>5

(* A step that also posts an event which is not a PUBLISH.                 *)
LEMMA PostingStep ==
    ASSUME RegisterInv, TypeOK', ToldKept,
           NEW c \in Clients, NEW p \in SnPacket, p.type # "PUBLISH",
           clientQ' = Append(clientQ, To(c, p)),
           \A d \in Clients : /\ cl'[d].held = cl[d].held
                             /\ cl'[d].tid \in {NoTopics, cl[d].tid}
    PROVE  RegisterInv'
<1>1. TidsKept
  BY DEF TidsKept, NoTopics
<1>2. HeldKept
  BY DEF HeldKept, HeldTids
<1>3. To(c, p) \in Event(SnPacket) /\ MayPost(To(c, p))
  BY DEF To, Event, MayPost
<1> QED
  BY <1>1, <1>2, <1>3, OtherStep

-----------------------------------------------------------------------------
(* The steps                                                               *)

(* The handlers of PacketHandleTask that post no PUBLISH and hold none.    *)
LEMMA HandlersStep ==
    ASSUME RegisterInv, TypeOK',
           \/ HandleConnect \/ HandleWilltopic \/ HandleWillmsg \/ HandleDisconnect
           \/ HandlePingreq \/ UpdateStatus
           \/ HandleConnack \/ HandlePingresp \/ HandleBrokerDisconnect
    PROVE  RegisterInv'
<1> DEFINE c == Head(packetQ).client
           Kept == \A d \in Clients : /\ cl'[d].held = cl[d].held
                                     /\ cl'[d].tid \in {NoTopics, cl[d].tid}
<1>1. TypeOK /\ cl \in [Clients -> Client] /\ \A d \in Clients : cl[d] \in Client
  BY DEF RegisterInv, TypeOK
<1>2. dev' = dev => ToldKept
  BY DEF ToldKept
<1>3. CASE HandleConnect
  <2>1. FromDevice("CONNECT") /\ dev' = dev
    BY <1>3 DEF HandleConnect, FromDevice
  <2>2. c \in Clients
    BY <1>1, <2>1, TakeDevice
  <2>3. Kept
    <3> DEFINE p == Head(packetQ).pkt
               conn == [NoConn EXCEPT !.will = p.will, !.clean = p.clean, !.try = p.try]
               r == [cl[c] EXCEPT !.sleepQ = <<>>]
               s == [Disconnected(cl[c]) EXCEPT !.conn = conn, !.clean = p.clean,
                                       !.tid = IF p.clean THEN NoTopics ELSE cl[c].tid]
    <3>1. cl[c] \in Client /\ Disconnected(cl[c]) \in Client
      BY <1>1, <2>2, DisconnectedType
    <3>2. r.held = cl[c].held /\ r.tid = cl[c].tid
      BY <3>1 DEF Client
    <3>3. s.held = cl[c].held /\ s.tid \in {NoTopics, cl[c].tid}
      BY <3>1, StatusFields DEF Client, OnlyStatus
    <3>4. cl' = [cl EXCEPT ![c] = r] \/ cl' = [cl EXCEPT ![c] = s]
      BY <1>3 DEF HandleConnect
    <3> HIDE DEF r, s
    <3> QED
      BY <1>1, <2>2, <3>2, <3>3, <3>4, ChangedClient
  <2>4. \/ clientQ' = clientQ
        \/ \E p \in {[type |-> "CONNACK", accepted |-> TRUE], [type |-> "WILLTOPICREQ"]} :
              clientQ' = Append(clientQ, To(c, p))
    BY <1>3 DEF HandleConnect
  <2> QED
    BY <1>2, <2>1, <2>2, <2>3, <2>4, MadePackets, QuietStep, PostingStep
<1>4. CASE HandleWilltopic
  <2>1. FromDevice("WILLTOPIC") /\ dev' = dev
    BY <1>4 DEF HandleWilltopic, FromDevice
  <2>2. c \in Clients
    BY <1>1, <2>1, TakeDevice
  <2>3. Kept
    BY <1>1, <1>4, <2>2 DEF HandleWilltopic, Client
  <2>4. clientQ' = Append(clientQ, To(c, [type |-> "WILLMSGREQ"]))
    BY <1>4 DEF HandleWilltopic
  <2> QED
    BY <1>2, <2>1, <2>2, <2>3, <2>4, MadePackets, PostingStep
<1>5. CASE HandleWillmsg
  <2>1. dev' = dev /\ clientQ' = clientQ
    BY <1>5 DEF HandleWillmsg, FromDevice
  <2>2. FromDevice("WILLMSG")
    BY <1>5 DEF HandleWillmsg
  <2>3. c \in Clients
    BY <1>1, <2>2, TakeDevice
  <2>4. Kept
    <3> DEFINE r == [cl[c] EXCEPT !.conn = [cl[c].conn EXCEPT !.msg = Head(packetQ).pkt.try],
                                  !.waitWill = FALSE]
    <3>1. r.held = cl[c].held /\ r.tid = cl[c].tid
      BY <1>1, <2>3 DEF Client
    <3>2. cl' = [cl EXCEPT ![c] = r] \/ cl' = cl
      BY <1>5 DEF HandleWillmsg
    <3> HIDE DEF r
    <3> QED
      BY <1>1, <2>3, <3>1, <3>2, ChangedClient
  <2> QED
    BY <1>2, <2>1, <2>4, QuietStep
<1>6. CASE HandleDisconnect
  <2>1. FromDevice("DISCONNECT") /\ dev' = dev /\ Kept
    BY <1>6 DEF HandleDisconnect, FromDevice
  <2>2. c \in Clients
    BY <1>1, <2>1, TakeDevice
  <2>3. clientQ' = Append(clientQ, To(c, [type |-> "DISCONNECT"]))
    BY <1>6 DEF HandleDisconnect
  <2> QED
    BY <1>2, <2>1, <2>2, <2>3, MadePackets, PostingStep
<1>7. CASE HandlePingreq
  <2>1. dev' = dev /\ clientQ' = clientQ
    BY <1>7 DEF HandlePingreq, FromDevice
  <2>2. FromDevice("PINGREQ")
    BY <1>7 DEF HandlePingreq
  <2>3. c \in Clients
    BY <1>1, <2>2, TakeDevice
  <2>4. Kept
    <3> DEFINE r == [cl[c] EXCEPT !.sleepQ = <<>>, !.holdPing = TRUE]
               s == [cl[c] EXCEPT !.holdPing = FALSE]
    <3>1. r.held = cl[c].held /\ r.tid = cl[c].tid /\ s.held = cl[c].held /\ s.tid = cl[c].tid
      BY <1>1, <2>3 DEF Client
    <3>2. cl' = [cl EXCEPT ![c] = r] \/ cl' = [cl EXCEPT ![c] = s]
      BY <1>7 DEF HandlePingreq
    <3> HIDE DEF r, s
    <3> QED
      BY <1>1, <2>3, <3>1, <3>2, ChangedClient
  <2> QED
    BY <1>2, <2>1, <2>4, QuietStep
<1>8. CASE UpdateStatus
  <2>1. dev' = dev /\ clientQ' = clientQ
    BY <1>8 DEF UpdateStatus
  <2>2. Kept
    <3>1. upd.client \in Clients
      BY <1>1, <1>8 DEF UpdateStatus, TypeOK, DeviceEvent
    <3>2. OnlyStatus(UpdatedStatus(cl[upd.client], upd.pkt), cl[upd.client])
      BY <1>1, <3>1, StatusFields
    <3>3. \A d \in Clients : OnlyStatus(cl'[d], cl[d])
      BY <1>1, <1>8, <3>1, <3>2, StatusStep DEF UpdateStatus
    <3> QED
      BY <3>3 DEF OnlyStatus
  <2> QED
    BY <1>2, <2>1, <2>2, QuietStep
<1>9. CASE HandleConnack
  <2>1. FromBroker("CONNACK") /\ dev' = dev
    BY <1>9 DEF HandleConnack, FromBroker
  <2>2. c \in Clients /\ Head(packetQ).pkt.accepted \in BOOLEAN
    BY <1>1, <2>1, TakeBroker, BrokerFields
  <2>3. Kept
    <3>1. \E r \in {[cl[c] EXCEPT !.status = "Active"], Disconnected(cl[c])} : cl' = [cl EXCEPT ![c] = r]
      BY <1>9 DEF HandleConnack
    <3>2. "Active" \in Status
      BY DEF Status
    <3>3. \A d \in Clients : OnlyStatus(cl'[d], cl[d])
      <4>1. PICK r : /\ r \in {[cl[c] EXCEPT !.status = "Active"], Disconnected(cl[c])}
                     /\ cl' = [cl EXCEPT ![c] = r]
        BY <3>1
      <4>2. OnlyStatus([cl[c] EXCEPT !.status = "Active"], cl[c])
        BY <1>1, <2>2, <3>2, StatusFields
      <4>3. OnlyStatus(Disconnected(cl[c]), cl[c])
        BY <1>1, <2>2, StatusFields
      <4>4. OnlyStatus(r, cl[c])
        BY <4>1, <4>2, <4>3
      <4> QED
        BY <1>1, <2>2, <4>1, <4>4, StatusStep
    <3> QED
      BY <3>3 DEF OnlyStatus
  <2>4. clientQ' = Append(clientQ, To(c, [type |-> "CONNACK", accepted |-> Head(packetQ).pkt.accepted]))
    BY <1>9 DEF HandleConnack
  <2> QED
    BY <1>2, <2>1, <2>2, <2>3, <2>4, MadePackets, PostingStep
<1>10. CASE HandlePingresp
  <2>1. FromBroker("PINGRESP") /\ dev' = dev
    BY <1>10 DEF HandlePingresp, FromBroker
  <2>2. c \in Clients
    BY <1>1, <2>1, TakeBroker
  <2>3. Kept
    <3>1. \A d \in Clients : OnlyStatus(cl'[d], cl[d])
      BY <1>1, <1>10, <2>2, StatusFields, StatusStep DEF HandlePingresp
    <3> QED
      BY <3>1 DEF OnlyStatus
  <2>4. clientQ' = Append(clientQ, To(c, [type |-> "PINGRESP"]))
    BY <1>10 DEF HandlePingresp
  <2> QED
    BY <1>2, <2>1, <2>2, <2>3, <2>4, MadePackets, PostingStep
<1>11. CASE HandleBrokerDisconnect
  <2>1. dev' = dev /\ clientQ' = clientQ
    BY <1>11 DEF HandleBrokerDisconnect, FromBroker
  <2>2. Kept
    BY <1>1, <1>11, StatusFields DEF HandleBrokerDisconnect, OnlyStatus
  <2> QED
    BY <1>2, <2>1, <2>2, QuietStep
<1> QED
  BY <1>3, <1>4, <1>5, <1>6, <1>7, <1>8, <1>9, <1>10, <1>11

(* The REGACK releases a held PUBLISH, whose id is announced.              *)
LEMMA RegAckStep == ASSUME RegisterInv, TypeOK', HandleRegAck PROVE RegisterInv'
<1> DEFINE c == Head(packetQ).client
           found == FirstHeld(c, Head(packetQ).pkt.msgId)
           k == CHOOSE i \in found : TRUE
           left == IF found = {} THEN cl[c].held ELSE WithoutIndex(cl[c].held, k)
           h == cl[c].held[k]
           e == To(c, [type |-> "PUBLISH", pub |-> h.pub, tid |-> h.tid])
<1>1. TypeOK /\ cl \in [Clients -> Client] /\ \A d \in Clients : cl[d] \in Client
  BY DEF RegisterInv, TypeOK
<1>2. FromDevice("REGACK") /\ dev' = dev
  BY DEF HandleRegAck, FromDevice
<1>3. c \in Clients
  BY <1>1, <1>2, TakeDevice
<1>4. cl[c].held \in Seq(Held)
  BY <1>1, <1>3 DEF Client
<1> DEFINE r == [cl[c] EXCEPT !.held = left, !.holdPing = @ /\ ~(cl[c].holdPing /\ left = <<>>)]
<1>5. cl' \in {cl, [cl EXCEPT ![c] = r]}
  BY DEF HandleRegAck
<1>6. r.held = left /\ r.tid = cl[c].tid
  BY <1>1, <1>3 DEF Client
<1> HIDE DEF r, left
<1>7. \A d \in Clients : cl'[d].tid = cl[d].tid
  BY <1>1, <1>3, <1>5, <1>6, ChangedClient
<1>8. \A d \in Clients : cl'[d].held = cl[d].held \/ (d = c /\ cl'[d].held = left)
  BY <1>1, <1>3, <1>5, <1>6, ChangedClient
<1>9. ToldKept /\ TidsKept
  BY <1>2, <1>7 DEF ToldKept, TidsKept
<1>10. CASE found = {}
  <2>1. clientQ' = clientQ
    BY <1>10 DEF HandleRegAck
  <2>2. left = cl[c].held
    BY <1>10 DEF left
  <2>3. \A d \in Clients : cl'[d].held = cl[d].held /\ cl'[d].tid \in {NoTopics, cl[d].tid}
    BY <1>7, <1>8, <2>2
  <2> QED
    BY <1>9, <2>1, <2>3, QuietStep
<1>11. CASE found # {}
  <2>1. k \in DOMAIN cl[c].held
    BY <1>11 DEF FirstHeld
  <2>2. h \in Held
    BY <1>4, <2>1, ElementOfSeq, LenProperties
  <2>3. e \in Event(SnPacket)
    BY <1>3, <2>2, MadePackets DEF To, Event, Held
  <2>4. h.tid \in HeldTids(c)
    BY <2>1 DEF HeldTids
  <2>5. MayPost(e)
    BY <1>3, <2>4 DEF RegisterInv, HeldAnnounced, MayPost, To
  <2>6. clientQ' \in {clientQ, Append(clientQ, e)}
    BY DEF HandleRegAck
  <2>7. left = WithoutIndex(cl[c].held, k)
    BY <1>11 DEF left
  <2> HIDE DEF k
  <2>8. \A j \in DOMAIN left : \E l \in DOMAIN cl[c].held : left[j] = cl[c].held[l]
    BY <1>4, <2>1, <2>7, WithoutIndexElements
  <2>9. \A d \in Clients : \A j \in DOMAIN cl'[d].held :
            \E l \in DOMAIN cl[d].held : cl'[d].held[j] = cl[d].held[l]
    BY <1>8, <2>8
  <2>10. HeldKept
    BY <2>9 DEF HeldKept, HeldTids
  <2> QED
    BY <1>9, <2>3, <2>5, <2>6, <2>10, OtherStep
<1> QED
  BY <1>10, <1>11

(* The PUBLISH of a known topic carries the id of the table; the first     *)
(* PUBLISH of a topic puts the REGISTER for its id into the queue.         *)
LEMMA PublishStep == ASSUME RegisterInv, TypeOK', HandlePublish PROVE RegisterInv'
<1>1. /\ TypeOK /\ cl \in [Clients -> Client] /\ \A d \in Clients : cl[d] \in Client
      /\ clientQ \in Seq(Event(SnPacket)) /\ Len(clientQ) \in Nat
  BY LenProperties DEF RegisterInv, TypeOK
<1>2. FromBroker("PUBLISH") /\ dev' = dev
  BY DEF HandlePublish, FromBroker
<1>3. PICK c \in Clients, m \in Pubs :
          \/ PublishDropped(c) \/ PublishSaved(c, m) \/ PublishKnown(c, m)
          \/ PublishUnmatched(c, m) \/ PublishRegister(c, m)
  BY <1>1, <1>2, TakeBroker, BrokerFields DEF HandlePublish
<1> DEFINE t == TopicOf[m]
<1>4. t \in Topics /\ cl[c].tid \in [Topics -> Nat]
  BY <1>1, SessionAssumption DEF Client
<1>5. ToldKept
  BY <1>2 DEF ToldKept
<1> HIDE DEF t
<1>6. ASSUME clientQ' = clientQ, cl' = cl PROVE RegisterInv'
  BY <1>5, <1>6, QuietStep
<1>7. CASE PublishDropped(c)
  BY <1>6, <1>7 DEF PublishDropped
<1>8. CASE PublishSaved(c, m)
  <2> DEFINE r == [cl[c] EXCEPT !.sleepQ = Append(cl[c].sleepQ, m)]
  <2>1. r.held = cl[c].held /\ r.tid = cl[c].tid
    BY <1>1, <1>3 DEF Client
  <2>2. cl' \in {cl, [cl EXCEPT ![c] = r]} /\ clientQ' = clientQ
    BY <1>8 DEF PublishSaved
  <2> HIDE DEF r
  <2>3. \A d \in Clients : cl'[d].held = cl[d].held /\ cl'[d].tid \in {NoTopics, cl[d].tid}
    BY <1>1, <1>3, <2>1, <2>2, ChangedClient
  <2> QED
    BY <1>5, <2>2, <2>3, QuietStep
<1>9. CASE PublishKnown(c, m)
  <2> DEFINE e == To(c, [type |-> "PUBLISH", pub |-> m, tid |-> cl[c].tid[t]])
  <2>1. clientQ' = Append(clientQ, e) /\ cl' = cl
    BY <1>9 DEF PublishKnown, t
  <2>2. cl[c].tid[t] \in Nat
    BY <1>4
  <2>3. e \in Event(SnPacket)
    BY <1>3, <2>2, MadePackets DEF To, Event
  <2>4. MayPost(e)
    BY <1>3, <1>4 DEF RegisterInv, TableAnnounced, MayPost, To
  <2>5. TidsKept /\ HeldKept
    BY <2>1 DEF TidsKept, HeldKept, HeldTids
  <2> QED
    BY <1>5, <2>1, <2>3, <2>4, <2>5, OtherStep
<1>10. CASE PublishUnmatched(c, m)
  BY <1>6, <1>10 DEF PublishUnmatched
<1>11. CASE PublishRegister(c, m)
  <2>1. cl[c].nextTid \in 0..MaxTid /\ cl[c].snMsgId \in 0..MaxSnMsgId
    BY <1>1 DEF Client
  <2>2. NextSnMsgId(c) \in 1..MaxSnMsgId
    BY <2>1, SessionAssumption DEF NextSnMsgId
  <2>3. PICK tid \in Nat \ {0} : tid = NextTid(c)
    BY <2>1, SessionAssumption DEF NextTid
  <2>4. PICK id \in 1..MaxSnMsgId : id = NextSnMsgId(c)
    BY <2>2
  <2> DEFINE h == [msgId |-> id, pub |-> m, tid |-> tid]
             r == [cl[c] EXCEPT !.held = Append(cl[c].held, h), !.snMsgId = id,
                                !.nextTid = tid, !.tid[t] = tid]
             e == To(c, [type |-> "REGISTER", msgId |-> id, tid |-> tid])
  <2>5. \/ cl' = cl /\ clientQ' = clientQ
        \/ cl' = [cl EXCEPT ![c] = r] /\ clientQ' = Append(clientQ, e)
    BY <1>11, <2>3, <2>4 DEF PublishRegister, PostRegister, t
  <2>6. r.held = Append(cl[c].held, h) /\ r.tid = [cl[c].tid EXCEPT ![t] = tid]
    BY <1>1, <1>3 DEF Client
  <2>7. e \in Event(SnPacket) /\ MayPost(e)
    BY <1>3, <2>3, <2>4, MadePackets DEF To, Event, MayPost
  <2>8. e.client = c /\ e.pkt.type = "REGISTER" /\ e.pkt.tid = tid
    BY DEF To
  <2>9. h.tid = tid
    OBVIOUS
  <2>10. h \in Held
    BY <2>3, <2>4 DEF Held
  <2> HIDE DEF h, r, e
  <2>11. CASE cl' = [cl EXCEPT ![c] = r] /\ clientQ' = Append(clientQ, e)
    <3>1. /\ clientQ' \in Seq(Event(SnPacket)) /\ Len(clientQ') = Len(clientQ) + 1
          /\ clientQ'[Len(clientQ')] = e
      BY <1>1, <2>7, <2>11, AppendProperties
    <3>2. Len(clientQ') \in 1..Len(clientQ')
      BY <1>1, <3>1
    <3>3. AllAnnounced(c, tid)'
      BY <2>8, <3>1, <3>2 DEF AllAnnounced, Announced
    <3>4. \A d \in Clients : \A x : AllAnnounced(d, x) => AllAnnounced(d, x)'
      BY <1>1, <1>5, <2>7, <2>11, StaysAnnounced DEF AllAnnounced
    <3>5. \A d \in Clients : cl'[d] = IF d = c THEN r ELSE cl[d]
      BY <1>1, <1>3, <2>11, ChangedClient
    <3>6. TableAnnounced'
      <4> SUFFICES ASSUME NEW d \in Clients, NEW u \in Topics, cl'[d].tid[u] # 0
                   PROVE  AllAnnounced(d, cl[d].tid[u])'
        BY DEF TableAnnounced
      <4>1. CASE d = c /\ u = t
        <5>1. cl'[d].tid[u] = tid
          BY <1>3, <1>4, <2>6, <3>5, <4>1
        <5> QED
          BY <3>3, <4>1, <5>1 DEF AllAnnounced, Announced
      <4>2. CASE ~(d = c /\ u = t)
        <5>1. cl'[d].tid[u] = cl[d].tid[u]
          BY <1>3, <1>4, <2>6, <3>5, <4>2
        <5>2. AllAnnounced(d, cl[d].tid[u])
          BY <5>1 DEF RegisterInv, TableAnnounced
        <5>3. \A x : AllAnnounced(d, x) => AllAnnounced(d, x)'
          BY <3>4
        <5> QED
          BY <5>1, <5>2, <5>3 DEF AllAnnounced, Announced
      <4> QED
        BY <4>1, <4>2
    <3>7. HeldAnnounced'
      <4> SUFFICES ASSUME NEW d \in Clients, NEW x \in HeldTids(d)'
                   PROVE  AllAnnounced(d, x)'
        BY <2>3, <2>4 DEF HeldAnnounced
      <4>1. x \in HeldTids(d) \/ (d = c /\ x = tid)
        <5>1. CASE d = c
          <6>1. cl[c].held \in Seq(Held)
            BY <1>1, <1>3 DEF Client
          <6>2. /\ cl'[c].held = Append(cl[c].held, h)
                /\ DOMAIN Append(cl[c].held, h) = 1..(Len(cl[c].held) + 1)
                /\ DOMAIN cl[c].held = 1..Len(cl[c].held) /\ Len(cl[c].held) \in Nat
            BY <1>3, <2>6, <2>10, <3>5, <6>1, AppendProperties, LenProperties
          <6>3. PICK k \in 1..(Len(cl[c].held) + 1) : x = Append(cl[c].held, h)[k].tid
            BY <5>1, <6>2 DEF HeldTids
          <6>4. CASE k \in 1..Len(cl[c].held)
            BY SMTT(30), <2>10, <5>1, <6>1, <6>2, <6>3, <6>4, AppendProperties DEF HeldTids
          <6>5. CASE k = Len(cl[c].held) + 1
            BY <2>9, <2>10, <5>1, <6>1, <6>3, <6>5, AppendProperties
          <6> QED
            BY <6>2, <6>3, <6>4, <6>5
        <5>2. CASE d # c
          BY <3>5, <5>2 DEF HeldTids
        <5> QED
          BY <5>1, <5>2
      <4>2. CASE x \in HeldTids(d)
        BY <3>4, <4>2 DEF RegisterInv, HeldAnnounced
      <4>3. CASE d = c /\ x = tid
        BY <3>3, <4>3 DEF AllAnnounced, Announced
      <4> QED
        BY <4>1, <4>2, <4>3
    <3>8. RegisterFirst'
      BY <1>5, <2>7, <2>11, RegisterFirstKept
    <3> QED
      BY <3>6, <3>7, <3>8 DEF RegisterInv
  <2> QED
    BY <1>6, <2>5, <2>11
<1> QED
  BY <1>3, <1>7, <1>8, <1>9, <1>10, <1>11

(* A device learns topic ids from REGISTERs only and forgets none.         *)
LEMMA ReceivedTold ==
    ASSUME NEW d \in Device, NEW p
    PROVE  /\ d.told \subseteq Received(d, p).told
           /\ p.type = "REGISTER" => p.tid \in Received(d, p).told
<1>1. \A s : [d EXCEPT !.st = s].told = d.told
  BY DEF Device
<1>2. \A g : [d EXCEPT !.got = g].told = d.told
  BY DEF Device
<1>3. \A t, r : [d EXCEPT !.told = t, !.regs = r].told = t
  BY DEF Device
<1>4. CASE p.type = "REGISTER"
  <2>1. Received(d, p) = [d EXCEPT !.told = d.told \cup {p.tid}, !.regs = d.regs \cup {p.msgId}]
    BY <1>4 DEF Received
  <2> QED
    BY <1>3, <2>1
<1>5. CASE p.type # "REGISTER"
  BY <1>1, <1>2, <1>5 DEF Received
<1> QED
  BY <1>4, <1>5

(* The device that gets the REGISTER knows the id; for all others the      *)
(* queue has only become shorter by one.                                   *)
LEMMA ClientSendStep == ASSUME RegisterInv, TypeOK', ClientSend PROVE RegisterInv'
<1>1. /\ TypeOK /\ clientQ \in Seq(Event(SnPacket)) /\ clientQ # <<>>
      /\ clientQ' = Tail(clientQ) /\ cl' = cl
  BY DEF RegisterInv, TypeOK, ClientSend
<1>2. /\ Len(clientQ) \in Nat /\ DOMAIN clientQ = 1..Len(clientQ)
      /\ Len(clientQ') = Len(clientQ) - 1 /\ DOMAIN clientQ' = 1..Len(clientQ')
      /\ \A j \in 1..Len(clientQ') : clientQ'[j] = clientQ[j + 1]
      /\ Len(clientQ) >= 1 /\ Head(clientQ) = clientQ[1]
  BY <1>1, HeadTailProperties, LenProperties, EmptySeq
<1>3. Head(clientQ).client \in Clients
  <2>1. Head(clientQ) \in Event(SnPacket)
    BY <1>1, HeadTailProperties
  <2> QED
    BY <2>1 DEF Event
<1>4. \A c \in Clients :
          /\ dev[c].told \subseteq dev'[c].told
          /\ (clientQ[1].client = c /\ clientQ[1].pkt.type = "REGISTER")
                => clientQ[1].pkt.tid \in dev'[c].told
  <2>1. dev' = [dev EXCEPT ![Head(clientQ).client] =
                    Received(dev[Head(clientQ).client], Head(clientQ).pkt)]
    BY DEF ClientSend
  <2>2. dev \in [Clients -> Device]
    BY <1>1 DEF TypeOK
  <2> QED
    BY <1>2, <1>3, <2>1, <2>2, ReceivedTold
<1>5. ASSUME NEW c \in Clients, NEW x, NEW n \in 0..Len(clientQ'), Announced(c, x, n + 1)
      PROVE  Announced(c, x, n)'
  <2>1. CASE x \in dev[c].told
    BY <1>4, <2>1 DEF Announced
  <2>2. CASE x \notin dev[c].told
    <3>1. PICK j \in 1..(n + 1) : /\ clientQ[j].client = c
                                 /\ clientQ[j].pkt.type = "REGISTER"
                                 /\ clientQ[j].pkt.tid = x
      BY <1>5, <2>2 DEF Announced
    <3>2. CASE j = 1
      BY <1>4, <3>1, <3>2 DEF Announced
    <3>3. CASE j # 1
      <4>1. j - 1 \in 1..n /\ j - 1 \in 1..Len(clientQ') /\ (j - 1) + 1 = j
        BY <1>2, <3>3
      <4>2. clientQ'[j - 1] = clientQ[j]
        BY <1>2, <4>1
      <4> QED
        BY <3>1, <4>1, <4>2 DEF Announced
    <3> QED
      BY <3>2, <3>3
  <2> QED
    BY <2>1, <2>2
<1>6. ASSUME NEW c \in Clients, NEW x, AllAnnounced(c, x)
      PROVE  AllAnnounced(c, x)'
  <2>1. Len(clientQ') \in 0..Len(clientQ') /\ Len(clientQ') + 1 = Len(clientQ)
    BY <1>2
  <2> QED
    BY SMTT(30), <1>5, <1>6, <2>1 DEF AllAnnounced, Announced
<1>7. TableAnnounced'
  BY <1>1, <1>6 DEF RegisterInv, TableAnnounced, AllAnnounced, Announced
<1>8. HeldAnnounced'
  <2> SUFFICES ASSUME NEW c \in Clients, NEW x \in HeldTids(c)' PROVE AllAnnounced(c, x)'
    BY DEF HeldAnnounced
  <2>1. AllAnnounced(c, x)
    BY <1>1 DEF RegisterInv, HeldAnnounced, HeldTids
  <2> QED
    BY <1>6, <2>1
<1>9. RegisterFirst'
  <2> SUFFICES ASSUME NEW i \in DOMAIN clientQ',
                      clientQ'[i].pkt.type = "PUBLISH", clientQ'[i].pkt.tid # 0
               PROVE  Announced(clientQ[i].client, clientQ[i].pkt.tid, i - 1)'
    BY DEF RegisterFirst
  <2>1. /\ i + 1 \in DOMAIN clientQ /\ clientQ'[i] = clientQ[i + 1]
        /\ i - 1 \in 0..Len(clientQ') /\ (i - 1) + 1 = (i + 1) - 1
    BY <1>2
  <2>2. clientQ[i + 1] \in Event(SnPacket)
    BY <1>1, <1>2, <2>1, ElementOfSeq
  <2>3. PICK c \in Clients : c = clientQ[i + 1].client
    BY <2>2 DEF Event
  <2>4. PICK x : x = clientQ[i + 1].pkt.tid
    OBVIOUS
  <2>5. Announced(c, x, (i + 1) - 1)
    BY <2>1, <2>3, <2>4 DEF RegisterInv, RegisterFirst
  <2>6. Announced(c, x, i - 1)'
    BY <1>5, <2>1, <2>5
  <2> QED
    BY <2>1, <2>3, <2>4, <2>6 DEF Announced
<1> QED
  BY <1>7, <1>8, <1>9 DEF RegisterInv

(* The tasks of the broker side and the broker post nothing to a device.   *)
LEMMA BrokerSideStep ==
    ASSUME RegisterInv, TypeOK',
           BrokerSendStep \/ \E c \in Clients : BrokerRecvStep(c) \/ BrokerStep(c)
    PROVE  RegisterInv'
<1>1. TypeOK /\ cl \in [Clients -> Client] /\ \A d \in Clients : cl[d] \in Client
  BY DEF RegisterInv, TypeOK
<1>2. dev' = dev /\ clientQ' = clientQ
  BY DEF BrokerSendStep, BrokerSend, BrokerSent, BrokerConnectFails, BrokerSendFails,
         BrokerRecvStep, BrokerRecvPacket, BrokerRecvClosed, BrokerStep, BrokerPublish, BrokerCloses
<1>3. \/ cl' = cl
      \/ \E c \in Clients : \/ cl' = [cl EXCEPT ![c] = Disconnected(cl[c])]
                           \/ cl' = [cl EXCEPT ![c] = [cl[c] EXCEPT !.status = "Connecting"]]
  <2>1. ASSUME BrokerSent
        PROVE  \E c \in Clients : \/ cl' = [cl EXCEPT ![c] = Disconnected(cl[c])]
                                 \/ cl' = [cl EXCEPT ![c] = [cl[c] EXCEPT !.status = "Connecting"]]
    <3>1. sent.client \in Clients
      BY <1>1, <2>1 DEF TypeOK, BrokerSent, Event
    <3> QED
      BY <2>1, <3>1 DEF BrokerSent
  <2>2. ASSUME NEW c \in Clients, BrokerRecvClosed(c)
        PROVE  cl' = [cl EXCEPT ![c] = Disconnected(cl[c])]
    BY <2>2 DEF BrokerRecvClosed
  <2> QED
    BY <2>1, <2>2 DEF BrokerSendStep, BrokerSend, BrokerConnectFails, BrokerSendFails,
         BrokerRecvStep, BrokerRecvPacket, BrokerStep, BrokerPublish, BrokerCloses
<1>4. \A d \in Clients : cl'[d].held = cl[d].held /\ cl'[d].tid \in {NoTopics, cl[d].tid}
  <2>1. ASSUME NEW c \in Clients, NEW r \in {Disconnected(cl[c]), [cl[c] EXCEPT !.status = "Connecting"]},
               cl' = [cl EXCEPT ![c] = r]
        PROVE  \A d \in Clients : cl'[d].held = cl[d].held /\ cl'[d].tid = cl[d].tid
    <3>1. OnlyStatus(r, cl[c])
      BY <1>1, StatusFields DEF Status
    <3>2. \A d \in Clients : OnlyStatus(cl'[d], cl[d])
      BY <1>1, <2>1, <3>1, StatusStep
    <3> QED
      BY <3>2 DEF OnlyStatus
  <2> QED
    BY <1>3, <2>1
<1>5. ToldKept
  BY <1>2 DEF ToldKept
<1> QED
  BY <1>2, <1>4, <1>5, QuietStep

(* A packet of a device adds at most a DISCONNECT to the queue.            *)
LEMMA DeviceSendsStep ==
    ASSUME RegisterInv, TypeOK', NEW c \in Clients, NEW d, d.told = dev[c].told, NEW p,
           DeviceSends(c, d, p)
    PROVE  RegisterInv'
<1>1. dev \in [Clients -> Device] /\ dev' = [dev EXCEPT ![c] = d] /\ cl' = cl
  BY DEF RegisterInv, TypeOK, DeviceSends
<1>2. ToldKept
  BY <1>1 DEF ToldKept
<1>3. \A e \in Clients : cl'[e].held = cl[e].held /\ cl'[e].tid \in {NoTopics, cl[e].tid}
  BY <1>1
<1>4. \/ clientQ' = clientQ
      \/ clientQ' = Append(clientQ, To(c, [type |-> "DISCONNECT"]))
  BY DEF DeviceSends, RecvFromDevice
<1> QED
  BY <1>2, <1>3, <1>4, MadePackets, QuietStep, PostingStep

(* A request changes the state of the device and counts, nothing else.     *)
LEMMA DeviceRequestsStep ==
    ASSUME RegisterInv, TypeOK', NEW c \in Clients, NEW from, NEW to, NEW p,
           DeviceRequests(c, from, to, p)
    PROVE  RegisterInv'
<1> DEFINE d == [dev[c] EXCEPT !.st = to, !.requests = @ + 1]
<1>1. dev[c] \in Device
  BY DEF RegisterInv, TypeOK
<1>2. d.told = dev[c].told
  BY <1>1 DEF Device
<1>3. DeviceSends(c, d, p)
  BY DEF DeviceRequests
<1> QED
  BY <1>2, <1>3, DeviceSendsStep

(* No request or answer makes a device forget a topic id.                  *)
LEMMA DeviceStepKeeps ==
    ASSUME RegisterInv, TypeOK', NEW c \in Clients, DeviceStep(c)
    PROVE  RegisterInv'
<1>1. dev[c] \in Device
  BY DEF RegisterInv, TypeOK
<1>2. \A s : [dev[c] EXCEPT !.st = s].told = dev[c].told
  BY <1>1 DEF Device
<1>3. \A r : [dev[c] EXCEPT !.regs = r].told = dev[c].told
  BY <1>1 DEF Device
<1>4. CASE DeviceConnect(c)
  <2>1. PICK clean \in CleanFlags, will \in WillFlags :
            DeviceSends(c, [dev[c] EXCEPT !.st = "connecting", !.try = @ + 1,
                                          !.will = will, !.regs = {}],
                        [type |-> "CONNECT", clean |-> clean, will |-> will,
                         try |-> dev[c].try + 1])
    BY <1>4 DEF DeviceConnect
  <2>2. [dev[c] EXCEPT !.st = "connecting", !.try = @ + 1, !.will = will, !.regs = {}].told
            = dev[c].told
    BY <1>1 DEF Device
  <2> QED
    BY <2>1, <2>2, DeviceSendsStep
<1>5. CASE DeviceWilltopic(c)
  BY <1>2, <1>5, DeviceSendsStep DEF DeviceWilltopic
<1>6. CASE DeviceWillmsg(c)
  BY <1>2, <1>6, DeviceSendsStep DEF DeviceWillmsg
<1>7. CASE DeviceRegAck(c)
  <2>1. PICK id \in dev[c].regs :
            DeviceSends(c, [dev[c] EXCEPT !.regs = @ \ {id}], [type |-> "REGACK", msgId |-> id])
    BY <1>7 DEF DeviceRegAck
  <2> QED
    BY <1>3, <2>1, DeviceSendsStep
<1>8. CASE DeviceSleep(c)
  BY <1>8, DeviceRequestsStep DEF DeviceSleep
<1>9. CASE DeviceDisconnect(c)
  BY <1>9, DeviceRequestsStep DEF DeviceDisconnect
<1>10. CASE DevicePing(c)
  BY <1>10, DeviceRequestsStep DEF DevicePing
<1>11. CASE DeviceWake(c)
  BY <1>11, DeviceRequestsStep DEF DeviceWake
<1> QED
  BY <1>4, <1>5, <1>6, <1>7, <1>8, <1>9, <1>10, <1>11 DEF DeviceStep, DeviceAnswers

-----------------------------------------------------------------------------
(* No table has an entry, nothing is held and the queue is empty.          *)
LEMMA InitRegister == Init => RegisterInv
<1> SUFFICES ASSUME Init PROVE RegisterInv
  OBVIOUS
<1>1. \A c \in Clients : cl[c].tid = NoTopics /\ cl[c].held = <<>>
  BY DEF Init, NewClient
<1>2. TableAnnounced
  BY <1>1 DEF TableAnnounced, NoTopics
<1>3. HeldAnnounced
  BY <1>1 DEF HeldAnnounced, HeldTids
<1>4. RegisterFirst
  BY DEF Init, RegisterFirst
<1> QED
  BY <1>2, <1>3, <1>4, InitType DEF RegisterInv

(* Without lost packets every step keeps the invariant.                    *)
LEMMA NextRegister == StopAndWait /\ RegisterInv /\ [Next]_vars => RegisterInv'
<1> SUFFICES ASSUME StopAndWait, RegisterInv, [Next]_vars PROVE RegisterInv'
  OBVIOUS
<1>1. TypeOK'
  BY NextType DEF RegisterInv
<1>2. CASE PacketHandle
  BY <1>1, <1>2, HandlersStep, RegAckStep, PublishStep DEF PacketHandle
<1>3. CASE BrokerSendStep \/ \E c \in Clients : BrokerRecvStep(c) \/ BrokerStep(c)
  BY <1>1, <1>3, BrokerSideStep
<1>4. CASE ClientSend
  BY <1>1, <1>4, ClientSendStep
<1>5. CASE ClientSendLost
  BY <1>5 DEF ClientSendLost
<1>6. CASE \E c \in Clients : DeviceStep(c)
  BY <1>1, <1>6, DeviceStepKeeps
<1>7. CASE UNCHANGED vars
  BY <1>7 DEF vars, RegisterInv, TypeOK, TableAnnounced, HeldAnnounced, HeldTids,
              RegisterFirst, AllAnnounced, Announced
<1> QED
  BY <1>2, <1>3, <1>4, <1>5, <1>6, <1>7 DEF Next

(* RegisterFirst holds in every reachable state when no packet to a device *)
(* is lost: handlePublish and handleRegAck never send a topic id ahead of  *)
(* the REGISTER, although later PUBLISHes overtake the one that is held.   *)
THEOREM RegisterBeforePublish == StopAndWait => (Spec => []RegisterFirst)
<1>1. RegisterInv => RegisterFirst
  BY DEF RegisterInv
<1>2. ASSUME StopAndWait PROVE RegisterInv /\ [Next]_vars => RegisterInv'
  BY <1>2, NextRegister
<1>3. ASSUME StopAndWait PROVE Spec => []RegisterFirst
  BY <1>1, <1>2, <1>3, InitRegister, PTL DEF Spec
<1> QED
  BY <1>3

-----------------------------------------------------------------------------
(* WillFresh: a CONNECT with a will never carries a will topic or a will   *)
(* message of an earlier attempt, with packets lost, devices that restart  *)
(* in the middle of a handshake and disconnections that other tasks notice.*)
(*                                                                         *)
(* WillFresh is about the packets to the broker.  What keeps it is the     *)
(* order in which the packets of one device's handshakes wait for          *)
(* PacketHandleTask: their attempts never go back.                         *)

(* The packets of the will handshakes of a client.                         *)
Handshake(c) == { e \in DeviceEvent : /\ e.client = c
                                      /\ e.pkt.type \in {"CONNECT", "WILLTOPIC", "WILLMSG"} }

(* Their attempts do not go back in the packet queue,                      *)
TriesGrow(c) ==
    \A i, j \in DOMAIN packetQ :
        i < j /\ packetQ[i] \in Handshake(c) /\ packetQ[j] \in Handshake(c)
            => packetQ[i].pkt.try <= packetQ[j].pkt.try

(* are not before the attempt the Client is at, and not after the device's *)
TriesWithin(c) ==
    \A i \in DOMAIN packetQ :
        packetQ[i] \in Handshake(c) => /\ cl[c].conn.try <= packetQ[i].pkt.try
                                       /\ cl[c].conn.topic <= packetQ[i].pkt.try
                                       /\ packetQ[i].pkt.try <= dev[c].try

(* Neither is what the Client keeps; a Client that waits for a WILLMSG     *)
(* keeps a WILLTOPIC that came after its CONNECT.                          *)
ConnWithin(c) == /\ cl[c].conn.try <= dev[c].try
                 /\ cl[c].conn.topic <= dev[c].try
                 /\ cl[c].waitWill => cl[c].conn.try <= cl[c].conn.topic

InOrder(c) == TriesGrow(c) /\ TriesWithin(c) /\ ConnWithin(c)

WillInv == TypeOK /\ WillFresh /\ \A c \in Clients : InOrder(c)

-----------------------------------------------------------------------------
(* The packet queue                                                        *)

(* An event that is added to the queue is none of a will handshake of c,   *)
(* or belongs to the latest attempt of the device.                         *)
Late(c, e) == e \in Handshake(c) => e.pkt.try = dev'[c].try

(* The packet queue has lost its first event or none, and all that was     *)
(* added is late.                                                          *)
QueueMoves(c) ==
    \E k \in {0, 1} : \A i \in DOMAIN packetQ' :
        /\ i \in Nat \ {0}
        /\ \/ i + k \in DOMAIN packetQ /\ packetQ'[i] = packetQ[i + k]
           \/ i + k > Len(packetQ) /\ Late(c, packetQ'[i])

(* The attempt of an event is a number.                                    *)
LEMMA HandshakeTry == ASSUME NEW c, NEW e \in Handshake(c) PROVE e.pkt.try \in Nat
  BY DeviceFields DEF Handshake, DeviceEvent

(* Posting leaves the events of the queue and drops some of the new ones.  *)
LEMMA PostedEvents ==
    ASSUME NEW q \in Seq(PacketEvent), NEW events \in Seq(PacketEvent),
           NEW i \in DOMAIN Posted(q, events)
    PROVE  /\ i \in Nat \ {0}
           /\ \/ i \in DOMAIN q /\ Posted(q, events)[i] = q[i]
              \/ i > Len(q) /\ \E j \in DOMAIN events : Posted(q, events)[i] = events[j]
<1> DEFINE all == q \o events
<1>1. /\ all \in Seq(PacketEvent) /\ Len(all) = Len(q) + Len(events)
      /\ Len(q) \in Nat /\ Len(events) \in Nat
      /\ DOMAIN all = 1..Len(all) /\ DOMAIN q = 1..Len(q) /\ DOMAIN events = 1..Len(events)
      /\ \A j \in 1..Len(all) : all[j] = IF j <= Len(q) THEN q[j] ELSE events[j - Len(q)]
  BY ConcatProperties, LenProperties
<1>2. MaxPackets \in Nat /\ MaxPackets # 0
  BY SessionAssumption
<1> HIDE DEF all
<1>3. i \in 1..Len(all) /\ Posted(q, events)[i] = all[i]
  <2>1. CASE Len(all) <= MaxPackets
    BY <1>1, <2>1 DEF Posted, all
  <2>2. CASE ~(Len(all) <= MaxPackets)
    <3>1. Posted(q, events) = SubSeq(all, 1, MaxPackets)
      BY <2>2 DEF Posted, all
    <3>2. \A j \in 1..MaxPackets : j \in 1..Len(all) /\ all[j] \in PacketEvent
      BY <1>1, <1>2, <2>2, ElementOfSeq
    <3>3. /\ SubSeq(all, 1, MaxPackets) \in Seq(PacketEvent)
          /\ Len(SubSeq(all, 1, MaxPackets)) = MaxPackets
          /\ \A j \in 1..MaxPackets : SubSeq(all, 1, MaxPackets)[j] = all[j]
      <4>1. MaxPackets - 1 + 1 = MaxPackets /\ 1 <= MaxPackets
            /\ \A j \in 1..MaxPackets : 1 + j - 1 = j
        BY <1>2
      <4> QED
        BY <1>2, <3>2, <4>1, SubSeqProperties
    <3>4. DOMAIN SubSeq(all, 1, MaxPackets) = 1..MaxPackets
      BY <3>3, LenProperties
    <3> QED
      BY <3>1, <3>2, <3>3, <3>4
  <2> QED
    BY <2>1, <2>2
<1>4. CASE i <= Len(q)
  BY <1>1, <1>3, <1>4
<1>5. CASE i > Len(q)
  <2>1. i - Len(q) \in 1..Len(events) /\ i \in Nat \ {0}
    BY <1>1, <1>3, <1>5
  <2> QED
    BY <1>1, <1>3, <1>5, <2>1
<1> QED
  BY <1>1, <1>3, <1>4, <1>5

(* A task takes the first event.                                           *)
LEMMA TailMoves ==
    ASSUME TypeOK, packetQ # <<>>
    PROVE  /\ Tail(packetQ) \in Seq(PacketEvent)
           /\ Len(packetQ) \in Nat /\ Len(Tail(packetQ)) = Len(packetQ) - 1
           /\ 1 \in DOMAIN packetQ /\ packetQ[1] = Head(packetQ)
           /\ \A i \in DOMAIN Tail(packetQ) : /\ i \in Nat \ {0} /\ i + 1 \in DOMAIN packetQ
                                              /\ Tail(packetQ)[i] = packetQ[i + 1]
<1>1. packetQ \in Seq(PacketEvent)
  BY DEF TypeOK
<1>2. DOMAIN packetQ = 1..Len(packetQ) /\ Len(packetQ) \in Nat /\ Len(packetQ) # 0
  BY <1>1, LenProperties, EmptySeq
<1>3. /\ Tail(packetQ) \in Seq(PacketEvent) /\ Head(packetQ) = packetQ[1]
      /\ Len(Tail(packetQ)) = Len(packetQ) - 1
      /\ \A i \in 1..Len(Tail(packetQ)) : Tail(packetQ)[i] = packetQ[i + 1]
  BY <1>1, HeadTailProperties
<1>4. DOMAIN Tail(packetQ) = 1..(Len(packetQ) - 1)
  BY <1>3, LenProperties
<1> QED
  BY <1>2, <1>3, <1>4

(* The ways the packet queue changes.                                      *)
LEMMA Moves ==
    ASSUME TypeOK, NEW c
    PROVE  /\ packetQ' = packetQ => QueueMoves(c)
           /\ packetQ # <<>> /\ packetQ' = Tail(packetQ) => QueueMoves(c)
           /\ \A events \in Seq(PacketEvent) :
                 (\A j \in DOMAIN events : Late(c, events[j])) =>
                    /\ packetQ' = Posted(packetQ, events) => QueueMoves(c)
                    /\ packetQ # <<>> /\ packetQ' = Posted(Tail(packetQ), events) => QueueMoves(c)
<1>1. packetQ \in Seq(PacketEvent) /\ DOMAIN packetQ = 1..Len(packetQ) /\ Len(packetQ) \in Nat
  BY LenProperties DEF TypeOK
<1>2. ASSUME packetQ' = packetQ PROVE QueueMoves(c)
  <2>1. \A i \in DOMAIN packetQ' : i \in Nat \ {0} /\ i + 0 \in DOMAIN packetQ
                                   /\ packetQ'[i] = packetQ[i + 0]
    BY <1>1, <1>2
  <2> QED
    BY <2>1 DEF QueueMoves
<1>3. ASSUME packetQ # <<>>, packetQ' = Tail(packetQ) PROVE QueueMoves(c)
  <2>1. \A i \in DOMAIN packetQ' : i \in Nat \ {0} /\ i + 1 \in DOMAIN packetQ
                                   /\ packetQ'[i] = packetQ[i + 1]
    BY <1>3, TailMoves
  <2> QED
    BY <2>1 DEF QueueMoves
<1>4. ASSUME NEW events \in Seq(PacketEvent), \A j \in DOMAIN events : Late(c, events[j]),
             packetQ' = Posted(packetQ, events)
      PROVE  QueueMoves(c)
  <2>1. ASSUME NEW i \in DOMAIN packetQ'
        PROVE  /\ i \in Nat \ {0}
               /\ \/ i + 0 \in DOMAIN packetQ /\ packetQ'[i] = packetQ[i + 0]
                  \/ i + 0 > Len(packetQ) /\ Late(c, packetQ'[i])
    <3>1. /\ i \in Nat \ {0}
          /\ \/ i \in DOMAIN packetQ /\ packetQ'[i] = packetQ[i]
             \/ i > Len(packetQ) /\ \E j \in DOMAIN events : packetQ'[i] = events[j]
      BY <1>1, <1>4, PostedEvents
    <3>2. i + 0 = i
      BY <3>1
    <3> QED
      BY <1>4, <3>1, <3>2
  <2> QED
    BY <2>1 DEF QueueMoves
<1>5. ASSUME NEW events \in Seq(PacketEvent), \A j \in DOMAIN events : Late(c, events[j]),
             packetQ # <<>>, packetQ' = Posted(Tail(packetQ), events)
      PROVE  QueueMoves(c)
  <2>1. ASSUME NEW i \in DOMAIN packetQ'
        PROVE  /\ i \in Nat \ {0}
               /\ \/ i + 1 \in DOMAIN packetQ /\ packetQ'[i] = packetQ[i + 1]
                  \/ i + 1 > Len(packetQ) /\ Late(c, packetQ'[i])
    <3>1. /\ i \in Nat \ {0}
          /\ \/ i \in DOMAIN Tail(packetQ) /\ packetQ'[i] = Tail(packetQ)[i]
             \/ i > Len(Tail(packetQ)) /\ \E j \in DOMAIN events : packetQ'[i] = events[j]
      <4>1. Tail(packetQ) \in Seq(PacketEvent) /\ i \in DOMAIN Posted(Tail(packetQ), events)
        BY <1>5, TailMoves
      <4>2. /\ i \in Nat \ {0}
            /\ \/ i \in DOMAIN Tail(packetQ) /\ Posted(Tail(packetQ), events)[i] = Tail(packetQ)[i]
               \/ i > Len(Tail(packetQ))
                  /\ \E j \in DOMAIN events : Posted(Tail(packetQ), events)[i] = events[j]
        BY <4>1, PostedEvents
      <4> QED
        BY <1>5, <4>2
    <3>2. CASE i \in DOMAIN Tail(packetQ) /\ packetQ'[i] = Tail(packetQ)[i]
      BY <1>5, <3>2, TailMoves
    <3>3. CASE i > Len(Tail(packetQ)) /\ \E j \in DOMAIN events : packetQ'[i] = events[j]
      <4>1. i + 1 > Len(packetQ)
        BY <1>1, <1>5, <3>1, <3>3, TailMoves
      <4> QED
        BY <1>5, <3>1, <3>3, <4>1
    <3> QED
      BY <3>1, <3>2, <3>3
  <2> QED
    BY <2>1 DEF QueueMoves
<1> QED
  BY <1>2, <1>3, <1>4, <1>5

(* Events of the broker belong to no handshake, so whatever it sends and   *)
(* whatever is replayed for it comes late.                                 *)
LEMMA BrokerLate == \A c, d, p : Late(c, BrokerRecv(d, p))
  BY DEF Late, Handshake, DeviceEvent, BrokerRecv

(* The moves of the queue keep its attempts in order, and after all that   *)
(* the Client keeps.                                                       *)
LEMMA MovesInOrder ==
    ASSUME TypeOK, TypeOK', NEW c \in Clients, InOrder(c), QueueMoves(c),
           dev[c].try <= dev'[c].try
    PROVE  /\ TriesGrow(c)'
           /\ \A i \in DOMAIN packetQ' :
                 packetQ'[i] \in Handshake(c) => /\ cl[c].conn.try <= packetQ'[i].pkt.try
                                                 /\ cl[c].conn.topic <= packetQ'[i].pkt.try
                                                 /\ packetQ'[i].pkt.try <= dev'[c].try
<1>1. /\ cl[c].conn.try \in Nat /\ cl[c].conn.topic \in Nat
      /\ dev[c].try \in Nat /\ dev'[c].try \in Nat
  BY DEF TypeOK, Client, Conn, Device
<1>2. PICK k \in {0, 1} : \A i \in DOMAIN packetQ' :
        /\ i \in Nat \ {0}
        /\ \/ i + k \in DOMAIN packetQ /\ packetQ'[i] = packetQ[i + k]
           \/ i + k > Len(packetQ) /\ Late(c, packetQ'[i])
  BY DEF QueueMoves
<1>3. DOMAIN packetQ = 1..Len(packetQ) /\ Len(packetQ) \in Nat
  BY LenProperties DEF TypeOK
<1>4. ASSUME NEW i \in DOMAIN packetQ', packetQ'[i] \in Handshake(c)
      PROVE  /\ packetQ'[i].pkt.try \in Nat
             /\ cl[c].conn.try <= packetQ'[i].pkt.try
             /\ cl[c].conn.topic <= packetQ'[i].pkt.try
             /\ packetQ'[i].pkt.try <= dev'[c].try
  <2>1. packetQ'[i].pkt.try \in Nat
    BY <1>4, HandshakeTry
  <2>2. CASE i + k \in DOMAIN packetQ /\ packetQ'[i] = packetQ[i + k]
    <3>1. /\ cl[c].conn.try <= packetQ[i + k].pkt.try
          /\ cl[c].conn.topic <= packetQ[i + k].pkt.try
          /\ packetQ[i + k].pkt.try <= dev[c].try
      BY <1>4, <2>2 DEF InOrder, TriesWithin
    <3> QED
      BY <1>1, <2>1, <2>2, <3>1
  <2>3. CASE i + k > Len(packetQ) /\ Late(c, packetQ'[i])
    <3>1. packetQ'[i].pkt.try = dev'[c].try
      BY <1>4, <2>3 DEF Late
    <3>2. cl[c].conn.try <= dev[c].try /\ cl[c].conn.topic <= dev[c].try
      BY DEF InOrder, ConnWithin
    <3> QED
      BY <1>1, <3>1, <3>2
  <2> QED
    BY <1>2, <2>1, <2>2, <2>3
<1>5. ASSUME NEW i \in DOMAIN packetQ', NEW j \in DOMAIN packetQ', i < j,
             packetQ'[i] \in Handshake(c), packetQ'[j] \in Handshake(c)
      PROVE  packetQ'[i].pkt.try <= packetQ'[j].pkt.try
  <2>1. CASE j + k \in DOMAIN packetQ /\ packetQ'[j] = packetQ[j + k]
    <3>1. i \in Nat \ {0} /\ j \in Nat \ {0} /\ i + k < j + k /\ ~(i + k > Len(packetQ))
      BY <1>2, <1>3, <1>5, <2>1
    <3>2. i + k \in DOMAIN packetQ /\ packetQ'[i] = packetQ[i + k]
      BY <1>2, <3>1
    <3> QED
      BY <1>5, <2>1, <3>1, <3>2 DEF InOrder, TriesGrow
  <2>2. CASE j + k > Len(packetQ) /\ Late(c, packetQ'[j])
    <3>1. packetQ'[j].pkt.try = dev'[c].try
      BY <1>5, <2>2 DEF Late
    <3> QED
      BY <1>4, <1>5, <3>1
  <2> QED
    BY <1>2, <2>1, <2>2
<1>6. TriesGrow(c)'
  BY <1>5 DEF TriesGrow, Handshake
<1> QED
  BY <1>4, <1>6

-----------------------------------------------------------------------------
(* The Client, the device and the packets to the broker                    *)

(* A step that leaves the connect data alone, and waitWill, or clears it.  *)
ConnKept == \A c \in Clients : /\ cl'[c].conn = cl[c].conn
                               /\ cl'[c].waitWill \in {cl[c].waitWill, FALSE}

TriesKept == \A c \in Clients : dev[c].try <= dev'[c].try

AllMove == \A c \in Clients : QueueMoves(c)

(* What WillFresh says of one packet.                                      *)
FreshPacket(p) ==
    (p.type = "CONNECT" /\ p.conn.will) => p.conn.try <= p.conn.topic /\ p.conn.topic <= p.conn.msg

(* The queue to the broker after a step that adds a fresh packet at most.  *)
BrokerQueueFresh ==
    \/ brokerQ' = brokerQ
    \/ brokerQ # <<>> /\ brokerQ' = Tail(brokerQ)
    \/ \E c \in Clients, p \in GwPacket : FreshPacket(p) /\ brokerQ' = Append(brokerQ, To(c, p))

(* Such a step keeps WillFresh.                                            *)
LEMMA FreshKept == ASSUME TypeOK, TypeOK', WillFresh, BrokerQueueFresh PROVE WillFresh'
<1>1. brokerQ \in Seq(Event(GwPacket)) /\ brokerQ' \in Seq(Event(GwPacket))
  BY DEF TypeOK
<1>2. /\ DOMAIN brokerQ = 1..Len(brokerQ) /\ Len(brokerQ) \in Nat
      /\ DOMAIN brokerQ' = 1..Len(brokerQ') /\ Len(brokerQ') \in Nat
  BY <1>1, LenProperties
<1>3. \A i \in DOMAIN brokerQ : FreshPacket(brokerQ[i].pkt)
  BY DEF WillFresh, FreshPacket
<1> SUFFICES ASSUME NEW i \in DOMAIN brokerQ' PROVE FreshPacket(brokerQ'[i].pkt)
  BY DEF WillFresh, FreshPacket
<1>4. CASE brokerQ' = brokerQ
  BY <1>3, <1>4
<1>5. CASE brokerQ # <<>> /\ brokerQ' = Tail(brokerQ)
  <2>1. Len(brokerQ') = Len(brokerQ) - 1 /\ \A j \in 1..Len(brokerQ') : brokerQ'[j] = brokerQ[j + 1]
    BY <1>1, <1>5, HeadTailProperties
  <2>2. i + 1 \in DOMAIN brokerQ /\ brokerQ'[i] = brokerQ[i + 1]
    BY <1>2, <2>1
  <2> QED
    BY <1>3, <2>2
<1>6. CASE \E c \in Clients, p \in GwPacket : FreshPacket(p) /\ brokerQ' = Append(brokerQ, To(c, p))
  <2>1. PICK c \in Clients, p \in GwPacket : FreshPacket(p) /\ brokerQ' = Append(brokerQ, To(c, p))
    BY <1>6
  <2>2. /\ Len(brokerQ') = Len(brokerQ) + 1
        /\ brokerQ'[Len(brokerQ) + 1] = To(c, p)
        /\ \A j \in 1..Len(brokerQ) : brokerQ'[j] = brokerQ[j]
    <3>1. To(c, p) \in Event(GwPacket)
      BY DEF To, Event
    <3> QED
      BY <1>1, <2>1, <3>1, AppendProperties
  <2>3. CASE i \in 1..Len(brokerQ)
    BY <1>2, <1>3, <2>2, <2>3
  <2>4. CASE i = Len(brokerQ) + 1
    BY <2>1, <2>2, <2>4 DEF To
  <2> QED
    BY <1>2, <2>2, <2>3, <2>4
<1> QED
  BY <1>4, <1>5, <1>6 DEF BrokerQueueFresh

(* Only a CONNECT can be stale.                                            *)
LEMMA OtherFresh ==
    ASSUME NEW t, t # "CONNECT"
    PROVE  FreshPacket([type |-> t]) /\ \A m : FreshPacket([type |-> t, pub |-> m])
  BY DEF FreshPacket

(* A step that takes and posts events, and tells the broker nothing stale, *)
(* while the connect data stays.                                           *)
LEMMA KeptStep ==
    ASSUME WillInv, TypeOK', ConnKept, TriesKept, AllMove, BrokerQueueFresh
    PROVE  WillInv'
<1>1. TypeOK /\ WillFresh
  BY DEF WillInv
<1>2. WillFresh'
  BY <1>1, FreshKept
<1>3. ASSUME NEW c \in Clients PROVE InOrder(c)'
  <2>1. InOrder(c) /\ QueueMoves(c) /\ dev[c].try <= dev'[c].try
    BY DEF WillInv, AllMove, TriesKept
  <2>2. /\ TriesGrow(c)'
        /\ \A i \in DOMAIN packetQ' :
              packetQ'[i] \in Handshake(c) => /\ cl[c].conn.try <= packetQ'[i].pkt.try
                                              /\ cl[c].conn.topic <= packetQ'[i].pkt.try
                                              /\ packetQ'[i].pkt.try <= dev'[c].try
    BY <1>1, <2>1, MovesInOrder
  <2>3. cl'[c].conn = cl[c].conn /\ cl'[c].waitWill \in {cl[c].waitWill, FALSE}
    BY DEF ConnKept
  <2>4. TriesWithin(c)'
    BY <2>2, <2>3 DEF TriesWithin, Handshake
  <2>5. ConnWithin(c)'
    <3>1. /\ cl[c].conn.try \in Nat /\ cl[c].conn.topic \in Nat
          /\ dev[c].try \in Nat /\ dev'[c].try \in Nat
      BY <1>1 DEF TypeOK, Client, Conn, Device
    <3>2. cl[c].conn.try <= dev[c].try /\ cl[c].conn.topic <= dev[c].try
          /\ (cl[c].waitWill => cl[c].conn.try <= cl[c].conn.topic)
      BY <2>1 DEF InOrder, ConnWithin
    <3>3. cl[c].conn.try <= dev'[c].try /\ cl[c].conn.topic <= dev'[c].try
      BY <2>1, <3>1, <3>2
    <3> QED
      BY <2>3, <3>2, <3>3 DEF ConnWithin
  <2> QED
    BY <2>2, <2>4, <2>5 DEF InOrder
<1> QED
  BY <1>2, <1>3 DEF WillInv

(* A step that touches neither the connect data nor the devices' attempts. *)
LEMMA Unmoved ==
    ASSUME TypeOK
    PROVE  /\ cl' = cl => ConnKept
           /\ dev' = dev => TriesKept
           /\ packetQ' = packetQ => AllMove
           /\ packetQ # <<>> /\ packetQ' = Tail(packetQ) => AllMove
<1>1. \A c \in Clients : dev[c].try \in Nat
  BY DEF TypeOK, Device
<1>2. cl' = cl => ConnKept
  BY DEF ConnKept
<1>3. dev' = dev => TriesKept
  BY <1>1 DEF TriesKept
<1>4. ASSUME packetQ' = packetQ PROVE AllMove
  BY <1>4, Moves DEF AllMove
<1>5. ASSUME packetQ # <<>>, packetQ' = Tail(packetQ) PROVE AllMove
  BY <1>5, Moves DEF AllMove
<1> QED
  BY <1>2, <1>3, <1>4, <1>5

(* A change of the status of one Client keeps its connect data.            *)
LEMMA StatusKeepsConn ==
    ASSUME TypeOK, NEW c \in Clients, NEW r, OnlyStatus(r, cl[c]), cl' = [cl EXCEPT ![c] = r]
    PROVE  ConnKept
  BY StatusStep DEF ConnKept, OnlyStatus

(* So does a change of what is saved, held, or known of topics.            *)
SameConn(q, r) == q.conn = r.conn /\ q.waitWill = r.waitWill

LEMMA SameConnKept ==
    ASSUME TypeOK, NEW c \in Clients, NEW r, SameConn(r, cl[c]), cl' = [cl EXCEPT ![c] = r]
    PROVE  ConnKept
<1>1. \A d \in Clients : cl'[d] = IF d = c THEN r ELSE cl[d]
  BY ChangedClient
<1>2. \A d \in Clients : SameConn(cl'[d], cl[d])
  BY <1>1 DEF SameConn
<1> QED
  BY <1>2 DEF ConnKept, SameConn

-----------------------------------------------------------------------------
(* The will handshake                                                      *)

(* The event that PacketHandleTask takes comes before all other handshakes *)
(* of the device.                                                          *)
LEMMA HeadFirst ==
    ASSUME WillInv, NEW c \in Clients, packetQ # <<>>, Head(packetQ) \in Handshake(c),
           packetQ' = Tail(packetQ)
    PROVE  /\ cl[c].conn.try <= Head(packetQ).pkt.try
           /\ cl[c].conn.topic <= Head(packetQ).pkt.try
           /\ Head(packetQ).pkt.try <= dev[c].try
           /\ \A i \in DOMAIN packetQ' :
                 packetQ'[i] \in Handshake(c) =>
                    /\ Head(packetQ).pkt.try <= packetQ'[i].pkt.try
                    /\ packetQ'[i].pkt.try <= dev[c].try
<1>1. /\ 1 \in DOMAIN packetQ /\ packetQ[1] = Head(packetQ)
      /\ \A i \in DOMAIN packetQ' : /\ i \in Nat \ {0} /\ i + 1 \in DOMAIN packetQ
                                    /\ packetQ'[i] = packetQ[i + 1]
  BY TailMoves DEF WillInv
<1>2. InOrder(c)
  BY DEF WillInv
<1>3. ASSUME NEW i \in DOMAIN packetQ', packetQ'[i] \in Handshake(c)
      PROVE  /\ Head(packetQ).pkt.try <= packetQ'[i].pkt.try
             /\ packetQ'[i].pkt.try <= dev[c].try
  <2>1. i + 1 \in DOMAIN packetQ /\ packetQ[i + 1] = packetQ'[i] /\ 1 < i + 1
    BY <1>1
  <2> QED
    BY <1>1, <1>2, <1>3, <2>1 DEF InOrder, TriesGrow, TriesWithin
<1> QED
  BY <1>1, <1>2, <1>3 DEF InOrder, TriesWithin

(* A step of the handshake stores a WILLTOPIC or starts anew, in order.    *)
LEMMA HandshakeStep ==
    ASSUME WillInv, TypeOK', NEW c \in Clients, packetQ # <<>>, Head(packetQ) \in Handshake(c),
           packetQ' = Tail(packetQ), dev' = dev, BrokerQueueFresh,
           NEW r, cl' = [cl EXCEPT ![c] = r],
           r.conn.try <= Head(packetQ).pkt.try, r.conn.topic <= Head(packetQ).pkt.try,
           r.waitWill => r.conn.try <= r.conn.topic
    PROVE  WillInv'
<1>1. TypeOK /\ WillFresh
  BY DEF WillInv
<1>2. WillFresh'
  BY <1>1, FreshKept
<1>3. \A d \in Clients : cl'[d] = IF d = c THEN r ELSE cl[d]
  BY <1>1, ChangedClient
<1>4. ASSUME NEW d \in Clients PROVE InOrder(d)'
  <2>1. InOrder(d) /\ QueueMoves(d) /\ dev[d].try <= dev'[d].try
    BY <1>1, Unmoved DEF WillInv, AllMove, TriesKept
  <2>2. /\ TriesGrow(d)'
        /\ \A i \in DOMAIN packetQ' :
              packetQ'[i] \in Handshake(d) => /\ cl[d].conn.try <= packetQ'[i].pkt.try
                                              /\ cl[d].conn.topic <= packetQ'[i].pkt.try
                                              /\ packetQ'[i].pkt.try <= dev'[d].try
    BY <1>1, <2>1, MovesInOrder
  <2>3. CASE d # c
    <3>1. cl'[d] = cl[d]
      BY <1>3, <2>3
    <3>2. TriesWithin(d)'
      BY <2>2, <3>1 DEF TriesWithin, Handshake
    <3>3. ConnWithin(d)'
      BY <2>1, <3>1 DEF InOrder, ConnWithin
    <3> QED
      BY <2>2, <3>2, <3>3 DEF InOrder
  <2>4. CASE d = c
    <3>1. cl'[c] = r
      BY <1>3
    <3>2. /\ r.conn.try \in Nat /\ r.conn.topic \in Nat /\ dev[c].try \in Nat
          /\ Head(packetQ).pkt.try \in Nat
      <4>1. cl'[c] \in Client
        BY DEF TypeOK
      <4> QED
        BY <1>1, <3>1, <4>1, HandshakeTry DEF TypeOK, Client, Conn, Device
    <3>3. TriesWithin(c)'
      <4> SUFFICES ASSUME NEW i \in DOMAIN packetQ', packetQ'[i] \in Handshake(c)
                   PROVE  /\ r.conn.try <= packetQ'[i].pkt.try
                          /\ r.conn.topic <= packetQ'[i].pkt.try
                          /\ packetQ'[i].pkt.try <= dev'[c].try
        BY <3>1 DEF TriesWithin, Handshake
      <4>1. /\ Head(packetQ).pkt.try <= packetQ'[i].pkt.try
            /\ packetQ'[i].pkt.try <= dev[c].try
        BY HeadFirst
      <4>2. packetQ'[i].pkt.try \in Nat
        BY HandshakeTry
      <4> QED
        BY <3>2, <4>1, <4>2
    <3>4. ConnWithin(c)'
      <4>1. Head(packetQ).pkt.try <= dev[c].try
        BY HeadFirst
      <4>2. r.conn.try <= dev[c].try /\ r.conn.topic <= dev[c].try
        BY <3>2, <4>1
      <4> QED
        BY <3>1, <4>2 DEF ConnWithin
    <3> QED
      BY <2>2, <2>4, <3>3, <3>4 DEF InOrder
  <2> QED
    BY <2>3, <2>4
<1> QED
  BY <1>2, <1>4 DEF WillInv

(* The event of the three steps of the handshake.                          *)
LEMMA TakeHandshake ==
    ASSUME WillInv, NEW type \in {"CONNECT", "WILLTOPIC", "WILLMSG"}, FromDevice(type)
    PROVE  /\ packetQ # <<>> /\ dev' = dev /\ TypeOK
           /\ Head(packetQ).client \in Clients
           /\ Head(packetQ) \in Handshake(Head(packetQ).client)
           /\ Head(packetQ).pkt \in DevicePacket /\ Head(packetQ).pkt.type = type
<1>1. TypeOK
  BY DEF WillInv
<1>2. Head(packetQ) \in PacketEvent /\ Head(packetQ).src = "client" /\ packetQ # <<>> /\ dev' = dev
  BY <1>1, HeadTailProperties DEF TypeOK, FromDevice
<1>3. Head(packetQ) \in DeviceEvent
  BY <1>2 DEF PacketEvent, BrokerEvent
<1> QED
  BY <1>1, <1>2, <1>3, TakeDevice DEF Handshake

(* handleConnect starts a new attempt, or greets a sleeping client.        *)
LEMMA ConnectStep == ASSUME WillInv, TypeOK', HandleConnect PROVE WillInv'
<1> DEFINE c == Head(packetQ).client
           p == Head(packetQ).pkt
           conn == [NoConn EXCEPT !.will = p.will, !.clean = p.clean, !.try = p.try]
<1>1. /\ packetQ # <<>> /\ dev' = dev /\ TypeOK
      /\ c \in Clients /\ Head(packetQ) \in Handshake(c)
      /\ p \in DevicePacket /\ p.type = "CONNECT"
  BY TakeHandshake DEF HandleConnect
<1>2. cl[c] \in Client /\ p.try \in Nat /\ p.will \in BOOLEAN /\ p.clean \in BOOLEAN
  BY <1>1, DeviceFields DEF TypeOK
<1>3. CASE /\ Sleeping(c)
           /\ packetQ' = Posted(Tail(packetQ), StoredEvents(c))
           /\ cl' = [cl EXCEPT ![c].sleepQ = <<>>]
           /\ brokerQ' = brokerQ
  <2>1. /\ StoredEvents(c) \in Seq(PacketEvent)
        /\ \A d : \A j \in DOMAIN StoredEvents(c) : Late(d, StoredEvents(c)[j])
    BY <1>1, StoredEventsType, BrokerLate DEF StoredEvents, TypeParts
  <2>2. AllMove
    BY <1>1, <1>3, <2>1, Moves DEF AllMove
  <2>3. ConnKept
    <3>1. SameConn([cl[c] EXCEPT !.sleepQ = <<>>], cl[c])
      BY <1>2 DEF SameConn, Client
    <3> QED
      BY <1>1, <1>3, <3>1, SameConnKept
  <2> QED
    BY <1>1, <1>3, <2>2, <2>3, Unmoved, KeptStep DEF BrokerQueueFresh
<1>4. CASE /\ ~Sleeping(c)
           /\ cl' = [cl EXCEPT ![c] =
                    [Disconnected(cl[c]) EXCEPT !.conn = conn, !.clean = p.clean,
                                                !.tid = IF p.clean THEN NoTopics ELSE cl[c].tid]]
           /\ packetQ' = Tail(packetQ)
           /\ \/ brokerQ' = brokerQ
              \/ ~p.will /\ brokerQ' = Append(brokerQ, To(c, [type |-> "CONNECT", conn |-> conn]))
  <2> DEFINE r == [Disconnected(cl[c]) EXCEPT !.conn = conn, !.clean = p.clean,
                                              !.tid = IF p.clean THEN NoTopics ELSE cl[c].tid]
  <2>1. NoConn \in Conn /\ NoConn.topic = 0
    BY DEF NoConn, Conn
  <2>2. conn \in Conn /\ conn.try = p.try /\ conn.topic = 0 /\ conn.will = p.will
    BY <1>2, <2>1 DEF Conn
  <2> HIDE DEF conn
  <2>3. r.conn = conn /\ r.waitWill = FALSE
    BY <1>2 DEF Disconnected, Client
  <2>4. BrokerQueueFresh
    <3>1. [type |-> "CONNECT", conn |-> conn] \in GwPacket
      BY <2>2, MadePackets
    <3>2. ~p.will => FreshPacket([type |-> "CONNECT", conn |-> conn])
      BY <2>2 DEF FreshPacket
    <3> QED
      BY <1>1, <1>4, <3>1, <3>2 DEF BrokerQueueFresh
  <2>5. r.conn.try <= p.try /\ r.conn.topic <= p.try
    BY <1>2, <2>2, <2>3
  <2> HIDE DEF r
  <2> QED
    BY <1>1, <1>4, <2>3, <2>4, <2>5, HandshakeStep DEF r
<1> QED
  BY <1>3, <1>4 DEF HandleConnect

(* handleWilltopic stores a topic of this attempt or a later one.          *)
LEMMA WilltopicStep == ASSUME WillInv, TypeOK', HandleWilltopic PROVE WillInv'
<1> DEFINE c == Head(packetQ).client
           p == Head(packetQ).pkt
           r == [cl[c] EXCEPT !.waitWill = TRUE, !.conn.topic = p.try]
<1>1. /\ packetQ # <<>> /\ dev' = dev /\ TypeOK
      /\ c \in Clients /\ Head(packetQ) \in Handshake(c)
      /\ p \in DevicePacket /\ p.type = "WILLTOPIC"
  BY TakeHandshake DEF HandleWilltopic
<1>2. cl[c] \in Client /\ p.try \in Nat
  BY <1>1, DeviceFields DEF TypeOK
<1>3. cl' = [cl EXCEPT ![c] = r] /\ packetQ' = Tail(packetQ) /\ brokerQ' = brokerQ
  BY DEF HandleWilltopic
<1>4. r.conn.try = cl[c].conn.try /\ r.conn.topic = p.try
  BY <1>2 DEF Client, Conn
<1>5. cl[c].conn.try <= p.try /\ BrokerQueueFresh
  BY <1>1, <1>3, HeadFirst DEF BrokerQueueFresh
<1>6. p.try <= p.try
  BY <1>2
<1> HIDE DEF r
<1> QED
  BY <1>1, <1>3, <1>4, <1>5, <1>6, HandshakeStep

(* handleWillmsg sends the CONNECT with what the Client keeps.             *)
LEMMA WillmsgStep == ASSUME WillInv, TypeOK', HandleWillmsg PROVE WillInv'
<1> DEFINE c == Head(packetQ).client
           p == Head(packetQ).pkt
           conn == [cl[c].conn EXCEPT !.msg = p.try]
           r == [cl[c] EXCEPT !.conn = conn, !.waitWill = FALSE]
<1>1. /\ packetQ # <<>> /\ dev' = dev /\ TypeOK
      /\ c \in Clients /\ Head(packetQ) \in Handshake(c)
      /\ p \in DevicePacket /\ p.type = "WILLMSG"
  BY TakeHandshake DEF HandleWillmsg
<1>2. cl[c] \in Client /\ cl[c].conn \in Conn /\ p.try \in Nat
  BY <1>1, DeviceFields DEF TypeOK, Client
<1>3. packetQ' = Tail(packetQ)
  BY DEF HandleWillmsg
<1>4. /\ conn \in Conn /\ conn.try = cl[c].conn.try /\ conn.topic = cl[c].conn.topic
      /\ conn.msg = p.try
  BY <1>2 DEF Conn
<1>5. cl[c].conn.try <= p.try /\ cl[c].conn.topic <= p.try
  BY <1>1, <1>3, HeadFirst
<1>6. CASE /\ cl[c].waitWill /\ cl' = [cl EXCEPT ![c] = r]
           /\ brokerQ' = Append(brokerQ, To(c, [type |-> "CONNECT", conn |-> conn]))
  <2> HIDE DEF conn
  <2>1. conn.try <= conn.topic /\ conn.topic <= conn.msg
    BY <1>1, <1>4, <1>5, <1>6 DEF WillInv, InOrder, ConnWithin
  <2>2. BrokerQueueFresh
    <3>1. [type |-> "CONNECT", conn |-> conn] \in GwPacket
      BY <1>4, MadePackets
    <3>2. FreshPacket([type |-> "CONNECT", conn |-> conn])
      BY <2>1 DEF FreshPacket
    <3> QED
      BY <1>1, <1>6, <3>1, <3>2 DEF BrokerQueueFresh
  <2>3. r.conn = conn /\ r.waitWill = FALSE
    BY <1>2 DEF Client
  <2> HIDE DEF r
  <2> QED
    BY <1>1, <1>3, <1>4, <1>5, <1>6, <2>2, <2>3, HandshakeStep
<1>7. CASE cl' = cl /\ brokerQ' = brokerQ
  BY <1>1, <1>3, <1>7, Unmoved, KeptStep DEF BrokerQueueFresh
<1> QED
  BY <1>6, <1>7 DEF HandleWillmsg

-----------------------------------------------------------------------------
(* The other handlers                                                      *)

(* handleDisconnect, handlePingreq and handleRegAck leave the connect data *)
(* and tell the broker DISCONNECT or PINGREQ.                              *)
LEMMA RequestsStep ==
    ASSUME WillInv, TypeOK', HandleDisconnect \/ HandlePingreq \/ HandleRegAck
    PROVE  WillInv'
<1> DEFINE c == Head(packetQ).client
<1>1. TypeOK
  BY DEF WillInv
<1>2. packetQ # <<>> /\ dev' = dev /\ c \in Clients
  BY <1>1, TakeDevice DEF HandleDisconnect, HandlePingreq, HandleRegAck, FromDevice
<1>3. cl[c] \in Client
  BY <1>1, <1>2 DEF TypeOK
<1>4. \A t \in {"DISCONNECT", "PINGREQ"} : [type |-> t] \in GwPacket /\ FreshPacket([type |-> t])
  BY MadePackets, OtherFresh
<1>5. BrokerQueueFresh
  <2>1. \/ brokerQ' = brokerQ
        \/ \E t \in {"DISCONNECT", "PINGREQ"} : brokerQ' = Append(brokerQ, To(c, [type |-> t]))
    BY DEF HandleDisconnect, HandlePingreq, HandleRegAck
  <2> QED
    BY <1>2, <1>4, <2>1 DEF BrokerQueueFresh
<1>6. ConnKept
  <2>1. cl' = cl \/ \E r : SameConn(r, cl[c]) /\ cl' = [cl EXCEPT ![c] = r]
    <3>1. CASE HandleDisconnect
      BY <3>1 DEF HandleDisconnect
    <3>2. CASE HandlePingreq
      <4>1. /\ SameConn([cl[c] EXCEPT !.sleepQ = <<>>, !.holdPing = TRUE], cl[c])
            /\ SameConn([cl[c] EXCEPT !.holdPing = FALSE], cl[c])
        BY <1>3 DEF SameConn, Client
      <4>2. \/ cl' = [cl EXCEPT ![c] = [cl[c] EXCEPT !.sleepQ = <<>>, !.holdPing = TRUE]]
            \/ cl' = [cl EXCEPT ![c] = [cl[c] EXCEPT !.holdPing = FALSE]]
        BY <3>2 DEF HandlePingreq
      <4> QED
        BY <4>1, <4>2
    <3>3. CASE HandleRegAck
      <4>1. \A left, b : SameConn([cl[c] EXCEPT !.held = left, !.holdPing = b], cl[c])
        BY <1>3 DEF SameConn, Client
      <4> DEFINE found == FirstHeld(c, Head(packetQ).pkt.msgId)
                 left == IF found = {} THEN cl[c].held
                         ELSE WithoutIndex(cl[c].held, CHOOSE i \in found : TRUE)
                 ping == cl[c].holdPing /\ left = <<>>
      <4>2. \/ cl' = cl
            \/ cl' = [cl EXCEPT ![c].held = left, ![c].holdPing = @ /\ ~ping]
        BY <3>3 DEF HandleRegAck
      <4> HIDE DEF left, ping
      <4>3. \/ cl' = cl
            \/ cl' = [cl EXCEPT ![c] = [cl[c] EXCEPT !.held = left, !.holdPing = @ /\ ~ping]]
        BY <4>2
      <4> QED
        BY <4>1, <4>3
    <3> QED
      BY <3>1, <3>2, <3>3
  <2>2. CASE cl' = cl
    BY <1>1, <2>2, Unmoved
  <2>3. CASE \E r : SameConn(r, cl[c]) /\ cl' = [cl EXCEPT ![c] = r]
    BY <1>1, <1>2, <2>3, SameConnKept
  <2> QED
    BY <2>1, <2>2, <2>3
<1>7. AllMove
  <2>1. CASE packetQ' = Tail(packetQ)
    BY <1>1, <1>2, <2>1, Unmoved
  <2>2. CASE packetQ' = Posted(Tail(packetQ), StoredEvents(c))
    <3>1. StoredEvents(c) \in Seq(PacketEvent)
          /\ \A d : \A j \in DOMAIN StoredEvents(c) : Late(d, StoredEvents(c)[j])
      BY <1>1, <1>2, StoredEventsType, BrokerLate DEF StoredEvents
    <3> QED
      BY <1>1, <1>2, <2>2, <3>1, Moves DEF AllMove
  <2> QED
    BY <2>1, <2>2 DEF HandleDisconnect, HandlePingreq, HandleRegAck
<1> QED
  BY <1>1, <1>2, <1>5, <1>6, <1>7, Unmoved, KeptStep

(* updateStatus, and the handlers of the broker's answers: the status.     *)
LEMMA StatusOnlyStep ==
    ASSUME WillInv, TypeOK',
           UpdateStatus \/ HandleConnack \/ HandlePingresp \/ HandleBrokerDisconnect
    PROVE  WillInv'
<1>1. TypeOK
  BY DEF WillInv
<1>2. \E c \in Clients : \E r : OnlyStatus(r, cl[c]) /\ cl' = [cl EXCEPT ![c] = r]
  <2>1. ASSUME NEW c \in Clients
        PROVE  /\ OnlyStatus(Disconnected(cl[c]), cl[c])
               /\ OnlyStatus([cl[c] EXCEPT !.status = "Active"], cl[c])
               /\ \A p : OnlyStatus(UpdatedStatus(cl[c], p), cl[c])
    BY <1>1, StatusFields DEF TypeOK, Status
  <2>2. CASE UpdateStatus
    <3>1. upd.client \in Clients
      BY <1>1, <2>2 DEF TypeOK, UpdateStatus, DeviceEvent
    <3> QED
      BY <2>1, <2>2, <3>1 DEF UpdateStatus
  <2>3. CASE HandleConnack
    <3>1. Head(packetQ).client \in Clients
      BY <1>1, <2>3, TakeBroker DEF HandleConnack
    <3> QED
      BY <2>1, <2>3, <3>1 DEF HandleConnack
  <2>4. CASE HandlePingresp
    <3>1. Head(packetQ).client \in Clients
      BY <1>1, <2>4, TakeBroker DEF HandlePingresp
    <3> QED
      BY <2>1, <2>4, <3>1 DEF HandlePingresp
  <2>5. CASE HandleBrokerDisconnect
    <3>1. Head(packetQ).client \in Clients
      BY <1>1, <2>5, TakeBroker DEF HandleBrokerDisconnect
    <3> QED
      BY <2>1, <2>5, <3>1 DEF HandleBrokerDisconnect
  <2> QED
    BY <2>2, <2>3, <2>4, <2>5
<1>3. ConnKept
  BY <1>1, <1>2, StatusKeepsConn
<1>4. AllMove /\ TriesKept /\ BrokerQueueFresh
  <2>1. /\ packetQ' = packetQ \/ (packetQ # <<>> /\ packetQ' = Tail(packetQ))
        /\ dev' = dev /\ brokerQ' = brokerQ
    BY DEF UpdateStatus, HandleConnack, HandlePingresp, HandleBrokerDisconnect, FromBroker
  <2> QED
    BY <1>1, <2>1, Unmoved DEF BrokerQueueFresh
<1> QED
  BY <1>1, <1>3, <1>4, KeptStep

(* handlePublish answers the broker and touches what is saved and held.    *)
LEMMA PublishOrder == ASSUME WillInv, TypeOK', HandlePublish PROVE WillInv'
<1> DEFINE c == Head(packetQ).client
           m == Head(packetQ).pkt.pub
<1>1. TypeOK
  BY DEF WillInv
<1>2. packetQ # <<>> /\ dev' = dev /\ packetQ' = Tail(packetQ) /\ c \in Clients /\ m \in Pubs
  BY <1>1, TakeBroker, BrokerFields DEF HandlePublish, FromBroker
<1>3. cl[c] \in Client
  BY <1>1, <1>2 DEF TypeOK
<1> HIDE DEF c, m
<1>4. PublishDropped(c) \/ PublishSaved(c, m) \/ PublishKnown(c, m)
      \/ PublishUnmatched(c, m) \/ PublishRegister(c, m)
  BY DEF HandlePublish, c, m
<1>5. BrokerQueueFresh
  <2>1. \/ brokerQ' = brokerQ
        \/ \E t \in {"PUBACK", "PUBREC"} :
              brokerQ' = Append(brokerQ, To(c, [type |-> t, pub |-> m]))
    BY <1>4 DEF PublishDropped, PublishSaved, PublishKnown, PublishUnmatched, PublishRegister,
                ReplyAck
  <2>2. \A t \in {"PUBACK", "PUBREC"} :
            [type |-> t, pub |-> m] \in GwPacket /\ FreshPacket([type |-> t, pub |-> m])
    BY <1>2, MadePackets, OtherFresh
  <2> QED
    BY <1>2, <2>1, <2>2 DEF BrokerQueueFresh
<1>6. cl' = cl \/ \E r : SameConn(r, cl[c]) /\ cl' = [cl EXCEPT ![c] = r]
  <2>1. CASE PublishSaved(c, m)
    <3>1. SameConn([cl[c] EXCEPT !.sleepQ = Append(cl[c].sleepQ, m)], cl[c])
      BY <1>3 DEF SameConn, Client
    <3>2. cl' = cl \/ cl' = [cl EXCEPT ![c] = [cl[c] EXCEPT !.sleepQ = Append(cl[c].sleepQ, m)]]
      BY <2>1 DEF PublishSaved
    <3> QED
      BY <3>1, <3>2
  <2>2. CASE PublishRegister(c, m)
    <3> DEFINE t == TopicOf[m]
               tid == NextTid(c)
               id == NextSnMsgId(c)
               h == [msgId |-> id, pub |-> m, tid |-> tid]
               r == [cl[c] EXCEPT !.held = Append(cl[c].held, h), !.snMsgId = id,
                                  !.nextTid = tid, !.tid[t] = tid]
    <3>1. cl' = cl \/ cl' = [cl EXCEPT ![c] = r]
      BY <2>2 DEF PublishRegister
    <3> HIDE DEF t, tid, id, h
    <3>2. SameConn(r, cl[c])
      BY <1>3 DEF SameConn, Client
    <3> QED
      BY <3>1, <3>2
  <2> QED
    BY <1>4, <2>1, <2>2 DEF PublishDropped, PublishKnown, PublishUnmatched
<1>7. ConnKept
  <2>1. CASE cl' = cl
    BY <1>1, <2>1, Unmoved
  <2>2. CASE \E r : SameConn(r, cl[c]) /\ cl' = [cl EXCEPT ![c] = r]
    BY <1>1, <1>2, <2>2, SameConnKept
  <2> QED
    BY <1>6, <2>1, <2>2
<1> QED
  BY <1>1, <1>2, <1>5, <1>7, Unmoved, KeptStep

-----------------------------------------------------------------------------
(* The other tasks, the broker and the devices                             *)

(* The tasks of the broker side post events of the broker and change the   *)
(* status of a Client.                                                     *)
LEMMA BrokerSideOrder ==
    ASSUME WillInv, TypeOK',
           BrokerSendStep \/ \E c \in Clients : BrokerRecvStep(c) \/ BrokerStep(c)
    PROVE  WillInv'
<1>1. TypeOK
  BY DEF WillInv
<1>2. dev' = dev /\ (brokerQ' = brokerQ \/ (brokerQ # <<>> /\ brokerQ' = Tail(brokerQ)))
  BY DEF BrokerSendStep, BrokerSend, BrokerSent, BrokerConnectFails, BrokerSendFails,
         BrokerRecvStep, BrokerRecvPacket, BrokerRecvClosed, BrokerStep, BrokerPublish, BrokerCloses
<1>3. ConnKept
  <2>1. ASSUME NEW c \in Clients, \/ cl' = [cl EXCEPT ![c] = Disconnected(cl[c])]
                                 \/ cl' = [cl EXCEPT ![c] = [cl[c] EXCEPT !.status = "Connecting"]]
        PROVE  ConnKept
    <3>1. /\ OnlyStatus(Disconnected(cl[c]), cl[c])
          /\ OnlyStatus([cl[c] EXCEPT !.status = "Connecting"], cl[c])
      BY <1>1, StatusFields DEF TypeOK, Status
    <3> QED
      BY <1>1, <2>1, <3>1, StatusKeepsConn
  <2>2. CASE BrokerSent
    <3>1. sent.client \in Clients
      BY <1>1, <2>2 DEF TypeOK, BrokerSent, Event
    <3> QED
      BY <2>1, <2>2, <3>1 DEF BrokerSent
  <2>3. ASSUME NEW c \in Clients, BrokerRecvClosed(c) PROVE ConnKept
    BY <2>1, <2>3 DEF BrokerRecvClosed
  <2>4. CASE cl' = cl
    BY <1>1, <2>4, Unmoved
  <2> QED
    BY <2>2, <2>3, <2>4 DEF BrokerSendStep, BrokerSend, BrokerConnectFails, BrokerSendFails,
         BrokerRecvStep, BrokerRecvPacket, BrokerStep, BrokerPublish, BrokerCloses
<1>4. AllMove
  <2>1. ASSUME NEW c \in Clients, NEW p \in BrokerPacket,
               packetQ' = Posted(packetQ, <<BrokerRecv(c, p)>>)
        PROVE  AllMove
    <3>1. BrokerRecv(c, p) \in PacketEvent
      BY DEF BrokerRecv, PacketEvent, BrokerEvent
    <3>2. <<BrokerRecv(c, p)>> \in Seq(PacketEvent)
          /\ \A d : \A j \in DOMAIN <<BrokerRecv(c, p)>> : Late(d, <<BrokerRecv(c, p)>>[j])
      <4> HIDE DEF PacketEvent
      <4> QED
        BY <3>1, BrokerLate
    <3> QED
      BY <1>1, <2>1, <3>2, Moves DEF AllMove
  <2>2. ASSUME BrokerSendFails PROVE AllMove
    <3>1. Head(brokerQ).client \in Clients
      BY <1>1, <2>2, HeadTailProperties DEF TypeOK, BrokerSendFails, Event
    <3> QED
      BY <2>1, <2>2, <3>1, MadePackets DEF BrokerSendFails
  <2>3. ASSUME NEW c \in Clients, BrokerRecvPacket(c) PROVE AllMove
    <3>1. net[c].down \in Seq(BrokerPacket)
      BY <1>1 DEF TypeOK, Link
    <3>2. Head(net[c].down) \in BrokerPacket
      BY <2>3, <3>1, HeadTailProperties DEF BrokerRecvPacket
    <3> QED
      BY <2>1, <2>3, <3>2 DEF BrokerRecvPacket
  <2>4. CASE packetQ' = packetQ
    BY <1>1, <2>4, Unmoved
  <2> QED
    BY <2>2, <2>3, <2>4 DEF BrokerSendStep, BrokerSend, BrokerSent, BrokerConnectFails,
         BrokerRecvStep, BrokerRecvClosed, BrokerStep, BrokerPublish, BrokerCloses
<1> QED
  BY <1>1, <1>2, <1>3, <1>4, Unmoved, KeptStep DEF BrokerQueueFresh

(* What a device receives does not change the number of its attempts.      *)
LEMMA ReceivedTry ==
    ASSUME NEW d \in Device, NEW p
    PROVE  Received(d, p).try = d.try
<1>1. \A s : [d EXCEPT !.st = s].try = d.try
  BY DEF Device
<1>2. \A g : [d EXCEPT !.got = g].try = d.try
  BY DEF Device
<1>3. \A t, r : [d EXCEPT !.told = t, !.regs = r].try = d.try
  BY DEF Device
<1> QED
  BY <1>1, <1>2, <1>3 DEF Received

(* ClientSendTask takes from its own queue only.                           *)
LEMMA ClientSendOrder ==
    ASSUME WillInv, TypeOK', ClientSend \/ ClientSendLost
    PROVE  WillInv'
<1>1. TypeOK
  BY DEF WillInv
<1>2. cl' = cl /\ packetQ' = packetQ /\ brokerQ' = brokerQ /\ clientQ # <<>>
  BY DEF ClientSend, ClientSendLost
<1>3. TriesKept
  <2>1. \A c \in Clients : dev[c] \in Device /\ dev[c].try \in Nat
    BY <1>1 DEF TypeOK, Device
  <2>2. CASE ClientSend
    <3>1. dev' = [dev EXCEPT ![Head(clientQ).client] =
                    Received(dev[Head(clientQ).client], Head(clientQ).pkt)]
      BY <2>2 DEF ClientSend
    <3>2. \A c \in Clients : dev'[c].try = dev[c].try
      BY <1>1, <2>1, <3>1, ReceivedTry DEF TypeOK
    <3> QED
      BY <2>1, <3>2 DEF TriesKept
  <2>3. CASE ClientSendLost
    BY <1>1, <2>3, Unmoved DEF ClientSendLost
  <2> QED
    BY <2>2, <2>3
<1> QED
  BY <1>1, <1>2, <1>3, Unmoved, KeptStep DEF BrokerQueueFresh

(* A device sends a packet: one of a handshake is of its latest attempt.   *)
LEMMA DeviceSendsOrder ==
    ASSUME WillInv, TypeOK', NEW c \in Clients, NEW d, dev[c].try <= d.try, NEW p \in DevicePacket,
           p.type \in {"CONNECT", "WILLTOPIC", "WILLMSG"} => p.try = d.try,
           DeviceSends(c, d, p)
    PROVE  WillInv'
<1>1. TypeOK /\ \A b \in Clients : dev[b].try \in Nat
  BY DEF WillInv, TypeOK, Device
<1>2. /\ cl' = cl /\ brokerQ' = brokerQ
      /\ \A b \in Clients : dev'[b] = IF b = c THEN d ELSE dev[b]
  BY <1>1 DEF DeviceSends, TypeOK
<1>3. TriesKept
  BY <1>1, <1>2 DEF TriesKept
<1>4. AllMove
  <2>1. CASE packetQ' = packetQ
    BY <1>1, <2>1, Unmoved
  <2>2. CASE packetQ' = Posted(packetQ, <<ClientRecv(c, p)>>)
    <3>1. ClientRecv(c, p) \in PacketEvent
      BY DEF ClientRecv, PacketEvent, DeviceEvent
    <3>2. <<ClientRecv(c, p)>> \in Seq(PacketEvent)
      <4> HIDE DEF PacketEvent
      <4> QED
        BY <3>1
    <3>3. ASSUME NEW b \in Clients PROVE Late(b, ClientRecv(c, p))
      BY <1>2 DEF Late, Handshake, ClientRecv
    <3>4. \A b \in Clients : \A j \in DOMAIN <<ClientRecv(c, p)>> : Late(b, <<ClientRecv(c, p)>>[j])
      BY <3>3
    <3> QED
      BY <1>1, <2>2, <3>2, <3>4, Moves DEF AllMove
  <2> QED
    BY <2>1, <2>2 DEF DeviceSends, RecvFromDevice
<1> QED
  BY <1>1, <1>2, <1>3, <1>4, Unmoved, KeptStep DEF BrokerQueueFresh

(* A request that is none of the handshake.                                *)
LEMMA DeviceRequestsOrder ==
    ASSUME WillInv, TypeOK', NEW c \in Clients, NEW from, NEW to, NEW p \in DevicePacket,
           p.type \notin {"CONNECT", "WILLTOPIC", "WILLMSG"}, DeviceRequests(c, from, to, p)
    PROVE  WillInv'
<1> DEFINE d == [dev[c] EXCEPT !.st = to, !.requests = @ + 1]
<1>1. dev[c] \in Device
  BY DEF WillInv, TypeOK
<1>2. dev[c].try <= d.try
  BY <1>1 DEF Device
<1>3. DeviceSends(c, d, p)
  BY DEF DeviceRequests
<1> HIDE DEF d
<1> QED
  BY <1>2, <1>3, DeviceSendsOrder

(* Every request and answer of a device.                                   *)
LEMMA DeviceStepKeepsOrder ==
    ASSUME WillInv, TypeOK', NEW c \in Clients, DeviceStep(c)
    PROVE  WillInv'
<1>1. dev[c] \in Device /\ dev[c].try \in Nat /\ dev[c].regs \subseteq Nat
  BY DEF WillInv, TypeOK, Device
<1>2. /\ \A s : [dev[c] EXCEPT !.st = s].try = dev[c].try
      /\ \A r : [dev[c] EXCEPT !.regs = r].try = dev[c].try
  BY <1>1 DEF Device
<1>3. /\ \A t \in {"WILLTOPIC", "WILLMSG"} : [type |-> t, try |-> dev[c].try] \in DevicePacket
      /\ \A s \in BOOLEAN : [type |-> "DISCONNECT", sleep |-> s] \in DevicePacket
      /\ [type |-> "PINGREQ"] \in DevicePacket
      /\ \A id \in Nat : [type |-> "REGACK", msgId |-> id] \in DevicePacket
      /\ \A b, w \in BOOLEAN : [type |-> "CONNECT", clean |-> b, will |-> w,
                                try |-> dev[c].try + 1] \in DevicePacket
  BY <1>1 DEF DevicePacket
<1>4. CASE DeviceConnect(c)
  <2>1. PICK clean \in CleanFlags, will \in WillFlags :
            DeviceSends(c, [dev[c] EXCEPT !.st = "connecting", !.try = @ + 1,
                                          !.will = will, !.regs = {}],
                        [type |-> "CONNECT", clean |-> clean, will |-> will,
                         try |-> dev[c].try + 1])
    BY <1>4 DEF DeviceConnect
  <2>2. [dev[c] EXCEPT !.st = "connecting", !.try = @ + 1, !.will = will, !.regs = {}].try
            = dev[c].try + 1
    BY <1>1 DEF Device
  <2>3. [type |-> "CONNECT", clean |-> clean, will |-> will, try |-> dev[c].try + 1]
            \in DevicePacket
    BY <1>3, SessionAssumption
  <2>4. dev[c].try <= dev[c].try + 1
    BY <1>1
  <2> QED
    BY <2>1, <2>2, <2>3, <2>4, DeviceSendsOrder
<1>5. dev[c].try <= dev[c].try
  BY <1>1
<1>6. CASE DeviceWilltopic(c)
  BY <1>2, <1>3, <1>5, <1>6, DeviceSendsOrder DEF DeviceWilltopic
<1>7. CASE DeviceWillmsg(c)
  BY <1>2, <1>3, <1>5, <1>7, DeviceSendsOrder DEF DeviceWillmsg
<1>8. CASE DeviceRegAck(c)
  <2>1. PICK id \in dev[c].regs :
            DeviceSends(c, [dev[c] EXCEPT !.regs = @ \ {id}], [type |-> "REGACK", msgId |-> id])
    BY <1>8 DEF DeviceRegAck
  <2>2. [type |-> "REGACK", msgId |-> id] \in DevicePacket
    BY <1>1, <1>3
  <2> QED
    BY <1>2, <1>5, <2>1, <2>2, DeviceSendsOrder
<1>9. CASE DeviceSleep(c)
  BY <1>3, <1>9, DeviceRequestsOrder DEF DeviceSleep
<1>10. CASE DeviceDisconnect(c)
  BY <1>3, <1>10, DeviceRequestsOrder DEF DeviceDisconnect
<1>11. CASE DevicePing(c)
  BY <1>3, <1>11, DeviceRequestsOrder DEF DevicePing
<1>12. CASE DeviceWake(c)
  BY <1>3, <1>12, DeviceRequestsOrder DEF DeviceWake
<1> QED
  BY <1>4, <1>6, <1>7, <1>8, <1>9, <1>10, <1>11, <1>12 DEF DeviceStep, DeviceAnswers

-----------------------------------------------------------------------------
(* At first no queue has an event and no device has tried to connect.      *)
LEMMA InitWill == Init => WillInv
<1> SUFFICES ASSUME Init PROVE WillInv
  OBVIOUS
<1>1. /\ \A c \in Clients : cl[c] = NewClient /\ dev[c] = NewDevice
      /\ packetQ = <<>> /\ brokerQ = <<>>
  BY DEF Init
<1>2. ASSUME NEW c \in Clients PROVE InOrder(c)
  <2>1. ConnWithin(c)
    BY <1>1 DEF ConnWithin, NewClient, NewDevice, NoConn
  <2>2. TriesGrow(c) /\ TriesWithin(c)
    BY <1>1 DEF TriesGrow, TriesWithin
  <2> QED
    BY <2>1, <2>2 DEF InOrder
<1>3. WillFresh
  BY <1>1 DEF WillFresh
<1> QED
  BY <1>2, <1>3, InitType DEF WillInv

(* Every step of every task, device and broker keeps the order.            *)
LEMMA NextWill == WillInv /\ [Next]_vars => WillInv'
<1> SUFFICES ASSUME WillInv, [Next]_vars PROVE WillInv'
  OBVIOUS
<1>1. TypeOK /\ TypeOK'
  BY NextType DEF WillInv
<1>2. CASE PacketHandle
  BY <1>1, <1>2, ConnectStep, WilltopicStep, WillmsgStep, RequestsStep, StatusOnlyStep, PublishOrder
     DEF PacketHandle
<1>3. CASE BrokerSendStep \/ \E c \in Clients : BrokerRecvStep(c) \/ BrokerStep(c)
  BY <1>1, <1>3, BrokerSideOrder
<1>4. CASE ClientSend \/ ClientSendLost
  BY <1>1, <1>4, ClientSendOrder
<1>5. CASE \E c \in Clients : DeviceStep(c)
  BY <1>1, <1>5, DeviceStepKeepsOrder
<1>6. CASE UNCHANGED vars
  <2>1. cl' = cl /\ dev' = dev /\ packetQ' = packetQ /\ brokerQ' = brokerQ
    BY <1>6 DEF vars
  <2> QED
    BY <1>1, <2>1, Unmoved, KeptStep DEF BrokerQueueFresh
<1> QED
  BY <1>2, <1>3, <1>4, <1>5, <1>6 DEF Next

(* WillFresh holds in every reachable state: handleWillmsg never sends the *)
(* broker a CONNECT with a will topic or will message that is older than   *)
(* the CONNECT of the device, whatever is lost or repeated.                *)
THEOREM WillNotOlder == Spec => []WillFresh
<1>1. WillInv => WillFresh
  BY DEF WillInv
<1> QED
  BY <1>1, InitWill, NextWill, PTL DEF Spec
=============================================================================
