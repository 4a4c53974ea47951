----------------------------- MODULE Aggregate ------------------------------
(***************************************************************************)
(* The aggregating gateway: all devices share one connection to the        *)
(* broker.  The handlers for aggregated clients (PacketHandleTask,         *)
(* MQTTSNAggregateConnectionHandler, the handleAggregate... operations of  *)
(* the publish and subscribe handlers) with the table of message ids and   *)
(* the table of topics.  The connection of the aggregater itself is the    *)
(* subject of Proxy.                                                       *)
(***************************************************************************)
EXTENDS AggregateTables, FiniteSets

CONSTANTS Clients, Topics, ClientMsgIds,
          ShortTopics, \* the topics with names of two characters
          Covers,     \* Covers[f]: the topics a filter f matches
          Kinds,      \* the packets the devices send
          MaxPackets, \* bound: packets of the devices
          MaxNews,    \* bound: publications of the broker
          MaxLosses   \* bound: connections to the broker that are lost

\* The names a filter of the table matches (TopicMatch).
MCovers(filter, name) == name \in Covers[filter]

VARIABLES status,    \* _status of each client
          waitWill,  \* _waitWillMsgFlg
          saved,     \* _clientSleepPacketQue
          topics,    \* the NORMAL topics of each client
          waited,    \* _waitedPubTopicIdMap and _waitedSubTopicIdMap
          entries,   \* _msgIdTable of the aggregater
          packetId,  \* _packetId of its client
          table,     \* _topicTable of the aggregater
          packetQ,   \* the packet event queue
          brokerQ,   \* the broker's send queue and connection
          out,       \* what was sent to each device
          crashed,   \* the gateway has used a null pointer
          srv,       \* the broker: its answers and subscriptions
          mine,      \* the subscriptions of each device's session
          left       \* what is left of the bounds

client == <<status, waitWill, saved, topics, waited>>
aggregater == <<entries, packetId, table>>
vars == <<client, aggregater, packetQ, brokerQ, out, crashed, srv, mine, left>>

Init ==
    /\ status = [c \in Clients |-> "disconnected"]
    /\ waitWill = [c \in Clients |-> FALSE]
    /\ saved = [c \in Clients |-> <<>>]
    /\ topics = [c \in Clients |-> {}]
    /\ waited = [c \in Clients |-> {}]
    /\ entries = NoEntries /\ packetId = 0
    /\ table = NoSubscribers
    /\ packetQ = <<>> /\ brokerQ = <<>>
    /\ out = [c \in Clients |-> <<>>]
    /\ crashed = FALSE
    /\ srv = [answers |-> <<>>, subs |-> {}]
    /\ mine = [c \in Clients |-> {}]
    /\ left = [packets |-> MaxPackets, news |-> MaxNews, losses |-> MaxLosses]

FromDevice(c, p) == [from |-> "device", client |-> c, packet |-> p]
FromBroker(c, p) == [from |-> "broker", client |-> c, packet |-> p]
ToAggregater(p) == [from |-> "aggregater", packet |-> p]

-----------------------------------------------------------------------------
(* ClientRecvTask and the packets of the devices.                          *)

\* A disconnected client can only connect.
Receive(c, p) ==
    /\ ~crashed /\ left.packets > 0
    /\ left' = [left EXCEPT !.packets = @ - 1]
    /\ IF status[c] = "disconnected" /\ p.type # "CONNECT"
       THEN /\ out' = [out EXCEPT ![c] = Append(@, [type |-> "DISCONNECT"])]
            /\ UNCHANGED packetQ
       ELSE packetQ' = Append(packetQ, FromDevice(c, p)) /\ UNCHANGED out
    /\ UNCHANGED <<client, aggregater, brokerQ, crashed, srv, mine>>

-----------------------------------------------------------------------------
(* PacketHandleTask                                                        *)

Takes(from, type) ==
    /\ ~crashed /\ packetQ # <<>>
    /\ Head(packetQ).from = from /\ Head(packetQ).packet.type = type

Packet == Head(packetQ).packet
This == Head(packetQ).client

SendClient(c, p) == out' = [out EXCEPT ![c] = Append(@, p)]

IdOfRequest(c) ==
    IF Packet.dup THEN IdFor(entries, c, Packet.msgId)
    ELSE GivenId(entries, packetId, c, Packet.msgId)

\* The entry of a new request; a repeated one uses that of the first.
TakesId(c) ==
    IF Packet.dup THEN UNCHANGED <<entries, packetId>>
    ELSE /\ entries' = WithEntry(entries, packetId, c, Packet.msgId)
         /\ packetId' = PacketIdAfter(entries, packetId, c, Packet.msgId)

\* Client::updateStatus after a packet of the device.
Updated(s, p) ==
    IF s = "active"
       THEN CASE p.type = "DISCONNECT" /\ p.sleep  -> "asleep"
              [] p.type = "DISCONNECT" /\ ~p.sleep -> "disconnected"
              [] OTHER                             -> s
    ELSE IF s \in {"asleep", "awake"}
       THEN CASE p.type = "CONNECT"    -> "active"
              [] p.type = "DISCONNECT" -> "disconnected"
              [] p.type = "PINGREQ"    -> "awake"
              [] OTHER                 -> s
    ELSE s

Handled(c) == status' = [status EXCEPT ![c] = Updated(@, Packet)]

\* sendStoredPublish posts the saved PUBLISHes as if they came just now.
Stored(c) == [i \in 1..Len(saved[c]) |->
                FromBroker(c, [saved[c][i] EXCEPT !.again = TRUE])]

\* The topics that erase() does not find.
Missing(c) == {t \in topics[c] : ElementOf(table, t) = 0}

WithoutTopics(tab, c, names) ==
    FoldSet(LAMBDA t, left_ : WithoutSubscriber(left_, t, c), tab, names)

ConnectAsleep ==
    /\ Takes("device", "CONNECT") /\ status[This] \in {"asleep", "awake"}
    /\ SendClient(This, [type |-> "CONNACK"])
    /\ packetQ' = Tail(packetQ) \o Stored(This)
    /\ saved' = [saved EXCEPT ![This] = <<>>]
    /\ Handled(This)
    /\ UNCHANGED <<waitWill, topics, waited, aggregater, brokerQ, crashed, srv, mine, left>>

Connect ==
    /\ Takes("device", "CONNECT") /\ status[This] \notin {"asleep", "awake"}
    /\ waitWill' = [waitWill EXCEPT ![This] = FALSE]
    /\ IF Packet.clean /\ Missing(This) # {}
       THEN /\ crashed' = TRUE
            /\ UNCHANGED <<status, saved, topics, waited, table, packetQ, out, mine>>
       ELSE /\ IF Packet.clean
               THEN /\ table' = WithoutTopics(table, This, topics[This])
                    /\ topics' = [topics EXCEPT ![This] = {}]
                    /\ waited' = [waited EXCEPT ![This] = {}]
                    /\ mine' = [mine EXCEPT ![This] = {}]
               ELSE UNCHANGED <<table, topics, waited, mine>>
            /\ IF Packet.will
               THEN /\ status' = [status EXCEPT ![This] = "disconnected"]
                    /\ SendClient(This, [type |-> "WILLTOPICREQ"])
                    /\ packetQ' = Tail(packetQ)
                    /\ UNCHANGED saved
               ELSE /\ status' = [status EXCEPT ![This] = "active"]
                    /\ SendClient(This, [type |-> "CONNACK"])
                    /\ packetQ' = Tail(packetQ) \o Stored(This)
                    /\ saved' = [saved EXCEPT ![This] = <<>>]
            /\ UNCHANGED crashed
    /\ UNCHANGED <<entries, packetId, brokerQ, srv, left>>

Willtopic ==
    /\ Takes("device", "WILLTOPIC")
    /\ waitWill' = [waitWill EXCEPT ![This] = TRUE]
    /\ SendClient(This, [type |-> "WILLMSGREQ"])
    /\ packetQ' = Tail(packetQ)
    /\ UNCHANGED <<status, saved, topics, waited, aggregater, brokerQ, crashed, srv, mine, left>>

\* A client that is awaited for its will is told that it is connected.
Willmsg ==
    /\ Takes("device", "WILLMSG")
    /\ IF waitWill[This]
       THEN /\ SendClient(This, [type |-> "CONNACK"])
            /\ packetQ' = Tail(packetQ) \o Stored(This)
            /\ saved' = [saved EXCEPT ![This] = <<>>]
       ELSE packetQ' = Tail(packetQ) /\ UNCHANGED <<saved, out>>
    /\ UNCHANGED <<status, waitWill, topics, waited, aggregater, brokerQ, crashed, srv, mine, left>>

Disconnect ==
    /\ Takes("device", "DISCONNECT")
    /\ SendClient(This, [type |-> "DISCONNECT"])
    /\ packetQ' = Tail(packetQ)
    /\ Handled(This)
    /\ waitWill' = IF status'[This] = "disconnected"
                   THEN [waitWill EXCEPT ![This] = FALSE] ELSE waitWill
    /\ UNCHANGED <<saved, topics, waited, aggregater, brokerQ, crashed, srv, mine, left>>

\* The PINGRESP goes through the packet queue, behind what was saved.
Pingreq ==
    /\ Takes("device", "PINGREQ")
    /\ LET stored == IF status[This] \in {"asleep", "awake"} THEN Stored(This) ELSE <<>>
       IN  /\ packetQ' = Tail(packetQ) \o stored \o <<FromBroker(This, [type |-> "PINGRESP"])>>
           /\ saved' = IF stored = <<>> THEN saved ELSE [saved EXCEPT ![This] = <<>>]
    /\ Handled(This)
    /\ UNCHANGED <<waitWill, topics, waited, aggregater, brokerQ, out, crashed, srv, mine, left>>

\* handleAggregatePublish: without an entry the PUBLISH goes out with id 0.
Publish ==
    /\ Takes("device", "PUBLISH")
    /\ LET id == IdOfRequest(This)
       IN  brokerQ' = Append(brokerQ, [type |-> "PUBLISH", qos |-> Packet.qos, msgId |-> id,
                                       asker |-> <<This, Packet.msgId>>])
    /\ TakesId(This)
    /\ waited' = [waited EXCEPT ![This] = @ \cup {<<"pub", Packet.msgId>>}]
    /\ packetQ' = Tail(packetQ)
    /\ UNCHANGED <<status, waitWill, saved, topics, table, out, crashed, srv, mine, left>>

\* handleAggregateAck: PUBREC is answered here, the others end here.
Ack ==
    /\ \E type \in {"PUBACK", "PUBREC", "PUBREL", "PUBCOMP"} : Takes("device", type)
    /\ IF Packet.type = "PUBREC"
       THEN SendClient(This, [type |-> "PUBREL", msgId |-> Packet.msgId])
       ELSE UNCHANGED out
    /\ packetQ' = Tail(packetQ)
    /\ UNCHANGED <<client, aggregater, brokerQ, crashed, srv, mine, left>>

Subscribe ==
    /\ Takes("device", "SUBSCRIBE")
    /\ LET t == Packet.topic
           id == IdOfRequest(This)
       IN  /\ topics' = IF t \in ShortTopics THEN topics ELSE [topics EXCEPT ![This] = @ \cup {t}]
           /\ waited' = [waited EXCEPT ![This] = @ \cup {<<"sub", Packet.msgId>>}]
           /\ TakesId(This)
           /\ IF id = 0 THEN UNCHANGED <<table, brokerQ, mine>>
              ELSE /\ table' = WithSubscriber(table, t, This)
                   /\ mine' = [mine EXCEPT ![This] = @ \cup {t}]
                   /\ brokerQ' = Append(brokerQ, [type |-> "SUBSCRIBE", topic |-> t,
                                   msgId |-> id, asker |-> <<This, Packet.msgId>>])
    /\ packetQ' = Tail(packetQ)
    /\ UNCHANGED <<status, waitWill, saved, out, crashed, srv, left>>

\* An unknown name is answered by the gateway; one that nobody subscribed
\* to ends it.
Unsubscribe ==
    /\ Takes("device", "UNSUBSCRIBE")
    /\ LET t == Packet.topic
           id == IdOfRequest(This)
       IN  IF t \notin ShortTopics /\ t \notin topics[This]
           THEN /\ SendClient(This, [type |-> "UNSUBACK", msgId |-> Packet.msgId,
                                     asker |-> <<This, Packet.msgId>>])
                /\ packetQ' = Tail(packetQ)
                /\ UNCHANGED <<aggregater, brokerQ, crashed, mine>>
           ELSE IF id # 0 /\ ElementOf(table, t) = 0
           THEN /\ crashed' = TRUE
                /\ UNCHANGED <<aggregater, packetQ, brokerQ, out, mine>>
           ELSE /\ TakesId(This)
                /\ IF id = 0 THEN UNCHANGED <<table, brokerQ, mine>>
                   ELSE /\ table' = WithoutSubscriber(table, t, This)
                        /\ mine' = [mine EXCEPT ![This] = @ \ {t}]
                        /\ brokerQ' = Append(brokerQ,
                             [type |-> "UNSUBSCRIBE", topic |-> t, msgId |-> id,
                              asker |-> <<This, Packet.msgId>>])
                /\ packetQ' = Tail(packetQ)
                /\ UNCHANGED <<out, crashed>>
    /\ UNCHANGED <<client, srv, left>>

-----------------------------------------------------------------------------
(* Packets of the broker to the aggregater.                                *)

\* An answer to a device, if its client waits for it.
Answer(c, m) ==
    LET kind == IF Packet.type = "SUBACK" THEN "sub" ELSE "pub"
        p == [type |-> Packet.type, msgId |-> m, asker |-> Packet.asker]
    IN  IF Packet.type \in {"PUBACK", "SUBACK"}
        THEN /\ waited' = [waited EXCEPT ![c] = @ \ {<<kind, m>>}]
             /\ IF <<kind, m>> \in waited[c] THEN SendClient(c, p) ELSE UNCHANGED out
        ELSE /\ IF \/ Packet.type = "UNSUBACK"
                   \/ status[c] \in {"active", "awake"}
                THEN SendClient(c, p) ELSE UNCHANGED out
             /\ UNCHANGED waited

\* handleAggregatePuback, ...Ack, ...Suback, ...Unsuback
BrokerAnswer ==
    /\ \E type \in {"PUBACK", "PUBREC", "PUBCOMP", "SUBACK", "UNSUBACK"} :
         Takes("aggregater", type)
    /\ LET i == EntryOf(entries, Packet.msgId)
       IN  IF i = 0 THEN UNCHANGED <<waited, out>>
           ELSE Answer(entries[i].client, entries[i].clientMsgId)
    /\ entries' = WithoutEntry(entries, Packet.msgId)
    /\ packetQ' = Tail(packetQ)
    /\ UNCHANGED <<status, waitWill, saved, topics, packetId, table, brokerQ, crashed,
                   srv, mine, left>>

\* handleAggregatePublish: one event for each client of the first topic
\* that matches.
FanOut ==
    /\ Takes("aggregater", "PUBLISH")
    /\ LET subs == SubscribersOf(table, Packet.topic)
       IN  packetQ' = Tail(packetQ)
                      \o [i \in 1..Len(subs) |-> FromBroker(subs[i], Packet)]
    /\ UNCHANGED <<client, aggregater, brokerQ, out, crashed, srv, mine, left>>

-----------------------------------------------------------------------------
(* Packets posted for one client: fanned out, stored or the PINGRESP.      *)

\* handlePublish for a client that knows the topic's id (PubSub).
ClientPublish ==
    /\ Takes("broker", "PUBLISH")
    /\ CASE status[This] = "asleep" ->
              /\ saved' = [saved EXCEPT ![This] = Append(@, Packet)]
              /\ brokerQ' = IF Packet.qos = 0 THEN brokerQ
                            ELSE Append(brokerQ, [type |-> "PUBACK", msgId |-> Packet.msgId])
              /\ UNCHANGED out
         [] status[This] \in {"active", "awake"} ->
              /\ SendClient(This, Packet)
              /\ UNCHANGED <<saved, brokerQ>>
         [] OTHER -> UNCHANGED <<saved, brokerQ, out>>
    /\ packetQ' = Tail(packetQ)
    /\ UNCHANGED <<status, waitWill, topics, waited, aggregater, crashed, srv, mine, left>>

Pingresp ==
    /\ Takes("broker", "PINGRESP")
    /\ SendClient(This, [type |-> "PINGRESP"])
    /\ status' = [status EXCEPT ![This] = IF @ \in {"asleep", "awake"} THEN "asleep" ELSE @]
    /\ packetQ' = Tail(packetQ)
    /\ UNCHANGED <<waitWill, saved, topics, waited, aggregater, brokerQ, crashed, srv, mine, left>>

PacketHandle ==
    \/ ConnectAsleep \/ Connect \/ Willtopic \/ Willmsg \/ Disconnect \/ Pingreq
    \/ Publish \/ Ack \/ Subscribe \/ Unsubscribe
    \/ BrokerAnswer \/ FanOut \/ ClientPublish \/ Pingresp

-----------------------------------------------------------------------------
(* The devices.  A device has one request of its session under way at a    *)
(* time; it sends the others, new ones and repeated ones, at any time.     *)

Session == {"CONNECT", "DISCONNECT", "PINGREQ", "PINGRESP"}

Idle(c) == \A i \in 1..Len(packetQ) :
             /\ packetQ[i].from # "aggregater"
             /\ packetQ[i].client = c
             => packetQ[i].packet.type \notin Session

DeviceConnect(c) ==
    /\ "CONNECT" \in Kinds /\ Idle(c)
    /\ \E clean \in BOOLEAN, will \in {FALSE} \cup {"WILL" \in Kinds} :
         Receive(c, [type |-> "CONNECT", clean |-> clean, will |-> will])

DeviceSleep(c) ==
    /\ "SLEEP" \in Kinds /\ Idle(c)
    /\ \/ \E sleep \in BOOLEAN : Receive(c, [type |-> "DISCONNECT", sleep |-> sleep])
       \/ Receive(c, [type |-> "PINGREQ"])

\* The answer to a request for the will, at once or late.
DeviceWill(c) ==
    \/ /\ [type |-> "WILLTOPICREQ"] \in ToSet(out[c])
       /\ Receive(c, [type |-> "WILLTOPIC"])
    \/ /\ [type |-> "WILLMSGREQ"] \in ToSet(out[c])
       /\ Receive(c, [type |-> "WILLMSG"])

DeviceRequest(c) ==
    \E m \in ClientMsgIds, dup \in {FALSE} \cup {"DUP" \in Kinds} :
      \/ /\ "SUBSCRIBE" \in Kinds
         /\ \E type \in {"SUBSCRIBE", "UNSUBSCRIBE"}, t \in Topics :
              Receive(c, [type |-> type, topic |-> t, msgId |-> m, dup |-> dup])
      \/ /\ "PUBLISH" \in Kinds
         /\ \E qos \in {1, 2} :
              Receive(c, [type |-> "PUBLISH", qos |-> qos, msgId |-> m, dup |-> dup])

DeviceAck(c) ==
    /\ "ACK" \in Kinds
    /\ \E m \in ClientMsgIds, type \in {"PUBACK", "PUBREC", "PUBCOMP"} :
         Receive(c, [type |-> type, msgId |-> m])

DeviceStep(c) == \/ DeviceConnect(c) \/ DeviceSleep(c) \/ DeviceWill(c)
                 \/ DeviceRequest(c) \/ DeviceAck(c)

-----------------------------------------------------------------------------
(* The broker answers in the order of the requests on the connection.      *)

Reply(p) ==
    CASE p.type = "SUBSCRIBE"   -> "SUBACK"
      [] p.type = "UNSUBSCRIBE" -> "UNSUBACK"
      [] OTHER                  -> IF p.qos = 1 THEN "PUBACK" ELSE "PUBREC"

ServerTakes ==
    /\ ~crashed /\ brokerQ # <<>>
    /\ brokerQ' = Tail(brokerQ)
    /\ LET p == Head(brokerQ)
           subs == CASE p.type = "SUBSCRIBE"   -> srv.subs \cup {p.topic}
                     [] p.type = "UNSUBSCRIBE" -> srv.subs \ {p.topic}
                     [] OTHER                  -> srv.subs
       IN  srv' = [subs |-> subs, answers |->
                     IF p.type = "PUBACK" \/ p.msgId = 0 THEN srv.answers
                     ELSE Append(srv.answers, [type |-> Reply(p), msgId |-> p.msgId,
                                               asker |-> p.asker])]
    /\ UNCHANGED <<client, aggregater, packetQ, out, crashed, mine, left>>

ServerPublish ==
    /\ ~crashed /\ left.news > 0
    /\ \E t \in UNION {Covers[f] : f \in srv.subs}, qos \in {0, 1} :
         srv' = [srv EXCEPT !.answers = Append(@,
                   [type |-> "PUBLISH", topic |-> t, qos |-> qos, msgId |-> left.news,
                    n |-> left.news, again |-> FALSE])]
    /\ left' = [left EXCEPT !.news = @ - 1]
    /\ UNCHANGED <<client, aggregater, packetQ, brokerQ, out, crashed, mine>>

\* BrokerRecvTask
BrokerRecv ==
    /\ ~crashed /\ srv.answers # <<>>
    /\ packetQ' = Append(packetQ, ToAggregater(Head(srv.answers)))
    /\ srv' = [srv EXCEPT !.answers = Tail(@)]
    /\ UNCHANGED <<client, aggregater, brokerQ, out, crashed, mine, left>>

\* The connection breaks: what is on it is lost, the tables stay.
ConnectionLost ==
    /\ ~crashed /\ left.losses > 0
    /\ brokerQ' = <<>> /\ srv' = [srv EXCEPT !.answers = <<>>]
    /\ left' = [left EXCEPT !.losses = @ - 1]
    /\ UNCHANGED <<client, aggregater, packetQ, out, crashed, mine>>

ServerStep == ServerTakes \/ ServerPublish \/ BrokerRecv \/ ConnectionLost

Next == PacketHandle \/ ServerStep \/ \E c \in Clients : DeviceStep(c)

Spec == Init /\ [][Next]_vars

-----------------------------------------------------------------------------
(* Properties.                                                             *)

Messages(c) == ToSet(out[c])

(* An answer of the broker goes to the device that asked, under the id the *)
(* device used, although all requests share the ids of one connection.     *)
AnswersReachAsker ==
    \A c \in Clients : \A p \in Messages(c) :
        p.type \in {"PUBACK", "PUBREC", "SUBACK", "UNSUBACK"} => p.asker = <<c, p.msgId>>

(* An entry of the message id table is there because its request or the    *)
(* answer is under way: until the connection is lost, no entry stays for   *)
(* ever and fills the table.                                               *)
EntriesDue ==
    \A i \in 1..Len(entries) :
        LET due(p) == /\ p.type # "PUBLISH" \/ "asker" \in DOMAIN p
                      /\ p.msgId = entries[i].msgId
            queued == {packetQ[k].packet : k \in {j \in 1..Len(packetQ) :
                                                     packetQ[j].from = "aggregater"}}
        IN  left.losses = MaxLosses =>
              \E p \in ToSet(brokerQ) \cup ToSet(srv.answers) \cup queued : due(p)

(* All devices share the ids of one connection: each answer goes to the    *)
(* device that asked, and no request is forgotten.                         *)
RequestsAnswered == AnswersReachAsker /\ EntriesDue

(* Two requests that wait for their answers have different ids.            *)
IdsDistinct ==
    \A i, j \in 1..Len(entries) : entries[i].msgId = entries[j].msgId => i = j

(* A PUBLISH of the broker is passed on to exactly the devices that        *)
(* subscribed to its topic, to each of them once.                          *)
FansOutRight ==
    FanOut => LET added == SubSeq(packetQ', Len(packetQ), Len(packetQ'))
                  want == {c \in Clients : \E f \in mine[c] : Packet.topic \in Covers[f]}
              IN  /\ {added[i].client : i \in 1..Len(added)} = want
                  /\ Len(added) = Cardinality(want)
FanOutRight == [][FansOutRight]_vars

PublishOf(p, n) == p.type = "PUBLISH" /\ p.n = n

(* A PUBLISH is for each device in one place: saved, queued or sent.       *)
NoneTwice ==
    \A c \in Clients, n \in 1..MaxNews :
        LET queued == Cardinality({i \in 1..Len(packetQ) :
                        /\ packetQ[i].from = "broker" /\ packetQ[i].client = c
                        /\ PublishOf(packetQ[i].packet, n)})
            kept == Cardinality({i \in 1..Len(saved[c]) : PublishOf(saved[c][i], n)})
            sent == Cardinality({i \in 1..Len(out[c]) : PublishOf(out[c][i], n)})
        IN  queued + kept + sent <= 1

(* A device that wakes gets what was saved for it before its PINGRESP: no  *)
(* PUBLISH that was taken from the saved ones finds the client asleep and  *)
(* is saved again.                                                         *)
SavedOnce == \A c \in Clients : \A p \in ToSet(saved[c]) : ~p.again

(* The broker sends what the aggregater's clients have subscribed to.      *)
SubscriptionKept ==
    \/ crashed \/ brokerQ # <<>>
    \/ \A i \in 1..Len(table) : table[i].topic \in srv.subs

(* No packet of a device ends the gateway.                                 *)
GatewaySurvives == ~crashed
=============================================================================
