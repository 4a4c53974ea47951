------------------------------- MODULE PubSub -------------------------------
(***************************************************************************)
(* Messages of one client of the transparent gateway in both directions:   *)
(* PUBLISH and its acknowledgements, REGISTER, SUBSCRIBE and UNSUBSCRIBE   *)
(* (MQTTSNPublishHandler, MQTTGWPublishHandler, MQTTSNSubscribeHandler,    *)
(* MQTTGWSubscribeHandler).  How a client comes to be active or asleep is  *)
(* the subject of ClientSession; here its status changes between packets.  *)
(***************************************************************************)
EXTENDS TopicTables, FiniteSets

CONSTANTS ShortIds,       \* the names of two characters, as the number of a packet
          HostIds,        \* the same two bytes, as a number of the gateway's host
          Filters,        \* the topic names with a wild card
          Predefined,     \* the gateway's predefined topics: a name for an id
          Registrable,    \* the names the device registers
          Publications,   \* what the broker may publish: [topic, qos, n]
          DeviceQos,      \* the QoS of the device's publications
          MaxMsgId,       \* message ids are 1..MaxMsgId (16 bits in the code)
          MaxRequests,    \* bound: requests of the device
          MaxFaults,      \* bound: packets lost on the way to or from it
          MaxRests,       \* bound: sleeps and new sessions
          MaxSaved,       \* MAX_SAVED_PUBLISH, 20
          CleanFrom       \* the states in which the device begins a clean session

PubSubAssumption ==
    /\ DOMAIN ShortIds \subseteq TopicNames
    /\ DOMAIN HostIds = DOMAIN ShortIds
    /\ MaxSaved \in Nat /\ CleanFrom \subseteq {"active", "asleep", "awake"}
    /\ Filters \subseteq TopicNames /\ Registrable \subseteq TopicNames
    /\ MaxMsgId \in Nat \ {0}
    /\ MaxRequests \in Nat /\ MaxFaults \in Nat /\ MaxRests \in Nat

MsgIds == 1..MaxMsgId
Short == DOMAIN ShortIds
Long == TopicNames \ Short

\* An MQTTSN_topicid: its type and, according to it, a name or an id.
TopicRef(type, name, id) == [type |-> type, name |-> name, id |-> id]

VARIABLES status,   \* _status: "active", "asleep", "awake" or "connecting"
          topics,   \* _topics
          pubMap,   \* _waitedPubTopicIdMap
          subMap,   \* _waitedSubTopicIdMap
          saved,    \* _clientSleepPacketQue
          packetQ,  \* the packet event queue, from both sides
          brokerQ,  \* the broker's send queue and connection
          clientQ,  \* the client's send queue and network
          dev,      \* the device
          srv,      \* the broker
          left      \* what is left of the bounds

client == <<status, topics, pubMap, subMap, saved>>
queues == <<packetQ, brokerQ, clientQ>>
vars == <<client, queues, dev, srv, left>>

Init ==
    /\ status = "active"
    /\ topics = NoTopics
    /\ pubMap = NoElements /\ subMap = NoElements
    /\ saved = <<>>
    /\ packetQ = <<>> /\ brokerQ = <<>> /\ clientQ = <<>>
    /\ dev = [state |-> "active", ids |-> [n \in Long |-> 0],
              requests |-> {}, got |-> <<>>, receiving |-> {}]
    /\ srv = [subs |-> {}, inflight |-> [m \in MsgIds |-> <<>>],
              receiving |-> {}, delivered |-> <<>>, acked |-> {},
              topublish |-> Publications]
    /\ left = [requests |-> MaxRequests, faults |-> MaxFaults, rests |-> MaxRests]

FromDevice(p) == [from |-> "device", packet |-> p]
FromBroker(p) == [from |-> "broker", packet |-> p]

SendClient(p) == clientQ' = Append(clientQ, p)

SendBroker(p) == brokerQ' = Append(brokerQ, p)

-----------------------------------------------------------------------------
(* PacketHandleTask, a packet of the device.                               *)

Takes(from, type) ==
    /\ packetQ # <<>>
    /\ Head(packetQ).from = from
    /\ Head(packetQ).packet.type = type
    /\ packetQ' = Tail(packetQ)

Packet == Head(packetQ).packet

\* The client's topics once a predefined topic of the gateway is copied.
WithCopy(ref) ==
    IF /\ ref.type = "predef" /\ ref.id \in DOMAIN Predefined
       /\ TopicById(topics, "predef", ref.id) = 0
    THEN Added(topics, Predefined[ref.id], ref.id) ELSE topics

\* The topic of an id, 0 if the client and the gateway have none or the
\* gateway's cannot be added to the client's.
Resolved(ref) ==
    LET own == TopicById(topics, ref.type, ref.id)
    IN  IF own # 0 \/ ref.type = "normal" \/ ref.id \notin DOMAIN Predefined
        THEN own
        ELSE AddedTopic(topics, Predefined[ref.id], ref.id)

PubackTo(id, msgId, rc) ==
    [type |-> "PUBACK", id |-> id, msgId |-> msgId, rc |-> rc]

\* tid: topicid.data.id, which shares its bytes with the short name
ReadId(ref) == IF ref.type = "short" THEN HostIds[ref.name] ELSE ref.id

\* The topic that is found for a PUBLISH, 0 for none.  With QoS -1 and a name
\* the length of the name and a pointer to it were read into the bytes that
\* are compared with the ids: any topic may be found, or none.
FoundTopics(p) ==
    IF p.ref.type = "short" THEN {0}
    ELSE IF p.qos = 3 /\ p.ref.type = "normal"
    THEN {0} \cup {i \in 1..Len(topics.list) : topics.list[i].type = "normal"}
    ELSE {Resolved(p.ref)}

\* MQTTSNPublishHandler::handlePublish
DevicePublish ==
    /\ Takes("device", "PUBLISH")
    /\ \E i \in FoundTopics(Packet) :
       LET p == Packet
           name == IF p.ref.type = "short" THEN p.ref.name
                   ELSE topics'.list[i].name
       IN  /\ topics' = IF p.ref.type = "short" THEN topics ELSE WithCopy(p.ref)
           /\ \/ /\ p.ref.type # "short" /\ i = 0
                 /\ IF p.qos \in {1, 2}
                    THEN SendClient(PubackTo(p.ref.id, p.msgId, "invalid id"))
                    ELSE UNCHANGED clientQ
                 \* A PUBLISH of QoS 0 goes on without a topic.
                 /\ IF p.qos = 0
                    THEN SendBroker([type |-> "PUBLISH", topic |-> "", qos |-> 0,
                                     msgId |-> 0, n |-> p.n])
                    ELSE UNCHANGED brokerQ
                 /\ UNCHANGED pubMap
              \/ /\ p.ref.type = "short" \/ i # 0
                 /\ pubMap' = IF p.qos \in {1, 2}
                              THEN AddedElement(pubMap,
                                     [msgId |-> p.msgId, topicId |-> ReadId(p.ref),
                                      type |-> p.ref.type,
                                      wildcard |-> /\ p.ref.type = "normal"
                                                   /\ name \in Filters])
                              ELSE pubMap
                 /\ SendBroker([type |-> "PUBLISH", topic |-> name,
                                qos |-> IF p.qos = 3 THEN 0 ELSE p.qos,
                                msgId |-> p.msgId, n |-> p.n])
                 /\ UNCHANGED clientQ
    /\ UNCHANGED <<status, subMap, saved, dev, srv, left>>

\* handlePuback; handleAck for PUBREC, PUBREL and PUBCOMP
DeviceAck(type) ==
    /\ Takes("device", type)
    /\ IF status = "active" /\ (type = "PUBACK" => Packet.rc = "accepted")
       THEN SendBroker([type |-> type, msgId |-> Packet.msgId])
       ELSE UNCHANGED brokerQ
    /\ UNCHANGED <<client, clientQ, dev, srv, left>>

\* handleRegister; add() returns null from a full table, and null is used
\* as a topic: the devices here do not register more than the table takes.
DeviceRegister ==
    /\ Takes("device", "REGISTER")
    /\ IF status \in {"active", "awake"}
       THEN LET i == RegisteredTopic(topics, Packet.name)
            IN  /\ topics' = Added(topics, Packet.name, 0)
                /\ SendClient([type |-> "REGACK", msgId |-> Packet.msgId,
                               id |-> topics'.list[i].id])
       ELSE UNCHANGED <<topics, clientQ>>
    /\ UNCHANGED <<status, pubMap, subMap, saved, brokerQ, dev, srv, left>>
-----------------------------------------------------------------------------
(* SUBSCRIBE and UNSUBSCRIBE.                                              *)

\* The topics and the topic (0 for none) of a SUBSCRIBE's filter.
SubscribeTopics(ref) ==
    CASE ref.type = "predef" -> WithCopy(ref)
      [] ref.type = "normal" -> Added(topics, ref.name, 0)
      [] ref.type = "short" -> topics

SubscribeTopic(ref) ==
    CASE ref.type = "predef" -> Resolved(ref)
      [] ref.type = "normal" -> RegisteredTopic(topics, ref.name)
      [] ref.type = "short" -> 0

\* handleSubscribe
DeviceSubscribe ==
    /\ Takes("device", "SUBSCRIBE")
    /\ topics' = SubscribeTopics(Packet.ref)
    /\ LET p == Packet
           i == SubscribeTopic(p.ref)
       IN  \/ /\ p.ref.type # "short" /\ i = 0
              /\ SendClient([type |-> "SUBACK", msgId |-> p.msgId, id |-> p.ref.id,
                             rc |-> "invalid id"])
              /\ UNCHANGED <<subMap, brokerQ>>
           \/ /\ p.ref.type = "short" \/ i # 0
              /\ LET name == IF p.ref.type = "short" THEN p.ref.name
                             ELSE topics'.list[i].name
                     id == IF p.ref.type = "short" THEN p.ref.id
                           ELSE topics'.list[i].id
                 IN  /\ subMap' = AddedElement(subMap,
                            [msgId |-> p.msgId, topicId |-> id, type |-> p.ref.type,
                             wildcard |-> p.ref.type = "normal" /\ name \in Filters])
                     /\ SendBroker([type |-> "SUBSCRIBE", topic |-> name,
                                    msgId |-> p.msgId])
              /\ UNCHANGED clientQ
    /\ UNCHANGED <<status, pubMap, saved, dev, srv, left>>

\* handleUnsubscribe; only the client's own topics are looked at
DeviceUnsubscribe ==
    /\ Takes("device", "UNSUBSCRIBE")
    /\ LET p == Packet
           i == CASE p.ref.type = "predef" -> TopicById(topics, "predef", p.ref.id)
                  [] p.ref.type = "normal" -> TopicByName(topics, p.ref.name)
                  [] p.ref.type = "short" -> 0
       IN  IF p.ref.type # "short" /\ i = 0
           THEN /\ SendClient([type |-> "UNSUBACK", msgId |-> p.msgId])
                /\ UNCHANGED brokerQ
           ELSE /\ SendBroker([type |-> "UNSUBSCRIBE", msgId |-> p.msgId,
                               topic |-> IF p.ref.type = "short" THEN p.ref.name
                                         ELSE topics.list[i].name])
                /\ UNCHANGED clientQ
    /\ UNCHANGED <<client, dev, srv, left>>
-----------------------------------------------------------------------------
(* PacketHandleTask, a packet of the broker.                               *)

Reply(p) ==     \* replyACK, to a PUBLISH that does not reach the device now
    IF p.qos = 0 THEN UNCHANGED brokerQ
    ELSE SendBroker([type |-> IF p.qos = 1 THEN "PUBACK" ELSE "PUBREC",
                     msgId |-> p.msgId])

\* MQTTGWPublishHandler::handlePublish.  The topics of this broker are those
\* the client subscribed to; for topics of a filter see ClientSession.
BrokerPublish ==
    /\ Takes("broker", "PUBLISH")
    /\ LET p == Packet
           i == TopicByName(topics, p.topic)
       IN  \/ /\ status = "connecting"
              /\ UNCHANGED <<saved, brokerQ, clientQ>>
           \/ /\ status = "asleep"
              /\ Reply(p)
              \* setClientSleepPacket: what a full store refuses is gone
              /\ saved' = IF Len(saved) < MaxSaved THEN Append(saved, p) ELSE saved
              /\ UNCHANGED clientQ
           \/ /\ status \in {"active", "awake"}
              /\ IF p.topic \in Short \/ i # 0
                 THEN /\ SendClient([type |-> "PUBLISH", qos |-> p.qos,
                            msgId |-> p.msgId, n |-> p.n, topic |-> p.topic,
                            ref |-> IF p.topic \in Short
                                    THEN TopicRef("short", p.topic, ShortIds[p.topic])
                                    ELSE TopicRef(topics.list[i].type, "",
                                                  topics.list[i].id)])
                      /\ UNCHANGED brokerQ
                 ELSE Reply(p) /\ UNCHANGED clientQ
              /\ UNCHANGED saved
    /\ UNCHANGED <<status, topics, pubMap, subMap, dev, srv, left>>

\* MQTTGWPublishHandler::handlePuback
BrokerPuback ==
    /\ Takes("broker", "PUBACK")
    /\ LET i == ElementOf(pubMap, Packet.msgId)
       IN  IF i = 0 THEN UNCHANGED <<pubMap, clientQ>>
           ELSE /\ SendClient(PubackTo(AnswerId(pubMap, i), Packet.msgId, "accepted"))
                /\ pubMap' = Erased(pubMap, Packet.msgId)
    /\ UNCHANGED <<status, topics, subMap, saved, brokerQ, dev, srv, left>>

\* MQTTGWPublishHandler::handleAck
BrokerAck(type) ==
    /\ Takes("broker", type)
    /\ \/ /\ status \in {"active", "awake"}
          /\ SendClient([type |-> type, msgId |-> Packet.msgId])
          /\ UNCHANGED brokerQ
       \/ /\ status = "asleep" /\ type = "PUBREL"
          /\ SendBroker([type |-> "PUBCOMP", msgId |-> Packet.msgId])
          /\ UNCHANGED clientQ
       \/ /\ \/ status = "connecting"
             \/ status = "asleep" /\ type # "PUBREL"
          /\ UNCHANGED <<brokerQ, clientQ>>
    /\ UNCHANGED <<client, dev, srv, left>>

\* handleSuback
BrokerSuback ==
    /\ Takes("broker", "SUBACK")
    /\ LET i == ElementOf(subMap, Packet.msgId)
       IN  IF i = 0 THEN UNCHANGED <<subMap, clientQ>>
           ELSE /\ SendClient([type |-> "SUBACK", msgId |-> Packet.msgId,
                               id |-> AnswerId(subMap, i), rc |-> "accepted"])
                /\ subMap' = Erased(subMap, Packet.msgId)
    /\ UNCHANGED <<status, topics, pubMap, saved, brokerQ, dev, srv, left>>

\* handleUnsuback: passed on without a check
BrokerUnsuback ==
    /\ Takes("broker", "UNSUBACK")
    /\ SendClient([type |-> "UNSUBACK", msgId |-> Packet.msgId])
    /\ UNCHANGED <<client, brokerQ, dev, srv, left>>
-----------------------------------------------------------------------------
(* The session around the messages, which ClientSession models in detail.  *)

\* Variant: the saved packets are removed before they are posted.
StoredDropped == Tail(packetQ)

\* sendStoredPublish: the saved packets are handled again.
StoredSent == Tail(packetQ) \o [i \in 1..Len(saved) |-> FromBroker(saved[i])]

\* handleConnect.  A sleeping client is answered at once; its topics and its
\* ids stay, and the broker is not asked.
Connect ==
    /\ packetQ # <<>> /\ Head(packetQ).from = "device" /\ Packet.type = "CONNECT"
    /\ IF status \in {"asleep", "awake"}
       THEN /\ status' = "active"
            /\ packetQ' = StoredSent
            /\ saved' = <<>>
            /\ SendClient([type |-> "CONNACK"])
            /\ UNCHANGED <<topics, pubMap, subMap, brokerQ>>
       ELSE /\ status' = "connecting"
            /\ packetQ' = Tail(packetQ)
            /\ IF Packet.clean
               THEN topics' = WithoutNormal(topics) /\ pubMap' = NoElements /\ subMap' = NoElements
               ELSE UNCHANGED <<topics, pubMap, subMap>>
            /\ SendBroker([type |-> "CONNECT", clean |-> Packet.clean])
            /\ UNCHANGED <<saved, clientQ>>
    /\ UNCHANGED <<dev, srv, left>>

\* handleConnack
Connack ==
    /\ Takes("broker", "CONNACK")
    /\ status' = "active"
    /\ SendClient([type |-> "CONNACK"])
    /\ UNCHANGED <<topics, pubMap, subMap, saved, brokerQ, dev, srv, left>>

\* handleDisconnect with a duration
Sleep ==
    /\ Takes("device", "DISCONNECT")
    /\ status' = IF status = "active" THEN "asleep" ELSE "connecting"
    /\ SendClient([type |-> "DISCONNECT"])
    /\ UNCHANGED <<topics, pubMap, subMap, saved, brokerQ, dev, srv, left>>

\* handlePingreq: held while saved packets are sent
Pingreq ==
    /\ packetQ # <<>> /\ Head(packetQ) = FromDevice([type |-> "PINGREQ"])
    /\ status' = IF status = "asleep" THEN "awake" ELSE status
    /\ IF status \in {"asleep", "awake"} /\ saved # <<>>
       THEN packetQ' = StoredSent /\ saved' = <<>> /\ UNCHANGED brokerQ
       ELSE /\ SendBroker([type |-> "PINGREQ"])
            /\ packetQ' = Tail(packetQ) /\ UNCHANGED saved
    /\ UNCHANGED <<topics, pubMap, subMap, clientQ, dev, srv, left>>

\* handlePingresp
Pingresp ==
    /\ Takes("broker", "PINGRESP")
    /\ status' = IF status = "awake" THEN "asleep" ELSE status
    /\ SendClient([type |-> "PINGRESP"])
    /\ UNCHANGED <<topics, pubMap, subMap, saved, brokerQ, dev, srv, left>>

PacketHandle ==
    \/ DevicePublish \/ DeviceRegister \/ DeviceSubscribe \/ DeviceUnsubscribe
    \/ \E type \in {"PUBACK", "PUBREC", "PUBREL", "PUBCOMP"} : DeviceAck(type)
    \/ BrokerPublish \/ BrokerPuback \/ BrokerSuback \/ BrokerUnsuback
    \/ \E type \in {"PUBREC", "PUBREL", "PUBCOMP"} : BrokerAck(type)
    \/ Connect \/ Connack \/ Sleep \/ Pingreq \/ Pingresp
-----------------------------------------------------------------------------
(* The broker: an MQTT server with one session of this client.             *)

Answers(packets) == packetQ' = packetQ \o [i \in 1..Len(packets) |-> FromBroker(packets[i])]

Ack(type, p) == <<[type |-> type, msgId |-> p.msgId]>>

\* A PUBLISH of QoS 2 is delivered once until its PUBREL.
ServerPublish(p) ==
    /\ srv' = [srv EXCEPT
                 !.delivered = IF p.qos = 2 /\ p.msgId \in srv.receiving THEN @
                               ELSE Append(@, p),
                 !.receiving = IF p.qos = 2 THEN @ \cup {p.msgId} ELSE @]
    /\ Answers(CASE p.qos = 0 -> <<>>
                 [] p.qos = 1 -> Ack("PUBACK", p)
                 [] p.qos = 2 -> Ack("PUBREC", p))

ServerTakes ==
    /\ brokerQ # <<>>
    /\ brokerQ' = Tail(brokerQ)
    /\ LET p == Head(brokerQ)
       IN  CASE p.type = "PUBLISH" -> ServerPublish(p)
             [] p.type = "PUBREL" ->
                  /\ srv' = [srv EXCEPT !.receiving = @ \ {p.msgId}]
                  /\ Answers(Ack("PUBCOMP", p))
             [] p.type \in {"PUBACK", "PUBREC"} ->
                  /\ srv' = [srv EXCEPT
                        !.acked = IF srv.inflight[p.msgId] = <<>> THEN @
                                  ELSE @ \cup {srv.inflight[p.msgId][1]},
                        !.inflight[p.msgId] = IF p.type = "PUBACK" THEN <<>> ELSE @]
                  /\ Answers(IF p.type = "PUBREC" THEN Ack("PUBREL", p) ELSE <<>>)
             [] p.type = "PUBCOMP" ->
                  /\ srv' = [srv EXCEPT !.inflight[p.msgId] = <<>>]
                  /\ Answers(<<>>)
             [] p.type = "SUBSCRIBE" ->
                  /\ srv' = [srv EXCEPT !.subs = @ \cup {p.topic}]
                  /\ Answers(Ack("SUBACK", p))
             [] p.type = "UNSUBSCRIBE" ->
                  /\ srv' = [srv EXCEPT !.subs = @ \ {p.topic}]
                  /\ Answers(Ack("UNSUBACK", p))
             [] p.type = "CONNECT" ->
                  /\ srv' = IF ~p.clean THEN srv
                            ELSE [srv EXCEPT !.subs = {}, !.receiving = {},
                                             !.inflight = [m \in MsgIds |-> <<>>]]
                  /\ Answers(<<[type |-> "CONNACK"]>>)
             [] p.type = "PINGREQ" ->
                  Answers(<<[type |-> "PINGRESP"]>>) /\ UNCHANGED srv
    /\ UNCHANGED <<client, clientQ, dev, left>>

ServerPublishes(pub) ==
    /\ pub \in srv.topublish /\ pub.topic \in srv.subs
    /\ \E m \in IF pub.qos = 0 THEN {0} ELSE {k \in MsgIds : srv.inflight[k] = <<>>} :
           /\ srv' = [srv EXCEPT
                        !.topublish = @ \ {pub},
                        !.inflight = [k \in MsgIds |-> IF k = m THEN <<pub>> ELSE @[k]]]
           /\ Answers(<<[type |-> "PUBLISH", topic |-> pub.topic, qos |-> pub.qos,
                         msgId |-> m, n |-> pub]>>)
    /\ UNCHANGED <<client, brokerQ, clientQ, dev, left>>
-----------------------------------------------------------------------------
(* The device: an MQTT-SN client.                                          *)

DeviceSends(p) == packetQ' = Append(packetQ, FromDevice(p))

\* What the device may ask for, with the message id m.
FixedRefs ==
    {TopicRef("short", n, ShortIds[n]) : n \in Short}
    \cup {TopicRef("predef", "", i) : i \in DOMAIN Predefined}

PublishRefs ==
    FixedRefs \cup {TopicRef("normal", "", dev.ids[n]) : n \in {k \in Long : dev.ids[k] # 0}}

SubscribeRefs == FixedRefs \cup {TopicRef("normal", n, 0) : n \in Registrable}

\* A PUBLISH of QoS -1 has the topic's name.
NamedRefs == FixedRefs \cup {TopicRef("normal", n, 0) : n \in Registrable \ Filters}

Requests(m) ==
    [type : {"PUBLISH"}, msgId : {m}, qos : DeviceQos \cap {1, 2}, n : {left.requests},
     ref : PublishRefs]
    \cup [type : {"PUBLISH"}, msgId : {0}, qos : DeviceQos \cap {0}, n : {left.requests},
          ref : PublishRefs]
    \cup [type : {"PUBLISH"}, msgId : {0}, qos : DeviceQos \cap {3}, n : {left.requests},
          ref : NamedRefs]
    \cup [type : {"REGISTER"}, msgId : {m}, name : Registrable \ Filters]
    \cup [type : {"SUBSCRIBE", "UNSUBSCRIBE"}, msgId : {m}, ref : SubscribeRefs]

NextMsgId == ((MaxRequests - left.requests) % MaxMsgId) + 1

DeviceAsks ==
    /\ dev.state = "active" /\ left.requests > 0
    /\ \A r \in dev.requests : r.msgId # NextMsgId
    /\ \E r \in Requests(NextMsgId) :
           /\ DeviceSends(r)
           /\ dev' = [dev EXCEPT !.requests = IF r.msgId = 0 THEN @ ELSE @ \cup {r}]
    /\ left' = [left EXCEPT !.requests = @ - 1]
    /\ UNCHANGED <<client, brokerQ, clientQ, srv>>

\* The retry timer: again, from PUBLISH or, after the PUBREC, from PUBREL.
DeviceRetries ==
    /\ dev.state = "active" /\ left.faults > 0
    /\ \E r \in dev.requests : DeviceSends(r)
    /\ left' = [left EXCEPT !.faults = @ - 1]
    /\ UNCHANGED <<client, brokerQ, clientQ, dev, srv>>

Lost ==
    /\ left.faults > 0
    /\ left' = [left EXCEPT !.faults = @ - 1]
    /\ \/ /\ clientQ # <<>>
          /\ Head(clientQ).type \notin {"CONNACK", "DISCONNECT", "PINGRESP"}
          /\ clientQ' = Tail(clientQ) /\ UNCHANGED packetQ
       \/ /\ packetQ # <<>> /\ packetQ[Len(packetQ)].from = "device"
          /\ packetQ[Len(packetQ)].packet.type \notin {"CONNECT", "DISCONNECT", "PINGREQ"}
          /\ packetQ' = Front(packetQ) /\ UNCHANGED clientQ
    /\ UNCHANGED <<client, brokerQ, dev, srv>>

Known(ref) == ref.type = "normal" => \E n \in Long : dev.ids[n] = ref.id

Answered(types, m) == {r \in dev.requests : r.type \in types /\ r.msgId = m}

DeviceTakes ==
    /\ clientQ # <<>>
    /\ clientQ' = Tail(clientQ)
    /\ LET p == Head(clientQ)
           Done(types) == dev' = [dev EXCEPT !.requests = @ \ Answered(types, p.msgId)]
       IN  CASE p.type = "PUBLISH" ->
                  \* One with an id it does not know is refused.
                  /\ dev' = IF ~Known(p.ref) THEN dev
                            ELSE [dev EXCEPT
                                    !.got = IF p.qos = 2 /\ p.msgId \in dev.receiving THEN @
                                            ELSE Append(@, p.n),
                                    !.receiving = IF p.qos = 2 THEN @ \cup {p.msgId} ELSE @]
                  /\ IF p.qos = 0 THEN UNCHANGED packetQ
                     ELSE DeviceSends([type |-> IF p.qos = 2 /\ Known(p.ref) THEN "PUBREC"
                                                ELSE "PUBACK",
                             msgId |-> p.msgId,
                             rc |-> IF Known(p.ref) THEN "accepted" ELSE "invalid id"])
             [] p.type = "PUBREL" ->
                  /\ dev' = [dev EXCEPT !.receiving = @ \ {p.msgId}]
                  /\ DeviceSends([type |-> "PUBCOMP", msgId |-> p.msgId])
             [] p.type = "PUBREC" ->
                  /\ dev' = [dev EXCEPT !.requests =
                        {IF r \in Answered({"PUBLISH"}, p.msgId)
                         THEN [type |-> "PUBREL", msgId |-> p.msgId] ELSE r : r \in @}]
                  /\ DeviceSends([type |-> "PUBREL", msgId |-> p.msgId])
             [] p.type \in {"PUBACK", "PUBCOMP"} ->
                  Done({"PUBLISH", "PUBREL"}) /\ UNCHANGED packetQ
             [] p.type = "REGACK" ->
                  /\ dev' = [dev EXCEPT
                        !.requests = @ \ Answered({"REGISTER"}, p.msgId),
                        !.ids = [n \in Long |->
                            IF \E r \in Answered({"REGISTER"}, p.msgId) : r.name = n
                            THEN p.id ELSE @[n]]]
                  /\ UNCHANGED packetQ
             [] p.type = "SUBACK" ->
                  /\ dev' = [dev EXCEPT
                        !.requests = @ \ Answered({"SUBSCRIBE"}, p.msgId),
                        !.ids = [n \in Long |->
                            IF p.id # 0 /\ \E r \in Answered({"SUBSCRIBE"}, p.msgId) :
                                   r.ref.type = "normal" /\ r.ref.name = n
                            THEN p.id ELSE @[n]]]
                  /\ UNCHANGED packetQ
             [] p.type = "UNSUBACK" -> Done({"UNSUBSCRIBE"}) /\ UNCHANGED packetQ
             [] p.type = "CONNACK" ->
                  dev' = [dev EXCEPT !.state = "active"] /\ UNCHANGED packetQ
             [] p.type = "DISCONNECT" ->
                  dev' = [dev EXCEPT !.state = "asleep"] /\ UNCHANGED packetQ
             [] p.type = "PINGRESP" ->
                  /\ dev' = [dev EXCEPT !.state = IF @ = "awake" THEN "asleep" ELSE @]
                  /\ UNCHANGED packetQ
    /\ UNCHANGED <<client, brokerQ, srv, left>>

DeviceRests ==
    /\ left.rests > 0
    /\ left' = [left EXCEPT !.rests = @ - 1]
    /\ \/ /\ dev.state = "active"
          /\ DeviceSends([type |-> "DISCONNECT"])
          /\ dev' = [dev EXCEPT !.state = "resting"]
       \/ /\ dev.state = "asleep"
          /\ DeviceSends([type |-> "PINGREQ"])
          /\ dev' = [dev EXCEPT !.state = "awake"]
       \/ /\ dev.state \in CleanFrom
          /\ DeviceSends([type |-> "CONNECT", clean |-> TRUE])
          /\ dev' = [dev EXCEPT !.state = "connecting", !.requests = {},
                                !.receiving = {}, !.ids = [n \in Long |-> 0]]
       \* It wakes up, and keeps what it knows of its session.
       \/ /\ dev.state \in {"asleep", "awake"}
          /\ DeviceSends([type |-> "CONNECT", clean |-> FALSE])
          /\ dev' = [dev EXCEPT !.state = "connecting"]
    /\ UNCHANGED <<client, brokerQ, clientQ, srv>>

Next == \/ PacketHandle
        \/ ServerTakes \/ \E pub \in Publications : ServerPublishes(pub)
        \/ DeviceAsks \/ DeviceRetries \/ Lost \/ DeviceTakes \/ DeviceRests

Spec == Init /\ [][Next]_vars

\* The tasks are scheduled, and so are the broker and the device's receiver.
FairSpec == Spec /\ WF_vars(PacketHandle) /\ WF_vars(ServerTakes) /\ WF_vars(DeviceTakes)
-----------------------------------------------------------------------------
Requested(type, m) == {r \in dev.requests : r.type = type /\ r.msgId = m}

(* The answers on their way carry the id of what the device asked: a       *)
(* PUBACK the id of its PUBLISH as the host reads it, a SUBACK the id by   *)
(* which the gateway will send the topic (none for a filter), a REGACK an  *)
(* id that stands for the name.  Two tasks' packets, two maps and the      *)
(* topic table are involved.                                               *)
AnswersRight ==
    \A i \in 1..Len(clientQ) :
        LET p == clientQ[i]
        IN  /\ p.type = "PUBACK" =>
                 \A r \in Requested("PUBLISH", p.msgId) : p.id = ReadId(r.ref)
            /\ p.type = "SUBACK" /\ p.rc = "accepted" =>
                 \A r \in Requested("SUBSCRIBE", p.msgId) :
                     CASE r.ref.type # "normal" -> p.id = r.ref.id
                       [] r.ref.type = "normal" /\ r.ref.name \in Filters -> p.id = 0
                       [] OTHER -> p.id = topics.list[TopicByName(topics, r.ref.name)].id
            /\ p.type = "REGACK" =>
                 \A r \in Requested("REGISTER", p.msgId) :
                     /\ TopicById(topics, "normal", p.id) # 0
                     /\ topics.list[TopicById(topics, "normal", p.id)].name = r.name

(* What the device holds as the id of a name is that id in the gateway,    *)
(* across sleeps, new sessions and repeated requests.                      *)
RegistrationHolds ==
    \A n \in Long : dev.ids[n] # 0 =>
        LET i == TopicById(topics, "normal", dev.ids[n])
        IN  i # 0 /\ topics.list[i].name = n

(* A PUBACK has the two characters of the PUBLISH's topic in their order:  *)
(* not on a host that reads them the other way round.                      *)
PubackNamesTopic ==
    \A i \in 1..Len(clientQ) :
        clientQ[i].type = "PUBACK" =>
            \A r \in Requested("PUBLISH", clientQ[i].msgId) : clientQ[i].id = r.ref.id

(* A PUBLISH of QoS -1 with the name of a topic goes to that topic or to   *)
(* none (MQTTSNGWPublishHandler.cpp:82 looks for its id).                  *)
LongNameKept ==
    [][ (DevicePublish /\ Packet.qos = 3 /\ Packet.ref.type = "normal" /\ brokerQ' # brokerQ)
            => Last(brokerQ').topic = Packet.ref.name ]_vars

(* A PUBLISH that reaches the device has an id the device knows, though it *)
(* was saved before the device slept on, woke up or began another session. *)
PublishedIdKnown ==
    /\ clientQ # <<>> /\ Head(clientQ).type = "PUBLISH"
    /\ dev.state # "connecting"
    => Known(Head(clientQ).ref)

\* The broker was told that the device has it, or will be.
Acknowledged(pub) ==
    \/ pub \in srv.acked
    \/ \E i \in 1..Len(brokerQ) : /\ brokerQ[i].type \in {"PUBACK", "PUBREC"}
                                  /\ srv.inflight[brokerQ[i].msgId] = <<pub>>

\* The device has it, or it is on its way to it or kept for it.
Kept(pub) ==
    \/ \E i \in 1..Len(dev.got) : dev.got[i] = pub
    \/ \E i \in 1..Len(saved) : saved[i].n = pub
    \/ \E i \in 1..Len(packetQ) :
           packetQ[i].from = "broker" /\ packetQ[i].packet.type = "PUBLISH"
           /\ packetQ[i].packet.n = pub
    \/ \E i \in 1..Len(clientQ) :
           clientQ[i].type = "PUBLISH" /\ clientQ[i].n = pub

(* What was acknowledged to the broker for a sleeping device, or by the    *)
(* device, is gone only where a full store refuses what was acknowledged   *)
(* just before (MQTTGWPublishHandler.cpp:74).  The device's PUBACK of a    *)
(* replayed PUBLISH is passed on once more (MQTTSNGWPublishHandler         *)
(* .cpp:161): the broker may take it for a publication sent since, when    *)
(* that one is lost or meets a clean session.                              *)
AckedKept ==
    \A pub \in Publications :
        Acknowledged(pub)' /\ ~Kept(pub)' =>
            \/ Acknowledged(pub) /\ ~Kept(pub)
            \/ BrokerPublish /\ status = "asleep" /\ Len(saved) >= MaxSaved

AckTruthful == [][AckedKept]_vars

(* A publication of QoS 2 is delivered to the broker's subscribers once,   *)
(* and to the device once, whatever is lost and repeated.                  *)
ExactlyOnce ==
    /\ \A i, j \in 1..Len(srv.delivered) :
           srv.delivered[i].qos = 2 /\ srv.delivered[i].n = srv.delivered[j].n => i = j
    /\ \A i, j \in 1..Len(dev.got) :
           dev.got[i].qos = 2 /\ dev.got[i] = dev.got[j] => i = j

(* Every PUBLISH that goes to the broker has a topic.                      *)
TopicNamed ==
    \A i \in 1..Len(brokerQ) : brokerQ[i].type = "PUBLISH" => brokerQ[i].topic # ""

(* The maps of unanswered requests keep to their limit, and their counter  *)
(* to their length.                                                        *)
MapsBounded ==
    \A map \in {pubMap, subMap} :
        /\ map.cnt = Len(map.list)
        /\ map.cnt <= 2 * MaxInflight + 1

(* The requests of the device are served: each answer fits its request, no *)
(* PUBLISH goes on without its topic, what is kept for the answers stays   *)
(* within its limit, and what is published once is delivered once.         *)
RequestsServed == AnswersRight /\ TopicNamed /\ MapsBounded /\ ExactlyOnce

(* What is kept for a PUBACK belongs to a PUBLISH that waits for one.      *)
WaitedUnanswered ==
    \A i \in 1..Len(pubMap.list) :
        \/ \E r \in dev.requests : r.msgId = pubMap.list[i].msgId
        \/ \E k \in 1..Len(clientQ) : clientQ[k].type \in {"PUBACK", "PUBREC", "PUBCOMP"}

(* Every request of the device is answered and every publication of the    *)
(* broker acknowledged, if nothing is lost and the device stays awake.     *)
AllAnswered ==
    /\ \A m \in MsgIds : (\E r \in dev.requests : r.msgId = m)
                            ~> (\A r \in dev.requests : r.msgId # m)
    /\ \A m \in MsgIds : srv.inflight[m] # <<>> ~> srv.inflight[m] = <<>>
=============================================================================
