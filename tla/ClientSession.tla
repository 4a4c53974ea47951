--------------------------- MODULE ClientSession ---------------------------
(***************************************************************************)
(* The session of MQTT-SN clients in the transparent gateway: CONNECT with *)
(* and without will, sleeping, waking and pinging, DISCONNECT, and what    *)
(* happens meanwhile to the PUBLISHes the broker sends.                    *)
(*                                                                         *)
(* Five tasks share the Client objects without a lock and are connected by *)
(* three event queues (each a FIFO, see EventQue):                         *)
(*                                                                         *)
(*   ClientRecvTask --packetQ--> PacketHandleTask --brokerQ--> BrokerSend- *)
(*   BrokerRecvTask --packetQ-->                  --clientQ--> ClientSend- *)
(*                                                                         *)
(* A handler of PacketHandleTask is one step; the updateStatus() that      *)
(* follows it is another, and so is what BrokerSendTask does to the status *)
(* after a send.  The devices and the broker are the environment.          *)
(***************************************************************************)
EXTENDS Naturals, Sequences, FiniteSets

CONSTANTS
    Clients,
    Pubs,           \* the publications of the broker
    Topics,
    TopicOf,        \* topic and QoS of a publication
    QosOf,
    KindOf,         \* how the gateway finds a topic, see TopicKind
    MaxNormal,      \* entries for normal topics (MAX_TOPIC_PAR_CLIENT)
    MaxSaved,       \* MAX_SAVED_PUBLISH
    MaxPackets,     \* size of the packet queue: MaxInflightMsgs * MaxNumberOfClients
    MaxSnMsgId,     \* largest MQTT-SN message id of the gateway, 255
    MaxTid,         \* largest topic id of the gateway, 0xfffe
    StopAndWait,    \* TRUE: a device has one request under way and no packet
                    \* between it and the gateway is lost; FALSE: packets are
                    \* lost, devices repeat requests and restart
    RoundTrip,      \* TRUE: the answer to a packet arrives after BrokerSendTask
                    \* is done with the packet; FALSE: it may arrive before
    CleanFlags,     \* the values of the clean session flag of a CONNECT
    WillFlags,      \* the values of its will flag
    MaxConnects,    \* bound: CONNECTs of a device
    MaxRequests,    \* bound: other requests of a device
    MaxFaults,      \* bound: lost packets, broken connections and requests
                    \* out of turn
    None

(* "short": a topic name of two characters, "predef": a predefined topic,  *)
(* "wild": matched by a predefined filter, "plain": none of these.         *)
TopicKind == {"short", "predef", "wild", "plain"}

ASSUME SessionAssumption ==
    /\ TopicOf \in [Pubs -> Topics]
    /\ QosOf \in [Pubs -> 0..2]
    /\ KindOf \in [Topics -> TopicKind]
    /\ MaxNormal \in Nat /\ MaxSaved \in Nat /\ MaxPackets \in Nat \ {0}
    /\ MaxSnMsgId \in Nat \ {0} /\ MaxTid \in Nat \ {0}
    /\ StopAndWait \in BOOLEAN /\ RoundTrip \in BOOLEAN
    /\ CleanFlags \subseteq BOOLEAN /\ WillFlags \subseteq BOOLEAN
    /\ MaxConnects \in Nat /\ MaxRequests \in Nat /\ MaxFaults \in Nat

VARIABLES
    cl,         \* the Client objects of the gateway
    packetQ,    \* _packetEventQue: events for PacketHandleTask
    brokerQ,    \* _brokerSendQue: events for BrokerSendTask
    clientQ,    \* _clientSendQue: events for ClientSendTask
    upd,        \* the client event whose updateStatus() is still to come
    sent,       \* the CONNECT or DISCONNECT that BrokerSendTask has sent and
                \* whose effect on the Client is still to come
    net,        \* per client, the TCP connection to the broker
    dev,        \* the devices
    published,  \* what the broker has published to each client
    faults      \* lost packets, broken connections and requests out of turn

vars == <<cl, packetQ, brokerQ, clientQ, upd, sent, net, dev, published, faults>>

-----------------------------------------------------------------------------
(* Packets and events                                                      *)

Status == {"Disconnected", "Connecting", "Active", "Asleep", "Awake"}

NoConn == [will |-> FALSE, clean |-> FALSE, topic |-> 0, msg |-> 0, try |-> 0]

(* struct Connect; topic, msg and try hold the number of the attempt that  *)
(* the will topic, the will message and the CONNECT belong to.             *)
Conn == [will : BOOLEAN, clean : BOOLEAN, topic : Nat, msg : Nat, try : Nat]

(* From the device. *)
DevicePacket ==
    [type : {"CONNECT"}, clean : BOOLEAN, will : BOOLEAN, try : Nat]
    \cup [type : {"WILLTOPIC", "WILLMSG"}, try : Nat]
    \cup [type : {"DISCONNECT"}, sleep : BOOLEAN]
    \cup [type : {"PINGREQ"}]
    \cup [type : {"REGACK"}, msgId : Nat]

(* To the device. *)
SnPacket ==
    [type : {"CONNACK"}, accepted : BOOLEAN]
    \cup [type : {"WILLTOPICREQ", "WILLMSGREQ", "DISCONNECT", "PINGRESP"}]
    \cup [type : {"REGISTER"}, msgId : Nat, tid : Nat]
    \cup [type : {"PUBLISH"}, pub : Pubs, tid : Nat]

(* To the broker. *)
GwPacket ==
    [type : {"CONNECT"}, conn : Conn]
    \cup [type : {"DISCONNECT", "PINGREQ"}]
    \cup [type : {"PUBACK", "PUBREC"}, pub : Pubs]

(* From the broker; DISCONNECT is what BrokerSendTask posts after a send   *)
(* that failed.                                                            *)
BrokerPacket ==
    [type : {"CONNACK"}, accepted : BOOLEAN]
    \cup [type : {"PINGRESP", "DISCONNECT"}]
    \cup [type : {"PUBLISH"}, pub : Pubs]

Event(P) == [client : Clients, pkt : P]

(* EtClientRecv and EtBrokerRecv events share a queue. *)
DeviceEvent == [client : Clients, src : {"client"}, pkt : DevicePacket]
BrokerEvent == [client : Clients, src : {"broker"}, pkt : BrokerPacket]
PacketEvent == DeviceEvent \cup BrokerEvent

(* None stands for the absence of an event. *)
ASSUME NoneAssumption == None \notin DeviceEvent /\ None \notin Event(GwPacket)

To(c, p) == [client |-> c, pkt |-> p]
ClientRecv(c, p) == [client |-> c, src |-> "client", pkt |-> p]
BrokerRecv(c, p) == [client |-> c, src |-> "broker", pkt |-> p]

(* EventQue::post on the packet queue, the only queue with a maximal size: *)
(* the events for which there is no room are deleted.                      *)
Posted(q, events) ==
    IF Len(q \o events) <= MaxPackets THEN q \o events ELSE SubSeq(q \o events, 1, MaxPackets)

-----------------------------------------------------------------------------
(* Class Client                                                            *)

(* A PUBLISH that waits for the REGACK of its topic. *)
Held == [msgId : 1..MaxSnMsgId, pub : Pubs, tid : Nat \ {0}]

Client == [status : Status, waitWill : BOOLEAN, conn : Conn, clean : BOOLEAN,
           holdPing : BOOLEAN, sleepQ : Seq(Pubs), held : Seq(Held),
           snMsgId : 0..MaxSnMsgId, tid : [Topics -> Nat],
           nextTid : 0..MaxTid]

NoTopics == [t \in Topics |-> 0]

(* A client of the list before its first CONNECT. *)
NewClient == [status |-> "Disconnected", waitWill |-> FALSE, conn |-> NoConn,
              clean |-> FALSE, holdPing |-> FALSE, sleepQ |-> <<>>, held |-> <<>>,
              snMsgId |-> 0, tid |-> NoTopics, nextTid |-> 0]

Sleeping(c) == cl[c].status \in {"Asleep", "Awake"}

(* Client::disconnected *)
Disconnected(r) == [r EXCEPT !.status = "Disconnected", !.waitWill = FALSE]

HasRoomOneMore(q) == Len(q) <= MaxSaved     \* variant: off by one

(* PacketQue::post for the saved packets. *)
HasRoom(q) == Len(q) < MaxSaved

(* Client::getNextSnMsgId, which skips 0 when the counter wraps. *)
NextSnMsgId(c) == IF cl[c].snMsgId = MaxSnMsgId THEN 1 ELSE cl[c].snMsgId + 1

(* Topics::getNextTopicId, which skips 0xffff and 0. *)
NextTid(c) == IF cl[c].nextTid = MaxTid THEN 1 ELSE cl[c].nextTid + 1

NormalTopics(c) == { t \in Topics : cl[c].tid[t] # 0 }

(* The first of WaitREGACKPacketList with this id: getPacket and erase.    *)
FirstHeld(c, id) ==
    { i \in DOMAIN cl[c].held :
        /\ cl[c].held[i].msgId = id
        /\ \A j \in 1..(i - 1) : cl[c].held[j].msgId # id }

WithoutIndexNoErase(s, i) == s  \* variant: erase() is forgotten

WithoutIndex(s, i) == SubSeq(s, 1, i - 1) \o SubSeq(s, i + 1, Len(s))

(* Client::updateStatus *)
UpdatedStatus(r, p) ==
    IF r.status = "Active"
       THEN IF p.type # "DISCONNECT" THEN r
            ELSE IF p.sleep THEN [r EXCEPT !.status = "Asleep"]
            ELSE Disconnected(r)
       ELSE IF r.status \in {"Awake", "Asleep"}
       THEN CASE p.type = "CONNECT"    -> [r EXCEPT !.status = "Active"]
              [] p.type = "DISCONNECT" -> Disconnected(r)
              [] p.type = "PINGREQ"    -> [r EXCEPT !.status = "Awake"]
              [] p.type = "PINGRESP"   -> [r EXCEPT !.status = "Asleep"]
              [] OTHER                 -> r
       ELSE r

(* The Network object of a Client and what the broker does at its end.    *)
Link == [sock : {"open", "closed"}, peer : {"none", "new", "session", "gone"},
         down : Seq(BrokerPacket)]

NoLink == [sock |-> "closed", peer |-> "none", down |-> <<>>]

-----------------------------------------------------------------------------
(* ClientRecvTask                                                          *)

(* A packet of a device of the client list; a disconnected client is told  *)
(* so unless it sends CONNECT.                                             *)
RecvFromDevice(c, p) ==
    IF cl[c].status = "Disconnected" /\ p.type # "CONNECT"
       THEN /\ clientQ' = Append(clientQ, To(c, [type |-> "DISCONNECT"]))
            /\ UNCHANGED packetQ
       ELSE /\ packetQ' = Posted(packetQ, <<ClientRecv(c, p)>>)
            /\ UNCHANGED clientQ

-----------------------------------------------------------------------------
(* PacketHandleTask: packets of the devices                                *)

(* The next event is a packet of this type from a device. *)
FromDevice(type) ==
    /\ upd = None
    /\ packetQ # <<>>
    /\ Head(packetQ).src = "client"
    /\ Head(packetQ).pkt.type = type
    /\ upd' = Head(packetQ)
    /\ UNCHANGED <<sent, net, dev, published, faults>>

(* Variant: "if" in place of "while". *)
StoredEventsFirst(c) ==
    IF cl[c].sleepQ = <<>> THEN <<>>
    ELSE <<BrokerRecv(c, [type |-> "PUBLISH", pub |-> Head(cl[c].sleepQ)])>>

(* MQTTSNConnectionHandler::sendStoredPublish: the saved PUBLISHes become  *)
(* events at the end of the packet queue.                                  *)
StoredEvents(c) ==
    [i \in DOMAIN cl[c].sleepQ |-> BrokerRecv(c, [type |-> "PUBLISH", pub |-> cl[c].sleepQ[i]])]

(* MQTTSNConnectionHandler::handleConnect *)
HandleConnect ==
    /\ FromDevice("CONNECT")
    /\ LET c == Head(packetQ).client
           p == Head(packetQ).pkt
           conn == [NoConn EXCEPT !.will = p.will, !.clean = p.clean, !.try = p.try]
       IN  \/ /\ Sleeping(c)
              /\ clientQ' = Append(clientQ, To(c, [type |-> "CONNACK", accepted |-> TRUE]))
              /\ packetQ' = Posted(Tail(packetQ), StoredEvents(c))
              /\ cl' = [cl EXCEPT ![c].sleepQ = <<>>]
              /\ UNCHANGED brokerQ
           \/ /\ ~Sleeping(c)
              /\ cl' = [cl EXCEPT ![c] =
                    [Disconnected(cl[c]) EXCEPT !.conn = conn, !.clean = p.clean,
                                                !.tid = IF p.clean THEN NoTopics ELSE cl[c].tid]]
              /\ packetQ' = Tail(packetQ)
              /\ IF p.will
                    THEN /\ clientQ' = Append(clientQ, To(c, [type |-> "WILLTOPICREQ"]))
                         /\ UNCHANGED brokerQ
                    ELSE /\ brokerQ' = Append(brokerQ, To(c, [type |-> "CONNECT", conn |-> conn]))
                         /\ UNCHANGED clientQ

(* MQTTSNConnectionHandler::handleWilltopic *)
HandleWilltopic ==
    /\ FromDevice("WILLTOPIC")
    /\ LET c == Head(packetQ).client
       IN  /\ cl' = [cl EXCEPT ![c].waitWill = TRUE,
                               ![c].conn.topic = Head(packetQ).pkt.try]
           /\ clientQ' = Append(clientQ, To(c, [type |-> "WILLMSGREQ"]))
    /\ packetQ' = Tail(packetQ)
    /\ UNCHANGED brokerQ

(* Variant: the CONNECT is made before the will message is stored.         *)
HandleWillmsgSwapped ==
    /\ FromDevice("WILLMSG")
    /\ LET c == Head(packetQ).client
       IN  /\ cl' = [cl EXCEPT ![c].conn.msg = Head(packetQ).pkt.try, ![c].waitWill = FALSE]
           /\ brokerQ' = IF cl[c].waitWill
                         THEN Append(brokerQ, To(c, [type |-> "CONNECT", conn |-> cl[c].conn]))
                         ELSE brokerQ
    /\ packetQ' = Tail(packetQ)
    /\ UNCHANGED clientQ

(* MQTTSNConnectionHandler::handleWillmsg (no status of a transparent      *)
(* client makes isConnectSendable false).                                  *)
HandleWillmsg ==
    /\ FromDevice("WILLMSG")
    /\ LET c == Head(packetQ).client
           conn == [cl[c].conn EXCEPT !.msg = Head(packetQ).pkt.try]
       IN  IF cl[c].waitWill
              THEN /\ cl' = [cl EXCEPT ![c].conn = conn, ![c].waitWill = FALSE]
                   /\ brokerQ' = Append(brokerQ, To(c, [type |-> "CONNECT", conn |-> conn]))
              ELSE UNCHANGED <<cl, brokerQ>>
    /\ packetQ' = Tail(packetQ)
    /\ UNCHANGED clientQ

(* MQTTSNConnectionHandler::handleDisconnect: the broker hears only of a   *)
(* DISCONNECT without duration, the device is answered in any case.        *)
HandleDisconnect ==
    /\ FromDevice("DISCONNECT")
    /\ LET c == Head(packetQ).client
       IN  /\ clientQ' = Append(clientQ, To(c, [type |-> "DISCONNECT"]))
           /\ brokerQ' = IF Head(packetQ).pkt.sleep THEN brokerQ
                         ELSE Append(brokerQ, To(c, [type |-> "DISCONNECT"]))
    /\ packetQ' = Tail(packetQ)
    /\ UNCHANGED cl

(* MQTTSNConnectionHandler::handlePingreq: a sleeping client first gets    *)
(* what was saved for it and its PINGREQ is held back.                     *)
HandlePingreq ==
    /\ FromDevice("PINGREQ")
    /\ LET c == Head(packetQ).client
       IN  \/ /\ Sleeping(c) /\ cl[c].sleepQ # <<>>
              /\ packetQ' = Posted(Tail(packetQ), StoredEvents(c))
              /\ cl' = [cl EXCEPT ![c].sleepQ = <<>>, ![c].holdPing = TRUE]
              /\ UNCHANGED brokerQ
           \/ /\ ~(Sleeping(c) /\ cl[c].sleepQ # <<>>)
              /\ packetQ' = Tail(packetQ)
              /\ cl' = [cl EXCEPT ![c].holdPing = FALSE]
              /\ brokerQ' = Append(brokerQ, To(c, [type |-> "PINGREQ"]))
    /\ UNCHANGED clientQ

(* MQTTSNPublishHandler::handleRegAck: the PUBLISH that waited is sent,    *)
(* and after the last one the PINGREQ that was held back.                  *)
HandleRegAck ==
    /\ FromDevice("REGACK")
    /\ packetQ' = Tail(packetQ)
    /\ LET c == Head(packetQ).client
           found == FirstHeld(c, Head(packetQ).pkt.msgId)
           left == IF found = {} THEN cl[c].held
                   ELSE WithoutIndex(cl[c].held, CHOOSE i \in found : TRUE)
           ping == cl[c].holdPing /\ left = <<>>
       IN  IF cl[c].status \in {"Active", "Awake"}
              THEN /\ clientQ' = IF found = {} THEN clientQ
                                 ELSE LET h == cl[c].held[CHOOSE i \in found : TRUE]
                                      IN  Append(clientQ, To(c, [type |-> "PUBLISH", pub |-> h.pub,
                                                                 tid |-> h.tid]))
                   /\ cl' = [cl EXCEPT ![c].held = left, ![c].holdPing = @ /\ ~ping]
                   /\ brokerQ' = IF ping THEN Append(brokerQ, To(c, [type |-> "PINGREQ"]))
                                 ELSE brokerQ
              ELSE UNCHANGED <<cl, clientQ, brokerQ>>

(* The last statement of PacketHandleTask::run for a device's packet.      *)
UpdateStatus ==
    /\ upd # None
    /\ cl' = [cl EXCEPT ![upd.client] = UpdatedStatus(@, upd.pkt)]
    /\ upd' = None
    /\ UNCHANGED <<packetQ, brokerQ, clientQ, sent, net, dev, published, faults>>

-----------------------------------------------------------------------------
(* PacketHandleTask: packets of the broker                                 *)

FromBroker(type) ==
    /\ upd = None
    /\ packetQ # <<>>
    /\ Head(packetQ).src = "broker"
    /\ Head(packetQ).pkt.type = type
    /\ UNCHANGED <<upd, sent, dev, published, faults>>

(* Variant: without connackSended().                                       *)
HandleConnackNoStatus ==
    /\ FromBroker("CONNACK")
    /\ clientQ' = Append(clientQ, To(Head(packetQ).client, Head(packetQ).pkt))
    /\ packetQ' = Tail(packetQ)
    /\ UNCHANGED <<cl, brokerQ, net>>

(* MQTTGWConnectionHandler::handleConnack *)
HandleConnack ==
    /\ FromBroker("CONNACK")
    /\ LET c == Head(packetQ).client
           ok == Head(packetQ).pkt.accepted
       IN  /\ clientQ' = Append(clientQ, To(c, [type |-> "CONNACK", accepted |-> ok]))
           /\ cl' = [cl EXCEPT ![c] = IF ok THEN [@ EXCEPT !.status = "Active"]
                                      ELSE Disconnected(@)]
           /\ packetQ' = Tail(packetQ)
    /\ UNCHANGED <<brokerQ, net>>

(* Variant: without updateStatus().                                        *)
HandlePingrespNoStatus ==
    /\ FromBroker("PINGRESP")
    /\ clientQ' = Append(clientQ, To(Head(packetQ).client, [type |-> "PINGRESP"]))
    /\ packetQ' = Tail(packetQ)
    /\ UNCHANGED <<cl, brokerQ, net>>

(* MQTTGWConnectionHandler::handlePingresp *)
HandlePingresp ==
    /\ FromBroker("PINGRESP")
    /\ LET c == Head(packetQ).client
       IN  /\ clientQ' = Append(clientQ, To(c, [type |-> "PINGRESP"]))
           /\ cl' = [cl EXCEPT ![c] = UpdatedStatus(@, [type |-> "PINGRESP"])]
           /\ packetQ' = Tail(packetQ)
    /\ UNCHANGED <<brokerQ, net>>

(* transparentPacketHandler: only the status changes, nobody is told       *)
(* (MQTTGWConnectionHandler::handleDisconnect is not called).              *)
HandleBrokerDisconnect ==
    /\ FromBroker("DISCONNECT")
    /\ cl' = [cl EXCEPT ![Head(packetQ).client] = Disconnected(@)]
    /\ packetQ' = Tail(packetQ)
    /\ UNCHANGED <<brokerQ, clientQ, net>>

(* MQTTGWPublishHandler::replyACK *)
ReplyAck(c, m) ==
    CASE QosOf[m] = 1 -> Append(brokerQ, To(c, [type |-> "PUBACK", pub |-> m]))
      [] QosOf[m] = 2 -> Append(brokerQ, To(c, [type |-> "PUBREC", pub |-> m]))
      [] OTHER        -> brokerQ

(* A topic whose PUBLISH needs no REGISTER: getTopicByName finds it or its *)
(* name is short.                                                          *)
Known(c, t) == KindOf[t] \in {"short", "predef"} \/ cl[c].tid[t] # 0

(* MQTTGWPublishHandler::handlePublish, the PUBLISH m for client c.        *)
PublishDropped(c) ==
    /\ cl[c].status \notin {"Active", "Asleep", "Awake"}
    /\ UNCHANGED <<cl, brokerQ, clientQ>>

(* A full queue of saved packets takes nothing; the broker has been        *)
(* answered already.                                                       *)
PublishSaved(c, m) ==
    /\ cl[c].status = "Asleep"
    /\ brokerQ' = ReplyAck(c, m)
    /\ cl' = IF HasRoom(cl[c].sleepQ)
                THEN [cl EXCEPT ![c].sleepQ = Append(@, m)]
                ELSE cl
    /\ UNCHANGED clientQ

PublishKnown(c, m) ==
    /\ cl[c].status \in {"Active", "Awake"}
    /\ Known(c, TopicOf[m])
    /\ clientQ' = Append(clientQ, To(c, [type |-> "PUBLISH", pub |-> m,
                                         tid |-> cl[c].tid[TopicOf[m]]]))
    /\ UNCHANGED <<cl, brokerQ>>

(* No topic of the client matches and its session is clean.                *)
PublishUnmatched(c, m) ==
    /\ cl[c].status \in {"Active", "Awake"}
    /\ ~Known(c, TopicOf[m])
    /\ KindOf[TopicOf[m]] # "wild" /\ cl[c].clean
    /\ brokerQ' = ReplyAck(c, m)
    /\ UNCHANGED <<cl, clientQ>>

PostRegisterForgotten(c, msgId, tid) == clientQ    \* variant: no REGISTER

PostRegister(c, msgId, tid) ==
    Append(clientQ, To(c, [type |-> "REGISTER", msgId |-> msgId, tid |-> tid]))

(* The topic is added to the table and the PUBLISH waits for the REGACK;   *)
(* when the table is full it is discarded.                                 *)
PublishRegister(c, m) ==
    /\ cl[c].status \in {"Active", "Awake"}
    /\ ~Known(c, TopicOf[m])
    /\ KindOf[TopicOf[m]] = "wild" \/ ~cl[c].clean
    /\ IF Cardinality(NormalTopics(c)) < MaxNormal
          THEN LET tid == NextTid(c)
                   msgId == NextSnMsgId(c)
               IN  /\ clientQ' = PostRegister(c, msgId, tid)
                   /\ cl' = [cl EXCEPT ![c].held = Append(@, [msgId |-> msgId, pub |-> m,
                                                              tid |-> tid]),
                                       ![c].snMsgId = msgId,
                                       ![c].nextTid = tid,
                                       ![c].tid[TopicOf[m]] = tid]
          ELSE UNCHANGED <<cl, clientQ>>
    /\ UNCHANGED brokerQ

HandlePublish ==
    /\ FromBroker("PUBLISH")
    /\ packetQ' = Tail(packetQ)
    /\ LET c == Head(packetQ).client
           m == Head(packetQ).pkt.pub
       IN  PublishDropped(c) \/ PublishSaved(c, m) \/ PublishKnown(c, m)
           \/ PublishUnmatched(c, m) \/ PublishRegister(c, m)
    /\ UNCHANGED net

-----------------------------------------------------------------------------
(* The broker (external): what it does with a packet on a connection.  It  *)
(* refuses a client or accepts it, closes a connection that does not begin *)
(* with CONNECT, and answers PINGREQ.                                      *)

Reactions(link, p) ==
    CASE link.peer = "new" /\ p.type = "CONNECT" ->
            { [link EXCEPT !.peer = IF ok THEN "session" ELSE "gone",
                           !.down = <<[type |-> "CONNACK", accepted |-> ok]>>] : ok \in BOOLEAN }
      [] link.peer = "new" /\ p.type # "CONNECT" -> { [link EXCEPT !.peer = "gone"] }
      [] link.peer = "session" /\ p.type = "PINGREQ" ->
            { [link EXCEPT !.down = Append(@, [type |-> "PINGRESP"])] }
      [] link.peer = "session" /\ p.type = "DISCONNECT" -> { [link EXCEPT !.peer = "gone"] }
      [] OTHER -> { link }

BrokerPublish(c, m) ==
    /\ net[c].peer = "session"
    /\ m \notin published[c]
    /\ published' = [published EXCEPT ![c] = @ \cup {m}]
    /\ net' = [net EXCEPT ![c].down = Append(@, [type |-> "PUBLISH", pub |-> m])]
    /\ UNCHANGED <<cl, packetQ, brokerQ, clientQ, upd, sent, dev, faults>>

BrokerCloses(c) ==
    /\ net[c].peer = "session"
    /\ faults < MaxFaults
    /\ faults' = faults + 1
    /\ net' = [net EXCEPT ![c].peer = "gone"]
    /\ UNCHANGED <<cl, packetQ, brokerQ, clientQ, upd, sent, dev, published>>

-----------------------------------------------------------------------------
(* BrokerSendTask                                                          *)

(* The socket is used as it is unless a CONNECT wants a new one.           *)
Reuses(c, p) == net[c].sock = "open" /\ p.type # "CONNECT"

NewLink == [sock |-> "open", peer |-> "new", down |-> <<>>]

BrokerSend ==
    /\ sent = None
    /\ brokerQ # <<>>
    /\ LET c == Head(brokerQ).client
           p == Head(brokerQ).pkt
       IN  /\ \E link \in Reactions(IF Reuses(c, p) THEN net[c] ELSE NewLink, p) :
                 net' = [net EXCEPT ![c] = link]
           /\ sent' = IF p.type \in {"CONNECT", "DISCONNECT"} THEN Head(brokerQ) ELSE None
    /\ brokerQ' = Tail(brokerQ)
    /\ UNCHANGED <<cl, packetQ, clientQ, upd, dev, published, faults>>

(* Client::connectSended, or close and Client::disconnected, after send(). *)
BrokerSent ==
    /\ sent # None
    /\ LET c == sent.client
       IN  IF sent.pkt.type = "CONNECT"
              THEN /\ cl' = [cl EXCEPT ![c].status = "Connecting"]
                   /\ UNCHANGED net
              ELSE /\ cl' = [cl EXCEPT ![c] = Disconnected(@)]
                   /\ net' = [net EXCEPT ![c] = NoLink]
    /\ sent' = None
    /\ UNCHANGED <<packetQ, brokerQ, clientQ, upd, dev, published, faults>>

(* No connection to the broker: the packet is lost and nobody is told.     *)
BrokerConnectFails ==
    /\ sent = None
    /\ brokerQ # <<>>
    /\ ~Reuses(Head(brokerQ).client, Head(brokerQ).pkt)
    /\ faults < MaxFaults
    /\ faults' = faults + 1
    /\ net' = [net EXCEPT ![Head(brokerQ).client] = NoLink]
    /\ brokerQ' = Tail(brokerQ)
    /\ UNCHANGED <<cl, packetQ, clientQ, upd, sent, dev, published>>

(* send() fails on a connection that the broker has closed.                *)
BrokerSendFails ==
    /\ sent = None
    /\ brokerQ # <<>>
    /\ LET c == Head(brokerQ).client
       IN  /\ Reuses(c, Head(brokerQ).pkt)
           /\ net[c].peer = "gone"
           /\ net' = [net EXCEPT ![c] = NoLink]
           /\ packetQ' = Posted(packetQ, <<BrokerRecv(c, [type |-> "DISCONNECT"])>>)
    /\ brokerQ' = Tail(brokerQ)
    /\ UNCHANGED <<cl, clientQ, upd, sent, dev, published, faults>>

-----------------------------------------------------------------------------
(* BrokerRecvTask                                                          *)

BrokerRecvPacket(c) ==
    /\ RoundTrip => sent = None
    /\ net[c].sock = "open"
    /\ net[c].down # <<>>
    /\ packetQ' = Posted(packetQ, <<BrokerRecv(c, Head(net[c].down))>>)
    /\ net' = [net EXCEPT ![c].down = Tail(@)]
    /\ UNCHANGED <<cl, brokerQ, clientQ, upd, sent, dev, published, faults>>

(* recv() returned 0: the broker has closed the connection.                *)
BrokerRecvClosed(c) ==
    /\ net[c].sock = "open"
    /\ net[c].down = <<>>
    /\ net[c].peer = "gone"
    /\ net' = [net EXCEPT ![c] = NoLink]
    /\ cl' = [cl EXCEPT ![c] = Disconnected(@)]
    /\ UNCHANGED <<packetQ, brokerQ, clientQ, upd, sent, dev, published, faults>>

-----------------------------------------------------------------------------
(* The device (external).  st says what it is waiting for or doing, regs   *)
(* which REGISTERs it has not answered, told the topic ids it has learnt,  *)
(* got the publications it has received.                                   *)

DeviceState == {"off", "connecting", "topicReq", "msgReq", "active", "pinging",
                "sleepReq", "asleep", "awake", "discReq"}

Device == [st : DeviceState, try : Nat, will : BOOLEAN, requests : Nat,
           regs : SUBSET Nat, told : SUBSET Nat, got : SUBSET Pubs]

NewDevice == [st |-> "off", try |-> 0, will |-> FALSE, requests |-> 0, regs |-> {},
              told |-> {}, got |-> {}]

(* What a packet of the gateway does to the device d that receives it.     *)
Received(d, p) ==
    CASE p.type = "CONNACK" /\ d.st = "connecting" ->
            [d EXCEPT !.st = IF p.accepted THEN "active" ELSE "off"]
      [] p.type = "WILLTOPICREQ" /\ d.st = "connecting" /\ d.will ->
            [d EXCEPT !.st = "topicReq"]
      [] p.type = "WILLMSGREQ" /\ d.st = "connecting" /\ d.will ->
            [d EXCEPT !.st = "msgReq"]
      [] p.type = "DISCONNECT" ->
            [d EXCEPT !.st = IF @ = "sleepReq" THEN "asleep" ELSE "off"]
      [] p.type = "PINGRESP" /\ d.st = "awake" -> [d EXCEPT !.st = "asleep"]
      [] p.type = "PINGRESP" /\ d.st = "pinging" -> [d EXCEPT !.st = "active"]
      [] p.type = "REGISTER" ->
            [d EXCEPT !.told = @ \cup {p.tid}, !.regs = @ \cup {p.msgId}]
      [] p.type = "PUBLISH" -> [d EXCEPT !.got = @ \cup {p.pub}]
      [] OTHER -> d

(* ClientSendTask sends, the device receives.                              *)
ClientSend ==
    /\ clientQ # <<>>
    /\ LET c == Head(clientQ).client
       IN  dev' = [dev EXCEPT ![c] = Received(@, Head(clientQ).pkt)]
    /\ clientQ' = Tail(clientQ)
    /\ UNCHANGED <<cl, packetQ, brokerQ, upd, sent, net, published, faults>>

(* ClientSendTask sends and the packet is lost.                            *)
ClientSendLost ==
    /\ ~StopAndWait
    /\ clientQ # <<>>
    /\ faults < MaxFaults
    /\ faults' = faults + 1
    /\ clientQ' = Tail(clientQ)
    /\ UNCHANGED <<cl, packetQ, brokerQ, upd, sent, net, dev, published>>

DeviceSends(c, d, p) ==
    /\ dev' = [dev EXCEPT ![c] = d]
    /\ RecvFromDevice(c, p)
    /\ UNCHANGED <<cl, brokerQ, upd, sent, net, published>>

(* A request is in turn when the device waits for no answer.  When its     *)
(* patience is at an end it repeats the request or restarts.               *)
Asks(inTurn) ==
    \/ inTurn /\ UNCHANGED faults
    \/ ~inTurn /\ ~StopAndWait /\ faults < MaxFaults /\ faults' = faults + 1

DeviceConnect(c) ==
    /\ Asks(dev[c].st \in {"off", "asleep"})
    /\ dev[c].try < MaxConnects
    /\ \E clean \in CleanFlags, will \in WillFlags :
          DeviceSends(c, [dev[c] EXCEPT !.st = "connecting", !.try = @ + 1, !.will = will,
                                        !.regs = {}],
                      [type |-> "CONNECT", clean |-> clean, will |-> will,
                       try |-> dev[c].try + 1])

DeviceWilltopic(c) ==
    /\ dev[c].st = "topicReq"
    /\ DeviceSends(c, [dev[c] EXCEPT !.st = "connecting"],
                   [type |-> "WILLTOPIC", try |-> dev[c].try])
    /\ UNCHANGED faults

DeviceWillmsg(c) ==
    /\ dev[c].st = "msgReq"
    /\ DeviceSends(c, [dev[c] EXCEPT !.st = "connecting"],
                   [type |-> "WILLMSG", try |-> dev[c].try])
    /\ UNCHANGED faults

(* A request that a device in one of these states makes, or repeats when   *)
(* it is already in the state it leads to.                                 *)
DeviceRequests(c, from, to, p) ==
    /\ dev[c].st \in from \cup {to}
    /\ Asks(dev[c].st \in from)
    /\ dev[c].requests < MaxRequests
    /\ DeviceSends(c, [dev[c] EXCEPT !.st = to, !.requests = @ + 1], p)

DeviceSleep(c) == DeviceRequests(c, {"active"}, "sleepReq", [type |-> "DISCONNECT", sleep |-> TRUE])

DeviceDisconnect(c) ==
    DeviceRequests(c, {"active", "asleep"}, "discReq", [type |-> "DISCONNECT", sleep |-> FALSE])

DevicePing(c) == DeviceRequests(c, {"active"}, "pinging", [type |-> "PINGREQ"])

DeviceWake(c) == DeviceRequests(c, {"asleep"}, "awake", [type |-> "PINGREQ"])

DeviceRegAck(c) ==
    /\ dev[c].st \in {"active", "pinging", "awake"}
    /\ \E id \in dev[c].regs :
          DeviceSends(c, [dev[c] EXCEPT !.regs = @ \ {id}], [type |-> "REGACK", msgId |-> id])
    /\ UNCHANGED faults

-----------------------------------------------------------------------------
Init ==
    /\ cl = [c \in Clients |-> NewClient]
    /\ packetQ = <<>> /\ brokerQ = <<>> /\ clientQ = <<>>
    /\ upd = None /\ sent = None
    /\ net = [c \in Clients |-> NoLink]
    /\ dev = [c \in Clients |-> NewDevice]
    /\ published = [c \in Clients |-> {}]
    /\ faults = 0

PacketHandle ==
    \/ HandleConnect \/ HandleWilltopic \/ HandleWillmsg \/ HandleDisconnect
    \/ HandlePingreq \/ HandleRegAck \/ UpdateStatus
    \/ HandleConnack \/ HandlePingresp \/ HandleBrokerDisconnect \/ HandlePublish

BrokerSendStep == BrokerSend \/ BrokerSent \/ BrokerConnectFails \/ BrokerSendFails

BrokerRecvStep(c) == BrokerRecvPacket(c) \/ BrokerRecvClosed(c)

DeviceAnswers(c) == DeviceWilltopic(c) \/ DeviceWillmsg(c) \/ DeviceRegAck(c)

DeviceStep(c) ==
    \/ DeviceConnect(c) \/ DeviceSleep(c) \/ DeviceDisconnect(c)
    \/ DevicePing(c) \/ DeviceWake(c) \/ DeviceAnswers(c)

BrokerStep(c) == (\E m \in Pubs : BrokerPublish(c, m)) \/ BrokerCloses(c)

Next ==
    \/ PacketHandle \/ BrokerSendStep \/ ClientSend \/ ClientSendLost
    \/ \E c \in Clients : BrokerRecvStep(c) \/ DeviceStep(c) \/ BrokerStep(c)

Spec == Init /\ [][Next]_vars

(* The tasks of the gateway run, and a device answers what it is asked.    *)
FairSpec ==
    /\ Spec
    /\ WF_vars(PacketHandle) /\ WF_vars(BrokerSendStep) /\ WF_vars(ClientSend)
    /\ \A c \in Clients : WF_vars(BrokerRecvStep(c)) /\ WF_vars(DeviceAnswers(c))

-----------------------------------------------------------------------------
(* Properties                                                              *)

(* Every queue, Client object, connection and device has its type, and no  *)
(* Client saves more than MaxSaved PUBLISHes.                              *)
TypeOK ==
    /\ cl \in [Clients -> Client]
    /\ \A c \in Clients : Len(cl[c].sleepQ) <= MaxSaved
    /\ packetQ \in Seq(PacketEvent)
    /\ brokerQ \in Seq(Event(GwPacket))
    /\ clientQ \in Seq(Event(SnPacket))
    /\ upd \in DeviceEvent \cup {None}
    /\ sent \in Event(GwPacket) \cup {None}
    /\ net \in [Clients -> Link]
    /\ dev \in [Clients -> Device]
    /\ published \in [Clients -> SUBSET Pubs]
    /\ faults \in Nat

(* A device that has been told it is asleep (DISCONNECT for its sleep      *)
(* request, or PINGRESP) gets no PUBLISH and no REGISTER until it asks for *)
(* them: the status that handlePublish and handleRegAck test follows what  *)
(* the device believes through three queues and four tasks.  It does until *)
(* a packet is lost, a connection breaks or a device is out of turn: a     *)
(* device can get two DISCONNECTs, of ClientRecvTask and of the handler of *)
(* a packet that was queued, and is out of step from then on.              *)
SilentWhenAsleep ==
    faults = 0 =>
        \A i \in DOMAIN clientQ :
            clientQ[i].pkt.type \in {"PUBLISH", "REGISTER"} => dev[clientQ[i].client].st # "asleep"

(* Where publication m for client c is: on the way from the broker, in the *)
(* packet queue, saved, held back for a REGACK, on the way to the device,  *)
(* or received.                                                            *)
Places(c, m) ==
    LET isPub(p) == p.type = "PUBLISH" /\ p.pub = m
    IN  { <<"down", i>> : i \in { j \in DOMAIN net[c].down : isPub(net[c].down[j]) } }
        \cup { <<"packetQ", i>> : i \in { j \in DOMAIN packetQ :
                    /\ packetQ[j].client = c /\ packetQ[j].src = "broker"
                    /\ isPub(packetQ[j].pkt) } }
        \cup { <<"sleepQ", i>> : i \in { j \in DOMAIN cl[c].sleepQ : cl[c].sleepQ[j] = m } }
        \cup { <<"held", i>> : i \in { j \in DOMAIN cl[c].held : cl[c].held[j].pub = m } }
        \cup { <<"clientQ", i>> : i \in { j \in DOMAIN clientQ :
                    clientQ[j].client = c /\ isPub(clientQ[j].pkt) } }
        \cup (IF m \in dev[c].got THEN {<<"got", 0>>} ELSE {})

(* Saving, replaying (sendStoredPublish), holding and releasing            *)
(* (handleRegAck) a PUBLISH never make two of it: what the broker sent     *)
(* once is in one place at most, whatever is lost, repeated or restarted.  *)
AtMostOnce == \A c \in Clients, m \in Pubs : Cardinality(Places(c, m)) <= 1

(* A CONNECT with a will carries no will topic of an earlier attempt of    *)
(* the device than its own, and no will message of an earlier one than the *)
(* will topic's, although the handshake keeps them in fields of the Client *)
(* (_connectData, _waitWillMsgFlg) that a disconnection, noticed by        *)
(* another task, resets between its messages.  Of a later attempt they can *)
(* be: a CONNECT that finds the packet queue full is dropped, and the      *)
(* device answers the WILLTOPICREQ of the one before.                      *)
WillFresh ==
    \A i \in DOMAIN brokerQ :
        LET p == brokerQ[i].pkt
        IN  (p.type = "CONNECT" /\ p.conn.will)
                => p.conn.try <= p.conn.topic /\ p.conn.topic <= p.conn.msg

(* The device has learnt topic id tid or will from one of the first n      *)
(* packets on the way to the devices.                                      *)
Announced(c, tid, n) ==
    \/ tid \in dev[c].told
    \/ \E j \in 1..n : /\ clientQ[j].client = c
                      /\ clientQ[j].pkt.type = "REGISTER"
                      /\ clientQ[j].pkt.tid = tid

(* No PUBLISH with a topic id of the gateway reaches a device before the   *)
(* REGISTER that tells it the id, although the PUBLISH that waits for the  *)
(* REGACK is overtaken by later ones on the same topic.                    *)
RegisterFirst ==
    \A i \in DOMAIN clientQ :
        LET p == clientQ[i].pkt
        IN  (p.type = "PUBLISH" /\ p.tid # 0) => Announced(clientQ[i].client, p.tid, i - 1)

Waiting == {"connecting", "topicReq", "msgReq", "pinging", "sleepReq", "discReq"}

(* Every CONNECT, with or without will, every PINGREQ of an active device, *)
(* every sleep request and every DISCONNECT is answered.                   *)
RequestsAnswered ==
    \A c \in Clients : (dev[c].st \in Waiting) ~> (dev[c].st \notin Waiting)

(* What is saved for a sleeping device when its PINGREQ is on the way      *)
(* reaches it: sendStoredPublish posts the PUBLISHes to the queue of the   *)
(* task that runs it, they are handled after the status has changed and    *)
(* after whatever else is queued, and some still wait for a REGACK.        *)
WakeDelivers ==
    \A c \in Clients, m \in Pubs :
        (/\ dev[c].st = "awake"
         /\ \E i \in DOMAIN packetQ : packetQ[i] = ClientRecv(c, [type |-> "PINGREQ"])
         /\ \E i \in DOMAIN cl[c].sleepQ : cl[c].sleepQ[i] = m)
            ~> (m \in dev[c].got)

-----------------------------------------------------------------------------
(* Statements of the repository that the code does not keep                *)

(* MQTTGWConnectionHandler.cpp:76, connackSended: "update the client's     *)
(* status".  A device that was told its CONNECT is accepted and does       *)
(* nothing since is Active in the gateway.                                 *)
AcceptedIsActive ==
    \A c \in Clients : (dev[c].st = "active") ~> (dev[c].st # "active" \/ cl[c].status = "Active")

(* MQTTGWPublishHandler.cpp:47: "client is sleeping. save PUBLISH".  What  *)
(* was acknowledged to the broker for a sleeping client is kept until the  *)
(* acknowledgement is on its way.                                          *)
AckedIsSaved ==
    \A i \in DOMAIN brokerQ :
        LET p == brokerQ[i].pkt
            c == brokerQ[i].client
        IN  (p.type \in {"PUBACK", "PUBREC"} /\ cl[c].status = "Asleep") => Places(c, p.pub) # {}

(* BrokerSendTask.cpp:108: "disconnect the broker and the client".  When   *)
(* the gateway cannot reach the broker the device is told.                 *)
ConnectFailureReported ==
    \A c \in Clients : (dev[c].st = "connecting") ~> (dev[c].st # "connecting")

(* GatewayTester/src/LGwProxy.cpp:632: a device that sends PINGREQ is in   *)
(* GW_WAIT_PINGRESP until PINGRESP comes.  A device that wakes up and      *)
(* fetches its messages with PINGREQ gets PINGRESP when it has got them.   *)
WakeAnswered == \A c \in Clients : (dev[c].st = "awake") ~> (dev[c].st # "awake")

=============================================================================
