----------------------------- MODULE MqttPacket -----------------------------
(***************************************************************************)
(* MQTTGWPacket: the MQTT packets of the gateway's connections, how they   *)
(* are built, renumbered, sent, received and read.  The rest of a packet   *)
(* is a sequence of cells <<size, value>>; a string is its length and what *)
(* it holds.                                                               *)
(***************************************************************************)
EXTENDS Integers, Sequences, SequencesExt

CONSTANTS Messages, \* records with a type and its fields
          NewIds,   \* message ids that setMsgId is called with
          MaxSize,  \* MQTTSNGW_MAX_PACKET_SIZE
          Present   \* what a string holds that nobody overwrote
VARIABLES msg, packet, wire, result, step
vars == <<msg, packet, wire, result, step>>

AckTypes == {"PUBACK", "PUBREC", "PUBREL", "PUBCOMP", "UNSUBACK"}
WithId == AckTypes \cup {"SUBSCRIBE", "UNSUBSCRIBE", "SUBACK"}
None == [type |-> "none"]

Char(v) == <<1, v % 256>>      \* writeChar
Int16(v) == <<2, v % 65536>>   \* writeInt
Garbage == -99                 \* what lies in memory
SizeOf(cells) == FoldSeq(LAMBDA c, n : c[1] + n, 0, cells)

\* The cell of a size at an offset.
At(p, offset, size) ==
    LET S == {k \in DOMAIN p.cells : /\ p.cells[k][1] = size
                                     /\ SizeOf(SubSeq(p.cells, 1, k - 1)) = offset}
    IN  IF S = {} THEN Garbage ELSE p.cells[CHOOSE k \in S : TRUE][2]

Text(n) == <<<<n, Present>>>>
UTF(n) == <<Int16(n)>> \o Text(n)
Built(type, qos, dup, retain, remaining, cells) ==
    [type |-> type, qos |-> qos, dup |-> dup, retain |-> retain, remaining |-> remaining, cells |-> cells]
Opt(flag, cells) == IF flag THEN cells ELSE <<>>

ConnectLength(m) ==
    (IF m.version = 3 THEN 12 ELSE 10) + m.clientID + 2 + (IF m.will > 0 THEN 2 * m.will + 4 ELSE 0)
    + (IF m.username > 0 THEN m.username + 2 ELSE 0) + (IF m.password > 0 THEN m.password + 2 ELSE 0)

\* A length of 0 is an absent string; the flags say which are there.
setCONNECT(m) == Built("CONNECT", 0, 0, 0, ConnectLength(m),
    UTF(IF m.version = 3 THEN 6 ELSE 4) \o <<Char(m.version), Char(m.will), Int16(60)>> \o UTF(m.clientID)
        \o Opt(m.will > 0, UTF(m.will) \o UTF(m.will)) \o Opt(m.username > 0, UTF(m.username))
        \o Opt(m.password > 0, UTF(m.password)))
setSUBSCRIBE(m) == Built("SUBSCRIBE", 1, 0, 0, m.topic + 5, <<Int16(m.msgId)>> \o UTF(m.topic) \o <<Char(m.qos)>>)
setUNSUBSCRIBE(m) == Built("UNSUBSCRIBE", 1, 0, 0, m.topic + 4, <<Int16(m.msgId)>> \o UTF(m.topic))
setPUBLISH(m) == Built("PUBLISH", m.qos, m.dup, m.retain,
    4 + m.topic + m.payload - (IF m.qos > 0 THEN 0 ELSE 2),
    UTF(m.topic) \o Opt(m.qos > 0, <<Int16(m.msgId)>>) \o Text(m.payload))
setAck(m) == Built(m.type, IF m.type = "PUBREL" THEN 1 ELSE 0, 0, 0, 2, <<Int16(m.msgId)>>)
setHeader(m) == Built(m.type, 0, 0, 0, 0, <<>>)

\* What the broker builds.
BrokerBuilds(m) ==
    CASE m.type = "CONNACK" -> Built("CONNACK", 0, 0, 0, 2, <<Char(m.present), Char(m.rc)>>)
      [] m.type = "SUBACK" -> Built("SUBACK", 0, 0, 0, 3, <<Int16(m.msgId), Char(m.rc)>>)

Set(m) ==
    CASE m.type = "CONNECT" -> setCONNECT(m)
      [] m.type = "SUBSCRIBE" -> setSUBSCRIBE(m)
      [] m.type = "UNSUBSCRIBE" -> setUNSUBSCRIBE(m)
      [] m.type = "PUBLISH" -> setPUBLISH(m)
      [] m.type \in AckTypes -> setAck(m)
      [] m.type \in {"PINGREQ", "PINGRESP", "DISCONNECT"} -> setHeader(m)
      [] OTHER -> BrokerBuilds(m)

-----------------------------------------------------------------------------
(* The wire                                                                *)

RECURSIVE MQTTPacket_encode(_)
MQTTPacket_encode(length) ==
    IF length \div 128 > 0
    THEN <<(length % 128) + 128>> \o MQTTPacket_encode(length \div 128)
    ELSE <<length>>

MAX_NO_OF_REMAINING_LENGTH_BYTES == 3
Value(digits) == FoldRight(LAMBDA d, n : (d % 128) + 128 * n, digits, 0)

getPacketData(p) == [p EXCEPT !.remaining = MQTTPacket_encode(p.remaining)]
getPacketLength(p) == 1 + Len(MQTTPacket_encode(p.remaining)) + p.remaining
recv(w) ==
    LET last == {k \in DOMAIN w.remaining : w.remaining[k] < 128}
        n == IF last = {} THEN MAX_NO_OF_REMAINING_LENGTH_BYTES + 1 ELSE CHOOSE k \in last : \A j \in last : k <= j
    IN IF n > MAX_NO_OF_REMAINING_LENGTH_BYTES THEN None
       ELSE [w EXCEPT !.remaining = Value(SubSeq(w.remaining, 1, n))]

-----------------------------------------------------------------------------
(* Reading                                                                 *)

getAck(p) == [type |-> p.type, msgId |-> At(p, 0, 2)]
getCONNACK(p) == [type |-> "CONNACK", present |-> At(p, 0, 1), rc |-> At(p, 1, 1)]
getSUBACK(p) == [type |-> "SUBACK", msgId |-> At(p, 0, 2), rc |-> At(p, 2, 1)]

getPUBLISH(p) ==
    LET topiclen == At(p, 0, 2) IN
    [type |-> "PUBLISH", qos |-> p.qos, dup |-> p.dup, retain |-> p.retain, topic |-> topiclen,
     msgId |-> IF p.qos > 0 THEN At(p, 2 + topiclen, 2) ELSE 0,
     payload |-> p.remaining - topiclen - (IF p.qos > 0 THEN 4 ELSE 2)]

\* The length of the topic is an unsigned char.
getTopic(p) == At(p, 2, 2) % 256
getMsgId(p) ==
    CASE p.type = "PUBLISH" -> getPUBLISH(p).msgId
      [] p.type \in WithId -> At(p, 0, 2)
      [] OTHER -> 0

Read(p) ==
    CASE p.type \in AckTypes -> getAck(p)
      [] p.type = "CONNACK" -> getCONNACK(p)
      [] p.type = "SUBACK" -> getSUBACK(p)
      [] p.type = "PUBLISH" -> getPUBLISH(p)
      [] OTHER -> [type |-> p.type]

\* Variant: an acknowledgement keeps its id.
setMsgIdPublishOnly(p, n) ==
    CASE p.type = "PUBLISH" -> [p EXCEPT !.cells[2][2] = Garbage, !.cells[3] = Int16(n)]
      [] p.type \in WithId \ AckTypes -> [p EXCEPT !.cells[1] = Int16(n)]
      [] OTHER -> p

\* In a PUBLISH the id is first written two bytes too early, over the end of
\* the topic; a QoS 0 PUBLISH is not renumbered.
setMsgId(p, n) ==
    CASE p.type = "PUBLISH" -> [p EXCEPT !.cells[2][2] = Garbage, !.cells[3] = Int16(n)]
      [] p.type \in WithId -> [p EXCEPT !.cells[1] = Int16(n)]
      [] OTHER -> p

-----------------------------------------------------------------------------
Init == msg \in Messages /\ packet = None /\ wire = None /\ result = None /\ step = "made"

Build ==
    /\ step = "made" /\ step' = "built" /\ packet' = Set(msg)
    /\ UNCHANGED <<msg, wire, result>>

\* The aggregating gateway gives a device's packet an id of its own.
Renumber(n) ==
    /\ step = "built" /\ step' = "renumbered" /\ getMsgId(packet) > 0
    /\ packet' = setMsgId(packet, n)
    /\ UNCHANGED <<msg, wire, result>>

\* A packet is copied to a buffer on the stack; of one that is longer nothing
\* can be said any more.
Send ==
    /\ step \in {"built", "renumbered"} /\ packet.type \notin {"CONNACK", "SUBACK"}
    /\ IF getPacketLength(packet) <= MaxSize
       THEN step' = "sent" /\ wire' = getPacketData(packet)
       ELSE step' = "overrun" /\ UNCHANGED wire
    /\ UNCHANGED <<msg, packet, result>>

\* The broker's packets may be longer.
BrokerSends ==
    /\ step = "built" /\ step' = "sent" /\ wire' = getPacketData(packet)
    /\ UNCHANGED <<msg, packet, result>>

Receive ==
    /\ step = "sent" /\ step' = "received"
    /\ result' = IF recv(wire) = None THEN None ELSE Read(recv(wire))
    /\ UNCHANGED <<msg, packet, wire>>

Next == Build \/ (\E n \in NewIds : Renumber(n)) \/ Send \/ BrokerSends \/ Receive
Spec == Init /\ [][Next]_vars

-----------------------------------------------------------------------------
(* Properties                                                              *)

Readable == AckTypes \cup {"CONNACK", "SUBACK", "PUBLISH"}
SentId == getMsgId(packet)

\* LengthsAgree: the length that a packet's buffer was allocated with is the
\* length of what is written into it (MQTTGWPacket.cpp:312).
LengthsAgree == packet # None => SizeOf(packet.cells) = packet.remaining

\* RoundTrip: what is received is what was sent, with the id it was given,
\* unless its length takes more than three digits (MQTTGWPacket.cpp:198).
RoundTrip == step = "received" /\ msg.type \in Readable =>
    IF packet.remaining < 128 * 128 * 128
    THEN result = IF "msgId" \in DOMAIN msg THEN [msg EXCEPT !.msgId = SentId] ELSE msg
    ELSE result = None

\* Renumbered: a packet that is renumbered carries the id it was given
\* (MQTTGWPacket.cpp:568).
RenumbersRight == \A n \in NewIds : Renumber(n) => getMsgId(packet') = n
Renumbered == [][RenumbersRight]_vars

\* OnlyIdWritten: a new message id changes the id and nothing else, but in a
\* PUBLISH, where it is written over the last two bytes of the topic as well
\* (MQTTGWPacket.cpp:581).
OnlyIdWritten ==
    wire # None =>
        LET built == Set(msg).cells IN
        \A k \in DOMAIN wire.cells :
            \/ wire.cells[k] = built[k]
            \/ wire.cells[k] = Int16(SentId) /\ built[k] = Int16(msg.msgId)
            \/ packet.type = "PUBLISH" /\ k = 2 /\ SentId # msg.msgId

\* TextKept: what is sent holds the strings it was built with
\* (MQTTGWPacket.h:178).
TextKept == wire # None => \A k \in DOMAIN wire.cells : wire.cells[k] = Set(msg).cells[k] \/ wire.cells[k][2] = SentId

\* FitsBuffer: what is sent fits the buffer it is copied to
\* (MQTTSNGWDefines.h:46).
FitsBuffer == step # "overrun"

\* TopicWhole: the topic of a SUBSCRIBE is read with its whole length
\* (MQTTGWPacket.cpp:642).
TopicWhole == packet # None /\ packet.type \in {"SUBSCRIBE", "UNSUBSCRIBE"} => getTopic(packet) = msg.topic
=============================================================================
