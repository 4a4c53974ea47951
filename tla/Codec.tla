------------------------------- MODULE Codec --------------------------------
(***************************************************************************)
(* Every MQTT-SN packet: how it is serialized, kept in an MQTTSNPacket,    *)
(* searched for its message id and deserialized again.  A packet is its    *)
(* length field, its type and a sequence of cells <<size, value>>; of a    *)
(* name or a payload only the length matters, which is its value.          *)
(***************************************************************************)
EXTENDS Integers, Sequences, SequencesExt

CONSTANTS Messages, \* the messages: records with a kind and its fields
          MaxSize   \* MQTTSNGW_MAX_PACKET_SIZE

-----------------------------------------------------------------------------
(* The wire                                                                *)

Char(v) == <<1, v % 256>>            \* writeChar
Int16(v) == <<2, v % 65536>>         \* writeInt
Str(n) == <<n, n>>                   \* writeMQTTSNString, memcpy
Garbage == -99                       \* what lies in memory

Flags(dup, qos, retain, will, clean, topicType) ==
    Char(dup * 128 + qos * 32 + retain * 16 + will * 8 + clean * 4 + topicType)
DupBit(b) == IF b >= 128 THEN 255 ELSE 0   \* "int dup: 1" holds 0 or -1
QoSBits(b) == (b \div 32) % 4
RetainBit(b) == (b \div 16) % 2
WillBit(b) == (b \div 8) % 2
CleanBit(b) == (b \div 4) % 2
TypeBits(b) == b % 4

MQTTSNPacket_len(length) == IF length >= 255 THEN length + 3 ELSE length + 1

\* The bytes of the length field, as encode writes and decode reads them.
MQTTSNPacket_encode(length) == IF length >= 255 THEN 3 ELSE 1

Packet(type, bodyLen, cells) ==
    LET len == MQTTSNPacket_len(bodyLen) IN
    [type |-> type, len |-> len, lenlen |-> MQTTSNPacket_encode(len), cells |-> cells]

SizeOf(cells) == FoldSeq(LAMBDA c, n : c[1] + n, 0, cells)
Written(p) == p.lenlen + 1 + SizeOf(p.cells)

\* The cell at an offset, counted from behind the type.
CellAt(p, offset, size) ==
    {k \in DOMAIN p.cells : p.cells[k][1] = size /\ SizeOf(SubSeq(p.cells, 1, k - 1)) = offset}
At(p, offset, size) ==
    LET S == CellAt(p, offset, size) IN
    IF S = {} THEN Garbage ELSE p.cells[CHOOSE k \in S : TRUE][2]
ReadChar(p, offset) == At(p, offset, 1)
ReadInt(p, offset) == At(p, offset, 2)
ReadRest(p, offset) == p.len - p.lenlen - 1 - offset   \* enddata - curdata

\* The type that the receiver of a datagram reads, if it is one packet.
ReadError == "read error"
MQTTSNPacket_read(p) == IF p.len # Written(p) THEN ReadError ELSE p.type

-----------------------------------------------------------------------------
(* The packets                                                             *)

Normal == 0
Failed == [kind |-> "none"]

\* A topic in PUBLISH is an id, or with QoS -1 a name behind the message id.
LongName(m) == m.topicType = Normal /\ m.qos = 3

MQTTSNSerialize_connect(m) == Packet("CONNECT", 5 + m.clientID,
    <<Flags(0, 0, 0, m.willFlag, m.cleansession, 0), Char(1), Int16(m.duration), Str(m.clientID)>>)
MQTTSNSerialize_connack(m) == Packet("CONNACK", 2, <<Char(m.rc)>>)
MQTTSNSerialize_disconnect(m) ==
    IF m.duration > 0 THEN Packet("DISCONNECT", 3, <<Int16(m.duration)>>) ELSE Packet("DISCONNECT", 1, <<>>)
MQTTSNSerialize_pingreq(m) == Packet("PINGREQ", m.clientID + 1, <<Str(m.clientID)>>)
MQTTSNSerialize_pingresp(m) == Packet("PINGRESP", 1, <<>>)
MQTTSNSerialize_willtopic1(m) == Packet(m.kind, m.topic + 2, <<Flags(0, m.qos, m.retain, 0, 0, 0), Str(m.topic)>>)
MQTTSNSerialize_willmsg1(m) == Packet(m.kind, m.msg + 1, <<Str(m.msg)>>)
MQTTSNSerialize_willtopicreq(m) == Packet("WILLTOPICREQ", 1, <<>>)
MQTTSNSerialize_willmsgreq(m) == Packet("WILLMSGREQ", 1, <<>>)
MQTTSNSerialize_willtopicresp(m) == Packet("WILLTOPICRESP", 2, <<Char(m.rc)>>)
MQTTSNSerialize_willmsgresp(m) == Packet("WILLMSGRESP", 2, <<Char(m.rc)>>)

MQTTSNSerialize_publish(m) == Packet("PUBLISH", 6 + m.payload + (IF LongName(m) THEN m.topic ELSE 0),
    <<Flags(m.dup, m.qos, m.retain, 0, 0, m.topicType), Int16(m.topic), Int16(m.msgId)>>
    \o (IF LongName(m) THEN <<Str(m.topic)>> ELSE <<>>) \o <<Str(m.payload)>>)
MQTTSNSerialize_puback(m) == Packet("PUBACK", 6, <<Int16(m.topicId), Int16(m.msgId), Char(m.rc)>>)
MQTTSNSerialize_ack(m) == Packet(m.kind, 3, <<Int16(m.msgId)>>)
MQTTSNSerialize_register(m) == Packet("REGISTER", m.name + 5, <<Int16(m.topicId), Int16(m.msgId), Str(m.name)>>)
MQTTSNSerialize_regack(m) == Packet("REGACK", 6, <<Int16(m.topicId), Int16(m.msgId), Char(m.rc)>>)

\* The name of a normal topic, two bytes otherwise.
TopicCell(m) == IF m.topicType = Normal THEN Str(m.topic) ELSE Int16(m.topic)

MQTTSNSerialize_subscribe(m) == Packet("SUBSCRIBE", 4 + TopicCell(m)[1],
    <<Flags(m.dup, m.qos, 0, 0, 0, m.topicType), Int16(m.msgId), TopicCell(m)>>)
MQTTSNSerialize_unsubscribe(m) == Packet("UNSUBSCRIBE", 4 + TopicCell(m)[1],
    <<Flags(0, 0, 0, 0, 0, m.topicType), Int16(m.msgId), TopicCell(m)>>)
MQTTSNSerialize_suback(m) == Packet("SUBACK", 7,
    <<Flags(0, m.qos, 0, 0, 0, 0), Int16(m.topicId), Int16(m.msgId), Char(m.rc)>>)
MQTTSNSerialize_unsuback(m) == Packet("UNSUBACK", 3, <<Int16(m.msgId)>>)
MQTTSNSerialize_advertise(m) == Packet("ADVERTISE", 4, <<Char(m.gatewayId), Int16(m.duration)>>)
MQTTSNSerialize_searchgw(m) == Packet("SEARCHGW", 2, <<Char(m.radius)>>)
MQTTSNSerialize_gwinfo(m) == Packet("GWINFO", 2 + m.address, <<Char(m.gatewayId), Str(m.address)>>)

Serialized(m) ==
    CASE m.kind = "CONNECT" -> MQTTSNSerialize_connect(m)
      [] m.kind = "CONNACK" -> MQTTSNSerialize_connack(m)
      [] m.kind = "DISCONNECT" -> MQTTSNSerialize_disconnect(m)
      [] m.kind = "PINGREQ" -> MQTTSNSerialize_pingreq(m)
      [] m.kind = "PINGRESP" -> MQTTSNSerialize_pingresp(m)
      [] m.kind \in {"WILLTOPIC", "WILLTOPICUPD"} -> MQTTSNSerialize_willtopic1(m)
      [] m.kind \in {"WILLMSG", "WILLMSGUPD"} -> MQTTSNSerialize_willmsg1(m)
      [] m.kind = "WILLTOPICREQ" -> MQTTSNSerialize_willtopicreq(m)
      [] m.kind = "WILLMSGREQ" -> MQTTSNSerialize_willmsgreq(m)
      [] m.kind = "WILLTOPICRESP" -> MQTTSNSerialize_willtopicresp(m)
      [] m.kind = "WILLMSGRESP" -> MQTTSNSerialize_willmsgresp(m)
      [] m.kind = "PUBLISH" -> MQTTSNSerialize_publish(m)
      [] m.kind = "PUBACK" -> MQTTSNSerialize_puback(m)
      [] m.kind \in {"PUBREC", "PUBREL", "PUBCOMP"} -> MQTTSNSerialize_ack(m)
      [] m.kind = "REGISTER" -> MQTTSNSerialize_register(m)
      [] m.kind = "REGACK" -> MQTTSNSerialize_regack(m)
      [] m.kind = "SUBSCRIBE" -> MQTTSNSerialize_subscribe(m)
      [] m.kind = "SUBACK" -> MQTTSNSerialize_suback(m)
      [] m.kind = "UNSUBSCRIBE" -> MQTTSNSerialize_unsubscribe(m)
      [] m.kind = "UNSUBACK" -> MQTTSNSerialize_unsuback(m)
      [] m.kind = "ADVERTISE" -> MQTTSNSerialize_advertise(m)
      [] m.kind = "SEARCHGW" -> MQTTSNSerialize_searchgw(m)
      [] m.kind = "GWINFO" -> MQTTSNSerialize_gwinfo(m)

-----------------------------------------------------------------------------
MQTTSNDeserialize_connect(p) ==
    IF p.len - p.lenlen < 2 \/ ReadChar(p, 1) # 1 THEN Failed
    ELSE LET b == ReadChar(p, 0) IN
         [kind |-> "CONNECT", cleansession |-> CleanBit(b), willFlag |-> WillBit(b),
          duration |-> ReadInt(p, 2), clientID |-> ReadRest(p, 4)]
MQTTSNDeserialize_connack(p) ==
    [kind |-> "CONNACK", rc |-> ReadChar(p, 0)]
\* Without a duration the caller's variable keeps what it held before.
MQTTSNDeserialize_disconnect(p, before) ==
    IF ReadRest(p, 0) \notin {0, 2} THEN Failed
    ELSE [kind |-> "DISCONNECT", duration |-> IF ReadRest(p, 0) = 2 THEN ReadInt(p, 0) ELSE before]
getDISCONNECT(p) == MQTTSNDeserialize_disconnect(p, 0)
MQTTSNDeserialize_pingreq(p) == [kind |-> "PINGREQ", clientID |-> ReadRest(p, 0)]
MQTTSNDeserialize_pingresp(p) == [kind |-> "PINGRESP"]
MQTTSNDeserialize_willtopicreq(p) == IF p.lenlen # 1 THEN Failed ELSE [kind |-> "WILLTOPICREQ"]
MQTTSNDeserialize_willmsgreq(p) == IF p.lenlen # 1 THEN Failed ELSE [kind |-> "WILLMSGREQ"]
MQTTSNDeserialize_willtopic1(p) ==
    [kind |-> p.type, qos |-> QoSBits(ReadChar(p, 0)), retain |-> RetainBit(ReadChar(p, 0)), topic |-> ReadRest(p, 1)]
MQTTSNDeserialize_willmsg1(p) == [kind |-> p.type, msg |-> ReadRest(p, 0)]
MQTTSNDeserialize_willtopicresp(p) ==
    IF p.len < 3 THEN Failed ELSE [kind |-> "WILLTOPICRESP", rc |-> ReadChar(p, 0)]
MQTTSNDeserialize_willmsgresp(p) ==
    IF p.len < 3 THEN Failed ELSE [kind |-> "WILLMSGRESP", rc |-> ReadChar(p, 0)]

MQTTSNDeserialize_publish(p) ==
    LET b == ReadChar(p, 0)
        m == [kind |-> "PUBLISH", dup |-> DupBit(b), qos |-> QoSBits(b), retain |-> RetainBit(b),
              topicType |-> TypeBits(b), topic |-> ReadInt(p, 1), msgId |-> ReadInt(p, 3), payload |-> 0]
    IN [m EXCEPT !.payload = ReadRest(p, 5) - IF LongName(m) THEN m.topic ELSE 0]
MQTTSNDeserialize_puback(p) ==
    [kind |-> "PUBACK", topicId |-> ReadInt(p, 0), msgId |-> ReadInt(p, 2), rc |-> ReadChar(p, 4)]
MQTTSNDeserialize_ack(p) == [kind |-> p.type, msgId |-> ReadInt(p, 0)]
MQTTSNDeserialize_register(p) ==
    [kind |-> "REGISTER", topicId |-> ReadInt(p, 0), msgId |-> ReadInt(p, 2), name |-> ReadRest(p, 4)]
MQTTSNDeserialize_regack(p) ==
    [kind |-> "REGACK", topicId |-> ReadInt(p, 0), msgId |-> ReadInt(p, 2), rc |-> ReadChar(p, 4)]
TopicRead(p, offset) ==
    IF TypeBits(ReadChar(p, 0)) = Normal THEN ReadRest(p, offset) ELSE ReadInt(p, offset)
MQTTSNDeserialize_subscribe(p) ==
    LET b == ReadChar(p, 0) IN
    [kind |-> "SUBSCRIBE", dup |-> DupBit(b), qos |-> QoSBits(b), msgId |-> ReadInt(p, 1),
     topicType |-> TypeBits(b), topic |-> TopicRead(p, 3)]
MQTTSNDeserialize_unsubscribe(p) ==
    [kind |-> "UNSUBSCRIBE", msgId |-> ReadInt(p, 1), topicType |-> TypeBits(ReadChar(p, 0)), topic |-> TopicRead(p, 3)]
MQTTSNDeserialize_suback(p) ==
    [kind |-> "SUBACK", qos |-> QoSBits(ReadChar(p, 0)), topicId |-> ReadInt(p, 1), msgId |-> ReadInt(p, 3),
     rc |-> ReadChar(p, 5)]
MQTTSNDeserialize_unsuback(p) == [kind |-> "UNSUBACK", msgId |-> ReadInt(p, 0)]
MQTTSNDeserialize_advertise(p) ==
    [kind |-> "ADVERTISE", gatewayId |-> ReadChar(p, 0), duration |-> ReadInt(p, 1)]
MQTTSNDeserialize_searchgw(p) == [kind |-> "SEARCHGW", radius |-> ReadChar(p, 0)]
MQTTSNDeserialize_gwinfo(p) == [kind |-> "GWINFO", gatewayId |-> ReadChar(p, 0), address |-> ReadRest(p, 1)]

Acks == {"PUBREC", "PUBREL", "PUBCOMP"}

\* The types that the reader of a kind goes on with.
TypesRead(kind) == IF kind \in Acks THEN Acks ELSE {kind}

\* All but connack return failure for a packet of another type; connack
\* returns what the length was read with, 1, and sets nothing.
Deserialized(kind, p) ==
    CASE p.type \notin TypesRead(kind) -> IF kind = "CONNACK" /\ p.lenlen = 1
                          THEN [kind |-> "CONNACK", rc |-> Garbage] ELSE Failed
      [] kind = "CONNECT" -> MQTTSNDeserialize_connect(p)
      [] kind = "CONNACK" -> MQTTSNDeserialize_connack(p)
      [] kind = "DISCONNECT" -> getDISCONNECT(p)
      [] kind = "PINGREQ" -> MQTTSNDeserialize_pingreq(p)
      [] kind = "PINGRESP" -> MQTTSNDeserialize_pingresp(p)
      [] kind \in {"WILLTOPIC", "WILLTOPICUPD"} -> MQTTSNDeserialize_willtopic1(p)
      [] kind \in {"WILLMSG", "WILLMSGUPD"} -> MQTTSNDeserialize_willmsg1(p)
      [] kind = "WILLTOPICREQ" -> MQTTSNDeserialize_willtopicreq(p)
      [] kind = "WILLMSGREQ" -> MQTTSNDeserialize_willmsgreq(p)
      [] kind = "WILLTOPICRESP" -> MQTTSNDeserialize_willtopicresp(p)
      [] kind = "WILLMSGRESP" -> MQTTSNDeserialize_willmsgresp(p)
      [] kind = "PUBLISH" -> MQTTSNDeserialize_publish(p)
      [] kind = "PUBACK" -> MQTTSNDeserialize_puback(p)
      [] kind \in Acks -> MQTTSNDeserialize_ack(p)
      [] kind = "REGISTER" -> MQTTSNDeserialize_register(p)
      [] kind = "REGACK" -> MQTTSNDeserialize_regack(p)
      [] kind = "SUBSCRIBE" -> MQTTSNDeserialize_subscribe(p)
      [] kind = "SUBACK" -> MQTTSNDeserialize_suback(p)
      [] kind = "UNSUBSCRIBE" -> MQTTSNDeserialize_unsubscribe(p)
      [] kind = "UNSUBACK" -> MQTTSNDeserialize_unsuback(p)
      [] kind = "ADVERTISE" -> MQTTSNDeserialize_advertise(p)
      [] kind = "SEARCHGW" -> MQTTSNDeserialize_searchgw(p)
      [] kind = "GWINFO" -> MQTTSNDeserialize_gwinfo(p)

-----------------------------------------------------------------------------
(* MQTTSNPacket                                                            *)

VARIABLES msg,    \* the message that is sent
          packet, \* _buf and _bufLen of the MQTTSNPacket
          result, \* what the receiver makes of it
          step
vars == <<msg, packet, result, step>>

\* A packet that did not fit is an error code, which is taken for its length:
\* the object holds 65534 bytes of whatever lies behind the buffer.
Overread == [type |-> "garbage", len |-> Garbage, lenlen |-> 1, cells |-> <<>>]
Stored(p) == IF p.len > MaxSize THEN Overread ELSE p

\* Where the message id is, counted from the first byte of the packet, or
\* from the type in packets that may be long.
MsgIdOffset(p) ==
    CASE p.type = "PUBLISH" -> 3
      [] p.type \in {"PUBACK", "REGISTER", "REGACK"} -> 4 - p.lenlen - 1
      [] p.type \in {"PUBREC", "PUBREL", "PUBCOMP", "UNSUBACK"} -> 2 - p.lenlen - 1
      [] p.type \in {"SUBSCRIBE", "UNSUBSCRIBE"} -> 1
      [] p.type = "SUBACK" -> 5 - p.lenlen - 1
HasMsgId(p) == p.type \in {"PUBLISH", "PUBACK", "REGISTER", "REGACK", "PUBREC", "PUBREL", "PUBCOMP",
                           "UNSUBACK", "SUBSCRIBE", "UNSUBSCRIBE", "SUBACK"}
GetMsgId(p) == IF HasMsgId(p) THEN ReadInt(p, MsgIdOffset(p)) ELSE 0

Init ==
    /\ msg \in Messages
    /\ packet = Overread /\ result = Failed /\ step = "made"

Serialize ==
    /\ step = "made" /\ step' = "held"
    /\ packet' = Stored(Serialized(msg))
    /\ UNCHANGED <<msg, result>>

Receive ==
    /\ step = "held" /\ step' = "received" /\ packet # Overread
    /\ result' = Deserialized(packet.type, packet)
    /\ UNCHANGED <<msg, packet>>

Next == Serialize \/ Receive
Spec == Init /\ [][Next]_vars

-----------------------------------------------------------------------------
(* Properties                                                              *)

\* The flag dup as a truth value: it is read as 255 where 1 was written.
AsFlag(m) == IF "dup" \in DOMAIN m THEN [m EXCEPT !.dup = @ # 0] ELSE m

\* RoundTrip: what one end serialized is what the other deserializes
\* (MQTTSNPacket/test/test1.c:451); a body of 254 bytes, whose length field is
\* longer than its length says, and no other is read two bytes short.
RoundTrip == step = "received" => (AsFlag(result) = AsFlag(msg) <=> packet.len # 255)

\* MsgIdFound: the message id of a packet is found without deserializing it,
\* but not that of a REGISTER of more than 249 letters (MQTTSNGWPacket.cpp:477).
MsgIdFound ==
    packet # Overread /\ HasMsgId(packet) /\ ~(packet.type = "REGISTER" /\ packet.lenlen = 3) =>
        GetMsgId(packet) = msg.msgId

\* Readable: a packet is as long as its length field says, so that its
\* receiver takes it (MQTTSNPacket.c:276), but for the body of 254 bytes.
Readable ==
    packet # Overread =>
        MQTTSNPacket_read(packet) = IF packet.len = 255 THEN ReadError ELSE msg.kind

\* EveryPacketReadable: so is every packet (MQTTSNPacket.c:84).
EveryPacketReadable == packet # Overread => MQTTSNPacket_read(packet) = msg.kind

\* NoDurationIsMinusOne: the duration of a DISCONNECT that has none is read as
\* -1 (MQTTSNConnectServer.c:100), whatever the variable held.
NoDurationIsMinusOne ==
    packet.type = "DISCONNECT" /\ msg.duration = 0 =>
        \A before \in {-1, 0, 33} : MQTTSNDeserialize_disconnect(packet, before).duration = -1

\* OtherReadersFail: a packet is read as what it is by one reader only
\* (MQTTSNConnectServer.c:274), the three that carry an id only by the same.
RightReader(kinds) ==
    \A k \in kinds : k # packet.type /\ ~({k, packet.type} \subseteq Acks) /\ packet # Overread =>
        Deserialized(k, packet) = Failed
OtherReadersFail == RightReader({m.kind : m \in Messages} \ {"CONNACK"})

\* NoReaderMistaken: nor is any packet taken for a CONNACK
\* (MQTTSNConnectClient.c:83).
NoReaderMistaken == RightReader({"CONNACK"})

\* DupKept: the dup flag is the same before and after (test/test1.c:452).
DupKept == step = "received" /\ "dup" \in DOMAIN msg => result.dup = msg.dup

\* OnlySerialized: an MQTTSNPacket holds a serialized packet, or the message
\* is refused (MQTTSNGWPacket.cpp:215).
OnlySerialized == step # "made" => packet # Overread
=============================================================================
