------------------------------- MODULE MCData -------------------------------
(***************************************************************************)
(* The data structures and the conversions, each with small inputs.  A     *)
(* behaviour begins with the choice of one of them and, for a conversion,  *)
(* of an input; the other data structures rest in their initial states,    *)
(* the conversions hold Rest.  Init and Next without a module's name are   *)
(* those of Topics.                                                        *)
(***************************************************************************)
EXTENDS Topics, TLC

CONSTANTS Rest, d1, d2, t, u, v1, v2, e1, e2, e3, e4

VARIABLES part,
          entries, msgId, cnt, packetId, found,  \* MessageIdTable
          tab, clients, crashed, calls,        \* AggregateTopicTable
          list, order,                         \* DeviceLists
          root, map,                           \* Tree23
          start, end, buffer, log, got, shown, \* RingBuffer
          filter, topic, level,                \* TopicMatch
          msg, packet, wire, step,             \* Codec, MqttPacket
          file, next, params, queSize, state,  \* Config
          result                               \* of a conversion

idVars == <<entries, msgId, cnt, packetId, found>>
tableVars == <<tab, clients, crashed, calls>>
listVars == <<list, order>>
treeVars == <<root, map>>
ringVars == <<start, end, buffer, log, got, shown>>
structures == <<vars, idVars, tableVars, listVars, treeVars, ringVars>>
textVars == <<filter, topic, level>>
packetVars == <<msg, packet, wire, step>>
configVars == <<file, next, params, queSize, state>>
conversions == <<textVars, packetVars, configVars, result>>
suiteVars == <<part, structures, conversions>>

-----------------------------------------------------------------------------
(* Data structures.                                                        *)

MaxEntries == 2
MaxPacketId == 4
Matched(f, name) == f = name
Ids == INSTANCE MessageIdTable WITH
    Nil <- Rest, Clients <- {d1, d2}, ClientMsgIds <- {1, 2}, list <- entries, result <- found
Table == INSTANCE AggregateTopicTable WITH
    Nil <- Rest, Topics <- {t, u}, Clients <- {d1, d2}, MaxCalls <- 9
Lists == INSTANCE DeviceLists WITH Nil <- Rest, Elements <- {e1, e2, e3, e4}, InFlight <- 2
Deep == INSTANCE Tree23 WITH Keys <- 1..13, Vals <- {v1}, Null <- Rest
Values == INSTANCE Tree23 WITH Keys <- 1..7, Vals <- {v1, v2}, Null <- Rest
Ring == INSTANCE RingBuffer WITH Length <- 7, Sizes <- {2, 3, 4}, MaxBytes <- 18
ASSUME /\ ListAssumption /\ PredefAssumption /\ Ids!MessageIdsAssumption
       /\ Lists!DeviceListsAssumption /\ Ring!SizesAssumption

StructuresInit ==
    /\ Init /\ Ids!Init /\ Table!Init /\ Lists!Init /\ Ring!Init
    /\ IF part = "values" THEN Values!Init ELSE Deep!Init
StructuresNext ==
    /\ \/ part = "topics" /\ Next /\ UNCHANGED <<idVars, tableVars, listVars, treeVars, ringVars>>
       \/ part = "ids" /\ Ids!Next /\ UNCHANGED <<vars, tableVars, listVars, treeVars, ringVars>>
       \/ part = "table" /\ Table!Next /\ UNCHANGED <<vars, idVars, listVars, treeVars, ringVars>>
       \/ part = "lists" /\ Lists!Next /\ UNCHANGED <<vars, idVars, tableVars, treeVars, ringVars>>
       \/ part = "deep" /\ Deep!Next /\ UNCHANGED <<vars, idVars, tableVars, listVars, ringVars>>
       \/ part = "values" /\ Values!Next /\ UNCHANGED <<vars, idVars, tableVars, listVars, ringVars>>
       \/ part = "ring" /\ Ring!Next /\ UNCHANGED <<vars, idVars, tableVars, listVars, treeVars>>
    /\ UNCHANGED <<part, conversions>>

-----------------------------------------------------------------------------
(* Topic names and filters.                                                *)

Match == INSTANCE TopicMatch WITH Levels <- {<<"a">>, <<"b">>}, MaxLevels <- 4
\* One text of a level begins another.
DevMatch == INSTANCE TopicMatch WITH Levels <- {<<"a">>, <<"a", "b">>}, MaxLevels <- 4
ASSUME Match!MatchAssumption /\ DevMatch!MatchAssumption

-----------------------------------------------------------------------------
(* MQTT-SN messages: every kind, flag and topic type, small and large ids, *)
(* and texts of chosen lengths, around those of a body of 254 bytes.       *)

Bit == {0, 1}
MsgIds == {1, 300, 65535}
OfTexts(T) ==
    [kind : {"CONNECT"}, cleansession : Bit, willFlag : Bit, duration : {0, 10, 65535}, clientID : T]
    \cup [kind : {"PINGREQ"}, clientID : T]
    \cup [kind : {"WILLTOPIC", "WILLTOPICUPD"}, qos : 0..2, retain : Bit, topic : T]
    \cup [kind : {"WILLMSG", "WILLMSGUPD"}, msg : T]
    \cup [kind : {"PUBLISH"}, dup : Bit, qos : 0..3, retain : Bit, topicType : 0..2, topic : {2, 300},
          msgId : MsgIds, payload : T]
    \cup [kind : {"REGISTER"}, topicId : MsgIds, msgId : MsgIds, name : T]
    \cup [kind : {"SUBSCRIBE"}, dup : Bit, qos : 0..2, msgId : MsgIds, topicType : 0..2, topic : T]
    \cup [kind : {"UNSUBSCRIBE"}, msgId : MsgIds, topicType : 0..2, topic : T]
WithoutTexts ==
    [kind : {"CONNACK", "WILLTOPICRESP", "WILLMSGRESP"}, rc : 0..3]
    \cup [kind : {"PINGRESP", "WILLTOPICREQ", "WILLMSGREQ"}]
    \cup [kind : {"DISCONNECT"}, duration : {0, 10, 65535}]
    \cup [kind : {"PUBACK", "REGACK"}, topicId : MsgIds, msgId : MsgIds, rc : 0..3]
    \cup [kind : {"PUBREC", "PUBREL", "PUBCOMP", "UNSUBACK"}, msgId : MsgIds]
    \cup [kind : {"SUBACK"}, qos : 0..2, topicId : MsgIds, msgId : MsgIds, rc : 0..3]
    \cup [kind : {"ADVERTISE"}, gatewayId : {1, 255}, duration : {10, 900}]
    \cup [kind : {"SEARCHGW"}, radius : {0, 1}] \cup [kind : {"GWINFO"}, gatewayId : {1, 255}, address : {0}]
SnMessages == OfTexts({1, 20, 300} \cup 247..253) \cup WithoutTexts
Sn == INSTANCE Codec WITH Messages <- SnMessages, MaxSize <- 1024

(* MQTT messages: lengths around one, two, three and four digits and that  *)
(* of the buffer.                                                          *)
AckTypes == {"PUBACK", "PUBREC", "PUBREL", "PUBCOMP", "UNSUBACK"}
MqttMessages ==
    [type : AckTypes, msgId : MsgIds] \cup [type : {"PINGREQ", "PINGRESP", "DISCONNECT"}]
    \cup [type : {"CONNACK"}, present : Bit, rc : 0..5] \cup [type : {"SUBACK"}, msgId : MsgIds, rc : {0, 1, 2, 128}]
    \cup [type : {"CONNECT"}, version : {3, 4}, clientID : {1, 23}, will : {0, 5, 120}, username : {0, 8}, password : {0, 9}]
    \cup [type : {"SUBSCRIBE"}, msgId : MsgIds, topic : {2, 200}, qos : 0..2]
    \cup [type : {"UNSUBSCRIBE"}, msgId : MsgIds, topic : {2, 200}]
    \cup [type : {"PUBLISH"}, dup : Bit, qos : {1, 2}, retain : Bit, topic : {2, 100}, msgId : MsgIds,
          payload : {0, 20, 125, 917, 918, 1000, 16380, 2097100, 2097200}]
    \cup [type : {"PUBLISH"}, dup : {0}, qos : {0}, retain : Bit, topic : {2, 100}, msgId : {0}, payload : {0, 20, 125}]
Mqtt == INSTANCE MqttPacket WITH Messages <- MqttMessages, NewIds <- {7, 65000}, MaxSize <- 1024,
    Present <- Rest

-----------------------------------------------------------------------------
(* Configuration files: the shipped file with some lines changed, left     *)
(* out, repeated or without '='.                                           *)

Number == [x \in {"YES", "YE", "yes", "ye", "YES;", "NO", "N", "name", "nam", "list", "lis"} |-> 0]
            @@ "1" :> 1 @@ "" :> 0 @@ "25" :> 25 @@ "2" :> 2 @@ "257" :> 257
            @@ "30" :> 30 @@ "3" :> 3 @@ "3000" :> 3000 @@ "300" :> 300
Shortened == [x \in {"", "1", "2", "3"} |-> ""]
               @@ "YES" :> "YE" @@ "YE" :> "Y" @@ "yes" :> "ye" @@ "ye" :> "y" @@ "YES;" :> "YES"
               @@ "NO" :> "N" @@ "N" :> "" @@ "name" :> "nam" @@ "nam" :> "na" @@ "list" :> "lis"
               @@ "lis" :> "li" @@ "25" :> "2" @@ "257" :> "25" @@ "30" :> "3"
               @@ "3000" :> "300" @@ "300" :> "30"
Written(k, text) == [key |-> k, text |-> text, newline |-> TRUE]
Digits == {"1", "257", "30", "3000"}
Meant(f) == \A i \in DOMAIN f : f[i].key \in {"GatewayID", "MaxInflightMsgs", "MaxNumberOfClients"} <=> f[i].text \in Digits
Files ==
    LET texts == {"YES", "NO", "YES;", "30", "3000"}
        fs == {f \in {<<Written("GatewayID", id), Written("GatewayName", "name"), Written(k1, x), Written(k2, y)>> :
                        id \in {"1", "257"}, x, y \in texts,
                        k1 \in {"", "PredefinedTopicList", "QoS-1", "ShearedMemory", "MaxInflightMsgs"},
                        k2 \in {"PredefinedTopic", "QoS-1", "AggregatingGateway", "MaxNumberOfClients"}} : Meant(f)}
    IN fs \cup {[f EXCEPT ![Len(f)].newline = FALSE] : f \in fs} \cup {SubSeq(f, 3, 4) : f \in fs}
Conf == INSTANCE Config
ASSUME Conf!ConfigAssumption

-----------------------------------------------------------------------------
NoTexts == filter = Rest /\ topic = Rest
NoPackets == msg = Rest /\ packet = Rest /\ step = Rest
NoFile == file = Rest /\ next = Rest /\ params = Rest /\ queSize = Rest /\ state = Rest

ConversionsInit ==
    \/ part = "match" /\ Match!Init /\ NoPackets /\ wire = Rest /\ NoFile
    \/ part = "device match" /\ DevMatch!Init /\ NoPackets /\ wire = Rest /\ NoFile
    \/ part = "sn" /\ Sn!Init /\ wire = Rest /\ NoTexts /\ level = Rest /\ NoFile
    \/ part = "mqtt" /\ Mqtt!Init /\ NoTexts /\ level = Rest /\ NoFile
    \/ part = "config" /\ Conf!Init /\ NoTexts /\ level = Rest /\ NoPackets /\ wire = Rest /\ result = Rest
    \/ /\ part \in {"topics", "ids", "table", "lists", "deep", "values", "ring"}
       /\ NoTexts /\ level = Rest /\ NoPackets /\ wire = Rest /\ NoFile /\ result = Rest
MatchNext == part = "match" /\ Match!Next /\ UNCHANGED <<part, structures, packetVars, configVars>>
ConfigNext == part = "config" /\ Conf!Next /\ UNCHANGED <<part, structures, textVars, packetVars, result>>
ConversionsNext ==
    \/ MatchNext \/ ConfigNext
    \/ /\ \/ part = "device match" /\ DevMatch!DeviceNext /\ UNCHANGED <<packetVars, configVars>>
          \/ part = "sn" /\ Sn!Next /\ UNCHANGED <<wire, textVars, configVars>>
          \/ part = "mqtt" /\ Mqtt!Next /\ UNCHANGED <<textVars, configVars>>
       /\ UNCHANGED <<part, structures>>

SuiteInit == ConversionsInit /\ StructuresInit
SuiteNext == StructuresNext \/ ConversionsNext
SuiteSpec == SuiteInit /\ [][SuiteNext]_suiteVars /\ WF_suiteVars(MatchNext) /\ WF_suiteVars(ConfigNext)

-----------------------------------------------------------------------------
(* A step keeps the predefined topics (Topics); the linked list of message *)
(* ids and the table of the subscribers of a topic do what AggregateTables *)
(* describes, and the former's links stay whole (MessageIdTable,           *)
(* AggregateTopicTable).                                                   *)
TablesImplement ==
    PredefinedStays /\ []Ids!WellLinked /\ Ids!ImplementsEntries /\ Table!ImplementsTable
(* What was added and not removed is found: in the tree, whose leaves stay *)
(* at one depth, and in the device's lists; and the topics have their      *)
(* types (Tree23, DeviceLists, Topics).                                    *)
Finds == /\ TypeOK
         /\ part # "values" => Deep!Finds
         /\ part = "values" => Values!Finds
         /\ Deep!Balanced
         /\ Lists!Listed
(* The monitor shows what was logged only, the newest message in full; no  *)
(* index leaves the shared memory (RingBuffer).                            *)
LogIntact == [](Ring!Bounded /\ Ring!NothingInvented) /\ Ring!NewestLast

(* isMatch is MQTT's matching and its loop ends; the device finds a filter *)
(* for the names that are covered and for no other (TopicMatch).           *)
MatchesRight ==
    /\ [](part = "match" => Match!MatchCorrect)
    /\ [](part = "device match" => DevMatch!CoveredFound /\ DevMatch!FoundCovered)
    /\ (part = "match") ~> (part = "match" /\ result # "none")
(* What one end wrote the other reads; the lengths that are written,       *)
(* allocated and read agree; the message id is found without reading the   *)
(* packet, and a renumbered packet carries the new one (Codec,             *)
(* MqttPacket).                                                            *)
PacketsReadBack ==
    /\ [](part = "sn" => Sn!RoundTrip /\ Sn!MsgIdFound /\ Sn!Readable /\ Sn!OtherReadersFail)
    /\ [](part = "mqtt" => Mqtt!RoundTrip /\ Mqtt!LengthsAgree /\ Mqtt!OnlyIdWritten)
    /\ [][part = "mqtt" => Mqtt!RenumbersRight]_suiteVars
(* A parameter comes from the first line of its name, the packet queue     *)
(* takes what the clients may have in flight, and a sufficient file brings *)
(* the gateway up (Config).                                                *)
ComesUp ==
    /\ [](part = "config" => Conf!FromOwnLine /\ Conf!QueFits)
    /\ (part = "config" /\ Conf!Sufficient) ~> (part = "config" /\ state = "running")
=============================================================================
