----------------------------- MODULE MCHandlers -----------------------------
(***************************************************************************)
(* The handlers of PacketHandleTask and the list of clients, in small      *)
(* settings.  A behaviour begins with the choice of a setting: Aggregate   *)
(* itself, another instance of it, one of PubSub or one of ClientList,     *)
(* with the constants that suit a property.  The variables of the other    *)
(* modules rest.                                                           *)
(***************************************************************************)
EXTENDS Aggregate, TLC

CONSTANTS None, a, b   \* a and b: two devices

VARIABLES setting,
          pubMap, subMap, clientQ, dev,                       \* PubSub
          outOne,                                             \* out of the gateway with one device
          phase, pool, list, members, common, last, received, served  \* ClientList

gateway == <<status, saved, topics, packetQ, brokerQ, srv, left>>   \* both gateways
transparent == <<pubMap, subMap, clientQ, dev>>
aggregating == <<waitWill, waited, entries, packetId, table, out, outOne, crashed, mine>>
clients == <<phase, pool, list, members, common, last, received, served>>
suiteVars == <<setting, gateway, transparent, aggregating, clients>>

NoGateway == /\ status = None /\ saved = None /\ topics = None /\ packetQ = None
             /\ brokerQ = None /\ srv = None /\ left = None
NoTransparent == pubMap = None /\ subMap = None /\ clientQ = None /\ dev = None
NothingSent == out = [c \in Clients |-> <<>>]
NoAggregating == /\ waitWill = None /\ waited = None /\ entries = NoEntries /\ packetId = None
                 /\ table = None /\ NothingSent /\ outOne = None /\ crashed = None /\ mine = None
NoClients == /\ phase = None /\ pool = None /\ list = None /\ members = None
             /\ common = None /\ last = None /\ received = None /\ served = None

-----------------------------------------------------------------------------
(* PubSub: one topic of each kind, ids that wrap.                          *)

TopicNames == {"t", "p", "ab"}
MaxTopics == 3
MaxTid == 4
MaxInflight == 1
ShortIds == [n \in {"ab"} |-> 97]
HostIds == [n \in {"ab"} |-> 98]
Predefined == [i \in {3} |-> "p"]
Filters == {}
Registrable == {"t"}
DeviceQos == {}
Publications == {}
MaxRests == 0
MaxFaults == 0
MaxMsgId == 1
MaxRequests == 2
MaxSaved == 2
CleanFrom == {"active", "asleep", "awake"}
Three == {[topic |-> "t", qos |-> 1, n |-> k] : k \in 1..3}

Sessions == INSTANCE PubSub WITH
    TopicNames <- {"t", "u", "p", "ab"}, Registrable <- {"t", "u"}, MaxMsgId <- 2,
    MaxFaults <- 1, MaxRests <- 3
Waking == INSTANCE PubSub WITH
    Publications <- Three, MaxRests <- 4, CleanFrom <- {"active"}
Sleeps == INSTANCE PubSub WITH
    Publications <- {[topic |-> "t", qos |-> 1, n |-> 1], [topic |-> "t", qos |-> 1, n |-> 2],
                     [topic |-> "p", qos |-> 1, n |-> 3], [topic |-> "ab", qos |-> 1, n |-> 4]},
    CleanFrom <- {}, MaxRests <- 4, MaxSaved <- 1
Repeats == INSTANCE PubSub WITH
    Publications <- {[topic |-> "t", qos |-> 2, n |-> 1]}, DeviceQos <- {2}, MaxMsgId <- 2, MaxFaults <- 2
ASSUME /\ Sessions!PubSubAssumption /\ Waking!PubSubAssumption
       /\ Sleeps!PubSubAssumption /\ Repeats!PubSubAssumption
       /\ Sessions!MapAssumption /\ Sessions!ListAssumption

TransparentInit ==
    /\ \/ setting = "sessions" /\ Sessions!Init
       \/ setting = "waking" /\ Waking!Init
       \/ setting = "sleeps" /\ Sleeps!Init
       \/ setting = "repeats" /\ Repeats!Init
    /\ NoAggregating /\ NoClients
TransparentNext ==
    /\ \/ setting = "sessions" /\ Sessions!Next
       \/ setting = "waking" /\ Waking!Next
       \/ setting = "sleeps" /\ Sleeps!Next
       \/ setting = "repeats" /\ Repeats!Next
    /\ UNCHANGED <<setting, aggregating, clients>>

-----------------------------------------------------------------------------
(* Aggregate: one or two devices, topics without wild cards.               *)

MCClients == {a, b}
MCTopicsCovered == [t \in {"t", "u"} |-> {t}]

FansOut == INSTANCE Aggregate WITH
    Kinds <- {"CONNECT", "SUBSCRIBE", "WILL"}, Topics <- {"t", "u"}, ClientMsgIds <- {1, 2},
    MaxEntries <- 3, MaxPackets <- 4, MaxNews <- 1, MaxLosses <- 0
Stores == INSTANCE Aggregate WITH
    Kinds <- {"CONNECT", "SUBSCRIBE", "SLEEP"}, Clients <- {a}, MaxEntries <- 3, MaxNews <- 2,
    MaxLosses <- 0, out <- outOne
ASSUME MessageIdsAssumption /\ FansOut!MessageIdsAssumption

AggregatingInit ==
    /\ \/ setting = "tables" /\ Init /\ outOne = None
       \/ setting = "fans out" /\ FansOut!Init /\ outOne = None
       \/ setting = "stores" /\ Stores!Init /\ NothingSent
    /\ NoTransparent /\ NoClients
AggregatingNext ==
    /\ \/ setting = "tables" /\ Next /\ UNCHANGED outOne
       \/ setting = "fans out" /\ FansOut!Next /\ UNCHANGED outOne
       \/ setting = "stores" /\ Stores!Next /\ UNCHANGED out
    /\ UNCHANGED <<setting, transparent, clients>>

-----------------------------------------------------------------------------
(* ClientList: ids are words over a few letters.                           *)

AA == <<"a", "a">>
AB == <<"a", "b">>
B == <<"b">>
C == <<"c">>
Direct(places) == {<<"direct", p>> : p \in places}
\* Addresses and nodes are used by several devices.
MovingHomes == (AA :> Direct({"p1", "p2"})) @@ (AB :> Direct({"p2", "p3"})) @@ (B :> Direct({"p3"}))
                  @@ (C :> Direct({"p1", "p4"}))
Plain == [aggregating |-> FALSE, qosm1 |-> FALSE, forwarder |-> FALSE, auth |-> FALSE,
          predefined |-> FALSE, max |-> 2]

Moving == INSTANCE ClientList WITH
    Config <- [Plain EXCEPT !.predefined = TRUE], ClientLines <- <<>>,
    TopicLines <- << <<AA, "t1">>, <<B, "t2">>, <<<<"*">>, "t3">> >>, Homes <- MovingHomes,
    MaxPackets <- 7
Forwarding == INSTANCE ClientList WITH
    Config <- [Plain EXCEPT !.forwarder = TRUE], ClientLines <- << <<B, "f1", "forwarder">> >>,
    TopicLines <- <<>>,
    Homes <- (AA :> {<<"f1", "n1">>, <<"f1", "n2">>}) @@ (B :> {<<"f1", "n2">>, <<"f1", "n3">>})
                @@ (C :> Direct({"p1", "p2"})),
    MaxPackets <- 7
Listing == INSTANCE ClientList WITH
    Config <- [Plain EXCEPT !.auth = TRUE],
    ClientLines <- << <<AA, "p1", "plain">>, <<B, "p2", "plain">>, <<C, "p2", "plain">> >>,
    TopicLines <- <<>>, Homes <- MovingHomes, MaxPackets <- 6

ClientsInit ==
    /\ \/ setting = "moving" /\ Moving!Init
       \/ setting = "forwarding" /\ Forwarding!Init
       \/ setting = "listing" /\ Listing!Init
    /\ NoGateway /\ NoTransparent /\ NoAggregating
ClientsNext ==
    /\ \/ setting = "moving" /\ Moving!Next
       \/ setting = "forwarding" /\ Forwarding!Next
       \/ setting = "listing" /\ Listing!Next
    /\ UNCHANGED <<setting, gateway, transparent, aggregating>>

-----------------------------------------------------------------------------
SuiteInit == TransparentInit \/ AggregatingInit \/ ClientsInit
SuiteNext == TransparentNext \/ AggregatingNext \/ ClientsNext
SuiteSpec == SuiteInit /\ [][SuiteNext]_suiteVars

(* The device's topic ids are the gateway's, across sessions, and a        *)
(* PUBLISH has an id its device knows, though it was saved, message ids    *)
(* are used again and clean sessions begin in between (PubSub).            *)
IdsAgree == /\ setting = "sessions" => Sessions!RegistrationHolds
            /\ setting = "waking" => Waking!PublishedIdKnown
(* What the broker was told is delivered is delivered or kept unless the   *)
(* store was full, and QoS 2 delivers once across losses and repetitions   *)
(* (PubSub).                                                               *)
DeliversAsTold ==
    /\ [](setting = "repeats" => Repeats!ExactlyOnce)
    /\ [][setting = "sleeps" => Sleeps!AckedKept]_suiteVars
(* A publication goes to the devices that subscribed, is in one place for  *)
(* each, and is not saved again when the device wakes (Aggregate).         *)
FansOutOnce ==
    /\ [](setting = "stores" => Stores!NoneTwice /\ Stores!SavedOnce)
    /\ [][setting = "fans out" => FansOut!FansOutRight]_suiteVars
(* A device, a node of a forwarder and an address have one client each,    *)
(* the listed ones included; a packet is given to the client with its id,  *)
(* or to one that still has the place it came from; that client answers    *)
(* there, and knows its own device's predefined topics (ClientList).       *)
OneClientEach ==
    /\ setting = "moving" => /\ Moving!TypeOK /\ Moving!OneClientPerId
                             /\ Moving!ClientOfPlace /\ Moving!AnswersSender /\ Moving!HasItsTopics
    /\ setting = "forwarding" => /\ Forwarding!TypeOK /\ Forwarding!OneClientPerNode
                                 /\ Forwarding!ClientOfPlace /\ Forwarding!AnswersSender
    /\ setting = "listing" => Listing!TypeOK /\ Listing!OneClientPerAddress
=============================================================================
