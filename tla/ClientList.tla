----------------------------- MODULE ClientList -----------------------------
(***************************************************************************)
(* The list of clients, the pool they are taken from and the forwarders:   *)
(* how the configuration files fill them (Gateway::initialize) and how     *)
(* ClientRecvTask finds or makes the client of a packet.  Clients are      *)
(* numbered in the order of the list; nothing ever takes one off it.       *)
(***************************************************************************)
EXTENDS Naturals, Sequences, FiniteSets, SequencesExt, Functions

CONSTANTS Config,       \* the parameters: aggregating, qosm1, forwarder, auth, predefined, max
          ClientLines,  \* clients.conf: <<id, address, kind>>
          TopicLines,   \* predefinedTopic.conf: <<id, topic>>
          Homes,        \* the places from which each device may speak: <<via, place>>
          MaxPackets    \* bound: packets received

\* An id is a sequence of letters; "direct" is the sensor network itself, any
\* other via a forwarder, whose places are wireless node ids.
Ids == DOMAIN Homes
Nowhere == "nowhere"
AnyClient == <<"*">>

VARIABLES phase,    \* how far Gateway::initialize has come, or "crashed"
          pool,     \* the free clients
          list,     \* the clients in use
          members,  \* the clients of each forwarder, with their nodes
          common,   \* the topics of all clients
          last,     \* the last packet that was given to a client
          received, \* the number of packets so far
          served    \* history: the places at which a device's packets were given
                    \* to its own client, the last one for each way

vars == <<phase, pool, list, members, common, last, received, served>>

Forwarders == DOMAIN members
NoPacket == [id |-> <<>>, at |-> <<Nowhere, Nowhere>>, type |-> "none", client |-> 0]

Init ==
    /\ phase = "boot" /\ pool = 0 /\ list = <<>> /\ members = <<>>
    /\ common = {} /\ last = NoPacket /\ received = 0
    /\ served = [id \in Ids |-> {}]

-----------------------------------------------------------------------------
(* ClientList: lookups                                                     *)

FirstWhere(l, Test(_)) ==
    LET found == {i \in 1..Len(l) : Test(l[i])} IN
    IF found = {} THEN 0 ELSE CHOOSE i \in found : \A j \in found : i <= j

ByAddress(l, a) == FirstWhere(l, LAMBDA c : a # Nowhere /\ c.addr = a)

\* Variant: only the first letter is compared.
ByIdFirstLetter(l, id) == FirstWhere(l, LAMBDA c : Head(id) = Head(c.id))

\* strncmp over the length of the id looked for: a prefix is enough.
ById(l, id) == FirstWhere(l, LAMBDA c : IsPrefix(id, c.id))

\* createClient: s holds the list and the pool.
Created(s, a, id) ==
    IF ByAddress(s.list, a) # 0 \/ s.pool = 0 THEN s
    ELSE [pool |-> s.pool - 1,
          list |-> Append(s.list, [id |-> id, addr |-> a, fwd |-> "direct", topics |-> {}])]

\* The client createClient returns, 0 when the pool is empty.
CreatedClient(s, a, id) ==
    IF ByAddress(s.list, a) # 0 THEN ByAddress(s.list, a)
    ELSE IF s.pool = 0 THEN 0 ELSE Len(s.list) + 1

-----------------------------------------------------------------------------
(* Gateway::initialize                                                     *)

\* createList for one of the types of line.
WithLines(s, kinds) ==
    FoldLeft(LAMBDA acc, line : IF line[3] \in kinds THEN Created(acc, line[2], line[1]) ELSE acc,
             s, ClientLines)

\* createPredefinedTopic: every line makes a client of its own.
WithTopic(s, id, topic) ==
    LET owner == CreatedClient(s, Nowhere, id) IN
    IF (Config.auth /\ ById(s.list, id) = 0) \/ owner = 0 THEN s
    ELSE [Created(s, Nowhere, id) EXCEPT !.list[owner].topics = @ \cup {topic}]

WithTopics(s) ==
    FoldLeft(LAMBDA acc, line : IF line[1] = AnyClient THEN acc
                               ELSE WithTopic(acc, line[1], line[2]),
             s, TopicLines)

\* AdapterManager::initialize.  Adapter::setup makes two clients and uses
\* them, whether or not the pool had any; addForwarder needs none.
StartAdapters ==
    LET s == [list |-> list, pool |-> pool]
        qosm1 == IF Config.qosm1 THEN WithLines(s, {"qos1"}) ELSE s
        needed == (IF Config.aggregating THEN 2 ELSE 0) + (IF Config.qosm1 THEN 2 ELSE 0)
        lines == {i \in 1..Len(ClientLines) : ClientLines[i][3] = "forwarder"}
    IN
    /\ phase = "boot"
    /\ phase' = IF qosm1.pool < needed THEN "crashed" ELSE "adapters"
    /\ list' = qosm1.list
    /\ members' = IF Config.forwarder
                  THEN [f \in {ClientLines[i][2] : i \in lines} |-> <<>>] ELSE <<>>
    /\ UNCHANGED <<pool, common, last, received, served>>

\* ClientList::initialize.  The pool gets one client more than it counts.
StartList ==
    LET fresh == [list |-> list, pool |-> Config.max + 1]
        listed == IF Config.auth
                  THEN WithLines(fresh, IF Config.aggregating THEN {"plain", "forwarder"}
                                        ELSE {"plain", "qos1", "forwarder"})
                  ELSE fresh
        s == IF Config.predefined THEN WithTopics(listed) ELSE listed
    IN
    /\ phase = "adapters" /\ phase' = "running"
    /\ list' = s.list /\ pool' = s.pool
    /\ common' = {TopicLines[i][2] : i \in {j \in 1..Len(TopicLines) :
                                Config.predefined /\ TopicLines[j][1] = AnyClient}}
    /\ UNCHANGED <<members, last, received, served>>

-----------------------------------------------------------------------------
(* ClientRecvTask                                                          *)

\* Forwarder::getClient and getWirelessNodeId
ClientOfNode(f, n) ==
    LET i == FirstWhere(members[f], LAMBDA e : e.node = n) IN
    IF i = 0 THEN 0 ELSE members[f][i].client
NodeOf(f, c) ==
    LET i == FirstWhere(members[f], LAMBDA e : e.client = c) IN
    IF i = 0 THEN Nowhere ELSE members[f][i].node

\* Forwarder::addClient
Joined(f, c, n) ==
    LET i == FirstWhere(members[f], LAMBDA e : e.client = c) IN
    IF i # 0 THEN [members EXCEPT ![f][i].node = n]
    ELSE [members EXCEPT ![f] = Append(@, [client |-> c, node |-> n])]

Gives(id, at, type, c) ==
    /\ last' = [id |-> id, at |-> at, type |-> type, client |-> c]
    /\ served' = IF list'[c].id # id THEN served
                 ELSE [served EXCEPT ![id] = {p \in @ : p[1] # at[1]} \cup {at}]

ClientAt(at) == IF at[1] = "direct" THEN ByAddress(list, at[2]) ELSE ClientOfNode(at[1], at[2])

Receives(at) ==
    /\ phase = "running" /\ received < MaxPackets
    /\ at[1] \in {"direct"} \cup Forwarders
    /\ received' = received + 1
    /\ UNCHANGED common

\* A packet of a client that is found by its address or node; unless it is a
\* CONNECT it is answered with DISCONNECT when the client is disconnected.
FromKnown(id, at, type) ==
    /\ Receives(at) /\ ClientAt(at) # 0
    /\ UNCHANGED <<phase, pool, list, members>>
    /\ Gives(id, at, type, ClientAt(at))

FromUnknown(id, at) ==
    /\ Receives(at) /\ ClientAt(at) = 0
    /\ UNCHANGED <<phase, pool, list, members, last, served>>

\* A client that is known by its id speaks from a new address.
Addressed(c, a) == IF Config.auth THEN list ELSE [list EXCEPT ![c].addr = a]

\* The CONNECT of a new client, or of one that moved.
ConnectDirect(id, at) ==
    LET known == ById(list, id)
        s == [list |-> list, pool |-> pool]
        c == IF known # 0 THEN known ELSE CreatedClient(s, at[2], id)
    IN
    /\ at[1] = "direct" /\ Receives(at) /\ ClientAt(at) = 0
    /\ IF known # 0 THEN list' = Addressed(known, at[2]) /\ UNCHANGED pool
       ELSE list' = Created(s, at[2], id).list /\ pool' = Created(s, at[2], id).pool
    /\ IF c = 0 THEN UNCHANGED <<last, served>> ELSE Gives(id, at, "CONNECT", c)
    /\ UNCHANGED <<phase, members>>

\* The same through a forwarder: addClient uses the client it is given, also
\* when there was none left.
ConnectForwarded(id, at) ==
    LET known == ById(list, id)
        s == [list |-> list, pool |-> pool]
        c == IF known # 0 THEN known ELSE CreatedClient(s, Nowhere, id)
        made == IF known # 0 THEN s ELSE Created(s, Nowhere, id)
    IN
    /\ at[1] # "direct" /\ Receives(at) /\ ClientAt(at) = 0
    /\ IF c = 0 THEN phase' = "crashed" /\ UNCHANGED <<pool, list, members, last, served>>
       ELSE /\ list' = [made.list EXCEPT ![c].fwd = at[1]] /\ pool' = made.pool
            /\ members' = Joined(at[1], c, at[2])
            /\ Gives(id, at, "CONNECT", c)
            /\ UNCHANGED phase

Next ==
    \/ StartAdapters \/ StartList
    \/ \E id \in Ids : \E at \in Homes[id] :
          \/ FromKnown(id, at, "CONNECT") \/ FromKnown(id, at, "other")
          \/ FromUnknown(id, at)
          \/ ConnectDirect(id, at) \/ ConnectForwarded(id, at)

Spec == Init /\ [][Next]_vars

-----------------------------------------------------------------------------
(* Properties                                                              *)

TypeOK ==
    /\ phase \in {"boot", "adapters", "running", "crashed"}
    /\ pool \in 0..Config.max + 1
    /\ \A i \in 1..Len(list) : list[i].fwd \in {"direct"} \cup Forwarders
    /\ \A f \in Forwarders : \A i \in 1..Len(members[f]) :
          members[f][i].client \in 1..Len(list)
    /\ last.client \in 0..Len(list)

\* Where AdapterManager::unicastToClient sends what is for client c.
Reach(c) == IF list[c].fwd = "direct" THEN <<"direct", list[c].addr>>
            ELSE <<list[c].fwd, NodeOf(list[c].fwd, c)>>

\* AnswersSender: the client that a packet was given to answers to the place
\* the packet came from (MQTTSNGWClientRecvTask.cpp:189, :204), however the
\* devices moved between addresses, nodes and forwarders before.
AnswersSender == last.client # 0 => Reach(last.client) = last.at

\* OwnClient: a device's packet is given to the client with the device's id
\* (MQTTSNGWClientRecvTask.cpp:186).  It is not where an id begins another
\* (MQTTSNGWClientList.cpp:324), nor from an address that is still another
\* client's: then the CONNECT, too, goes to that client
\* (MQTTSNGWClientRecvTask.cpp:148).
OwnClient == last.client # 0 => list[last.client].id = last.id

\* ClientOfPlace: it is given to the client with the device's id, or to one
\* whose own device was last served at that very place, of all those it spoke
\* from in the same way; never to one that merely resembles it, or that has
\* left the place.
ClientOfPlace ==
    last.client # 0 =>
        LET owner == list[last.client].id
        IN  owner = last.id \/ last.at \in served[owner]

\* OneClientPerAddress: a packet's address never fits two clients, so which
\* one getClient meets first (MQTTSNGWClientList.cpp:272) makes no difference.
OneClientPerAddress ==
    \A i, j \in 1..Len(list) :
        list[i].addr = list[j].addr /\ list[i].addr # Nowhere => i = j

\* OneClientPerNode: the same for the nodes of a forwarder
\* (MQTTSNGWForwarder.cpp:173).
OneClientPerNode ==
    \A f \in Forwarders : \A i, j \in 1..Len(members[f]) :
        members[f][i].node = members[f][j].node => i = j

\* OneClientPerId: a device has one client, so its session and its topics are
\* in one place, whichever way it connects (MQTTSNGWClientList.cpp:328).
OneClientPerId ==
    \A i, j \in 1..Len(list) : list[i].id = list[j].id => i = j

\* NoCrash: a client that could not be created is not used
\* (MQTTSNGWAdapter.cpp:66, MQTTSNGWForwarder.cpp:101).
NoCrash == phase # "crashed"

\* AtMostMax: the gateway serves MaxNumberOfClients clients
\* (MQTTSNGWClientList.cpp:469).
AtMostMax == Len(list) <= Config.max

\* OnlyRegistered: with ClientAuthentication every client in the list stands
\* in the clients file (MQTTSNGWClientRecvTask.cpp:213).
OnlyRegistered ==
    Config.auth => \A i \in 1..Len(list) :
                       \E j \in 1..Len(ClientLines) : ClientLines[j][1] = list[i].id

\* HasItsTopics: a device whose packets are given to its own client finds all
\* its predefined topics there (MQTTSNGWClientList.cpp:427).
HasItsTopics ==
    Config.predefined /\ last.client # 0 /\ list[last.client].id = last.id =>
        {TopicLines[i][2] : i \in {j \in 1..Len(TopicLines) : TopicLines[j][1] = last.id}}
            \subseteq list[last.client].topics
=============================================================================
