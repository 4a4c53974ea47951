------------------------------ MODULE MCTasks -------------------------------
(***************************************************************************)
(* What the tasks of the gateway bring to an end: requests of a device and *)
(* of the broker, the gateway's own connections, an event of the sender to *)
(* the broker, the gateway itself.  A behaviour begins with the choice of  *)
(* a part; the other modules rest in their initial states.                 *)
(***************************************************************************)
EXTENDS Naturals, Sequences

CONSTANT c1

VARIABLES part,
          status, topics, pubMap, subMap, saved, packetQ, brokerQ, clientQ, dev, srv, left,  \* PubSub
          proxy, timers, proxyQ, proxyBrokerQ, proxyClientQ, connected, link, lapses, faults,
          publishes,                                                                         \* Proxy
          theSignaled, signals, main, stopFlg, posted, task, lock, seen, stopCount,          \* Tasks
          sock, ssl, sslValid, busy, holder, instances, ctx, broker, greeted, input, half,
          packets, active, S, R                                                              \* Network

pubVars == <<status, topics, pubMap, subMap, saved, packetQ, brokerQ, clientQ, dev, srv, left>>
proxyVars == <<proxy, timers, proxyQ, proxyBrokerQ, proxyClientQ, connected, link, lapses, faults, publishes>>
taskVars == <<theSignaled, signals, main, stopFlg, posted, task, lock, seen, stopCount>>
netVars == <<sock, ssl, sslValid, busy, holder, instances, ctx, broker, greeted, input, half, packets, active, S, R>>
vars == <<part, pubVars, proxyVars, taskVars, netVars>>

-----------------------------------------------------------------------------
(* PubSub: a topic of each kind, publications of QoS 1 and 2 each way.     *)
PS == INSTANCE PubSub WITH
    TopicNames <- {"t", "t/#", "p", "ab"}, MaxTopics <- 3, MaxTid <- 4, MaxInflight <- 1,
    ShortIds <- [n \in {"ab"} |-> 97], HostIds <- [n \in {"ab"} |-> 98], Filters <- {"t/#"}, Predefined <- [i \in {3} |-> "p"],
    Registrable <- {"t"}, DeviceQos <- {1, 2}, MaxMsgId <- 2, MaxRequests <- 2,
    MaxFaults <- 0, MaxRests <- 0, MaxSaved <- 1, CleanFrom <- {},
    Publications <- {[topic |-> "t", qos |-> 2, n |-> 1], [topic |-> "p", qos |-> 1, n |-> 2]}
ASSUME PS!PubSubAssumption /\ PS!MapAssumption /\ PS!ListAssumption

PubNext == part = "pubsub" /\ PS!Next /\ UNCHANGED <<part, proxyVars, taskVars, netVars>>
PubFairness ==
    /\ WF_pubVars(part = "pubsub" /\ PS!PacketHandle)
    /\ WF_pubVars(part = "pubsub" /\ PS!ServerTakes)
    /\ WF_pubVars(part = "pubsub" /\ PS!DeviceTakes)

-----------------------------------------------------------------------------
(* Proxy: the plain connection, with a fault, with answers that are late.  *)
Faults == INSTANCE Proxy WITH
    Proxies <- {"plain"}, MaxRetries <- 3, MaxLapses <- 0, MaxFaults <- 1, MaxPublishes <- 1,
    status <- proxy, packetQ <- proxyQ, brokerQ <- proxyBrokerQ, clientQ <- proxyClientQ, sent <- connected
Refused == INSTANCE Proxy WITH
    Proxies <- {"plain"}, MaxRetries <- 3, MaxLapses <- 0, MaxFaults <- 1, MaxPublishes <- 0,
    status <- proxy, packetQ <- proxyQ, brokerQ <- proxyBrokerQ, clientQ <- proxyClientQ, sent <- connected
Late == INSTANCE Proxy WITH
    Proxies <- {"plain"}, MaxRetries <- 3, MaxLapses <- 4, MaxFaults <- 0, MaxPublishes <- 0,
    status <- proxy, packetQ <- proxyQ, brokerQ <- proxyBrokerQ, clientQ <- proxyClientQ, sent <- connected
ProxyNext ==
    /\ \/ part = "faults" /\ Faults!Next
       \/ part = "refused" /\ Refused!Next
       \/ part = "late" /\ Late!Next
    /\ UNCHANGED <<part, pubVars, taskVars, netVars>>
\* The bounds that tell the settings apart are those of these two steps.
BrokerSendStep == \/ part = "refused" /\ Refused!BrokerSendStep("plain")
                  \/ part = "late" /\ Late!BrokerSendStep("plain")
Broker == \/ part = "refused" /\ Refused!Broker("plain")
          \/ part = "late" /\ Late!Broker("plain")
Kept == part \in {"refused", "late"}
ProxyFairness ==
    /\ WF_proxyVars(Kept /\ Late!PacketHandle) /\ WF_proxyVars(Kept /\ Late!ClientSend)
    /\ WF_proxyVars(BrokerSendStep) /\ WF_proxyVars(Kept /\ Late!BrokerRecvStep("plain"))
    /\ WF_proxyVars(Kept /\ Late!KeepAliveUp("plain"))
    /\ WF_proxyVars(Kept /\ Late!ResponseUp("plain") /\ ~Late!UnderWay("plain"))
    /\ WF_proxyVars(Broker) /\ WF_proxyVars(Kept /\ Late!BrokerKeepAlive("plain"))

-----------------------------------------------------------------------------
(* Tasks: CTRL+C, twice, and two of the tasks that throw an exception.     *)
TS == INSTANCE Tasks WITH
    Signals <- {"INT"}, MaxSignals <- 2, Failing <- {"clientRecv", "packet"}, sent <- signals
TaskNext == part = "tasks" /\ TS!Next /\ UNCHANGED <<part, pubVars, proxyVars, netVars>>
TaskFairness ==
    /\ WF_taskVars(part = "tasks" /\ TS!MainStep)
    /\ \A t \in TS!Tasks : /\ WF_taskVars(part = "tasks" /\ (TS!RunEnds(t) \/ TS!Counted(t)))
                           /\ SF_taskVars(part = "tasks" /\ TS!ThreadStopped(t))

-----------------------------------------------------------------------------
(* Network: one client's connection without TLS.                           *)
Net == INSTANCE Network WITH
    Clients <- {c1}, Secure <- FALSE, Tickets <- FALSE,
    Kinds <- {"CONNECT", "other", "DISCONNECT"}, MaxPackets <- 2
NetNext == part = "network" /\ Net!Next /\ UNCHANGED <<part, pubVars, proxyVars, taskVars>>
NetFairness ==
    /\ WF_netVars(part = "network" /\ Net!SStep) /\ WF_netVars(part = "network" /\ Net!RNext)
    /\ WF_netVars(part = "network" /\ Net!BrokerSendsRest(c1))

-----------------------------------------------------------------------------
Init == /\ part \in {"pubsub", "faults", "refused", "late", "tasks", "network"}
        /\ PS!Init /\ Late!Init /\ TS!Init /\ Net!Init
Next == PubNext \/ ProxyNext \/ TaskNext \/ NetNext
Spec == Init /\ [][Next]_vars /\ PubFairness /\ ProxyFairness /\ TaskFairness /\ NetFairness

(* Every request of the device and of the broker is answered (PubSub).     *)
AllAnswered == PS!AllAnswered
(* A proxy gives up after its last retry only, and gets its connection     *)
(* back (Proxy).                                                           *)
ProxyRecovers ==
    /\ [](IF part = "late" THEN Late!TypeOK ELSE Faults!TypeOK)
    /\ Late!Patience
    /\ []<>(Kept => proxy["plain"] = "active")
(* CTRL+C or the failure of a task ends the gateway, whose memory outlives *)
(* its tasks (Tasks).                                                      *)
StopsClean == [](TS!TypeOK /\ TS!NoEarlyEnd) /\ TS!Stops
(* The sender comes to the end of every event; a connection that was said  *)
(* to be closed by the broker is (Network).                                *)
ConnectionsEnd == Net!EventDone /\ Net!GoneIsGone
=============================================================================
