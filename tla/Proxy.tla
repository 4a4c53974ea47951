------------------------------- MODULE Proxy --------------------------------
(***************************************************************************)
(* The gateway's own connections to the broker: the clients of an Adapter  *)
(* (QoSm1Proxy, Aggregater), one plain and, when TLS is configured, one    *)
(* secure, each kept up by a Proxy with a keep-alive and a response timer. *)
(* PacketHandleTask checks them when its queue stays empty, BrokerSendTask *)
(* and BrokerRecvTask carry their packets, and ClientSendTask hands the    *)
(* broker's answers to Adapter::send instead of the sensor network.  The   *)
(* two clients exist here; whether they do is a question of ClientList.    *)
(***************************************************************************)
EXTENDS Naturals, Sequences, FiniteSets

CONSTANTS Proxies,      \* {"plain"} or {"plain", "secure"}
          MaxRetries,   \* PROXY_MAX_RETRY_CNT
          MaxLapses,    \* bound: response timers that run out before an answer
          MaxFaults,    \* bound: connections refused, CONNECTs rejected, sends that fail
          MaxPublishes  \* bound: PUBLISHes of QoS -1 devices

VARIABLES status,   \* _status of each proxy's client
          timers,   \* _keepAliveTimer, _responseTimer, _isWaitingResp, _retryCnt
          packetQ, brokerQ, clientQ,
          sent,     \* the proxies whose CONNECT was sent, before connectSended()
          link,     \* the TCP connection of each proxy and the broker's session
          lapses, faults, publishes  \* what happened so far, within the bounds

vars == <<status, timers, packetQ, brokerQ, clientQ, sent, link, lapses, faults, publishes>>

NoLink == [open |-> FALSE, session |-> FALSE, closed |-> FALSE, in |-> <<>>, out |-> <<>>]
To(p, type) == [proxy |-> p, type |-> type]

Init ==
    /\ status = [p \in Proxies |-> "disconnected"]
    /\ timers = [p \in Proxies |-> [keep |-> "off", resp |-> "off",
                                    waiting |-> FALSE, retries |-> 0]]
    /\ packetQ = <<>> /\ brokerQ = <<>> /\ clientQ = <<>>
    /\ sent = {}
    /\ link = [p \in Proxies |-> NoLink]
    /\ lapses = 0 /\ faults = 0 /\ publishes = 0

\* A packet of p is under way, between the gateway's tasks or to or from the broker.
UnderWay(p) ==
    \/ \E q \in {packetQ, brokerQ, clientQ} : \E i \in 1..Len(q) : q[i].proxy = p
    \/ p \in sent \/ link[p].in # <<>> \/ link[p].out # <<>> \/ link[p].closed

-----------------------------------------------------------------------------
(* The timers                                                              *)

\* 900 s after the last start: everything has settled by then.
KeepAliveUp(p) ==
    /\ timers[p].keep = "on" /\ ~UnderWay(p)
    /\ timers' = [timers EXCEPT ![p].keep = "up"]
    /\ UNCHANGED <<status, packetQ, brokerQ, clientQ, sent, link, lapses, faults, publishes>>

\* 10 s after the start; the answer may be under way.
ResponseUp(p) ==
    /\ timers[p].resp = "on"
    /\ UnderWay(p) => lapses < MaxLapses
    /\ lapses' = IF UnderWay(p) THEN lapses + 1 ELSE lapses
    /\ timers' = [timers EXCEPT ![p].resp = "up"]
    /\ UNCHANGED <<status, packetQ, brokerQ, clientQ, sent, link, faults, publishes>>

-----------------------------------------------------------------------------
(* PacketHandleTask                                                        *)

MustConnect(p) ==
    status[p] = "disconnected" \/ (status[p] = "connecting" /\ timers[p].resp = "up")
MustPing(p) ==
    /\ ~MustConnect(p)
    /\ \/ status[p] = "active" /\ timers[p].keep = "up"
       \/ timers[p].waiting /\ timers[p].resp = "up"

\* Variant: a CONNECT is sent without the timer that would repeat it.
CheckedNoTimer(p) ==
    [timers[p] EXCEPT !.waiting = @ \/ MustPing(p),
                      !.retries = IF MustPing(p) THEN @ + 1 ELSE @,
                      !.resp = IF MustPing(p) THEN "on" ELSE @,
                      !.keep = IF MustPing(p) THEN "on" ELSE @]

\* The timers after checkConnection.
Checked(p) ==
    CASE MustConnect(p) -> [timers[p] EXCEPT !.resp = "on"]
      [] MustPing(p) -> [timers[p] EXCEPT !.resp = "on", !.keep = "on", !.waiting = TRUE,
                                          !.retries = @ + 1]
      [] OTHER -> timers[p]

\* The status after it: a proxy gives its connection up after MaxRetries pings.
CheckedStatus(p) ==
    CASE MustConnect(p) -> "connecting"
      [] MustPing(p) /\ Checked(p).retries > MaxRetries -> "disconnected"
      [] OTHER -> status[p]

Posted(p) == CASE MustConnect(p) -> <<To(p, "CONNECT")>>
               [] MustPing(p)    -> <<To(p, "PINGREQ")>>
               [] OTHER          -> <<>>

\* EtTimeout: the queue stayed empty.
CheckConnection ==
    /\ packetQ = <<>>
    /\ \E p \in Proxies : MustConnect(p) \/ MustPing(p)
    /\ timers' = [p \in Proxies |-> Checked(p)]
    /\ status' = [p \in Proxies |-> CheckedStatus(p)]
    /\ packetQ' = Posted("plain") \o (IF "secure" \in Proxies THEN Posted("secure") ELSE <<>>)
    /\ UNCHANGED <<brokerQ, clientQ, sent, link, lapses, faults, publishes>>

\* A packet of a proxy or of one of its QoS -1 devices goes to the broker.
FromProxy ==
    /\ packetQ # <<>> /\ Head(packetQ).type \in {"CONNECT", "PINGREQ", "PUBLISH"}
    /\ packetQ' = Tail(packetQ) /\ brokerQ' = Append(brokerQ, Head(packetQ))
    /\ UNCHANGED <<status, timers, clientQ, sent, link, lapses, faults, publishes>>

FromBroker ==
    LET e == Head(packetQ) IN
    /\ packetQ # <<>> /\ e.type \in {"CONNACK", "REFUSED", "PINGRESP"}
    /\ packetQ' = Tail(packetQ) /\ clientQ' = Append(clientQ, e)
    /\ status' = [status EXCEPT ![e.proxy] = CASE e.type = "CONNACK" -> "active"
                                               [] e.type = "REFUSED" -> "disconnected"
                                               [] OTHER              -> @]
    /\ UNCHANGED <<timers, brokerQ, sent, link, lapses, faults, publishes>>

\* The DISCONNECT that BrokerSendTask posts when a send fails.
SendFailed ==
    /\ packetQ # <<>> /\ Head(packetQ).type = "DISCONNECT"
    /\ packetQ' = Tail(packetQ)
    /\ status' = [status EXCEPT ![Head(packetQ).proxy] = "disconnected"]
    /\ UNCHANGED <<timers, brokerQ, clientQ, sent, link, lapses, faults, publishes>>

-----------------------------------------------------------------------------
(* BrokerSendTask: every packet for the broker restarts the keep-alive     *)
(* timer of its proxy; a CONNECT replaces the connection, any other packet *)
(* opens one when there is none.                                           *)

Takes(p) == brokerQ # <<>> /\ Head(brokerQ).proxy = p /\ sent = {}
Resets(p) == timers' = [timers EXCEPT ![p].keep = "on"]
Opened(p) == IF Head(brokerQ).type = "CONNECT" \/ ~link[p].open
             THEN [NoLink EXCEPT !.open = TRUE] ELSE link[p]

BrokerSend(p) ==
    /\ Takes(p) /\ Resets(p)
    /\ brokerQ' = Tail(brokerQ)
    /\ link' = [link EXCEPT ![p] = [Opened(p) EXCEPT !.in = Append(@, Head(brokerQ).type)]]
    /\ sent' = IF Head(brokerQ).type = "CONNECT" THEN {p} ELSE {}
    /\ UNCHANGED <<status, packetQ, clientQ, lapses, faults, publishes>>

\* connectSended(), when the answer may already have been handled.
BrokerSent(p) ==
    /\ p \in sent /\ sent' = {}
    /\ status' = [status EXCEPT ![p] = "connecting"]
    /\ UNCHANGED <<timers, packetQ, brokerQ, clientQ, link, lapses, faults, publishes>>

\* The broker cannot be reached: the packet is dropped and nobody is told.
ConnectFails(p) ==
    /\ Takes(p) /\ Resets(p)
    /\ faults < MaxFaults /\ faults' = faults + 1
    /\ Head(brokerQ).type = "CONNECT" \/ ~link[p].open
    /\ brokerQ' = Tail(brokerQ)
    /\ link' = [link EXCEPT ![p] = NoLink]
    /\ UNCHANGED <<status, packetQ, clientQ, sent, lapses, publishes>>

SendFails(p) ==
    /\ Takes(p) /\ Resets(p)
    /\ faults < MaxFaults /\ faults' = faults + 1
    /\ brokerQ' = Tail(brokerQ)
    /\ link' = [link EXCEPT ![p] = NoLink]
    /\ packetQ' = Append(packetQ, To(p, "DISCONNECT"))
    /\ UNCHANGED <<status, clientQ, sent, lapses, publishes>>

-----------------------------------------------------------------------------
(* BrokerRecvTask                                                          *)

BrokerRecv(p) ==
    /\ link[p].out # <<>>
    /\ link' = [link EXCEPT ![p].out = Tail(@)]
    /\ packetQ' = Append(packetQ, To(p, Head(link[p].out)))
    /\ UNCHANGED <<status, timers, brokerQ, clientQ, sent, lapses, faults, publishes>>

BrokerRecvClosed(p) ==
    /\ link[p].closed /\ link[p].out = <<>>
    /\ link' = [link EXCEPT ![p] = NoLink]
    /\ status' = [status EXCEPT ![p] = "disconnected"]
    /\ UNCHANGED <<timers, packetQ, brokerQ, clientQ, sent, lapses, faults, publishes>>

-----------------------------------------------------------------------------
(* ClientSendTask: Adapter::send.  Every answer goes to the plain proxy:   *)
(* the branch that would choose the secure one cannot be reached.          *)

Receiver(p) == "plain"

\* Proxy::recv
Answered(t, type) ==
    CASE type = "CONNACK"  -> [t EXCEPT !.resp = "off", !.retries = 0, !.keep = "on"]
      [] type = "PINGRESP" -> [t EXCEPT !.waiting = FALSE, !.resp = "off", !.retries = 0,
                                        !.keep = "on"]
      [] OTHER             -> t

ClientSend ==
    /\ clientQ # <<>> /\ clientQ' = Tail(clientQ)
    /\ LET r == Receiver(Head(clientQ).proxy) IN
       timers' = [timers EXCEPT ![r] = Answered(@, Head(clientQ).type)]
    /\ UNCHANGED <<status, packetQ, brokerQ, sent, link, lapses, faults, publishes>>

-----------------------------------------------------------------------------
(* QoS -1 devices and the broker                                           *)

\* ClientRecvTask takes nothing but PUBLISH from a QoS -1 device, in the name
\* of the plain proxy and unless that one is disconnected.
Publish(p) ==
    /\ p = "plain" /\ status[p] # "disconnected"
    /\ publishes < MaxPublishes /\ publishes' = publishes + 1
    /\ packetQ' = Append(packetQ, To(p, "PUBLISH"))
    /\ UNCHANGED <<status, timers, brokerQ, clientQ, sent, link, lapses, faults>>

\* A session begins with CONNECT; anything else closes the connection.
Broker(p) ==
    LET l == link[p]
        rest == [l EXCEPT !.in = Tail(@)]
        refused == [rest EXCEPT !.out = Append(@, "REFUSED"), !.closed = TRUE]
    IN
    /\ l.in # <<>> /\ ~l.closed
    /\ \/ /\ ~l.session /\ Head(l.in) = "CONNECT"
          /\ link' = [link EXCEPT ![p] = [rest EXCEPT !.session = TRUE,
                                                      !.out = Append(@, "CONNACK")]]
          /\ UNCHANGED faults
       \/ /\ ~l.session /\ Head(l.in) = "CONNECT"
          /\ faults < MaxFaults /\ faults' = faults + 1
          /\ link' = [link EXCEPT ![p] = refused]
       \/ /\ ~l.session /\ Head(l.in) # "CONNECT"
          /\ link' = [link EXCEPT ![p] = [rest EXCEPT !.closed = TRUE]]
          /\ UNCHANGED faults
       \/ /\ l.session
          /\ link' = [link EXCEPT ![p] =
                IF Head(l.in) = "PINGREQ" THEN [rest EXCEPT !.out = Append(@, "PINGRESP")]
                ELSE rest]
          /\ UNCHANGED faults
    /\ UNCHANGED <<status, timers, packetQ, brokerQ, clientQ, sent, lapses, publishes>>

\* The broker closes a connection whose client sends no PINGREQ in time.
BrokerKeepAlive(p) ==
    /\ link[p].session /\ ~UnderWay(p)
    /\ timers[p].keep = "up" /\ status[p] # "active"
    /\ link' = [link EXCEPT ![p].closed = TRUE]
    /\ UNCHANGED <<status, timers, packetQ, brokerQ, clientQ, sent, lapses, faults, publishes>>

PacketHandle == CheckConnection \/ FromProxy \/ FromBroker \/ SendFailed
BrokerSendStep(p) == BrokerSend(p) \/ BrokerSent(p) \/ ConnectFails(p) \/ SendFails(p)
BrokerRecvStep(p) == BrokerRecv(p) \/ BrokerRecvClosed(p)

Next ==
    \/ PacketHandle \/ ClientSend
    \/ \E p \in Proxies :
          \/ BrokerSendStep(p) \/ BrokerRecvStep(p)
          \/ KeepAliveUp(p) \/ ResponseUp(p)
          \/ Publish(p) \/ Broker(p) \/ BrokerKeepAlive(p)

Spec == Init /\ [][Next]_vars

\* The threads run, timers run out and the broker answers.
FairSpec ==
    /\ Spec
    /\ WF_vars(PacketHandle) /\ WF_vars(ClientSend)
    /\ \A p \in Proxies :
          /\ WF_vars(BrokerSendStep(p)) /\ WF_vars(BrokerRecvStep(p))
          /\ WF_vars(KeepAliveUp(p)) /\ WF_vars(ResponseUp(p) /\ ~UnderWay(p))
          /\ WF_vars(Broker(p)) /\ WF_vars(BrokerKeepAlive(p))

-----------------------------------------------------------------------------
(* Properties                                                              *)

TypeOK ==
    /\ status \in [Proxies -> {"disconnected", "connecting", "active"}]
    /\ timers \in [Proxies -> [keep : {"off", "on", "up"}, resp : {"off", "on", "up"},
                               waiting : BOOLEAN, retries : 0..1 + lapses + faults]]
    /\ \A q \in {packetQ, brokerQ, clientQ} : \A i \in 1..Len(q) : q[i].proxy \in Proxies
    /\ sent \subseteq Proxies

GivesUp(p) == status[p] = "active" /\ MustPing(p) /\ status'[p] = "disconnected"

\* Patience: checkConnection (MQTTSNGWAdapter.cpp:276) gives the connection
\* of a proxy up only after MaxRetries answers were late or lost, by a slow
\* broker, a fault or a PUBLISH that was sent without a session; pings that
\* were answered, on this connection or an earlier one, do not count.
Patience ==
    [][\A p \in Proxies : GivesUp(p) => lapses + faults + publishes >= MaxRetries]_vars

\* Recovers: whatever fails a bounded number of times (connecting, sending,
\* the broker's consent, its promptness), each proxy is active again, or at
\* least again and again (MQTTSNGWAdapter.cpp:242, the check of every timeout).
Recovers == \A p \in Proxies : []<>(status[p] = "active")
=============================================================================
