---------------------------- MODULE DeviceProxy ----------------------------
(***************************************************************************)
(* LGwProxy of the tester's client: how a device finds the gateway, makes  *)
(* a session with its will, keeps it alive, sleeps, wakes up and leaves.   *)
(* The device is one thread; the loops of connect() and disconnect() and   *)
(* the main loop that calls getMessage() read the same socket, each with   *)
(* its own idea of which messages count.  The gateway is modelled as far   *)
(* as the device sees it.  Between them the packets keep their order; they *)
(* may be lost, or answered after the device has given up waiting.         *)
(***************************************************************************)
EXTENDS Integers, Sequences

CONSTANTS Retries,       \* MQTTSN_RETRY_COUNT
          HasWill,       \* a will topic and a will message are configured
          Clean,         \* _cleanSession
          Broadcast,     \* _network.isBroadcastable()
          AutoConnect,   \* client mode: run() begins with connect()
          WillRefused,   \* the gateway answers WILLTOPIC with DISCONNECT
          Periods,       \* keep-alive periods of a sleep, 0: never sleeps
          MaxFaults,     \* bound on losses, late answers and refusals
          MaxEvents      \* bound on calls of the user and on ADVERTISE

DeviceProxyAssumption ==
    /\ Retries \in Nat \ {0}
    /\ {Periods, MaxFaults, MaxEvents} \subseteq Nat
    /\ {HasWill, Clean, Broadcast, AutoConnect, WillRefused} \subseteq BOOLEAN

VARIABLES dev,      \* the fields of LGwProxy and the loop it is in
          gw,       \* the gateway's view of the device
          up, down, \* packets to the gateway and to the device
          faults,   \* what may still go wrong
          events    \* what the user and the gateway may still begin

vars == <<dev, gw, up, down, faults, events>>

Waiting == {"searching", "wait willtopicreq", "wait willmsgreq", "wait connack"}
Statuses == Waiting \cup {"lost", "connecting", "send willtopic",
    "send willmsg", "connected", "disconnecting", "sleeping",
    "disconnected", "slept"}
Requests == {"SEARCHGW", "CONNECT", "WILLTOPIC", "WILLMSG", "SLEEP",
             "DISCONNECT", "PINGREQ", "SUBSCRIBE"}
Answers == {"GWINFO", "CONNACK", "REFUSED", "WILLTOPICREQ", "WILLMSGREQ",
            "DISCONNECT", "PINGRESP", "SUBACK", "ADVERTISE"}

Init == /\ dev = [pc |-> "main", status |-> "lost", msg |-> "none",
                  retry |-> 0, connectRetry |-> Retries, ping |-> 0,
                  sleep |-> 0, wake |-> 0, initialized |-> TRUE,
                  subs |-> "none", subRetry |-> 0,
                  keepAlive |-> FALSE, alive |-> FALSE]
        /\ gw = [st |-> "none", will |-> "none", subs |-> FALSE]
        /\ up = <<>> /\ down = <<>>
        /\ faults = MaxFaults /\ events = MaxEvents

Env == <<gw, faults, events>>

-----------------------------------------------------------------------------
Transmit(m) == up' = Append(up, m)

\* writeGwMsg: the request stays in _msg for the retries.
Request(m, status) ==
    /\ dev' = [dev EXCEPT !.msg = m, !.status = status, !.retry = Retries]
    /\ Transmit(m)
    /\ UNCHANGED <<Env, down>>

\* Time runs out: nothing is on its way, or an answer is late.
TimeRunsOut ==
    /\ \/ up = <<>> /\ down = <<>> /\ UNCHANGED faults
       \/ /\ up # <<>> \/ down # <<>>
          /\ faults > 0 /\ faults' = faults - 1
    /\ UNCHANGED <<gw, events, down>>

Hears(m) == /\ down # <<>> /\ Head(down) = m
            /\ down' = Tail(down)
            /\ UNCHANGED Env

\* run() and the user's tasks go on when the subscriptions are done.
Free == dev.pc = "main" /\ dev.subs # "asked"

Calls == events > 0 /\ events' = events - 1 /\ UNCHANGED <<gw, down, faults>>

\* run() connects by itself in client mode, the user does in test mode.
BeginConnect ==
    /\ Free /\ dev.status # "connected"
    /\ IF AutoConnect THEN UNCHANGED <<Env, down>> ELSE Calls
    /\ dev' = [dev EXCEPT !.pc = "connect"]
    /\ UNCHANGED up

\* reconnect(), when a PUBLISH has used up its retries.
Reconnect ==
    /\ AutoConnect /\ dev.pc = "main" /\ ~dev.initialized /\ Calls
    /\ dev' = [dev EXCEPT !.pc = "connect", !.status = "disconnected"]
    /\ UNCHANGED up

Search ==
    /\ dev.pc = "connect" /\ dev.status = "lost"
    /\ IF Broadcast THEN Request("SEARCHGW", "searching")
       ELSE /\ dev' = [dev EXCEPT !.status = "connecting"]
            /\ UNCHANGED <<Env, up, down>>

\* `_status != GW_SLEPT' is tested after _status was set: always true.
SendConnect ==
    /\ dev.pc = "connect"
    /\ dev.status \in {"connecting", "disconnected", "slept"}
    /\ dev' = [dev EXCEPT !.msg = "CONNECT", !.retry = Retries,
                          !.connectRetry = Retries,
                          !.status = IF HasWill THEN "wait willtopicreq"
                                     ELSE "wait connack"]
    /\ Transmit("CONNECT")
    /\ UNCHANGED <<Env, down>>

SendWillTopic == /\ dev.pc = "connect" /\ dev.status = "send willtopic"
                 /\ Request("WILLTOPIC", "wait willmsgreq")

SendWillMsg == /\ dev.pc = "connect" /\ dev.status = "send willmsg"
               /\ Request("WILLMSG", "wait connack")

\* getConnectResponce without a message.
ConnectTimeout ==
    /\ dev.pc = "connect" /\ dev.status \in Waiting
    /\ TimeRunsOut
    /\ LET left == IF dev.msg = "CONNECT" THEN dev.connectRetry - 1
                   ELSE dev.connectRetry
           spent == [dev EXCEPT !.connectRetry = left, !.retry = @ - 1]
       IN  IF spent.retry > 0
           THEN Transmit(dev.msg) /\ dev' = spent
           ELSE /\ dev' = [spent EXCEPT !.status =
                     IF dev.status # "searching" /\ left > 0
                     THEN "connecting" ELSE "lost"]
                /\ UNCHANGED up

\* CONNACK: onConnect() subscribes in client mode, unless the device comes
\* from a sleep.
Accepted ==
    LET connected == [dev EXCEPT !.status = "connected", !.keepAlive = TRUE,
                        !.connectRetry = Retries, !.sleep = 0, !.pc = "main"]
    IN  /\ dev.status = "wait connack"
        /\ IF dev.sleep = 0 /\ (Clean \/ dev.initialized)
           THEN IF AutoConnect
                THEN /\ dev' = [connected EXCEPT !.initialized = FALSE,
                                  !.subs = "asked", !.subRetry = Retries]
                     /\ Transmit("SUBSCRIBE")
                ELSE /\ dev' = [connected EXCEPT !.initialized = FALSE]
                     /\ UNCHANGED up
           ELSE dev' = connected /\ UNCHANGED up

Moves(from, to) == /\ dev.status = from
                   /\ dev' = [dev EXCEPT !.status = to]
                   /\ UNCHANGED up

ConnectReceive ==
    /\ dev.pc = "connect" /\ dev.status \in Waiting
    /\ \/ Hears("GWINFO") /\ Moves("searching", "connecting")
       \/ Hears("WILLTOPICREQ") /\ Moves("wait willtopicreq", "send willtopic")
       \/ Hears("WILLMSGREQ") /\ Moves("wait willmsgreq", "send willmsg")
       \/ Hears("CONNACK") /\ Accepted
       \/ Hears("REFUSED") /\ Moves("wait connack", "connecting")

\* Every other message is dropped.
ConnectDrop ==
    /\ dev.pc = "connect" /\ dev.status \in Waiting
    /\ down # <<>>
    /\ <<Head(down), dev.status>> \notin
           {<<"GWINFO", "searching">>, <<"WILLTOPICREQ", "wait willtopicreq">>,
            <<"WILLMSGREQ", "wait willmsgreq">>, <<"CONNACK", "wait connack">>,
            <<"REFUSED", "wait connack">>}
    /\ down' = Tail(down)
    /\ UNCHANGED <<Env, dev, up>>

-----------------------------------------------------------------------------
\* disconnect(secs)
BeginDisconnect ==
    /\ Free /\ dev.status = "connected" /\ Calls
    /\ \/ /\ Periods > 0
          /\ dev' = [dev EXCEPT !.pc = "disconnect", !.status = "sleeping",
                       !.msg = "SLEEP", !.retry = Retries,
                       !.sleep = Periods, !.wake = 0]
          /\ Transmit("SLEEP")
       \/ /\ dev' = [dev EXCEPT !.pc = "disconnect", !.keepAlive = FALSE,
                       !.status = "disconnecting", !.msg = "DISCONNECT",
                       !.retry = Retries, !.sleep = 0, !.wake = 0]
          /\ Transmit("DISCONNECT")

DisconnectTimeout ==
    /\ dev.pc = "disconnect"
    /\ TimeRunsOut
    /\ IF dev.retry > 0
       THEN /\ Transmit(dev.msg)
            /\ dev' = [dev EXCEPT !.retry = @ - 1]
       ELSE /\ dev' = [dev EXCEPT !.status = "lost", !.pc = "main"]
            /\ UNCHANGED up

\* getDisconnectResponce: every DISCONNECT is taken for the answer.
DisconnectReceive ==
    /\ dev.pc = "disconnect"
    /\ down # <<>> /\ down' = Tail(down)
    /\ \/ /\ Head(down) = "DISCONNECT"
          /\ dev' = [dev EXCEPT !.pc = "main", !.status =
                       IF @ = "sleeping" THEN "slept" ELSE "disconnected"]
       \/ Head(down) # "DISCONNECT" /\ UNCHANGED dev
    /\ UNCHANGED <<Env, up>>

-----------------------------------------------------------------------------
\* checkPingReq
Ping ==
    /\ dev.pc = "main" /\ dev.status \in {"connected", "slept"}
    /\ dev.keepAlive /\ dev.ping = 0
    /\ dev' = [dev EXCEPT !.ping = Retries]
    /\ Transmit("PINGREQ")
    /\ UNCHANGED <<Env, down>>

\* Variant: the device goes on waiting.
PingTimeoutWaits ==
    /\ dev.pc = "main" /\ dev.ping > 0
    /\ TimeRunsOut
    /\ UNCHANGED <<dev, up>>

PingTimeout ==
    /\ dev.pc = "main" /\ dev.ping > 0
    /\ TimeRunsOut
    /\ IF dev.ping > 1
       THEN /\ dev' = [dev EXCEPT !.ping = @ - 1]
            /\ Transmit("PINGREQ")
       ELSE /\ dev' = [dev EXCEPT !.status = "lost", !.ping = 0,
                                  !.keepAlive = FALSE]
            /\ UNCHANGED up

\* checkAdvertise
AdvertiseTimeout ==
    /\ dev.pc = "main" /\ dev.alive
    /\ dev' = [dev EXCEPT !.status = "lost", !.ping = 0,
                          !.alive = FALSE, !.keepAlive = FALSE]
    /\ UNCHANGED <<Env, up, down>>

\* LSubscribeManager::checkTimeout
SubscribeTimeout ==
    /\ dev.pc = "main" /\ dev.subs = "asked"
    /\ TimeRunsOut
    /\ CASE dev.subRetry = 0 -> /\ dev' = [dev EXCEPT !.subs = "given up"]
                                /\ UNCHANGED up
         [] dev.subRetry > 0 /\ dev.status = "connected" ->
              /\ dev' = [dev EXCEPT !.subRetry = @ - 1]
              /\ Transmit("SUBSCRIBE")
         [] OTHER -> dev' = [dev EXCEPT !.pc = "connect"] /\ UNCHANGED up

\* PINGRESP: a sleeping device counts the periods it has slept.
Woken ==
    LET heard == [dev EXCEPT !.ping = 0, !.keepAlive = TRUE]
    IN  /\ dev.ping > 0
        /\ dev' = CASE dev.sleep = 0 -> heard
                    [] dev.sleep > 0 /\ dev.wake + 1 < dev.sleep ->
                         [heard EXCEPT !.wake = @ + 1]
                    [] OTHER -> [heard EXCEPT !.wake = 0, !.pc =
                            IF dev.status = "connected" THEN @ ELSE "connect"]
        /\ UNCHANGED up

\* getMessage with a message.
Receive ==
    /\ dev.pc = "main"
    /\ \/ Hears("PINGRESP") /\ Woken
       \/ /\ Hears("DISCONNECT")
          /\ dev' = [dev EXCEPT !.status = "disconnected",
                                !.alive = FALSE, !.keepAlive = FALSE]
          /\ UNCHANGED up
       \/ /\ Hears("ADVERTISE")
          /\ dev' = [dev EXCEPT !.alive = TRUE] /\ UNCHANGED up
       \/ /\ Hears("SUBACK")
          /\ dev' = [dev EXCEPT !.subs = IF @ = "asked" THEN "done" ELSE @]
          /\ UNCHANGED up

Ignore ==
    /\ dev.pc = "main" /\ down # <<>>
    /\ \/ Head(down) \notin {"PINGRESP", "DISCONNECT", "ADVERTISE", "SUBACK"}
       \/ Head(down) = "PINGRESP" /\ dev.ping = 0
    /\ down' = Tail(down)
    /\ UNCHANGED <<Env, dev, up>>

-----------------------------------------------------------------------------
\* The gateway takes the next packet.
Takes(m) == /\ up # <<>> /\ Head(up) = m
            /\ up' = Tail(up)
            /\ UNCHANGED <<dev, events>>

Answer(m) == down' = Append(down, m) /\ UNCHANGED faults

GwSearched == Takes("SEARCHGW") /\ Answer("GWINFO") /\ UNCHANGED gw

\* handleConnect: a sleeping client keeps its session, others begin one.
GwConnect ==
    /\ Takes("CONNECT")
    /\ \/ /\ gw.st = "asleep"
          /\ gw' = [gw EXCEPT !.st = "active"] /\ Answer("CONNACK")
       \/ LET fresh == [gw EXCEPT !.st = "none", !.will = "none",
                                  !.subs = @ /\ ~Clean]
          IN  /\ gw.st # "asleep"
              /\ \/ HasWill /\ gw' = fresh /\ Answer("WILLTOPICREQ")
                 \/ /\ ~HasWill
                    /\ gw' = [fresh EXCEPT !.st = "active"] /\ Answer("CONNACK")
                 \/ /\ ~HasWill /\ faults > 0      \* the broker says no
                    /\ faults' = faults - 1
                    /\ gw' = fresh /\ down' = Append(down, "REFUSED")

\* ClientRecvTask: who is not connected is told so.
GwNotConnected ==
    /\ \E m \in {"SLEEP", "DISCONNECT", "PINGREQ", "SUBSCRIBE"}
              \cup (IF WillRefused THEN {"WILLTOPIC", "WILLMSG"} ELSE {}) :
          Takes(m)
    /\ gw.st = "none" /\ Answer("DISCONNECT") /\ UNCHANGED gw

GwWill ==
    /\ gw.st = "active" \/ ~WillRefused
    /\ \/ /\ Takes("WILLTOPIC") /\ Answer("WILLMSGREQ")
          /\ gw' = [gw EXCEPT !.will = "asked"]
       \/ /\ Takes("WILLMSG") /\ gw.will = "asked" /\ Answer("CONNACK")
          /\ gw' = [gw EXCEPT !.will = "kept", !.st = "active"]
       \/ /\ Takes("WILLMSG") /\ gw.will # "asked"
          /\ UNCHANGED <<gw, down, faults>>

\* DISCONNECT with a duration: the second one disconnects a sleeping client.
GwSleep ==
    /\ Takes("SLEEP") /\ gw.st # "none"
    /\ gw' = [gw EXCEPT !.st = IF @ = "active" THEN "asleep" ELSE "none"]
    /\ Answer("DISCONNECT")

GwDisconnect ==
    /\ Takes("DISCONNECT") /\ gw.st # "none"
    /\ gw' = [gw EXCEPT !.st = "none", !.subs = @ /\ ~Clean]
    /\ Answer("DISCONNECT")

GwServe == /\ gw.st # "none"
           /\ \/ Takes("PINGREQ") /\ Answer("PINGRESP") /\ UNCHANGED gw
              \/ /\ Takes("SUBSCRIBE") /\ Answer("SUBACK")
                 /\ gw' = [gw EXCEPT !.subs = TRUE]

Gateway == \/ GwSearched \/ GwConnect \/ GwNotConnected \/ GwWill
           \/ GwSleep \/ GwDisconnect \/ GwServe

\* The broker closes the connection; the session ends.
GwDrops == /\ gw.st = "active" /\ faults > 0 /\ faults' = faults - 1
           /\ gw' = [gw EXCEPT !.st = "none", !.subs = @ /\ ~Clean]
           /\ down' = Append(down, "DISCONNECT")
           /\ UNCHANGED <<dev, up, events>>

GwAdvertises == /\ events > 0 /\ events' = events - 1
                /\ down' = Append(down, "ADVERTISE")
                /\ UNCHANGED <<dev, gw, up, faults>>

Lose == /\ faults > 0 /\ faults' = faults - 1
        /\ \/ up # <<>> /\ up' = Tail(up) /\ UNCHANGED down
           \/ down # <<>> /\ down' = Tail(down) /\ UNCHANGED up
        /\ UNCHANGED <<dev, gw, events>>

-----------------------------------------------------------------------------
ConnectLoop == \/ Search \/ SendConnect \/ SendWillTopic \/ SendWillMsg
               \/ ConnectTimeout \/ ConnectReceive \/ ConnectDrop
DisconnectLoop == DisconnectTimeout \/ DisconnectReceive
MainLoop == \/ Ping \/ PingTimeout \/ AdvertiseTimeout \/ SubscribeTimeout
            \/ Receive \/ Ignore

Next == \/ BeginConnect \/ Reconnect \/ ConnectLoop \/ BeginDisconnect \/ DisconnectLoop
        \/ MainLoop \/ Gateway \/ GwDrops \/ GwAdvertises \/ Lose

Spec == Init /\ [][Next]_vars

\* The loops of the device go on and the gateway answers.
Fairness == /\ WF_vars(BeginConnect /\ AutoConnect)
            /\ WF_vars(ConnectLoop) /\ WF_vars(DisconnectLoop)
            /\ WF_vars(Receive \/ Ignore) /\ WF_vars(Ping)
            /\ WF_vars(PingTimeout) /\ WF_vars(SubscribeTimeout)
            /\ WF_vars(Gateway)

FairSpec == Spec /\ Fairness

-----------------------------------------------------------------------------
TypeOK ==
    /\ dev.pc \in {"main", "connect", "disconnect"}
    /\ dev.status \in Statuses
    /\ dev.msg \in Requests \cup {"none"}
    /\ dev.retry \in 0..Retries /\ dev.connectRetry \in 0..Retries
    /\ dev.ping \in 0..Retries /\ dev.subRetry \in 0..Retries
    /\ dev.sleep \in 0..Periods /\ dev.wake \in 0..Periods
    /\ dev.subs \in {"none", "asked", "done", "given up"}
    /\ {dev.initialized, dev.keepAlive, dev.alive} \subseteq BOOLEAN
    /\ gw.st \in {"none", "active", "asleep"}
    /\ gw.will \in {"none", "asked", "kept"} /\ gw.subs \in BOOLEAN
    /\ up \in Seq(Requests) /\ down \in Seq(Answers)
    /\ faults \in 0..MaxFaults /\ events \in 0..MaxEvents

(* A device whose session begins has its subscriptions: the broker holds   *)
(* them, or onConnect() asks for them ("SUBSCRIBEs are conducted").        *)
Subscribes ==
    dev'.status = "connected" /\ dev.status # "connected" /\ gw.st = "active" /\ AutoConnect
      => gw'.subs \/ dev'.subs = "asked"
SessionSubscribed == [][Subscribes]_vars

(* A device with a will that takes itself for connected has given its will *)
(* to the gateway, whatever was repeated or came late on the way.          *)
WillGiven == dev.status = "connected" /\ HasWill => gw.will = "kept"

(* connect() ends once nothing goes wrong any more.                        *)
ConnectEnds == dev.pc = "connect" ~> dev.status = "connected"

(* disconnect() ends: the gateway answers, or the retries are used up.     *)
DisconnectEnds == dev.pc = "disconnect" ~> dev.pc = "main"

(* A device that sleeps gets active again ("Get back to ACTIVE."), or it   *)
(* has noticed that the gateway is gone.                                   *)
WakesUp == dev.status = "slept" ~> dev.status \in {"connected", "lost"}

(* A device that takes itself for connected although the gateway has ended *)
(* its session finds out.                                                  *)
LossNoticed == dev.status = "connected" /\ gw.st = "none"
                   ~> dev.status # "connected" \/ gw.st # "none"
=============================================================================
