# A TLA+ model of the Eclipse Paho MQTT-SN gateway

The repository is an MQTT-SN *transparent / aggregating gateway* (`MQTTSNGateway/`), the packet
library it uses (`MQTTSNPacket/`), a test client (`MQTTSNGateway/GatewayTester/`) and the beginning
of a client library (`MQTTSNClient/`).  This directory holds TLA+ models of the gateway and of the test
client, the TLC runs that check them and TLAPS proofs about them.  All paths below are relative to
`MQTTSNGateway/src/` unless they begin with a directory of the repository's root.

1. [The system](#the-system) - the components, their state and how they interact
2. [The modules](#the-modules) - what is modelled and how it corresponds to the code
3. [The runs](#the-runs) - what TLC checks, the bounds, the fairness
4. [The proofs](#the-proofs)
5. [What the code does not keep](#what-the-code-does-not-keep)
6. [What is not modelled](#what-is-not-modelled)
7. [What could follow](#what-could-follow)

## The system

Five threads and three event queues:

```
 devices (UDP, DTLS, RFCOMM, XBee, LoRaLink)                           MQTT broker (TCP, TLS)
    |                                                                      |        ^
    v                                                                      v        |
 ClientRecvTask --_packetEventQue--> PacketHandleTask --_brokerSendQue--> BrokerSendTask
                        ^                  |
 BrokerRecvTask --------+                  +--_clientSendQue--> ClientSendTask --> devices
```

The threads share the `Client` objects of the `ClientList` *without a lock*.  A `Client` is written by
PacketHandleTask (handlers, then `updateStatus`), by BrokerSendTask (`connectSended`, `disconnected`,
the socket) and by BrokerRecvTask (`disconnected`, the socket); ClientRecvTask reads its status.  The
sensor network is shared by ClientRecvTask (`read`) and ClientSendTask (`unicast`), a `Network` by the two
broker tasks.

| Component | State | Operations | Hard behaviour | What makes it correct |
|---|---|---|---|---|
| `EventQue` (MQTTSNGateway.cpp, Que in MQTTSNGWProcess.h, linux/Threading.cpp) | list, mutex, semaphore, maximum | post, wait, timedwait | `size()` is read without the mutex; the semaphore is not the size | no lost wake-up, FIFO, a timeout only from an empty queue, the stop event arrives |
| `Client` (MQTTSNGWClient.*) | status, will handshake, clean flag, saved packets, packets waiting for REGACK, held PINGREQ, message id counter, topics, id maps, socket | updateStatus, connectSended, connackSended, disconnected, PacketQue, WaitREGACKPacketList | three writers, no lock | the status follows what the device believes; every request answered; nothing saved is lost or duplicated |
| Connection handlers (MQTTSNGWConnectionHandler, MQTTGWConnectionHandler) | the Client | CONNECT, WILLTOPIC, WILLMSG, DISCONNECT, PINGREQ; CONNACK, PINGRESP | a handshake of several packets interrupted by the broker; replay of the saved packets through the queue | the will belongs to its CONNECT; a sleeping device is left alone; saved packets are delivered on waking |
| Publish handlers (MQTTSNGWPublishHandler, MQTTGWPublishHandler) | Client, topics | PUBLISH and acknowledgements in both directions, REGISTER, REGACK | a PUBLISH held for a REGACK is overtaken; full tables; repetitions | ids announced before use; acknowledgements match; QoS kept |
| Subscribe handlers (MQTTSNGWSubscribeHandler, MQTTGWSubscribeHandler) | topics, sub id map | SUBSCRIBE, UNSUBSCRIBE, SUBACK, UNSUBACK | the id is fixed when the answer comes | the SUBACK carries the id of the topic of its SUBSCRIBE |
| `Topics`, `TopicIdMap` (MQTTSNGWTopic) | lists, counter | add, match, eraseNormal; add, get, erase, clear | wild cards, ids that wrap, limits off by one | unique ids, matching as MQTT defines it, the map bounded |
| BrokerSendTask, BrokerRecvTask, `Network`, `TCPStack` | socket, SSL and its context, `_busy`, a mutex for each connection | connect, send, receive, close | the status changes after the send; each task closes what the other uses; TLS on one mutex | a connection said to be gone is gone; no task waits for ever |
| `Aggregater`, `MessageIdTable`, `AggregateTopicTable` | linked lists | add, find, erase | ids that are never answered; erase in the middle; one connection for all | a reply reaches the client that asked, once; a publication those that subscribed |
| `Adapter`, `Proxy`, `QoSm1Proxy` | timers, retry counter | checkConnection, recv, send | timers against late answers, looked at only when the queue is idle | gives up only after its retries; gets its connection back |
| `ClientList`, `ClientsPool`, `Forwarder`, ClientRecvTask, ClientSendTask | lists | create, find; add, get | find then create; pool exhausted; devices that move | one client for a device, an address, a node |
| Sensor networks (`linux/*/SensorNetwork`) | connections, the index in each Client; modem frames, a semaphore for answers | unicast, read, accept; send, recv | slots that move, sessions freed under another task; late and lost answers, escapes, silences | a packet goes to its device, what is received is what was sent |
| `Process`, threads, `Params`, ring buffer, `Tree23` | last signal, stop counter, parameters, shared memory, tree | signals, waitStop, getParam; put, get; add, remove | signals overwrite each other, wrap-around, a tree with five shapes of removal | the gateway ends once and whole; a parameter is on its own line; log in order; the tree is a map |
| codecs (`MQTTSNPacket/src`, MQTTSNGWPacket, MQTTGWPacket) | buffers | serialize, deserialize, renumber | length fields of several forms, fixed offsets | what is written is read |
| `MQTTSNGateway/GatewayTester/src` | a device: session, publications, registrations, subscriptions, topics | connect, sleep, ping, publish, register, subscribe | retries, time-outs and late answers in hand-linked lists | every request ends; nothing is matched with the wrong answer |

The hazards (what is hard to test here, at its line) are the list `hazards` of PROJECT.json; each names
the properties below that would catch it, and a note where the code keeps a property only in part.

## The modules

A module that models a component keeps its state in variables with the names of the code's fields where
TLA+ allows it, one action for each handler or call, and `Variant` definitions (an operator with a plausible mistake, used
to see that a property notices it).  `map` in PROJECT.json gives the lines each definition stands for.

| Module | Models | Used by |
|---|---|---|
| `EventFifo` | the abstract queue: an atomic post, events in order, a timeout only when empty | `EventQue` (refinement) |
| `EventQue` | `EventQue` with every lock, list and semaphore operation a step of its own | `MCEventQue`, `EventQue_proofs` |
| `ClientSession` | sessions of clients in the transparent gateway: five tasks, three queues, broker and devices | `MCClientSession`, `ClientSession_proofs`, `SleepSilence_proofs` |
| `TopicTables` | the classes `Topics` and `TopicIdMap` as values with the results of their operations | `Topics`, `PubSub` |
| `Topics` | the life of a topic table: registration, predefined topics, clean sessions, ids that wrap | `MCData`, `Topics_proofs` |
| `TopicMatch` | `Topic::isMatch` of the gateway and `LTopic::isMatch` of the device, a level at a time, against what MQTT says | `MCData` |
| `PubSub` | PUBLISH in both directions with all acknowledgements, REGISTER, SUBSCRIBE, UNSUBSCRIBE (transparent) | `MCHandlers`, `MCDevice`, `MCTasks`, `PubSub_proofs` |
| `AggregateTables` | what the aggregater's two tables promise | `Aggregate`, the next two |
| `LinkedList` | the doubly linked lists, pointer by pointer | `MessageIdTable`, `AggregateTopicTable`, `DeviceLists` |
| `MessageIdTable`, `AggregateTopicTable` | the two tables over their lists, shown to implement it | `MCData` |
| `Aggregate` | the handlers for aggregated clients over the two tables and one connection | `MCHandlers`, `Aggregate_proofs` |
| `ClientList` | the files, the pool, the list, the forwarders and ClientRecvTask's dispatch | `MCHandlers` |
| `Proxy` | the gateway's own connections: keep-alive and response timers, four tasks | `MCTasks` |
| `Network` | `TCPStack` and `Network` (TLS) under BrokerSendTask and BrokerRecvTask | `MCTasks`, `MCModems`, `Network_proofs` |
| `Tasks` | signals, exceptions of tasks and the end of the gateway | `MCTasks` |
| `Config` | `getParam` and what `Gateway::initialize` makes of the parameters | `MCData` |
| `RingBuffer` | the log in shared memory | `MCData` |
| `Tree23` | the 2-3 tree of MQTTSNGWProcess.h | `MCData` |
| `Codec` | every MQTT-SN packet: written, kept, searched for its id, read | `MCData` |
| `MqttPacket` | every MQTT packet: built, renumbered, sent, received, read | `MCData` |
| `SensorNetwork` | the DTLS connections under ClientRecvTask and ClientSendTask | `MCSensors`, `SensorNetwork_proofs` |
| `Rfcomm` | the Bluetooth ports: accepting, reading, closing | `MCSensors` |
| `XBeeFrames`, `XBee` | frames of API mode 2; the wait for a status | `MCModems` |
| `LoRaLink` | both modems' bytes in one reader; the wait for an acknowledgement | `MCModems` |
| `DeviceProxy` | LGwProxy: connecting, sleeping, keep-alive | `MCDevice` |
| `DevicePublish` | LPublishManager and LRegisterManager | `MCDevice` |
| `DeviceSubscribe` | LSubscribeManager with the topic table's callbacks | `MCDevice` |
| `DeviceLists` | the managers' linked lists | `MCData` |

Compositions: `Aggregate` runs the handlers over the abstract tables, `MessageIdTable` and `AggregateTopicTable` show
that the real ones implement those; `EventQue` implements `EventFifo`, which is why every other module uses
plain sequences for the three queues; `DevicePublish` uses sequences for its lists, which `DeviceLists`
shows to be exact for two elements.

**EventQue.** `PostLock`, `PostAppend`, `PostSignal`, `PostUnlock` are the four steps of `post()`;
`ReadSize`, `SemWait` or `SemTimeUp`, `GetLock`, `GetFront`, `GetUnlock` those of `wait()` and `timedwait()`,
and `Handle` is the loop of the task around it, which ends at the stop event.  `timed`, fixed at the start, says which of
the two the task calls (only PacketHandleTask uses `timedwait()`).  The list is a sequence: `front()` and
`pop()` run under one lock, `size()` is the length at some moment.  Interrupted semaphore waits
(EINTR) are left out; `wait()` loops on an empty result in any case.

**ClientSession.** One action per handler of PacketHandleTask, each with every call it makes:

| Action | Code |
|---|---|
| `HandleConnect` ... `HandlePingreq` | `MQTTSNConnectionHandler::handleConnect`, `handleWilltopic`, `handleWillmsg`, `handleDisconnect`, `handlePingreq` (with `sendStoredPublish`) |
| `HandleRegAck` | `MQTTSNPublishHandler::handleRegAck` |
| `UpdateStatus` | `client->updateStatus(snPacket)` after each packet of a device (MQTTSNGWPacketHandleTask.cpp:161), a step of its own since other tasks change the status meanwhile |
| `HandleConnack`, `HandlePingresp`, `HandleBrokerDisconnect` | `MQTTGWConnectionHandler::handleConnack`, `handlePingresp`; the `DISCONNECT` case of `transparentPacketHandler` |
| `HandlePublish` | `MQTTGWPublishHandler::handlePublish`; its alternatives are `PublishDropped`, `PublishSaved`, `PublishKnown`, `PublishUnmatched`, `PublishRegister` |
| `BrokerSend`, `BrokerSent`, `BrokerConnectFails`, `BrokerSendFails` | `BrokerSendTask::run`; `BrokerSent` is `connectSended()` or `close()`/`disconnected()` *after* the send |
| `BrokerRecvPacket`, `BrokerRecvClosed` | `BrokerRecvTask::run` |
| `RecvFromDevice` (in `DeviceSends`) | `ClientRecvTask::run`, a packet of a known client |
| `ClientSend`, `ClientSendLost` | `ClientSendTask::run` and the network |
| `Device...`, `Broker...`, `Reactions` | the environment (external): a device as an MQTT-SN client, a broker as an MQTT server |

State: `cl` are the `Client` objects, `packetQ`, `brokerQ`, `clientQ` the queues (only `packetQ` has a maximal size;
`Posted` deletes the events that find no room), `upd` and `sent` the places between two steps of PacketHandleTask
and BrokerSendTask, `net` the connection of a client, `dev` and `published` the environment.
A handler is one step although it reads the status more than once; the next change of the status is a step of
its own in any case, only outcomes that combine two statuses within one handler are left out.  A topic has a
*kind* (two characters, predefined, matched by a wild card, plain), the id table is a function with `0` for
absent.  The parts of a will carry the number of the device's attempt.  `faults` counts what goes wrong: a packet that is lost, a
connection that breaks, a request out of turn (`Asks`: a device repeats its request or restarts although it waits for an answer).
`StopAndWait`: no packet to or from a device is lost and each request is in turn, as the protocol asks of it.
`RoundTrip`: the answer to a packet reaches the gateway after BrokerSendTask is done with it.

**PubSub.** One client whose status changes between packets (`Sleep`, `Connect`, `Pingreq`...); `DevicePublish`,
`DeviceAck`, `DeviceRegister`, `DeviceSubscribe`, `DeviceUnsubscribe` and `BrokerPublish`, `BrokerPuback`, `BrokerAck`,
`BrokerSuback`, `BrokerUnsuback` are the handlers, `Server...` and `DeviceTakes`, `DeviceAsks`, `DeviceRetries` the
environment.  Topics are names with an id, a message is told by a number `n`.  A name of two characters shares its bytes with the
number of an id: `ShortIds` is the number as it is written in a packet, `HostIds` the one that the gateway's host reads from the same bytes
(`ReadId`; the two differ on a little-endian host), and the PUBACK of a PUBLISH has the latter.  A PUBLISH of QoS -1 with a long name has its
length and a pointer where the id is looked for, so any topic may be found, or none (`FoundTopics`).  The store for a sleeping device holds
`MaxSaved` packets; what it refuses was acknowledged before and is gone.  A CONNECT says whether its session is clean:
a clean one is begun in the states of `CleanFrom`, the other is how a sleeping device wakes up and keeps its session.  The device answers
a PUBLISH whose id it does not know with "invalid id" and does not count it as received.  It registers no
predefined name (`Registrable`): a REGISTER of one is answered with the predefined id.  `TopicIdMap` admits `2 * MAX_INFLIGHTMESSAGES + 1`
elements, erases the first with an id and counts one down for an id that is not there, as the code does.

**Aggregate.** Handlers of PacketHandleTask and MQTTSNAggregateConnectionHandler for clients that share one
connection; message ids of the one connection and the subscribers of a publication come from the two tables of
`AggregateTables`.  Its connection is up; `ConnectionLost` loses what is under way.

**ClientList.** `StartAdapters`, `StartList` are the two steps of `Gateway::initialize`, then `FromKnown`, `FromUnknown`,
`ConnectDirect` and `ConnectForwarded` are ClientRecvTask's cases.  Ids are words of a few letters, so that one can begin another.
`served` remembers the places at which a device's packets came to its own client: `ClientRecvTask` gives a packet, a CONNECT of
another device too, to the client that has its address (MQTTSNGWClientRecvTask.cpp:148), and `ClientOfPlace` says how far that goes.

**Proxy.** `CheckConnection` is the timeout branch of PacketHandleTask, `FromProxy`, `FromBroker`, `SendFailed` its
handlers for an adapter's client, `BrokerSend` ... `BrokerRecvClosed` the tasks of the connection, `ClientSend` is
`Adapter::send`/`recv`.  A timer is "on" or "up"; when it runs out is up to the environment (`KeepAliveUp`,
`ResponseUp`).  `Proxy` and `Aggregate` have the clients that `ClientList` shows to be missing at start-up.

**Network.** The steps of `connect`, `send`, `recv`, `close` between which the other task can run; what is on the way is
a sequence of packets, parts of packets and session tickets.  Left out: EBADF, the certificate checks (an
outcome of the handshake), the server side of TCPStack.  `_numOfInstance` is changed in one step.

**Tasks.** `SignalHandler`, `MainSeesSignal`, `PostStop`, `WaitStop` and, for each task, `RunEnds`, `RunFails`,
`ThreadStopped`, `Counted`.  The packet queue has room for the stop event.

**Data.** `Topics`, `MessageIdTable`, `AggregateTopicTable`, `Tree23`, `RingBuffer`, `DeviceLists` have one action per public operation
with any argument; `TopicMatch` takes one step per turn of the code's loop; `Codec`, `MqttPacket`, `Config` go through
their conversion for every input of a set.  A packet is its length field, its type and cells of a size and a value;
of a name or payload only the length counts.  `MqttPacket!Send` copies a packet to a buffer of `MaxSize` bytes (`MQTTSNGW_MAX_PACKET_SIZE`) and
ends in "overrun" when it is longer.  Nodes of `Tree23` are values (the code changes them in place and shares none).

**Sensor networks.** `SensorNetwork`: `Poll`, `LockRead`, `Serve` (its cases `NotAccepted`, `Accept`, `ReadData`, `Reconnect`,
`NothingRead`) and `Close` are `read()`, `Unicast`, `LockSend`, `GetClientSSL` and `Write` are `unicast()`; a connection is a slot with a
device and the number of its session, `index` is what the Client's address holds.  `Poll` keeps what poll() reported
(`R.ready`, `R.errors`) and the slots are served by that, whatever arrives meanwhile.  `Retransmit`: a record of the handshake that comes late
reaches the socket of the connection, which `read()` takes for a new hello and closes.  It comes only where devices connect again: a listening
socket that always has something keeps `read()` from every connection, so a device that repeats for ever is left out of the setting *restarts*.
A device keeps its address.
`Rfcomm`: `Select`, `ServeRecv`, `ServeAccept`, `Return`.  `XBeeFrames` and `LoRaLink` read byte by byte
(`Take`, `Silence`, `ReadTimesOut`), with the sender's escaping and checksum; `XBee` has the two halves of `send()` (`SendBegins` ...
`SendComparesId`) and the steps in which the receiver stores a status.

**Device.** `DeviceProxy` has the loops of `connect()` and `disconnect()` and the main loop, which read the same socket with
different ideas of what counts; `DevicePublish` and `DeviceSubscribe` have the calls, answers and time-outs of the managers.  The gateway
(`Gw...`) is modelled as the device sees it; packets keep their order, may be lost, or answered late.
A connection is one step in `DeviceSubscribe`, with a clean session.  `Match` is the search of the
table for a filter, which stops the program (`crashed`) at a predefined topic.  Left out: the QoS -1 mode, forwarder encapsulation.

The `MC...` modules are collections of settings.  A setting is an instance of a component with constants that
suit a property; a behaviour begins with the choice of a setting (`setting` or `part`), which stays, and the variables of the
other components rest.  A property is stated of the settings in which its case happens; its definition in the
MC module names the setting and the component's own definition of it, which has the full comment.

## The runs

| Run | Module, settings | Checks | Distinct states |
|---|---|---|---|
| `queue` | `MCEventQue`: two tasks post two events each, `Gateway::run` a stop event; `wait()` and `timedwait()`, both on a queue of 2 | `TypeOK`, `Credit`, `NoLostWakeup`, `ImplementsFairFifo`, `TaskStops` | 16 thousand |
| `session` | `MCClientSession`: *saving* (sleeping with a full store, connections that hold), *retrying*, *resuming* (losses, restarts, every limit; clean sessions or not), *willed* (CONNECTs with and without a will, lost and repeated, a packet queue of two places) | `TypeOK`, `SilentWhenAsleep`, `AtMostOnce`, `WillFresh` | 2.9 million |
| `session_live` | `MCClientSession`: *waking* (two publications on an unregistered topic), *answering* (two devices) | `RegisterFirst`, `WakeDelivers`, `BothAnswered` | 108 thousand |
| `handlers` | `MCHandlers`: `PubSub` *sessions, waking, sleeps, repeats*; `Aggregate` *tables, fans out, stores*; `ClientList` *moving, forwarding, listing* | `IdsAgree`, `DeliversAsTold`, `RequestsAnswered`, `FansOutOnce`, `OneClientEach` | 5.0 million |
| `tasks_live` | `MCTasks`: `PubSub`; `Proxy` *faults, refused, late*; `Tasks`; `Network` without TLS | `AllAnswered`, `ProxyRecovers`, `StopsClean`, `ConnectionsEnd` | 32 thousand |
| `data` | `MCData`: a part for each structure and conversion | `TopicIdsHold`, `TablesImplement`, `Finds`, `LogIntact`, `MatchesRight`, `PacketsReadBack`, `ComesUp` | 137 thousand |
| `sensors` | `MCSensors`: DTLS *faults, connects, restarts*; RFCOMM *ports* | `TypeOK`, `PacketsGoRight`, `KeptByError`, `EveryoneServed` | 214 thousand |
| `modems` | `MCModems`: XBee *statuses, undamaged, damaged*; LoRaLink *whole, mingled*; TLS *secure* | `SendsTruthful`, `FramesIntact`, `InUse` | 3.7 million |
| `device` | `MCDevice`: `PubSub` *answers*; the tester's client *will, publish, subscribe, predefined* | `RequestsServed`, `PublishesRight`, `SessionAsAsked` | 3.8 million |
| `device_live` | `MCDevice`: *lossy, sleep, ending, refusing* | `SessionsEnd`, `RequestsEnd` | 301 thousand |
| `connack_race`, `sn_error` | `MCClientSession`, `SensorNetwork` | one statement of the repository each, violated | - |

What the properties say:

- `Credit`, `NoLostWakeup`: the semaphore may hold more credits than there are events, never fewer than
  needed; a blocked consumer has an empty queue.  `ImplementsFairFifo`: the refinement with its liveness.
  `TaskStops`: a stop event that found room ends the task.
- `SilentWhenAsleep`: no PUBLISH and no REGISTER is on the way to a device that was told it is asleep; it relates the
  status that PacketHandleTask tests to what the device believes, across three queues, until something goes wrong (`faults` is 0): a
  device out of turn can get two DISCONNECTs, of ClientRecvTask and of the handler of a packet that was queued before, which put the
  two out of step.
  `AtMostOnce`: a publication the broker sent once is in one place at most (socket, packet queue, saved, held, client
  queue, received).  `WillFresh`: the CONNECT to the broker has no will topic and no will message of an attempt before its own.
  (A later one it may have: when the packet queue drops a CONNECT while a WILLTOPICREQ is on the way, the device answers that one with the
  will of its new attempt.)
- `RegisterFirst`: a PUBLISH with an id of the gateway never overtakes the REGISTER of the id.  `WakeDelivers`: what is
  saved when the PINGREQ of a waking device is on the way reaches the device.  `BothAnswered`: CONNECT, PINGREQ of
  an active device, sleep request and DISCONNECT are answered, and a device that was told it is connected becomes
  Active in the gateway, when the CONNACK takes longer than the rest of BrokerSendTask's loop.

A property of the other runs joins what a component promises, each part a definition of the component's module
stated of the settings in which its case happens, the component's `TypeOK` included:

- `handlers`, transparent.  `IdsAgree`: `RegistrationHolds` (*sessions*: what the device
  was told of an id is what the gateway's table says, whatever state a clean session is begun in), `PublishedIdKnown` (*waking*: a PUBLISH that
  reaches the device has an id it knows; four rests are enough to sleep, have publications saved, wake by PINGREQ or CONNECT and begin a clean session
  afterwards, and with one message id the broker uses it again; clean sessions of a sleeping device are left out, where the code does not keep it).
  `DeliversAsTold`: `AckedKept` (*sleeps*: a publication of QoS 1, on a registered, a predefined or a two-character topic, of which the broker was told is
  received, saved or on the way, unless a store that was full refused it; nothing is lost and no clean session begins),
  `ExactlyOnce` (*repeats*: QoS 2 across losses and repetitions).
- `handlers`, aggregating.  `RequestsAnswered`: `AnswersReachAsker` (an answer of the broker reaches the device that asked, with the
  id the device used) and `EntriesDue` (until a connection is lost, an entry of the id table is there because its request or the
  answer is under way).  `FansOutOnce`: `FansOutRight` (a publication goes to those who subscribed), `NoneTwice`, `SavedOnce`
  (a publication is in one place for a device).
- `handlers`, clients.  `OneClientEach`: `AnswersSender` (the client found for a packet answers to where it came from), `ClientOfPlace` (it is the client with
  the device's id, or one whose own device was last served at that very place, never one that merely resembles it or has left; in *moving* and
  *listing* addresses, in *forwarding* a node are used by several devices, and the ids of two devices begin alike),
  `OneClientPerId`, `OneClientPerNode`, `OneClientPerAddress`, `HasItsTopics` (a device served by its own client finds the predefined topics of the file there).
- `tasks_live`.  `AllAnswered`: every request of device and broker is answered.  `ProxyRecovers`: `Patience` (a proxy gives up only
  after its last retry), `Recovers` (it is Active again and again).  `StopsClean`: `NoEarlyEnd` (the main thread ends last), `Stops`
  (CTRL+C or a failing task ends the gateway).  `ConnectionsEnd`: `GoneIsGone` (BrokerRecvTask takes only a connection that is
  closed for closed), `EventDone` (BrokerSendTask ends with each event).
- `data`.  `TopicIdsHold`: `IdsUnique`, `GivenHolds`.  `TablesImplement`: `PredefinedStays` of `Topics`, `WellLinked`, `ImplementsEntries`,
  `ImplementsTable` (the linked tables are the lists they promise).  `Finds`: the tree is a map, `Balanced`; `Listed` (no element in
  flight is lost).  `LogIntact`: `Bounded`, `NothingInvented`, `NewestLast`.  `MatchesRight`: `MatchCorrect` and the end of its loop,
  `CoveredFound`, `FoundCovered`.  `PacketsReadBack`: of `Codec` `RoundTrip` (a packet that is received is read as it was
  written, except with a body of 254 bytes), `MsgIdFound`, `Readable`, `OtherReadersFail`; of `MqttPacket` `RoundTrip`, `LengthsAgree`, `OnlyIdWritten` (a new message id changes
  nothing else, except the last two bytes of the topic of a PUBLISH), `RenumbersRight`.
  `ComesUp`: `FromOwnLine`, `QueFits`, and that a sufficient file brings the gateway up.
- `sensors`.  `PacketsGoRight`: `AstrayByClose` (an index goes astray only when `close()` removes a slot that is not after it, and a packet is
  fetched for another device only with such an index), `RightUntilClosed` (until the first connection is closed packets reach their device), both in every setting, with restarts, errors and
  slots that move; `RightDevice`, `Found` (a packet is written to the session of its device, which is there) where none is closed; `InOrder` of `Rfcomm`.  `KeptByError`: read() keeps the mutex after a reported error only.  `EveryoneServed`: a packet that was taken is
  written, a device that says hello is connected, again and again, and a Bluetooth connection is accepted.
- `modems`.  `SendsTruthful`: `Truthful`, `NoFalseAlarm` (XBee's `send()` reports what became of its own frame), `Truthful`,
  `Acknowledged` of `LoRaLink`.  `FramesIntact`: `Intact`, `Kept` (of frames and noise), `Kept`, `Heals` of `LoRaLink`.  `InUse`:
  no SSL is freed under the task that uses it.
- `device`.  `RequestsServed`, of the gateway's handlers: `AnswersRight` (every answer fits the request with its message id, topic id
  included), `TopicNamed` (no PUBLISH goes on without a topic), `MapsBounded`, and `ExactlyOnce` for publications of the device.  `PublishesRight`: `RightTopic`, `OneRegister`, `ForgetsDelivered` (a publication is forgotten only when the broker has it
  or it was given up).  `SessionAsAsked`: `WillGiven` (connected only after the whole will exchange), `InStep`, `Unsubscribed`,
  `RunsLastGiven` (subscriptions and callbacks are what the user asked for last; *predefined* has a filter of QoS 1 and a predefined id of QoS 0, so
  that a subscription with another's QoS shows; it has one connection, because the code loses the QoS with the next, and a null pointer ends the program there).
- `device_live`.  `SessionsEnd`, `RequestsEnd`: each call ends, a session begins with its subscriptions, and a device notices that its
  session is gone.

**Bounds.** The number of requests, packets, faults and connections is bounded in every component (`Max...`, listed with
its constants); the limits of the code (20 saved PUBLISHes, 50 topics, 8-bit and 16-bit ids, table sizes, the size of a queue, the ring's length)
are set to 1 to 4 where the limit itself should be met, so that stores fill up, tables overflow and ids wrap while they are in
use.  Two CONNECTs are enough for a session after a session, and the shortest cycles of the status (connect, sleep,
wake, sleep; connect, sleep, connect) fit in four requests.  Two devices show what one can do to another: they share only tables and
tasks.  13 keys reach every shape of a 2-3 tree of three levels; 18 bytes go more than twice around a ring of 7; filters of four levels have each
position of each wild card.  The packets of the codecs have lengths on both sides of each form of their length field.  The settings of
`session` other than *retrying* and *resuming* keep the packet queue's 1000 places: what is answered or delivered is claimed for a gateway that is not overloaded.
No symmetry is used.  Every cfg has `CHECK_DEADLOCK FALSE`: when the environment has used up its bounds
and the queues are empty, the system rests; waiting for ever is found by the liveness properties.

**Fairness.** Weak fairness of each task's step: the threads are scheduled by the operating system and each
loops for ever.  Where a step waits for a mutex that another task takes again and again (`LockRead`, `LockSend`, the count in `waitStop`) it is strong,
as a fair scheduler grants it; in `EventQue` the number of posts is finite and weak fairness is enough.  The DTLS handshake (`Accept`) is strongly fair: a device repeats its hello and some attempt
succeeds.  The environment is fair only in its answers: the broker answers what it is asked, a device answers WILLTOPICREQ, WILLMSGREQ, REGISTER and what PubSub expects of it, the rest
of a packet of which a part has come arrives, a modem is read.  No device has to make a request and no broker to publish.  In the *refused* and *late* settings of
`Proxy` timers run out.  On the device, the loops go on and time-outs happen.  In a suite each component's fairness has its own variables as subscript and
its setting as a condition.

## The proofs

| Theorem | Module | Says |
|---|---|---|
| `TypeCorrect` | EventQue_proofs | `Spec => []TypeOK` |
| `CreditCovers` | EventQue_proofs | `Spec => []Credit` |
| `WakeupNotLost` | EventQue_proofs | `Spec => []NoLostWakeup` |
| `FifoImplemented` | EventQue_proofs | `Spec => Fifo!Spec` |
| `TypeCorrect` | ClientSession_proofs | `Spec => []TypeOK` |
| `RegisterBeforePublish` | ClientSession_proofs | `StopAndWait => (Spec => []RegisterFirst)` |
| `WillNotOlder` | ClientSession_proofs | `Spec => []WillFresh` |
| `PublishedOnce` | ClientSession_proofs | `Spec => []AtMostOnce` |
| `SleepersLeftAlone` | SleepSilence_proofs | `Spec => []SilentWhenAsleep` |
| `RequestsAreServed` | PubSub_proofs | `Sound => (Spec => []RequestsServed)` |
| `RegistrationsHold` | PubSub_proofs | `Sound => (Spec => []RegistrationHolds)` |
| `GivenIdsHold` | Topics_proofs | `ListAssumption /\ PredefAssumption => (Spec => []TopicIdsHold)` |
| `AnswersOfOneConnection` | Aggregate_proofs | `Bounds => (Spec => []RequestsAnswered)` |
| `RequestsApart` | Aggregate_proofs | `Bounds => (Spec => []IdsDistinct)` |
| `SslOutlivesItsUse` | Network_proofs | `Spec => []InUse` |
| `TypeCorrect` | SensorNetwork_proofs | `Spec => []TypeOK` |
| `KeptOnlyByError` | SensorNetwork_proofs | `Spec => KeptByError` |
| `OnlyCloseLeadsAstray` | SensorNetwork_proofs | `Spec => AstrayByClose` |
| `RightSession` | SensorNetwork_proofs | `Spec => []RightUntilClosed` |

The only assumptions are those on the constants: `QueAssumption` (the special events are no producer's
events and differ, budgets and the maximum are natural numbers), `SessionAssumption` and `SensorAssumption` (the kinds of
the constants), `NoneAssumption` (a null pointer is no event), `ListAssumption` and `PredefAssumption` (sizes and ids are numbers, a table is
smaller than the number of ids: 50 and 65534 in the code); `StopAndWait`, `Sound` and `Bounds` are stated with their theorems.  The theorems hold for any number of
producers, clients, topics, filters, publications, devices and connections and for all limits.

*EventQue.* `Credit` is not inductive alone.  `IInv` adds the types, who holds the mutex (`MutexHeld`: exactly
the task whose program counter is inside the lock, hence at most one producer owes a credit), that `ev` is
null until `front()` (`OutInv`) and that a producer inside `post()` has budget (`BudgetInv`).  The refinement
then needs one case per action; only `PostAppend`, `GetFront` and `Handle` are steps of `EventFifo`.
A `SemTimeUp` followed by `GetFront` under the lock shows that the timeout event only comes from an
empty queue.

*Types of ClientSession.* One lemma per group of handlers; `TypeOK` is inductive on its own once it is split
into `ClientsTyped`, `QueuesTyped` and `RestTyped`.

*RegisterFirst.* A PUBLISH is posted with the id of the table (`handlePublish`) or with the id of the held
PUBLISH (`handleRegAck`), so the inductive invariant `RegisterInv` says that both kinds of ids are
announced: the device has been told or the REGISTER is in `clientQ`.  Being announced is stable while
`clientQ` grows at its tail and shrinks at its head, because the head is received; that is where
`StopAndWait` (no lost packet) is needed.

*AtMostOnce.* A publication is in the socket, the packet queue, saved, held for a REGACK, in the client queue or received.  That
no place holds it twice (`NoTwice`) and no two places hold it (`Apart`) is not inductive without the third part of `Once`: what is
anywhere (`Somewhere`) was published, so that a new publication is nowhere yet.  Each handler takes a PUBLISH from one place and
puts it into one other, `sendStoredPublish` all of the store; there is one lemma per way (`StoredOnce` and its likes).  No `StopAndWait` is
needed: losses only remove, and no repetition or new connection moves a PUBLISH backwards.

*WillFresh.* The parts of a will carry the number of the device's attempt.  `WillInv` adds `InOrder`: the attempts do not go back along the packet queue
(`TriesGrow`), none in it is older than what the Client keeps or newer than the device's (`TriesWithin`), and a Client that waits for a
WILLMSG keeps a WILLTOPIC that came after its CONNECT (`ConnWithin`).  Then `handleWillmsg` completes a CONNECT with parts that are at
least as new.

*SilentWhenAsleep.* The property speaks of the queue to the device and of the device, the code of the status of a Client, and nothing
locks the two together.  What does is the request a device has under way, so `Calm` follows it.  It is in one place (`OneRequest`): the
packet queue, the queue to the broker, the broker's connection, the packet queue as the answer, the queue to the device, or
held back by `holdPingRequest` while PUBLISHes are sent.  It is the one that the state of the device waits for (`RequestFits`); and
the status of the Client is one that this state and this place allow (`StatusFits`), where the status is what it becomes once the `updateStatus()` of
the packet at hand is done (`Eff`), because other tasks run between a handler and its `updateStatus()`.  Two more parts are needed
to make this inductive.  `EndsFit`: a DISCONNECT of the broker that is still in a queue must not meet a later session, so whoever
is being disconnected has settled for it, and no accepting CONNACK is before the DISCONNECT in the queue.  `Hushed`: when the answer
that puts a device to sleep is in the queue, every PUBLISH and REGISTER is before it.  A handler takes the request from one place and puts it
into the next; there is one lemma for each place it gets to (`Answered`, `Forwards`, `Posts`, `Vanishes`), one for a step that leaves
it alone (`UndisturbedCalm`), and one for the devices whose turn it is not (`OthersKept`).  What a queue keeps when an event is taken,
appended or dropped from it for want of room is in `Keeps`.  The invariant holds until the first fault: it is
`TypeOK /\ (faults = 0 => \A c \in Clients : Calm(c))`, for any number of devices, broker queues of any length and a packet queue of any size.

*InUse.* A task uses the SSL in a step after the one that tested for it.  `UseInv` says that it holds `_mutex` in between and that there is
an SSL: BrokerSendTask while it connects or writes (`SHolds`), BrokerRecvTask while it reads (`RHolds`); `close()` takes that mutex first.

*RequestsAnswered.* `AnswersReachAsker` speaks of what was sent to a device; why it is right has to be said of every packet on the
way.  `AInv` says that each id in the table was given and names one entry (`IdsGiven`), and that a request on its way to the broker
(`ToBroker`), an answer of the broker (`OfBroker`) and the event with it (`Queue`) either carry the id of an entry and are of its
device and its id, or carry an id that is not in the table (`Traces`).  An id is not given twice because each is paid for with a packet of
a device (`Numbered`).  That is the hypothesis `Bounds`: no more packets are handled than there are ids, in the code 65535.
Beyond, the code does not keep the property: `getNextPacketId` does not ask whether an id is still in the table (see `IdsDistinct`
below).  `Due`, on top of `AInv`, finds for each entry its request, its answer or the event; a packet leaves one of these places only to
enter the next, until `ConnectionLost` empties two of them.  `FromDevices` counts by cardinality; the one recursion of the module, the
topics that a clean session takes out one after the other, is treated by the least number of topics for which the claim would fail.

*RequestsServed but `ExactlyOnce`, RegistrationHolds.* The device, two queues, two maps and the topic table each hold a piece of a request, so `IInv` of
PubSub_proofs says of every piece what it has to do with the request that waits under its message id (`Waiting`): a packet of the device
is that request, an element of a map has its topic, an answer its id (of a two-character topic the number that the host reads, `ReadId`), or no request waits
under that id any more.  A PUBLISH goes to any of the topics that may be found for it (`FoundTopics`).  As long as
topics only come and message ids only go up, all of that stays right by itself (`Later`, `StaysRight`), and a handler has to be looked at
only for what it adds.  `eraseNormal` is the exception, and `Sessions` the reason why it does no harm: between CONNECT and CONNACK there is one
message of the session on its way and no request is behind it; and while it is a clean CONNECT in the packet queue, nothing waits and the device holds no ids
(`Fresh`).  A CONNECT that is not clean takes nothing away, and one that finds the client asleep neither.
`Tables` is about the ids that wrap: a normal topic's id is younger than the topics behind it are many (`Age`), hence, with fewer topics
than ids, the next id is no topic's; and a name is in the table once, hence there is room for one more.  `Sound` is what that needs:
`MaxTopics` is at least the number of names (a full table refuses), a device registers no name that the gateway defines (it would be
answered with the predefined id), no name is predefined twice, none is empty (that stands for no topic), and the message ids do not come
round in a behaviour.  The settings of the runs that check these properties, *answers*,
*sessions* and *repeats*, are instances of it.

*TopicIdsHold.* An id is given again after all the others, and emptying a table does not reset its counter.  `IInv` of Topics_proofs says of a
table that its normal topics have ids younger than the topics behind them are many, each older than the next (`TableSound`); and that what
was given out is in the table (`Kept`).  With fewer topics than ids the next id is no topic's, so the first topic with
an id, which `getTopicById` returns, is the only one.  The argument is that of `Tables` above, here for predefined topics that come at any time and with any id.

*ExactlyOnce.* `Once`, on top of `IInv`, has a part for each direction.  From the device to the broker (`UpOnce`): what the device published with
QoS 2 is delivered a second time only if its PUBLISH reaches the broker after its PUBREL, or after a clean CONNECT that made the broker forget the
message id.  Neither happens because packets keep their order: behind a PUBREL no PUBLISH with its message id may be on its way or wait to be
repeated, and behind a clean CONNECT none of QoS 2 (`Bars`, `Ordered`), through the packet queue and the queue to the broker.  A handler moves
the first packet from one queue to the end of the other (`OrderedMoves`); losses only remove; and the device, which goes over from PUBLISH to PUBREL with
the PUBREC and drops its requests with a clean CONNECT, adds only at the end (`OrderedSends`).  Hence what is delivered and no longer among the
message ids the broker keeps is nowhere on the way (`Released`); and two PUBLISHes of one request have one message id (`Numbered`).  From the broker to
the device (`DownOnce`): a publication waits in the broker, is in the packet queue, saved, in the queue to the device, or the device has it, and in only
one of these places and once (`Apart`), because `handlePublish` moves it on or keeps it, and `sendStoredPublish` empties what was saved.

*SensorNetwork.* Removing a slot (`CloseSlot`) and appending one (`AddSlot`) keep the slots' type; `TypeOK` is inductive because `close`
names a slot that is still there.  For `KeptByError`, poll() returned for some slot or for an error (`Something`), and of the ways through `read()`
only the one without a slot leaves the mutex locked.  `AstrayByClose` is shown step by step from the types: `AddSlot` puts a new connection behind
the others and so moves none, `ReadData` sets the index of a Client that has none to that of the slot it reads, and only `Close` takes a slot away; `RemoveAt` leaves the slots before it
where they are (`SlotsBefore`), so an index that leads to an earlier slot stays right.  `RightUntilClosed` is inductive over that: as long as there are as many
slots as connections were made, none was closed.  There are no assumptions on restarts, errors or late records.  What clients.conf
lists has index 0 before it connects and is left out of `RightUntilClosed`, not of `AstrayByClose`.

Only model-checked: everything about liveness (TLAPS has no proof rules for fairness here); of `handlers` all but
`RequestsAnswered`, the first part of `IdsAgree` and the second of `DeliversAsTold`; of `device` all but `RequestsServed`; of `modems` all but `InUse`; of `data` all but
`TopicIdsHold`; of `sensors` `RightDevice`, `Found`, the Bluetooth network and `EveryoneServed`; `tasks_live` and `device_live`.  What the recursive functions of
`Tree23` and the codecs compute for every input would need induction over data: the library's induction theorems take an operator as a
parameter, which the provers at hand cannot instantiate (the least counterexample, used above, needs a number to count by).

## What the code does not keep

Two statements of the repository are violated by a run of their own and are `findings` in PROJECT.json:

1. `connack_race`: `connectSended()` after the send overwrites Active with Connecting when the CONNACK was
   faster (MQTTSNGWBrokerSendTask.cpp:119-122, MQTTGWConnectionHandler.cpp:76): the client gets no PUBLISH from then on, and its sleep is not noticed.
2. `sn_error`: a reported error that is the only event of poll() makes `read()` of the DTLS network return with the mutex
   locked (linux/dtls/SensorNetwork.cpp:762): both tasks wait for ever.

Further disagreements between a text of the repository and what the code does were met with TLC while the modules were written.  The
definition that states the text is kept in its module; it fails in an instance with the constants named.

| Where | What the code does | Definition, and when it fails |
|---|---|---|
| MQTTSNGateway.cpp:362 | a stop event that meets a full packet queue is deleted; `waitStop()` never returns | `EventQue!PostedStops`, `MaxSize` 2 |
| MQTTGWPublishHandler.cpp:74 | a PUBLISH for a sleeping client with a full store is acknowledged and discarded, logged as saved | `ClientSession!AckedIsSaved`, `MaxSaved` 1 |
| MQTTSNGWBrokerSendTask.cpp:106 | when the broker cannot be reached nothing is done, the comment says the client is disconnected | `ClientSession!ConnectFailureReported` |
| MQTTSNGWPublishHandler.cpp:249 | the PINGREQ of a waking client waits for a REGACK that does not come | `ClientSession!WakeAnswered`, a topic without REGISTER |
| MQTTSNGWPublishHandler.cpp:124 | the entry of a QoS 2 PUBLISH stays in the id map | `PubSub!WaitedUnanswered`, `DeviceQos` {2} |
| MQTTSNGWPublishHandler.cpp:161 | the PUBACK of a replayed PUBLISH, which the gateway acknowledged itself, is passed on and acknowledges a later publication of that message id, which is then lost or meets a clean session | `PubSub!AckTruthful`, `MaxFaults` > 0 or `CleanFrom` not empty; or QoS 2 |
| MQTTSNGWConnectionHandler.cpp:78 | CONNECT with a clean session of a sleeping client clears nothing | `PubSub!PublishedIdKnown`, `CleanFrom` with "asleep" |
| MQTTSNGWPublishHandler.cpp:70 | on a little-endian host the PUBACK has the two characters of the topic in reverse | `PubSub!PubackNamesTopic`, `HostIds` other than `ShortIds` |
| MQTTSNGWPublishHandler.cpp:82 | with QoS -1 and a long name the length of the name is looked up as an id | `PubSub!LongNameKept`, `DeviceQos` {3} |
| MQTTSNGWAggregateTopicTable.cpp:154 | a client erased from the middle leaves a back link on it | `AggregateTopicTable!OnlySubscribers`, three clients |
| MQTTSNGWAggregateTopicTable.cpp:227 | a topic that is not in the table is erased through the null pointer | `Aggregate!GatewaySurvives` |
| MQTTSNGWAggregateTopicTable.cpp:190 | a topic is entered under a filter of another client that matches it | `Aggregate!FanOutRight`, a filter in `Covers` |
| MQTTSNAggregateConnectionHandler.cpp:88 | a clean session keeps subscriptions of two-character topics | `Aggregate!FanOutRight`, `ShortTopics` not empty |
| MQTTSNGWSubscribeHandler.cpp:270 | one client's UNSUBSCRIBE ends the subscription of all | `Aggregate!SubscriptionKept` |
| MQTTSNGWAggregater.cpp:59 | message ids wrap onto entries whose answer was lost | `Aggregate!IdsDistinct`, `MaxPacketId` 2 and a lost connection |
| MQTTSNGWAdapter.cpp:290 | a PINGRESP of the connection before stops the timer of a CONNECT | `Proxy!Recovers`, lapses and a fault |
| MQTTSNGWAdapter.cpp:168 | answers for the secure proxy go to the plain one | `Proxy!Patience`, both proxies |
| MQTTSNGWClientRecvTask.cpp:143 | a device that roams is answered through a forwarder it left | `ClientList!AnswersSender` |
| MQTTSNGWClientList.cpp:324 | an id finds the client whose id it begins | `ClientList!OwnClient`, ids that begin each other |
| MQTTSNGWClientRecvTask.cpp:148 | a CONNECT from an address that is another client's goes to that client | `ClientList!OwnClient`, an address in two of `Homes` |
| MQTTSNGWClientList.cpp:479, MQTTSNGWClientRecvTask.cpp:215 | one client more than MaxNumberOfClients; unlisted clients with ClientAuthentication | `ClientList!AtMostMax`, `OnlyRegistered` |
| MQTTSNGWClientList.cpp:427 | each line of predefinedTopic.conf makes another client | `ClientList!HasItsTopics`, two lines for one id |
| MQTTSNGWClientRecvTask.cpp:200, MQTTSNGateway.cpp:307 | null pointers: a full pool with a forwarder; adapters start before the pool is filled | `ClientList!NoCrash` |
| linux/Threading.cpp:373 | the monitor shows text again | `RingBuffer!ReadOnce`, `Length` 10 |
| MQTTSNGateway.cpp:304, 200; MQTTSNGWProcess.cpp:111 | the size of the queue is truncated; gateway id 257 is 1; `YES;` is not YES | `Config!QueFitsAlways`, `IdRefused`, `LogShared` |
| MQTTSNGWProcess.cpp:47 | a later signal hides SIGINT from the tasks that poll for it | `Tasks!StopSeen`, `Signals` {"INT", "TERM"} |
| MQTTSNPacket/src/MQTTSNPacket.c:56 | a body of 254 bytes gets a length of 255 in front of 257 bytes | `Codec!EveryPacketReadable` |
| MQTTSNPacket/src/MQTTSNConnectServer.c:121 | the duration of a DISCONNECT without one is not set; the comment (line 100) and test1.c:381 say -1 | `Codec!NoDurationIsMinusOne` |
| MQTTSNPacket/src/MQTTSNConnectClient.c:93, MQTTSNPacket.h:103, MQTTSNGWPacket.cpp:218 | any packet is a CONNACK; dup 1 is read as 255; an error becomes a length of 65534 | `Codec!NoReaderMistaken`, `DupKept`, `OnlySerialized` |
| MQTTGWPacket.cpp:581, MQTTGWPacket.h:200 | a new message id overwrites the end of the topic; a topic of 256 letters has length 0 | `MqttPacket!TextKept`, `TopicWhole` |
| MQTTGWPacket.cpp:235 | a packet is copied to a buffer of 1024 bytes without a look at its length | `MqttPacket!FitsBuffer` |
| linux/Network.cpp:511, 636, 617, 525 | with TLS: busy is taken for closed; an open connection is connected again; the context is freed too early; a session ticket stops both tasks | `Network!GoneIsGone`, `RefusedIsRefused` (one, two clients), `EventDone`, all with `Secure` |
| MQTTGWPacket.cpp:229, MQTTSNGWBrokerRecvTask.cpp:166 | a packet in two segments is refused, its rest read as a header | `Network!LengthIsInvalid`, `Aligned` |
| MQTTSNGWClientRecvTask.cpp:152 | a device with a will that the gateway refuses repeats CONNECT for ever | `DeviceProxy!ConnectEnds`, `WillRefused` |
| LGwProxy.cpp:148, 237, 330 | a waking device with a will begins a new session and subscribes nothing; so does one whose session ended while asleep; any DISCONNECT ends a sleep for good | `DeviceProxy!SessionSubscribed`, `WakesUp`, with `Periods` > 0 |
| LPublishManager.cpp:185, LRegisterManager.cpp:240 | only the first publication that waits for a topic is released; none when the registration is given up | `DevicePublish!PublishEnds` |
| LSubscribeManager.cpp:91, 384, 342, 87; LRegisterManager.cpp:216 | subscriptions lose their QoS, their names, their element or come back when onConnect() repeats them; a REGISTER for a filter finds no callback | `DeviceSubscribe!InStep` (with QoS 1 and two connections), `NoCrash`, `Unsubscribed`, `RightCallback` |
| LTopicTable.cpp:74 | a REGISTER that comes while the table has a predefined topic reads its text through a null pointer | `DeviceSubscribe!NoCrash`, a predefined topic and a filter |
| LPublishManager.cpp:370 | of three publications one is lost from the list | `DeviceLists!Listed`, `InFlight` 3 |
| linux/dtls/SensorNetwork.cpp:416, 144, 524, 732, 440 | packets go to another device's session, to none or to a freed one; a device too many is written past the arrays | `SensorNetwork!RightDevice`, `Found`, `InUse`, `NoOverrun`, with `Restarts`, `Listed` or more devices than `MaxClients` |
| linux/rfcomm/SensorNetwork.cpp:242, 161 | the sender is the device that connected last; a channel's new device gets the old one's packets | `Rfcomm!RightSender`, `RightDevice` |
| linux/xbee/SensorNetwork.cpp:367 | after one late status no `send()` waits any more | `XBee!Waits`, `Late` |
| linux/loralink/SensorNetwork.cpp:420, 459 | a late acknowledgement counts for the next packet; two modems' bytes mingle | `LoRaLink!Truthful` (`Late`), `Acknowledged` (`Mixed`) |

(The tester's files are in `MQTTSNGateway/GatewayTester/src/`.)

## What is not modelled

PROJECT.json lists every component with its status and the reason.  In the modelled parts: packets that do
not parse, memory that runs out or is read behind its end; ADVERTISE, SEARCHGW, WILLTOPICUPD and WILLMSGUPD (fixed answers, no
state); the keep-alive timer of a client (nobody reads it in transparent mode); registrations of aggregated clients (as in
`PubSub`); `savePacket` of the adapters; `setCONNECT` for versions other than 3 and 4; multicast, cookies and the
opening of sockets and ports; XBee's API mode 1; the tester's screen and payload class.  `ClientList::erase`, `ClientsPool::setClient`, `Forwarder::eraseClient`,
`LTopicTable::remove`, `setMsgId`, `getPINGREQ` and `getCONNACK` of MQTTSNPacket and the server side of TCPStack are never called.

`MQTTSNClient/src/MQTTSNClient.h` is a class template that does not compile when it is instantiated (lines 704, 764) and that
nothing instantiates.  The UDP networks are one system call around a buffer.  `List` of MQTTSNGWProcess.h has no instance.  Unit tests,
samples and build files are left out.

Beyond what is checked: QoS 2 of `AckTruthful` (the broker's PUBREC and the device's share message ids; the code does not keep it); QoS 2 through the
aggregater, which never completes; a REGACK that is handled while its client is Asleep, which is discarded with the PUBLISH it would release.

## What could follow

In order of importance: `PublishedIdKnown` of `PubSub`; that `MessageIdTable` implements `AggregateTables` for any number of entries; `Bounded` of the ring
buffer.  `DeviceProxy` and `ClientSession` could be composed, so that each replaces the other's environment.
