--------------------------- MODULE DevicePublish ---------------------------
(***************************************************************************)
(* LPublishManager and LRegisterManager of the tester's client: a PUBLISH  *)
(* on a topic without an id waits for REGISTER and REGACK, is sent until   *)
(* it is acknowledged and then forgotten.  The two lists are sequences,    *)
(* which they are as long as no more than two elements are in flight (see  *)
(* DeviceLists).  The device stays connected but for reconnect(); the      *)
(* gateway is modelled as far as the device sees it.                       *)
(***************************************************************************)
EXTENDS Integers, Sequences, FiniteSets

CONSTANTS Topics,       \* topic names
          QoSes,        \* of the publications, from 0..2
          Retries,      \* MQTTSN_RETRY_COUNT
          InFlight,     \* bound on publications at a time
          MaxPublish,   \* bound on publications
          MaxFaults,    \* bound on losses, late answers and lost sessions
          SameTopic     \* two publications on a topic may be in flight

DevicePublishAssumption ==
    /\ QoSes \subseteq 0..2 /\ SameTopic \in BOOLEAN
    /\ Retries \in Nat \ {0} /\ InFlight \in 1..2
    /\ MaxPublish \in Nat /\ MaxFaults \in Nat

VARIABLES pubs,      \* LPublishManager's list
          regs,      \* LRegisterManager's list
          known,     \* LTopicTable: the id of a topic, 0 if there is none
          lastId,    \* _nextMsgId
          count,     \* publications begun
          ids,       \* the gateway's topics, by id; None: erased
          held,      \* message ids of QoS 2 the broker holds
          got,       \* what reached the broker
          up, down, faults

device == <<pubs, regs, known, lastId>>
gateway == <<ids, held, got>>
vars == <<device, count, gateway, up, down, faults>>

None == "none"

Init == /\ pubs = <<>> /\ regs = <<>>
        /\ known = [t \in Topics |-> 0]
        /\ lastId = 0 /\ count = 0
        /\ ids = <<>> /\ held = {} /\ got = {}
        /\ up = <<>> /\ down = <<>> /\ faults = MaxFaults

-----------------------------------------------------------------------------
First(list, Is(_)) ==
    LET found == {i \in DOMAIN list : Is(list[i])}
    IN  IF found = {} THEN 0 ELSE CHOOSE i \in found : \A j \in found : i <= j

Without(list, i) == SubSeq(list, 1, i - 1) \o SubSeq(list, i + 1, Len(list))

\* n and topic are the payload: what was published.
Packet(p) == [type |-> "PUBLISH", qos |-> p.qos, id |-> p.id,
              msgId |-> p.msgId, n |-> p.n, topic |-> p.topic]

\* Variant: a PUBLISH of QoS 1 is forgotten when it has been sent.
SentForgets(list, i) ==
    IF list[i].qos < 2 THEN Without(list, i)
    ELSE [list EXCEPT ![i].st = "pubrec", ![i].sent = TRUE, ![i].retry = @ - 1]

\* sendPublish: QoS 0 is done with sending.
Sent(list, i) ==
    IF list[i].qos = 0 THEN Without(list, i)
    ELSE [list EXCEPT ![i].st = IF list[i].qos = 1 THEN "puback" ELSE "pubrec",
                      ![i].sent = TRUE, ![i].retry = @ - 1]

\* registerTopic, with the next message id: one REGISTER for a topic.
Registered(t, id, list, queue) ==
    IF \E i \in DOMAIN list : list[i].topic = t
    THEN lastId' = id - 1 /\ regs' = list /\ up' = queue
    ELSE /\ lastId' = id
         /\ regs' = Append(list, [topic |-> t, msgId |-> id,
                                  retry |-> Retries - 1])
         /\ up' = Append(queue, [type |-> "REGISTER", topic |-> t,
                                 msgId |-> id])

\* connect() is repeating CONNECT; the main loop stands still.
Connecting == \E i \in DOMAIN up : up[i].type = "CONNECT"

\* The element of a publication; with QoS 0 the message id is not used up.
Element(t, qos, msgId) ==
    [n |-> count + 1, topic |-> t, qos |-> qos, id |-> known[t],
     st |-> IF known[t] # 0 THEN "ready" ELSE "suspended",
     msgId |-> IF qos > 0 THEN msgId ELSE 0, retry |-> Retries, sent |-> FALSE]

\* publish: with the id of the topic, or after a REGISTER.
Publish(t, qos) ==
    LET id == IF qos > 0 THEN lastId + 1 ELSE lastId
        p == Element(t, qos, id)
        list == Append(pubs, p)
    IN  /\ count < MaxPublish /\ Len(pubs) < InFlight
        /\ SameTopic \/ \A i \in DOMAIN pubs : pubs[i].topic # t
        /\ ~Connecting
        /\ count' = count + 1
        /\ IF known[t] # 0
           THEN /\ pubs' = Sent(list, Len(list)) /\ lastId' = id
                /\ up' = Append(up, Packet(p)) /\ UNCHANGED regs
           ELSE pubs' = list /\ Registered(t, id + 1, regs, up)
        /\ UNCHANGED <<known, gateway, down, faults>>

Hears(type) == /\ down # <<>> /\ Head(down).type = type /\ ~Connecting
               /\ down' = Tail(down)
               /\ UNCHANGED <<count, gateway, faults>>

\* sendSuspend ends with the first publication that waits for the topic id.
Suspended(t) == First(pubs, LAMBDA p : p.topic = t /\ p.st = "suspended")

\* responceRegAck: the return code is not looked at.
ReceiveRegack ==
    /\ Hears("REGACK")
    /\ LET r == First(regs, LAMBDA e : e.msgId = Head(down).msgId)
       IN  IF r = 0 THEN UNCHANGED <<pubs, regs, known, up>>
           ELSE LET t == regs[r].topic
                    id == Head(down).id
                    i == Suspended(t)
                IN  /\ known' = [known EXCEPT ![t] = id]
                    /\ regs' = Without(regs, r)
                    /\ IF i = 0 THEN UNCHANGED <<pubs, up>>
                       ELSE LET list == [pubs EXCEPT ![i].id = id]
                            IN  /\ pubs' = Sent(list, i)
                                /\ up' = Append(up, Packet(list[i]))
    /\ UNCHANGED lastId

\* The publication that an acknowledgement is about.
Acked == First(pubs, LAMBDA p : p.msgId = Head(down).msgId)

\* PUBACK: done, or the topic id has to be registered once more.
ReceivePuback ==
    /\ Hears("PUBACK") /\ UNCHANGED known
    /\ \/ /\ Acked # 0 /\ Head(down).rc = "accepted"
          /\ pubs' = IF pubs[Acked].st = "puback" THEN Without(pubs, Acked)
                     ELSE pubs
          /\ UNCHANGED <<regs, lastId, up>>
       \/ /\ Acked # 0 /\ Head(down).rc = "invalid topic id"
          /\ pubs' = [pubs EXCEPT ![Acked].st = "suspended", ![Acked].id = 0,
                        ![Acked].retry = Retries, ![Acked].sent = FALSE]
          /\ Registered(pubs[Acked].topic, lastId + 1, regs, up)
       \/ Acked = 0 /\ UNCHANGED <<pubs, regs, lastId, up>>

ReceivePubrec ==
    /\ Hears("PUBREC")
    /\ IF Acked # 0 /\ pubs[Acked].st \in {"pubrec", "pubcomp"}
       THEN /\ pubs' = [pubs EXCEPT ![Acked].st = "pubcomp", ![Acked].sent = TRUE]
            /\ up' = Append(up, [type |-> "PUBREL", msgId |-> Head(down).msgId])
       ELSE UNCHANGED <<pubs, up>>
    /\ UNCHANGED <<regs, known, lastId>>

ReceivePubcomp ==
    /\ Hears("PUBCOMP")
    /\ pubs' = IF Acked # 0 /\ pubs[Acked].st = "pubcomp"
               THEN Without(pubs, Acked) ELSE pubs
    /\ UNCHANGED <<regs, known, lastId, up>>

\* Time runs out: nothing is on its way, or something is late.
TimeRunsOut ==
    /\ ~Connecting
    /\ \/ up = <<>> /\ down = <<>> /\ UNCHANGED faults
       \/ /\ up # <<>> \/ down # <<>>
          /\ faults > 0 /\ faults' = faults - 1
    /\ UNCHANGED <<count, gateway>>

\* Variant: there is no second try.
RegisterTimeoutDrops ==
    /\ TimeRunsOut /\ regs # <<>> /\ regs' = Tail(regs)
    /\ UNCHANGED <<pubs, known, lastId, down, up>>

\* LRegisterManager::checkTimeout: a registration without an answer is dropped.
RegisterTimeout ==
    /\ TimeRunsOut /\ regs # <<>>
    /\ IF regs[1].retry >= 0
       THEN /\ up' = Append(up, [type |-> "REGISTER", topic |-> regs[1].topic,
                                 msgId |-> regs[1].msgId])
            /\ regs' = Append(Tail(regs), [regs[1] EXCEPT !.retry = @ - 1])
       ELSE regs' = Tail(regs) /\ UNCHANGED up
    /\ UNCHANGED <<pubs, known, lastId, down>>

\* LPublishManager::checkTimeout: also after PUBREC it is PUBLISH that is sent
\* again.  After the last try the device connects again, with a clean session.
PublishTimeout(i) ==
    /\ TimeRunsOut /\ pubs[i].sent
    /\ IF pubs[i].retry >= 0
       THEN /\ pubs' = Sent(pubs, i)
            /\ up' = Append(up, Packet(pubs[i]))
            /\ UNCHANGED <<down, known>>
       ELSE /\ pubs' = [pubs EXCEPT ![i].retry = Retries]
            /\ up' = Append(up, [type |-> "CONNECT"])
            /\ known' = [t \in Topics |-> 0] /\ UNCHANGED down
    /\ UNCHANGED <<regs, lastId>>

-----------------------------------------------------------------------------
Takes(type) == /\ up # <<>> /\ Head(up).type = type
               /\ up' = Tail(up)
               /\ UNCHANGED <<device, count, faults>>

Answer(m) == down' = Append(down, m)

Erased == [i \in DOMAIN ids |-> None]

\* What comes before the CONNACK has been dropped by connect().
GwConnect == /\ Takes("CONNECT") /\ ids' = Erased
             /\ down' = <<>> /\ UNCHANGED <<held, got>>

GwRegister ==
    /\ Takes("REGISTER")
    /\ LET t == Head(up).topic
           i == First(ids, LAMBDA e : e = t)
       IN  /\ ids' = IF i = 0 THEN Append(ids, t) ELSE ids
           /\ Answer([type |-> "REGACK", msgId |-> Head(up).msgId,
                      id |-> IF i = 0 THEN Len(ids) + 1 ELSE i])
    /\ UNCHANGED <<held, got>>

GwPublish ==
    /\ Takes("PUBLISH")
    /\ LET m == Head(up)
           valid == m.id \in DOMAIN ids /\ ids[m.id] # None
       IN  IF valid
           THEN /\ got' = IF m.qos = 2 /\ m.msgId \in held THEN got
                          ELSE got \cup {<<m.n, m.topic, ids[m.id]>>}
                /\ held' = IF m.qos = 2 THEN held \cup {m.msgId} ELSE held
                /\ CASE m.qos = 0 -> UNCHANGED down
                     [] m.qos = 1 -> Answer([type |-> "PUBACK", rc |-> "accepted",
                                             msgId |-> m.msgId])
                     [] m.qos = 2 -> Answer([type |-> "PUBREC",
                                             msgId |-> m.msgId])
           ELSE /\ IF m.qos = 0 THEN UNCHANGED down
                   ELSE Answer([type |-> "PUBACK", rc |-> "invalid topic id",
                                msgId |-> m.msgId])
                /\ UNCHANGED <<held, got>>
    /\ UNCHANGED ids

GwPubrel == /\ Takes("PUBREL")
            /\ held' = held \ {Head(up).msgId}
            /\ Answer([type |-> "PUBCOMP", msgId |-> Head(up).msgId])
            /\ UNCHANGED <<ids, got>>

\* The gateway forgets the topics.
GwForgets == /\ faults > 0 /\ faults' = faults - 1
             /\ Erased # ids /\ ids' = Erased
             /\ UNCHANGED <<device, count, held, got, up, down>>

Lose == /\ faults > 0 /\ faults' = faults - 1
        /\ \/ up # <<>> /\ Head(up).type # "CONNECT"
              /\ up' = Tail(up) /\ UNCHANGED down
           \/ down # <<>> /\ down' = Tail(down) /\ UNCHANGED up
        /\ UNCHANGED <<device, count, gateway>>

-----------------------------------------------------------------------------
Receive == ReceiveRegack \/ ReceivePuback \/ ReceivePubrec \/ ReceivePubcomp

Timeouts == RegisterTimeout \/ \E i \in DOMAIN pubs : PublishTimeout(i)

Gateway == GwConnect \/ GwRegister \/ GwPublish \/ GwPubrel

Next == \/ \E t \in Topics, qos \in QoSes : Publish(t, qos)
        \/ Receive \/ Timeouts \/ Gateway \/ GwForgets \/ Lose

Spec == Init /\ [][Next]_vars

\* The main loop goes on and the gateway answers.
Fairness == WF_vars(Receive) /\ WF_vars(Timeouts) /\ WF_vars(Gateway)

FairSpec == Spec /\ Fairness

-----------------------------------------------------------------------------
TypeOK ==
    /\ \A i \in DOMAIN pubs :
          /\ pubs[i].topic \in Topics /\ pubs[i].qos \in QoSes
          /\ pubs[i].st \in {"suspended", "puback", "pubrec", "pubcomp"}
          /\ pubs[i].retry \in -1..Retries
    /\ Len(pubs) <= InFlight
    /\ known \in [Topics -> 0..Len(ids)]
    /\ held \subseteq 1..lastId
    /\ got \subseteq (1..count) \X Topics \X Topics

(* What is published on a topic reaches the broker under that topic,       *)
(* whatever topic ids were valid when it was sent first.                   *)
RightTopic == \A g \in got : g[2] = g[3]

(* A PUBLISH of QoS 1 or 2 is forgotten only when the broker has it        *)
(* ("PUBLISH Done").                                                       *)
ForgetsDelivered ==
    \A i \in DOMAIN pubs :
        pubs[i].qos > 0 /\ (\A j \in DOMAIN pubs' : pubs'[j].n # pubs[i].n)
           => \E g \in got : g[1] = pubs[i].n
DoneDelivered == [][ForgetsDelivered]_vars

(* Registrations are not repeated while one is under way.                  *)
OneRegister == \A i, j \in DOMAIN regs : regs[i].topic = regs[j].topic => i = j

(* Every publication is done at last, and with it the task that waits for  *)
(* isDone().                                                               *)
PublishEnds == pubs # <<>> ~> pubs = <<>>
=============================================================================
