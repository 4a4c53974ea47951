------------------------ MODULE SleepSilence_proofs -------------------------
(***************************************************************************)
(* No PUBLISH and no REGISTER is on its way to a device that sleeps, as    *)
(* long as no packet is lost, no connection breaks and no device speaks    *)
(* out of turn (SilentWhenAsleep).                                         *)
(*                                                                         *)
(* The gateway looks at the status of a Client, which changes when a       *)
(* packet is handled; the device sleeps when it has received the answer;   *)
(* the broker, three queues and two tasks lie between.  What keeps them    *)
(* together is that a device has one request under way:                    *)
(*   OneRequest   it is in one place, as the request, as the answer of the *)
(*                broker, as the answer to the device or held back by      *)
(*                holdPingRequest;                                         *)
(*   RequestFits  it is the one the device waits for;                      *)
(*   StatusFits   the status of the Client, once the updateStatus() that   *)
(*                is still to come is done, is one that the state of the   *)
(*                device allows;                                           *)
(*   EndsFit      a DISCONNECT on its way finds a device that has settled  *)
(*                for it;                                                  *)
(*   Hushed       what is on its way to a device that is about to sleep is *)
(*                followed by the answer that puts it to sleep.            *)
(***************************************************************************)
EXTENDS ClientSession_proofs

(* What is in a queue, and in which order.                                 *)
Elems(q) == { q[i] : i \in DOMAIN q }
Lone(q, E) == \A i, j \in DOMAIN q : q[i] \in E /\ q[j] \in E => i = j
Behind(q, E, F) == \E i, j \in DOMAIN q : i < j /\ q[i] \in E /\ q[j] \in F
Covered(q, E, F) ==
    \A i \in DOMAIN q : q[i] \in E => \E j \in DOMAIN q : i < j /\ q[j] \in F

-----------------------------------------------------------------------------
(* The request of device c on its way: in the packet queue as the request  *)
(* or as the broker's answer, in the queue to the broker, on the way from  *)
(* the broker, and as the answer in the queue to the device.               *)
Asked(c) == { e \in PacketEvent : /\ e.client = c
                                  /\ \/ e.src = "client" /\ e.pkt.type # "REGACK"
                                     \/ e.src = "broker" /\ e.pkt.type \in {"CONNACK", "PINGRESP"} }
Forwarded(c) == { e \in Event(GwPacket) : e.client = c /\ e.pkt.type \in {"CONNECT", "PINGREQ"} }
Replied == { p \in BrokerPacket : p.type # "PUBLISH" }
Answer(c) == { e \in Event(SnPacket) :
                    e.client = c /\ e.pkt.type \notin {"PUBLISH", "REGISTER"} }

(* A CONNACK that accepts, the end of a connection, a PUBLISH or REGISTER. *)
Accept(c) == { e \in PacketEvent : /\ e.client = c /\ e.src = "broker"
                                   /\ e.pkt.type = "CONNACK" /\ e.pkt.accepted }
AcceptD == { p \in BrokerPacket : p.type = "CONNACK" /\ p.accepted }
Drop(c) == { e \in PacketEvent : e.client = c /\ e.src = "broker" /\ e.pkt.type = "DISCONNECT" }
Leave(c) == { e \in Event(GwPacket) : e.client = c /\ e.pkt.type = "DISCONNECT" }
Open(c) == { e \in Event(GwPacket) : e.client = c /\ e.pkt.type = "CONNECT" }
Delivery(c) == { e \in Event(SnPacket) : e.client = c /\ e.pkt.type \in {"PUBLISH", "REGISTER"} }

InP(c) == \E e \in Elems(packetQ) : e \in Asked(c)
InB(c) == \E e \in Elems(brokerQ) : e \in Forwarded(c)
InD(c) == \E p \in Elems(net[c].down) : p \in Replied
InA(c) == \E e \in Elems(clientQ) : e \in Answer(c)

(* The status of c when the updateStatus() that is still to come is done.  *)
Eff(c) == IF upd # None /\ upd.client = c THEN UpdatedStatus(cl[c], upd.pkt).status
          ELSE cl[c].status

(* One request at a time, in one place. *)
OneRequest(c) ==
    /\ Lone(packetQ, Asked(c)) /\ Lone(brokerQ, Forwarded(c))
    /\ Lone(net[c].down, Replied) /\ Lone(clientQ, Answer(c))
    /\ InP(c) => ~(InB(c) \/ InD(c) \/ InA(c) \/ cl[c].holdPing)
    /\ InB(c) => ~(InD(c) \/ InA(c) \/ cl[c].holdPing)
    /\ InD(c) => ~(InA(c) \/ cl[c].holdPing)
    /\ InA(c) => ~cl[c].holdPing

(* The packets of the request and of the answer that a device in state st  *)
(* waits for, on the way to and in the packet queue (AskedIn), to and from *)
(* the broker (SentIn) and to the device (AnswerIn).                       *)
AskedIn(st, p) ==
    \/ st = "connecting" /\ p.type \in {"CONNECT", "WILLTOPIC", "WILLMSG", "CONNACK"}
    \/ st \in {"pinging", "awake"} /\ p.type \in {"PINGREQ", "PINGRESP"}
    \/ st = "sleepReq" /\ p.type = "DISCONNECT" /\ p.sleep
    \/ st = "discReq" /\ p.type = "DISCONNECT" /\ ~p.sleep
SentIn(st, type) ==
    \/ st = "connecting" /\ type \in {"CONNECT", "CONNACK"}
    \/ st \in {"pinging", "awake"} /\ type \in {"PINGREQ", "PINGRESP"}
AnswerIn(st, type) ==
    \/ st = "connecting" /\ type # "PINGRESP"
    \/ st \in {"pinging", "awake"} /\ type = "PINGRESP"
    \/ st \in {"sleepReq", "discReq"} /\ type = "DISCONNECT"

(* ... and it is the one the device waits for. *)
RequestFits(c) ==
    /\ \A e \in Elems(packetQ) : e \in Asked(c) => AskedIn(dev[c].st, e.pkt)
    /\ \A e \in Elems(brokerQ) : e \in Forwarded(c) => SentIn(dev[c].st, e.pkt.type)
    /\ \A p \in Elems(net[c].down) : p \in Replied => SentIn(dev[c].st, p.type)
    /\ \A e \in Elems(clientQ) : e \in Answer(c) => AnswerIn(dev[c].st, e.pkt.type)
    /\ cl[c].holdPing => dev[c].st = "awake"

(* The device is about to become active, its request is beyond CONNECT.    *)
Accepted(c) == \E e \in Elems(clientQ) : e \in Answer(c) /\ e.pkt.type = "CONNACK" /\ e.pkt.accepted
Past(c) == \E e \in Elems(packetQ) : e \in Asked(c) /\ e.pkt.type # "CONNECT"

(* The states of a device and the statuses of its Client that go together. *)
Low == {"Disconnected", "Connecting"}
StatusFits(c) ==
    /\ dev[c].st \in {"off", "topicReq", "msgReq"} => Eff(c) \in Low
    /\ dev[c].st \in {"active", "pinging"} => Eff(c) \in {"Active", "Connecting"}
    /\ dev[c].st = "asleep" => Eff(c) \in {"Asleep", "Connecting"}
    /\ dev[c].st = "connecting" =>
            \/ Eff(c) = "Connecting"
            \/ Eff(c) = "Disconnected" /\ ~Accepted(c)
            \/ Eff(c) = "Asleep" /\ ~(Past(c) \/ InB(c) \/ InD(c) \/ InA(c))
            \/ Eff(c) = "Active" /\ Accepted(c)
    /\ dev[c].st = "sleepReq" =>
            Eff(c) = "Connecting" \/ Eff(c) = IF InA(c) THEN "Asleep" ELSE "Active"
    /\ dev[c].st = "awake" =>
            Eff(c) \in {"Asleep", "Connecting"} \/ (Eff(c) = "Awake" /\ ~InA(c))
    /\ dev[c].st = "discReq" /\ InA(c) => Eff(c) \in Low

(* The device counts on no session, and its Client has none (Settled); no  *)
(* CONNACK is to come that would give it one (Ended); its connection is to *)
(* be closed (Leaving).                                                    *)
Settled(c) == /\ dev[c].st \in {"off", "connecting", "topicReq", "msgReq", "discReq"}
              /\ Eff(c) \in Low
              /\ ~Accepted(c)
Ended(c) == /\ Settled(c)
            /\ \A e \in Elems(packetQ) : e \notin Accept(c)
            /\ \A p \in Elems(net[c].down) : p \notin AcceptD
Leaving(c) == \/ \E e \in Elems(brokerQ) : e \in Leave(c)
              \/ sent # None /\ sent.client = c /\ sent.pkt.type # "CONNECT"

(* A DISCONNECT on its way meets a device that has settled for it, and is  *)
(* not overtaken by the CONNECT of the next connection.                    *)
EndsFit(c) ==
    /\ Leaving(c) => Ended(c)
    /\ ~Behind(brokerQ, Open(c), Leave(c))
    /\ ~Ended(c) => net[c].sock = "open" /\ net[c].peer = "session"
    /\ (\E e \in Elems(packetQ) : e \in Drop(c)) => Settled(c)
    /\ ~Behind(packetQ, Accept(c), Drop(c))

(* A device that sleeps or will as soon as the answer reaches it.          *)
Quiet(c) == dev[c].st = "asleep" \/ (dev[c].st \in {"sleepReq", "awake"} /\ InA(c))
Hushed(c) == Quiet(c) => Covered(clientQ, Delivery(c), Answer(c))

(* What holds of device c and its Client between any two steps.            *)
Calm(c) == OneRequest(c) /\ RequestFits(c) /\ StatusFits(c) /\ EndsFit(c) /\ Hushed(c)

-----------------------------------------------------------------------------
(* Queues                                                                  *)

(* Of the events in T, r has none that q has not, in the same order.       *)
Keeps(q, r, T) ==
    /\ \A x \in T : x \in Elems(r) => x \in Elems(q)
    /\ \A E \in SUBSET T : Lone(q, E) => Lone(r, E)
    /\ \A E, F \in SUBSET T : Behind(r, E, F) => Behind(q, E, F)

(* Nothing is in order.                                                    *)
LEMMA NoneLone ==
    ASSUME NEW q, NEW E, \A x \in Elems(q) : x \notin E
    PROVE  Lone(q, E) /\ \A F : ~Behind(q, E, F)
  BY DEF Elems, Lone, Behind

(* It is enough to say where each of them was.                             *)
LEMMA KeepsMoved ==
    ASSUME NEW q, NEW r, NEW T, NEW f,
           \A i \in DOMAIN r : r[i] \in T => f[i] \in DOMAIN q /\ q[f[i]] = r[i],
           \A i, j \in DOMAIN r : (i < j => f[i] < f[j]) /\ (f[i] = f[j] => i = j)
    PROVE  Keeps(q, r, T)
<1>1. \A x \in T : x \in Elems(r) => x \in Elems(q)
  BY DEF Elems
<1>2. ASSUME NEW E \in SUBSET T, Lone(q, E) PROVE Lone(r, E)
  <2> SUFFICES ASSUME NEW i \in DOMAIN r, NEW j \in DOMAIN r, r[i] \in E, r[j] \in E
               PROVE  i = j
    BY DEF Lone
  <2>1. f[i] \in DOMAIN q /\ q[f[i]] = r[i] /\ f[j] \in DOMAIN q /\ q[f[j]] = r[j]
    OBVIOUS
  <2> QED
    BY <1>2, <2>1 DEF Lone
<1>3. ASSUME NEW E \in SUBSET T, NEW F \in SUBSET T, Behind(r, E, F) PROVE Behind(q, E, F)
  <2>1. PICK i \in DOMAIN r, j \in DOMAIN r : i < j /\ r[i] \in E /\ r[j] \in F
    BY <1>3 DEF Behind
  <2>2. f[i] \in DOMAIN q /\ q[f[i]] = r[i] /\ f[j] \in DOMAIN q /\ q[f[j]] = r[j]
    BY <2>1
  <2> QED
    BY <2>1, <2>2 DEF Behind
<1> QED
  BY <1>1, <1>2, <1>3 DEF Keeps

(* What two steps keep, both together keep.                                *)
LEMMA KeepsTrans ==
    ASSUME NEW q, NEW r, NEW s, NEW T, Keeps(q, r, T), Keeps(r, s, T)
    PROVE  Keeps(q, s, T)
  BY DEF Keeps

(* The event that a task takes, and what it leaves.                        *)
LEMMA Taken ==
    ASSUME NEW S, NEW q \in Seq(S), q # <<>>
    PROVE  /\ Head(q) \in S /\ Tail(q) \in Seq(S)
           /\ Elems(q) = Elems(Tail(q)) \cup {Head(q)}
           /\ \A T : Keeps(q, Tail(q), T)
           /\ \A E : Lone(q, E) /\ Head(q) \in E => \A x \in Elems(Tail(q)) : x \notin E
           /\ \A E, F : ~Behind(q, E, F) /\ Head(q) \in E => \A x \in Elems(Tail(q)) : x \notin F
           /\ \A E, F : Covered(q, E, F) => Covered(Tail(q), E, F)
<1> DEFINE t == Tail(q)
<1>1. DOMAIN q = 1..Len(q) /\ Len(q) \in Nat /\ Len(q) # 0
  BY LenProperties, EmptySeq
<1>2. /\ Head(q) \in S /\ t \in Seq(S) /\ Head(q) = q[1]
      /\ Len(t) = Len(q) - 1 /\ \A i \in 1..Len(t) : t[i] = q[i + 1]
  BY HeadTailProperties
<1>3. DOMAIN t = 1..(Len(q) - 1)
  BY <1>2, LenProperties
<1> HIDE DEF t
<1>4. /\ 1 \in DOMAIN q
      /\ \A i \in DOMAIN t : i + 1 \in DOMAIN q /\ i + 1 # 1 /\ 1 < i + 1 /\ t[i] = q[i + 1]
      /\ \A i, j \in DOMAIN t : (i < j <=> i + 1 < j + 1) /\ (i + 1 = j + 1 => i = j)
      /\ \A k \in DOMAIN q : k = 1 \/ (k - 1 \in DOMAIN t /\ k = (k - 1) + 1)
  BY <1>1, <1>2, <1>3
<1>5. Elems(q) = Elems(t) \cup {Head(q)}
  <2>1. \A i \in DOMAIN q : q[i] = Head(q) \/ \E j \in DOMAIN t : t[j] = q[i]
    BY <1>2, <1>4
  <2>2. \A j \in DOMAIN t : \E i \in DOMAIN q : q[i] = t[j]
    BY <1>4
  <2>3. \E i \in DOMAIN q : q[i] = Head(q)
    BY <1>2, <1>4
  <2> QED
    BY <2>1, <2>2, <2>3 DEF Elems
<1>6. ASSUME NEW T PROVE Keeps(q, t, T)
  <2> DEFINE f == [i \in DOMAIN t |-> i + 1]
  <2>1. /\ \A i \in DOMAIN t : t[i] \in T => f[i] \in DOMAIN q /\ q[f[i]] = t[i]
        /\ \A i, j \in DOMAIN t : (i < j => f[i] < f[j]) /\ (f[i] = f[j] => i = j)
    BY <1>4
  <2> HIDE DEF f
  <2> QED
    BY <2>1, KeepsMoved
<1>7. ASSUME NEW E, Lone(q, E), Head(q) \in E, NEW i \in DOMAIN t PROVE t[i] \notin E
  BY <1>2, <1>4, <1>7 DEF Lone
<1>8. ASSUME NEW E, NEW F, ~Behind(q, E, F), Head(q) \in E, NEW i \in DOMAIN t PROVE t[i] \notin F
  <2>1. 1 \in DOMAIN q /\ i + 1 \in DOMAIN q /\ 1 < i + 1 /\ q[1] \in E /\ q[i + 1] = t[i]
    BY <1>2, <1>4, <1>8
  <2> QED
    BY <1>8, <2>1 DEF Behind
<1>9. ASSUME NEW E, NEW F, Covered(q, E, F) PROVE Covered(t, E, F)
  <2> SUFFICES ASSUME NEW i \in DOMAIN t, t[i] \in E
               PROVE  \E j \in DOMAIN t : i < j /\ t[j] \in F
    BY DEF Covered
  <2>1. PICK k \in DOMAIN q : i + 1 < k /\ q[k] \in F
    BY <1>4, <1>9 DEF Covered
  <2>2. k - 1 \in DOMAIN t /\ k = (k - 1) + 1 /\ i < k - 1
    BY <1>1, <1>3, <2>1
  <2> QED
    BY <1>4, <2>1, <2>2
<1> QED
  BY <1>2, <1>5, <1>6, <1>7, <1>8, <1>9 DEF Elems, t

(* The event that a task appends.                                          *)
LEMMA Appended ==
    ASSUME NEW S, NEW q \in Seq(S), NEW e \in S
    PROVE  /\ Elems(Append(q, e)) = Elems(q) \cup {e}
           /\ \A T : e \notin T => Keeps(q, Append(q, e), T)
           /\ \A E : Lone(q, E) /\ (\A x \in Elems(q) : x \notin E) => Lone(Append(q, e), E)
           /\ \A E, F : ~Behind(q, E, F) /\ (e \notin F \/ \A x \in Elems(q) : x \notin E)
                         => ~Behind(Append(q, e), E, F)
           /\ \A E, F : e \notin E /\ (Covered(q, E, F) \/ e \in F) => Covered(Append(q, e), E, F)
<1> DEFINE t == Append(q, e)
           n == Len(q)
<1>1. /\ DOMAIN q = 1..n /\ n \in Nat
      /\ DOMAIN t = 1..(n + 1)
      /\ \A i \in 1..n : t[i] = q[i]
      /\ t[n + 1] = e
  BY AppendProperties, LenProperties
<1> HIDE DEF t, n
<1>2. /\ n + 1 \in DOMAIN t
      /\ \A i \in DOMAIN q : i \in DOMAIN t /\ t[i] = q[i] /\ i < n + 1
      /\ \A i \in DOMAIN t : (i \in DOMAIN q /\ i # n + 1) \/ i = n + 1
      /\ \A i \in DOMAIN t : ~(n + 1 < i)
  BY <1>1
<1>3. Elems(t) = Elems(q) \cup {e}
  BY <1>1, <1>2 DEF Elems
<1>4. ASSUME NEW T, e \notin T PROVE Keeps(q, t, T)
  <2> DEFINE f == [i \in DOMAIN t |-> i]
  <2>1. /\ \A i \in DOMAIN t : t[i] \in T => f[i] \in DOMAIN q /\ q[f[i]] = t[i]
        /\ \A i, j \in DOMAIN t : (i < j => f[i] < f[j]) /\ (f[i] = f[j] => i = j)
    BY <1>1, <1>2, <1>4
  <2> HIDE DEF f
  <2> QED
    BY <2>1, KeepsMoved
<1>5. ASSUME NEW E, Lone(q, E), \A x \in Elems(q) : x \notin E PROVE Lone(t, E)
  BY <1>2, <1>5 DEF Lone, Elems
<1>6. ASSUME NEW E, NEW F, ~Behind(q, E, F), e \notin F \/ \A x \in Elems(q) : x \notin E,
             Behind(t, E, F)
      PROVE  FALSE
  <2>1. PICK i \in DOMAIN t, j \in DOMAIN t : i < j /\ t[i] \in E /\ t[j] \in F
    BY <1>6 DEF Behind
  <2>2. i \in DOMAIN q /\ q[i] \in E
    BY <1>2, <2>1
  <2>3. j = n + 1
    BY <1>2, <1>6, <2>1, <2>2 DEF Behind
  <2> QED
    BY <1>1, <1>6, <2>1, <2>2, <2>3 DEF Elems
<1>7. ASSUME NEW E, NEW F, e \notin E, Covered(q, E, F) \/ e \in F, NEW i \in DOMAIN t, t[i] \in E
      PROVE  \E j \in DOMAIN t : i < j /\ t[j] \in F
  <2>1. i \in DOMAIN q /\ q[i] \in E
    BY <1>1, <1>2, <1>7
  <2>2. CASE Covered(q, E, F)
    BY <1>2, <2>1, <2>2 DEF Covered
  <2>3. CASE e \in F
    BY <1>1, <1>2, <2>1, <2>3
  <2> QED
    BY <1>7, <2>2, <2>3
<1>8. \A E, F : e \notin E /\ (Covered(q, E, F) \/ e \in F) => Covered(t, E, F)
  BY <1>7 DEF Covered
<1> QED
  BY <1>3, <1>4, <1>5, <1>6, <1>8 DEF t

(* The events that have no room in the packet queue are dropped.           *)
LEMMA PostedAll ==
    ASSUME NEW q \in Seq(PacketEvent), NEW events \in Seq(PacketEvent)
    PROVE  /\ \A x \in Elems(Posted(q, events)) : x \in Elems(q) \cup Elems(events)
           /\ \A T : (\A x \in Elems(events) : x \notin T) => Keeps(q, Posted(q, events), T)
           /\ \A E : Lone(q \o events, E) => Lone(Posted(q, events), E)
           /\ \A E, F : Behind(Posted(q, events), E, F) => Behind(q \o events, E, F)
<1> DEFINE all == q \o events
           p == Posted(q, events)
           n == Len(q)
<1>1. /\ all \in Seq(PacketEvent) /\ Len(all) = n + Len(events)
      /\ \A i \in 1..(n + Len(events)) : all[i] = IF i <= n THEN q[i] ELSE events[i - n]
  BY ConcatProperties
<1>2. /\ DOMAIN q = 1..n /\ n \in Nat
      /\ DOMAIN events = 1..Len(events) /\ Len(events) \in Nat
      /\ DOMAIN all = 1..(n + Len(events))
  BY <1>1, LenProperties
<1>3. PICK m \in Nat : m <= Len(all) /\ DOMAIN p = 1..m /\ \A i \in 1..m : p[i] = all[i]
  <2>1. MaxPackets \in Nat /\ Len(all) \in Nat
    BY <1>1, <1>2, SessionAssumption
  <2>2. CASE Len(all) <= MaxPackets
    BY <1>1, <1>2, <2>1, <2>2 DEF Posted
  <2>3. CASE ~(Len(all) <= MaxPackets)
    <3>1. p = SubSeq(all, 1, MaxPackets) /\ MaxPackets <= Len(all)
      BY <2>1, <2>3 DEF Posted
    <3>2. \A i \in 1..MaxPackets : all[i] \in PacketEvent
      BY <1>1, <2>1, <3>1, ElementOfSeq
    <3> HIDE DEF all, p
    <3>3. p \in Seq(PacketEvent) /\ Len(p) = MaxPackets /\ \A i \in 1..MaxPackets : p[i] = all[i]
      BY <2>1, <3>1, <3>2, SubSeqProperties
    <3> QED
      BY <2>1, <3>1, <3>3, LenProperties
  <2> QED
    BY <2>2, <2>3
<1> HIDE DEF all, p, n
<1>4. ASSUME NEW i \in DOMAIN p
      PROVE  /\ i \in DOMAIN all /\ p[i] = all[i] /\ i \in Nat
             /\ \/ i \in DOMAIN q /\ p[i] = q[i]
                \/ i - n \in DOMAIN events /\ p[i] = events[i - n]
  BY <1>1, <1>2, <1>3
<1>5. \A x \in Elems(p) : x \in Elems(q) \cup Elems(events)
  BY <1>4 DEF Elems
<1> DEFINE f == [i \in DOMAIN p |-> i]
<1>6. /\ \A i \in DOMAIN p : f[i] = i
      /\ \A i, j \in DOMAIN p : (i < j => f[i] < f[j]) /\ (f[i] = f[j] => i = j)
  OBVIOUS
<1> HIDE DEF f
<1>7. ASSUME NEW T, \A x \in Elems(events) : x \notin T PROVE Keeps(q, p, T)
  <2>1. \A i \in DOMAIN p : p[i] \in T => f[i] \in DOMAIN q /\ q[f[i]] = p[i]
    BY <1>4, <1>6, <1>7 DEF Elems
  <2> QED
    BY <1>6, <2>1, KeepsMoved
<1>8. ASSUME NEW E, Lone(all, E) PROVE Lone(p, E)
  BY <1>4, <1>8 DEF Lone
<1>9. ASSUME NEW E, NEW F, Behind(p, E, F) PROVE Behind(all, E, F)
  BY <1>4, <1>9 DEF Behind
<1> QED
  BY <1>5, <1>7, <1>8, <1>9 DEF all, p

(* One event.                                                              *)
LEMMA PostedOne ==
    ASSUME NEW q \in Seq(PacketEvent), NEW e \in PacketEvent
    PROVE  /\ \A x \in Elems(Posted(q, <<e>>)) : x \in Elems(q) \cup {e}
           /\ \A T : e \notin T => Keeps(q, Posted(q, <<e>>), T)
           /\ \A E : Lone(q, E) /\ (\A x \in Elems(q) : x \notin E) => Lone(Posted(q, <<e>>), E)
           /\ \A E, F : ~Behind(q, E, F) /\ (e \notin F \/ \A x \in Elems(q) : x \notin E)
                         => ~Behind(Posted(q, <<e>>), E, F)
<1>1. <<e>> \in Seq(PacketEvent) /\ Elems(<<e>>) = {e}
  BY DEF Elems
<1>2. q \o <<e>> = Append(q, e)
  OBVIOUS
<1>3. /\ \A x \in Elems(Posted(q, <<e>>)) : x \in Elems(q) \cup {e}
      /\ \A T : e \notin T => Keeps(q, Posted(q, <<e>>), T)
      /\ \A E : Lone(Append(q, e), E) => Lone(Posted(q, <<e>>), E)
      /\ \A E, F : Behind(Posted(q, <<e>>), E, F) => Behind(Append(q, e), E, F)
  BY <1>1, <1>2, PostedAll
<1>4. /\ \A E : Lone(q, E) /\ (\A x \in Elems(q) : x \notin E) => Lone(Append(q, e), E)
      /\ \A E, F : ~Behind(q, E, F) /\ (e \notin F \/ \A x \in Elems(q) : x \notin E)
                    => ~Behind(Append(q, e), E, F)
  BY Appended
<1> QED
  BY <1>3, <1>4

-----------------------------------------------------------------------------
(* A step that moves no request of c.                                      *)
Due(c) == Asked(c) \cup Drop(c)
DueB(c) == Forwarded(c) \cup Leave(c)

(* No queue gets a request of c and none loses its order; the status of    *)
(* the Client is as before, or a connection begins or ends.                *)
Undisturbed(c) ==
    /\ dev'[c].st = dev[c].st
    /\ \/ Eff(c)' = Eff(c)
       \/ Eff(c)' = "Connecting"
       \/ Eff(c)' = "Disconnected" /\ Settled(c)
    /\ cl'[c].holdPing => cl[c].holdPing
    /\ \/ Keeps(packetQ, packetQ', Due(c))
       \/ Keeps(packetQ, packetQ', Asked(c)) /\ Ended(c)
    /\ Keeps(brokerQ, brokerQ', DueB(c))
    /\ Keeps(net[c].down, net'[c].down, Replied)
    /\ Keeps(clientQ, clientQ', Answer(c))
    /\ \A e \in Answer(c) : e \in Elems(clientQ) => e \in Elems(clientQ')
    /\ Quiet(c) /\ Covered(clientQ, Delivery(c), Answer(c))
            => Covered(clientQ', Delivery(c), Answer(c))
    /\ sent' # None /\ sent'.client = c /\ sent'.pkt.type # "CONNECT" => Leaving(c)
    /\ (net'[c].sock = net[c].sock /\ net'[c].peer = net[c].peer) \/ Ended(c)

(* Such a step leaves c as it is.                                          *)
LEMMA UndisturbedCalm ==
    ASSUME NEW c \in Clients, TypeOK', Calm(c), Undisturbed(c)
    PROVE  Calm(c)'
<1>1. /\ Asked(c) \in SUBSET Due(c) /\ Drop(c) \in SUBSET Due(c) /\ Accept(c) \in SUBSET Due(c)
      /\ Asked(c) \in SUBSET Asked(c) /\ Accept(c) \in SUBSET Asked(c)
      /\ Forwarded(c) \in SUBSET DueB(c) /\ Leave(c) \in SUBSET DueB(c)
      /\ Open(c) \in SUBSET DueB(c)
  BY DEF Due, DueB, Asked, Accept, Forwarded, Open
<1>2. /\ \A e \in Elems(packetQ') : e \in Asked(c) \/ e \in Accept(c) => e \in Elems(packetQ)
      /\ \A e \in Elems(packetQ') : e \in Drop(c) => e \in Elems(packetQ) \/ Ended(c)
      /\ \A e \in Elems(brokerQ') : e \in Forwarded(c) \/ e \in Leave(c) => e \in Elems(brokerQ)
      /\ \A p \in Elems(net'[c].down) : p \in Replied => p \in Elems(net[c].down)
      /\ \A e \in Answer(c) : e \in Elems(clientQ') <=> e \in Elems(clientQ)
  BY <1>1 DEF Undisturbed, Keeps
<1>3. /\ Lone(packetQ', Asked(c)) /\ Lone(brokerQ', Forwarded(c))
      /\ Lone(net'[c].down, Replied) /\ Lone(clientQ', Answer(c))
      /\ ~Behind(brokerQ', Open(c), Leave(c)) /\ ~Behind(packetQ', Accept(c), Drop(c))
  <2>1. Ended(c) => ~Behind(packetQ', Accept(c), Drop(c))
    BY <1>2, NoneLone DEF Ended
  <2> QED
    BY <1>1, <2>1 DEF Undisturbed, Keeps, Calm, OneRequest, EndsFit
<1>4. /\ InP(c)' => InP(c)
      /\ InB(c)' => InB(c)
      /\ InD(c)' => InD(c)
      /\ InA(c)' <=> InA(c)
      /\ Accepted(c)' <=> Accepted(c)
      /\ Past(c)' => Past(c)
  BY <1>2 DEF InP, InB, InD, InA, Accepted, Past
<1>5. OneRequest(c)'
  BY <1>3, <1>4 DEF OneRequest, Calm, Undisturbed
<1>6. RequestFits(c)'
  BY <1>2 DEF RequestFits, Calm, Undisturbed
<1>7. StatusFits(c)'
  <2>1. CASE Eff(c)' = Eff(c)
    BY <1>4, <2>1 DEF StatusFits, Calm, Undisturbed
  <2>2. CASE Eff(c)' = "Connecting"
    BY <2>2 DEF StatusFits, Low
  <2>3. CASE Eff(c)' = "Disconnected" /\ Settled(c)
    BY <1>4, <2>3 DEF StatusFits, Settled, Low, Undisturbed
  <2> QED
    BY <2>1, <2>2, <2>3 DEF Undisturbed
<1>8. Settled(c) => Settled(c)'
  BY <1>4 DEF Settled, Low, Undisturbed
<1>9. Ended(c) => Ended(c)'
  BY <1>2, <1>8 DEF Ended, Replied, AcceptD
<1>10. Leaving(c)' => Leaving(c)
  BY <1>2 DEF Leaving, Undisturbed
<1>11. EndsFit(c)'
  BY <1>2, <1>3, <1>8, <1>9, <1>10 DEF EndsFit, Ended, Calm, Undisturbed
<1>12. Quiet(c)' <=> Quiet(c)
  BY <1>4 DEF Quiet, Undisturbed
<1>13. Hushed(c)'
  BY <1>12 DEF Hushed, Calm, Undisturbed
<1> QED
  BY <1>5, <1>6, <1>7, <1>11, <1>13 DEF Calm

-----------------------------------------------------------------------------
(* A step that moves the request of c.                                     *)

(* What EndsFit says after the step, of all but the queue to the broker    *)
(* and the connection.                                                     *)
EndsKept(c) ==
    /\ Leaving(c)' => Ended(c)'
    /\ Ended(c) => Ended(c)'
    /\ (\E e \in Elems(packetQ') : e \in Drop(c)) => Settled(c)'
    /\ ~Behind(packetQ', Accept(c), Drop(c))

(* The answer of c, which was in no queue before, or its request, gets     *)
(* into the queue to the device.                                           *)
LEMMA Answered ==
    ASSUME NEW c \in Clients, TypeOK, Calm(c), NEW a \in Answer(c),
           clientQ' = Append(clientQ, a), net' = net,
           ~InP(c)', ~InB(c)', ~InD(c), ~InA(c), ~cl'[c].holdPing,
           AnswerIn(dev'[c].st, a.pkt.type), StatusFits(c)', EndsKept(c)
    PROVE  Calm(c)'
<1>1. /\ Elems(clientQ') = Elems(clientQ) \cup {a}
      /\ Lone(clientQ', Answer(c))
      /\ Covered(clientQ', Delivery(c), Answer(c))
  <2>1. clientQ \in Seq(Event(SnPacket)) /\ a \in Event(SnPacket) /\ a \notin Delivery(c)
    BY DEF TypeOK, Answer, Delivery
  <2>2. Lone(clientQ, Answer(c)) /\ \A x \in Elems(clientQ) : x \notin Answer(c)
    BY DEF Calm, OneRequest, InA
  <2> QED
    BY <2>1, <2>2, Appended
<1>2. InA(c)' /\ ~InD(c)'
  BY <1>1 DEF InA, InD
<1>3. Lone(packetQ', Asked(c)) /\ Lone(brokerQ', Forwarded(c)) /\ Lone(net'[c].down, Replied)
  BY NoneLone, <1>2 DEF InP, InB, InD
<1>4. OneRequest(c)'
  BY <1>1, <1>2, <1>3 DEF OneRequest
<1>5. RequestFits(c)'
  BY <1>1, <1>2 DEF RequestFits, InP, InB, InD, InA
<1>6. ~Behind(brokerQ', Open(c), Leave(c))
  BY NoneLone DEF InB, Open, Forwarded
<1>7. EndsFit(c)'
  BY <1>6 DEF EndsFit, EndsKept, Calm
<1> QED
  BY <1>1, <1>4, <1>5, <1>7 DEF Calm, Hushed

(* The request of c gets into the queue to the broker.                     *)
LEMMA Forwards ==
    ASSUME NEW c \in Clients, TypeOK, Calm(c), NEW b \in Forwarded(c),
           brokerQ' = Append(brokerQ, b), net' = net,
           ~InP(c)', ~InB(c), ~InD(c), ~InA(c)', ~cl'[c].holdPing,
           SentIn(dev'[c].st, b.pkt.type), StatusFits(c)', EndsKept(c)
    PROVE  Calm(c)'
<1>1. /\ Elems(brokerQ') = Elems(brokerQ) \cup {b}
      /\ Lone(brokerQ', Forwarded(c))
      /\ ~Behind(brokerQ', Open(c), Leave(c))
  <2>1. brokerQ \in Seq(Event(GwPacket)) /\ b \in Event(GwPacket) /\ b \notin Leave(c)
    BY DEF TypeOK, Forwarded, Leave
  <2>2. Lone(brokerQ, Forwarded(c)) /\ \A x \in Elems(brokerQ) : x \notin Forwarded(c)
    BY DEF Calm, OneRequest, InB
  <2>3. ~Behind(brokerQ, Open(c), Leave(c))
    BY DEF Calm, EndsFit
  <2> QED
    BY <2>1, <2>2, <2>3, Appended
<1>2. InB(c)' /\ ~InD(c)'
  BY <1>1 DEF InB, InD
<1>3. Lone(packetQ', Asked(c)) /\ Lone(clientQ', Answer(c)) /\ Lone(net'[c].down, Replied)
  BY NoneLone, <1>2 DEF InP, InA, InD
<1>4. OneRequest(c)'
  BY <1>1, <1>2, <1>3 DEF OneRequest
<1>5. RequestFits(c)'
  BY <1>1, <1>2 DEF RequestFits, InP, InB, InD, InA
<1>6. EndsFit(c)'
  BY <1>1 DEF EndsFit, EndsKept, Calm
<1>7. Hushed(c)'
  BY DEF Hushed, Quiet, SentIn
<1> QED
  BY <1>4, <1>5, <1>6, <1>7, StatusFits(c)' DEF Calm

(* A request or the answer of the broker gets into the packet queue.       *)
LEMMA Posts ==
    ASSUME NEW c \in Clients, TypeOK, Calm(c), NEW e \in Asked(c),
           packetQ' = Posted(packetQ, <<e>>), brokerQ' = brokerQ, clientQ' = clientQ,
           ~InP(c), ~InB(c), ~InD(c)', ~InA(c), ~cl'[c].holdPing,
           net'[c].sock = net[c].sock, net'[c].peer = net[c].peer,
           AskedIn(dev'[c].st, e.pkt), StatusFits(c)',
           Leaving(c) => Ended(c)', Leaving(c)' => Leaving(c),
           Ended(c) => Ended(c)', Settled(c) => Settled(c)'
    PROVE  Calm(c)'
<1>1. /\ \A x \in Elems(packetQ') : x \in Elems(packetQ) \cup {e}
      /\ Lone(packetQ', Asked(c))
      /\ ~Behind(packetQ', Accept(c), Drop(c))
  <2>1. packetQ \in Seq(PacketEvent) /\ e \in PacketEvent /\ e \notin Drop(c)
    BY DEF TypeOK, Asked, Drop
  <2>2. Lone(packetQ, Asked(c)) /\ \A x \in Elems(packetQ) : x \notin Asked(c)
    BY DEF Calm, OneRequest, InP
  <2>3. ~Behind(packetQ, Accept(c), Drop(c))
    BY DEF Calm, EndsFit
  <2> QED
    BY <2>1, <2>2, <2>3, PostedOne
<1>2. ~InB(c)' /\ ~InA(c)'
  BY DEF InB, InA
<1>3. Lone(net'[c].down, Replied)
  BY NoneLone DEF InD
<1>4. OneRequest(c)'
  BY <1>1, <1>2, <1>3 DEF OneRequest, Calm
<1>5. RequestFits(c)'
  BY <1>1, <1>2 DEF RequestFits, InP, InB, InD, InA
<1>6. \A x \in Elems(packetQ') : x \in Drop(c) => x \in Elems(packetQ)
  BY <1>1 DEF Drop, Asked
<1>7. EndsFit(c)'
  BY <1>1, <1>6 DEF EndsFit, Calm
<1>8. Hushed(c)'
  BY <1>2 DEF Hushed, Quiet, AskedIn
<1> QED
  BY <1>4, <1>5, <1>7, <1>8, StatusFits(c)' DEF Calm

(* The request of c is nowhere any more, or the gateway holds it back.     *)
LEMMA Vanishes ==
    ASSUME NEW c \in Clients, TypeOK, Calm(c), brokerQ' = brokerQ, net' = net,
           ~InP(c)', ~InB(c), ~InD(c), ~InA(c)', cl'[c].holdPing => dev'[c].st = "awake",
           dev'[c].st = "asleep" => \A x \in Elems(clientQ') : x \notin Delivery(c),
           StatusFits(c)', EndsKept(c)
    PROVE  Calm(c)'
<1>1. ~InB(c)' /\ ~InD(c)'
  BY DEF InB, InD
<1>2. /\ Lone(packetQ', Asked(c)) /\ Lone(clientQ', Answer(c)) /\ Lone(net'[c].down, Replied)
      /\ Lone(brokerQ', Forwarded(c))
  BY NoneLone, <1>1 DEF InP, InA, InD, InB
<1>3. OneRequest(c)'
  BY <1>1, <1>2 DEF OneRequest
<1>4. RequestFits(c)'
  BY <1>1 DEF RequestFits, InP, InB, InD, InA
<1>5. EndsFit(c)'
  BY DEF EndsFit, EndsKept, Calm
<1>6. Hushed(c)'
  BY DEF Hushed, Quiet, Covered, Elems
<1> QED
  BY <1>3, <1>4, <1>5, <1>6, StatusFits(c)' DEF Calm

-----------------------------------------------------------------------------
(* The status                                                              *)

(* What updateStatus makes of a status.                                    *)
After(s, p) ==
    IF s = "Active"
       THEN IF p.type # "DISCONNECT" THEN s ELSE IF p.sleep THEN "Asleep" ELSE "Disconnected"
       ELSE IF s \in {"Awake", "Asleep"}
       THEN CASE p.type = "CONNECT"    -> "Active"
              [] p.type = "DISCONNECT" -> "Disconnected"
              [] p.type = "PINGREQ"    -> "Awake"
              [] p.type = "PINGRESP"   -> "Asleep"
              [] OTHER                 -> s
       ELSE s

(* updateStatus() changes the status as After says.                        *)
LEMMA UpdatedIs ==
    ASSUME NEW r \in Client, NEW p
    PROVE  /\ UpdatedStatus(r, p).status = After(r.status, p)
           /\ UpdatedStatus(r, p).holdPing = r.holdPing
<1>1. /\ \A s \in Status : /\ [r EXCEPT !.status = s].status = s
                            /\ [r EXCEPT !.status = s].holdPing = r.holdPing
      /\ Disconnected(r).status = "Disconnected" /\ Disconnected(r).holdPing = r.holdPing
  BY DEF Client, Disconnected
<1>2. "Asleep" \in Status /\ "Active" \in Status /\ "Awake" \in Status
  BY DEF Status
<1> QED
  BY <1>1, <1>2 DEF UpdatedStatus, After

(* With no updateStatus() to come the status is the one of the Client.     *)
LEMMA EffNow == ASSUME NEW c, upd = None PROVE Eff(c) = cl[c].status
  BY DEF Eff

-----------------------------------------------------------------------------
(* The handlers                                                            *)

(* A queue that does not change keeps its order.                           *)
LEMMA KeepsSelf == ASSUME NEW q, NEW T PROVE Keeps(q, q, T)
  BY DEF Keeps

(* At most one event of S for client c is appended.                        *)
Saves(q, r, S, c) == r = q \/ \E e \in S : e.client = c /\ r = Append(q, e)

(* The PUBLISHes kept for a sleeping client are no requests of it.         *)
LEMMA StoredElems ==
    ASSUME TypeOK, NEW c \in Clients, NEW d
    PROVE  /\ StoredEvents(c) \in Seq(PacketEvent)
           /\ \A x \in Elems(StoredEvents(c)) : x \notin Due(d)
<1>1. \A i \in DOMAIN StoredEvents(c) :
          StoredEvents(c)[i].src = "broker" /\ StoredEvents(c)[i].pkt.type = "PUBLISH"
  BY DEF StoredEvents, BrokerRecv
<1> QED
  BY <1>1, StoredEventsType DEF Elems, Due, Asked, Drop

(* What a handler does to the packet queue.                                *)
HandlerTakes(c) ==
    /\ upd = None
    /\ packetQ # <<>>
    /\ c = Head(packetQ).client
    /\ packetQ' = Tail(packetQ) \/ packetQ' = Posted(Tail(packetQ), StoredEvents(c))

(* The packet queue keeps what it has of the others, in order.             *)
LEMMA HandlerQueue ==
    ASSUME TypeOK, NEW c \in Clients, HandlerTakes(c), NEW d
    PROVE  /\ Keeps(packetQ, packetQ', Due(d))
           /\ Keeps(Tail(packetQ), packetQ', Due(d))
<1>1. packetQ \in Seq(PacketEvent) /\ packetQ # <<>>
  BY DEF TypeOK, HandlerTakes
<1>2. Tail(packetQ) \in Seq(PacketEvent) /\ Keeps(packetQ, Tail(packetQ), Due(d))
  BY <1>1, Taken
<1>3. Keeps(Tail(packetQ), packetQ', Due(d))
  <2>1. Keeps(Tail(packetQ), Tail(packetQ), Due(d))
    BY KeepsSelf
  <2>2. Keeps(Tail(packetQ), Posted(Tail(packetQ), StoredEvents(c)), Due(d))
    BY <1>2, StoredElems, PostedAll
  <2> QED
    BY <2>1, <2>2 DEF HandlerTakes
<1> QED
  BY <1>2, <1>3, KeepsTrans

(* What a handler does for client c does not concern the others.           *)
LEMMA OthersKept ==
    ASSUME TypeOK, TypeOK', NEW c \in Clients, NEW d \in Clients, d # c, Calm(d),
           cl'[d].holdPing = cl[d].holdPing, dev'[d].st = dev[d].st, net'[d] = net[d],
           Eff(d)' = Eff(d), sent' = sent \/ sent' = None \/ sent'.client = c,
           Keeps(packetQ, packetQ', Due(d)),
           (brokerQ # <<>> /\ brokerQ' = Tail(brokerQ)) \/ Saves(brokerQ, brokerQ', Event(GwPacket), c),
           Saves(clientQ, clientQ', Event(SnPacket), c)
    PROVE  Calm(d)'
<1>1. Keeps(brokerQ, brokerQ', DueB(d))
  <2>1. CASE brokerQ # <<>> /\ brokerQ' = Tail(brokerQ)
    BY <2>1, Taken DEF TypeOK
  <2>2. CASE brokerQ' = brokerQ
    BY <2>2, KeepsSelf
  <2>3. ASSUME NEW e \in Event(GwPacket), e.client = c, brokerQ' = Append(brokerQ, e)
        PROVE  Keeps(brokerQ, brokerQ', DueB(d))
    <3>1. e \notin DueB(d)
      BY <2>3 DEF DueB, Forwarded, Leave
    <3> QED
      BY <2>3, <3>1, Appended DEF TypeOK
  <2> QED
    BY <2>1, <2>2, <2>3 DEF Saves
<1>2. /\ Keeps(clientQ, clientQ', Answer(d))
      /\ \A e \in Answer(d) : e \in Elems(clientQ) => e \in Elems(clientQ')
      /\ Covered(clientQ, Delivery(d), Answer(d)) => Covered(clientQ', Delivery(d), Answer(d))
  <2>1. CASE clientQ' = clientQ
    BY <2>1, KeepsSelf
  <2>2. ASSUME NEW e \in Event(SnPacket), e.client = c, clientQ' = Append(clientQ, e)
        PROVE  /\ Keeps(clientQ, clientQ', Answer(d))
               /\ \A x \in Answer(d) : x \in Elems(clientQ) => x \in Elems(clientQ')
               /\ Covered(clientQ, Delivery(d), Answer(d)) => Covered(clientQ', Delivery(d), Answer(d))
    <3>1. e \notin Answer(d) /\ e \notin Delivery(d)
      BY <2>2 DEF Answer, Delivery
    <3>2. clientQ \in Seq(Event(SnPacket))
      BY DEF TypeOK
    <3> QED
      BY <2>2, <3>1, <3>2, Appended
  <2> QED
    BY <2>1, <2>2 DEF Saves
<1>3. Keeps(net[d].down, net'[d].down, Replied)
  BY KeepsSelf
<1>4. sent' # None /\ sent'.client = d /\ sent'.pkt.type # "CONNECT" => Leaving(d)
  BY DEF Leaving
<1>5. Undisturbed(d)
  BY <1>1, <1>2, <1>3, <1>4 DEF Undisturbed
<1> QED
  BY <1>5, UndisturbedCalm

(* A step that keeps the order of the packet queue and starts no end of a  *)
(* connection.                                                             *)
LEMMA EndsKeep ==
    ASSUME NEW c \in Clients, Calm(c), Keeps(packetQ, packetQ', Due(c)), net' = net,
           Settled(c) => Settled(c)', Leaving(c)' => Leaving(c) \/ Ended(c)'
    PROVE  EndsKept(c)
<1>1. Accept(c) \in SUBSET Due(c) /\ Drop(c) \in SUBSET Due(c)
  BY DEF Due, Accept, Asked
<1>2. \A e \in Elems(packetQ') : e \in Accept(c) \/ e \in Drop(c) => e \in Elems(packetQ)
  BY <1>1 DEF Keeps
<1>3. ~Behind(packetQ', Accept(c), Drop(c))
  BY <1>1 DEF Keeps, Calm, EndsFit
<1>4. Ended(c) => Ended(c)'
  BY <1>2 DEF Ended
<1>5. Leaving(c) => Ended(c)
  BY DEF Calm, EndsFit
<1> QED
  BY <1>2, <1>3, <1>4, <1>5 DEF EndsKept, Calm, EndsFit

(* The handler of the packet e of device c: its request is in the packet   *)
(* queue, nowhere else, and taken out.                                     *)
LEMMA TakeRequest ==
    ASSUME TypeOK, TypeOK', NEW type, FromDevice(type), type # "REGACK",
           NEW c \in Clients, HandlerTakes(c), Calm(c)
    PROVE  /\ InP(c) /\ ~InB(c) /\ ~InD(c) /\ ~InA(c) /\ ~cl[c].holdPing
           /\ ~InP(c)'
           /\ Keeps(packetQ, packetQ', Due(c))
           /\ dev' = dev /\ net' = net /\ sent' = sent
           /\ AskedIn(dev[c].st, Head(packetQ).pkt) /\ Head(packetQ).pkt.type = type
           /\ type # "CONNECT" => Past(c)
           /\ Eff(c) = cl[c].status
           /\ Eff(c)' = After(cl'[c].status, Head(packetQ).pkt)
<1> DEFINE e == Head(packetQ)
<1>1. /\ packetQ \in Seq(PacketEvent) /\ packetQ # <<>> /\ c = e.client
      /\ e.src = "client" /\ e.pkt.type = type /\ upd' = e /\ upd = None
      /\ dev' = dev /\ net' = net /\ sent' = sent
  BY DEF TypeOK, FromDevice, HandlerTakes
<1>2. /\ e \in PacketEvent /\ Elems(packetQ) = Elems(Tail(packetQ)) \cup {e}
      /\ \A E : Lone(packetQ, E) /\ e \in E => \A x \in Elems(Tail(packetQ)) : x \notin E
  BY <1>1, Taken
<1> HIDE DEF e
<1>3. e \in Asked(c)
  BY <1>1, <1>2 DEF Asked
<1>4. \A x \in Elems(Tail(packetQ)) : x \notin Asked(c)
  BY <1>2, <1>3 DEF Calm, OneRequest
<1>5. Keeps(packetQ, packetQ', Due(c)) /\ Keeps(Tail(packetQ), packetQ', Due(c))
  BY HandlerQueue
<1>6. ~InP(c)'
  BY <1>4, <1>5 DEF InP, Keeps, Due
<1>7. InP(c) /\ (type # "CONNECT" => Past(c))
  BY <1>1, <1>2, <1>3 DEF InP, Past
<1>8. ~InB(c) /\ ~InD(c) /\ ~InA(c) /\ ~cl[c].holdPing
  BY <1>7 DEF Calm, OneRequest
<1>9. AskedIn(dev[c].st, e.pkt)
  BY <1>2, <1>3 DEF Calm, RequestFits
<1>10. Eff(c) = cl[c].status
  BY <1>1, EffNow
<1>11. Eff(c)' = After(cl'[c].status, e.pkt)
  <2>1. e \in DeviceEvent /\ e # None
    BY <1>1, <1>2, NoneAssumption DEF PacketEvent, BrokerEvent
  <2>2. Eff(c)' = UpdatedStatus(cl'[c], e.pkt).status
    BY <1>1, <2>1 DEF Eff
  <2>3. cl'[c] \in Client
    BY DEF TypeOK
  <2> QED
    BY <2>2, <2>3, UpdatedIs
<1> QED
  BY <1>1, <1>5, <1>6, <1>7, <1>8, <1>9, <1>10, <1>11 DEF e

(* CONNECT                                                                 *)
LEMMA ConnectCalm ==
    ASSUME TypeOK, TypeOK', HandleConnect, NEW c \in Clients, c = Head(packetQ).client, Calm(c)
    PROVE  HandlerTakes(c) /\ Calm(c)'
<1> DEFINE p == Head(packetQ).pkt
<1>1. FromDevice("CONNECT") /\ HandlerTakes(c)
  BY DEF HandleConnect, FromDevice, HandlerTakes
<1>2. /\ ~InB(c) /\ ~InD(c) /\ ~InA(c) /\ ~cl[c].holdPing /\ ~InP(c)'
      /\ Keeps(packetQ, packetQ', Due(c))
      /\ dev' = dev /\ net' = net /\ sent' = sent
      /\ AskedIn(dev[c].st, p) /\ p.type = "CONNECT"
      /\ Eff(c) = cl[c].status
      /\ Eff(c)' = After(cl'[c].status, p)
  BY <1>1, TakeRequest
<1>3. cl[c] \in Client /\ c \in DOMAIN cl
  BY DEF TypeOK
<1>4. dev[c].st = "connecting"
  BY <1>2 DEF AskedIn
<1>5. ~Accepted(c)
  BY <1>2 DEF Accepted, InA
<1>6. CASE Sleeping(c)
  <2> DEFINE a == To(c, [type |-> "CONNACK", accepted |-> TRUE])
  <2>1. /\ clientQ' = Append(clientQ, a) /\ brokerQ' = brokerQ
        /\ cl' = [cl EXCEPT ![c].sleepQ = <<>>]
    BY <1>6 DEF HandleConnect
  <2>2. a \in Answer(c) /\ a.pkt.type = "CONNACK" /\ a.pkt.accepted
    <3>1. [type |-> "CONNACK", accepted |-> TRUE] \in SnPacket
      BY MadePackets
    <3> QED
      BY <3>1 DEF Answer, To, Event
  <2> HIDE DEF a
  <2>3. cl'[c].status = cl[c].status /\ cl'[c].holdPing = cl[c].holdPing
    BY <1>3, <2>1 DEF Client
  <2>4. Eff(c) = "Asleep" /\ Eff(c)' = "Active"
    <3>1. Eff(c) = "Asleep"
      BY <1>2, <1>4, <1>5, <1>6 DEF Calm, StatusFits, Sleeping
    <3> QED
      BY <1>2, <2>3, <3>1 DEF After
  <2>5. Accepted(c)'
    <3>1. Elems(clientQ') = Elems(clientQ) \cup {a}
      BY <2>1, <2>2, Appended DEF TypeOK, Answer
    <3> QED
      BY <2>2, <3>1 DEF Accepted
  <2>6. StatusFits(c)'
    BY <1>2, <1>4, <2>4, <2>5 DEF StatusFits
  <2>7. ~Settled(c)
    BY <2>4 DEF Settled, Low
  <2>8. Leaving(c)' => Leaving(c)
    BY <1>2, <2>1 DEF Leaving
  <2>9. EndsKept(c)
    BY <1>2, <2>7, <2>8, EndsKeep
  <2>10. ~InB(c)'
    BY <1>2, <2>1 DEF InB
  <2> QED
    BY <1>1, <1>2, <1>4, <2>1, <2>2, <2>3, <2>6, <2>9, <2>10, Answered DEF AnswerIn
<1>7. CASE ~Sleeping(c)
  <2> DEFINE conn == [NoConn EXCEPT !.will = p.will, !.clean = p.clean, !.try = p.try]
             a == To(c, [type |-> "WILLTOPICREQ"])
             b == To(c, [type |-> "CONNECT", conn |-> conn])
  <2>1. /\ cl' = [cl EXCEPT ![c] =
                    [Disconnected(cl[c]) EXCEPT !.conn = conn, !.clean = p.clean,
                                                !.tid = IF p.clean THEN NoTopics ELSE cl[c].tid]]
        /\ \/ clientQ' = Append(clientQ, a) /\ brokerQ' = brokerQ
           \/ brokerQ' = Append(brokerQ, b) /\ clientQ' = clientQ
    BY <1>7 DEF HandleConnect
  <2>2. cl'[c].status = "Disconnected" /\ cl'[c].holdPing = cl[c].holdPing
    BY <1>3, <2>1 DEF Client, Disconnected
  <2>3. a \in Answer(c) /\ a.pkt.type = "WILLTOPICREQ"
    <3>1. [type |-> "WILLTOPICREQ"] \in SnPacket
      BY MadePackets
    <3> QED
      BY <3>1 DEF Answer, To, Event
  <2>4. b \in Forwarded(c) /\ b.pkt.type = "CONNECT"
    <3>1. p \in DevicePacket
      BY <1>1, TakeDevice
    <3>2. conn \in Conn
      BY <1>2, <3>1, DeviceFields DEF NoConn, Conn
    <3> HIDE DEF conn
    <3>3. [type |-> "CONNECT", conn |-> conn] \in GwPacket
      BY <3>2, MadePackets
    <3> QED
      BY <3>3 DEF Forwarded, To, Event
  <2> HIDE DEF a, b
  <2>5. Eff(c)' = "Disconnected"
    BY <1>2, <2>2 DEF After
  <2>6. CASE clientQ' = Append(clientQ, a) /\ brokerQ' = brokerQ
    <3>1. Elems(clientQ') = Elems(clientQ) \cup {a}
      BY <2>3, <2>6, Appended DEF TypeOK, Answer
    <3>2. ~Accepted(c)'
      BY <1>5, <2>3, <3>1 DEF Accepted
    <3>3. StatusFits(c)' /\ Settled(c)'
      BY <1>2, <1>4, <2>5, <3>2 DEF StatusFits, Settled, Low
    <3>4. Leaving(c)' => Leaving(c)
      BY <1>2, <2>6 DEF Leaving
    <3>5. EndsKept(c)
      BY <1>2, <3>3, <3>4, EndsKeep
    <3>6. ~InB(c)'
      BY <1>2, <2>6 DEF InB
    <3> QED
      BY <1>1, <1>2, <1>4, <2>2, <2>3, <2>6, <3>3, <3>5, <3>6, Answered DEF AnswerIn
  <2>7. CASE brokerQ' = Append(brokerQ, b) /\ clientQ' = clientQ
    <3>1. ~InA(c)' /\ ~Accepted(c)'
      BY <1>2, <1>5, <2>7 DEF InA, Accepted
    <3>2. StatusFits(c)' /\ Settled(c)'
      BY <1>2, <1>4, <2>5, <3>1 DEF StatusFits, Settled, Low
    <3>3. b \notin Leave(c)
      BY <2>4 DEF Leave
    <3>4. Leaving(c)' => Leaving(c)
      <4>1. Elems(brokerQ') = Elems(brokerQ) \cup {b}
        BY <2>4, <2>7, Appended DEF TypeOK, Forwarded
      <4> QED
        BY <1>2, <3>3, <4>1 DEF Leaving
    <3>5. EndsKept(c)
      BY <1>2, <3>2, <3>4, EndsKeep
    <3> QED
      BY <1>1, <1>2, <1>4, <2>2, <2>4, <2>7, <3>1, <3>2, <3>5, Forwards DEF SentIn
  <2> QED
    BY <2>1, <2>6, <2>7
<1> QED
  BY <1>1, <1>6, <1>7

(* A packet that does not end the connection of c.                         *)
LEMMA LeavesOnly ==
    ASSUME TypeOK, NEW c, NEW b \in Event(GwPacket), b \notin Leave(c), sent' = sent,
           brokerQ' = Append(brokerQ, b)
    PROVE  Leaving(c)' => Leaving(c)
<1>1. Elems(brokerQ') = Elems(brokerQ) \cup {b}
  BY Appended DEF TypeOK
<1> QED
  BY <1>1 DEF Leaving

(* The answers of the gateway to a device.                                 *)
LEMMA MadeAnswers ==
    ASSUME NEW c \in Clients
    PROVE  /\ \A ok \in BOOLEAN : To(c, [type |-> "CONNACK", accepted |-> ok]) \in Answer(c)
           /\ \A t \in {"WILLTOPICREQ", "WILLMSGREQ", "DISCONNECT", "PINGRESP"} :
                  To(c, [type |-> t]) \in Answer(c)
<1>1. ASSUME NEW p \in SnPacket, p.type \notin {"PUBLISH", "REGISTER"} PROVE To(c, p) \in Answer(c)
  BY <1>1 DEF Answer, To, Event
<1>2. ASSUME NEW ok \in BOOLEAN PROVE To(c, [type |-> "CONNACK", accepted |-> ok]) \in Answer(c)
  <2>1. PICK p : p = [type |-> "CONNACK", accepted |-> ok]
    OBVIOUS
  <2>2. p \in SnPacket /\ p.type = "CONNACK"
    BY <2>1, MadePackets
  <2> QED
    BY <1>1, <2>1, <2>2
<1>3. ASSUME NEW t \in {"WILLTOPICREQ", "WILLMSGREQ", "DISCONNECT", "PINGRESP"}
      PROVE  To(c, [type |-> t]) \in Answer(c)
  <2>1. PICK p : p = [type |-> t]
    OBVIOUS
  <2>2. p \in SnPacket /\ p.type = t
    BY <2>1, MadePackets
  <2> QED
    BY <1>1, <2>1, <2>2
<1> QED
  BY <1>2, <1>3

(* An answer other than CONNACK accepts nothing.                           *)
LEMMA AcceptsNot ==
    ASSUME TypeOK, NEW c \in Clients, NEW a \in Answer(c), clientQ' = Append(clientQ, a)
    PROVE  /\ InA(c)'
           /\ Accepted(c)' <=> Accepted(c) \/ (a.pkt.type = "CONNACK" /\ a.pkt.accepted)
<1>1. Elems(clientQ') = Elems(clientQ) \cup {a}
  BY Appended DEF TypeOK, Answer
<1> QED
  BY <1>1 DEF Accepted, InA

(* WILLTOPIC                                                               *)
LEMMA WilltopicCalm ==
    ASSUME TypeOK, TypeOK', HandleWilltopic, NEW c \in Clients, c = Head(packetQ).client, Calm(c)
    PROVE  HandlerTakes(c) /\ Calm(c)'
<1> DEFINE p == Head(packetQ).pkt
           a == To(c, [type |-> "WILLMSGREQ"])
<1>1. FromDevice("WILLTOPIC") /\ HandlerTakes(c)
  BY DEF HandleWilltopic, FromDevice, HandlerTakes
<1>2. /\ ~InB(c) /\ ~InD(c) /\ ~InA(c) /\ ~cl[c].holdPing /\ ~InP(c)' /\ Past(c)
      /\ Keeps(packetQ, packetQ', Due(c))
      /\ dev' = dev /\ net' = net /\ sent' = sent
      /\ AskedIn(dev[c].st, p) /\ p.type = "WILLTOPIC"
      /\ Eff(c) = cl[c].status
      /\ Eff(c)' = After(cl'[c].status, p)
  BY <1>1, TakeRequest
<1>3. /\ clientQ' = Append(clientQ, a) /\ brokerQ' = brokerQ
      /\ cl' = [cl EXCEPT ![c].waitWill = TRUE, ![c].conn.topic = p.try]
  BY DEF HandleWilltopic
<1>4. a \in Answer(c) /\ a.pkt.type = "WILLMSGREQ"
  BY MadeAnswers DEF To
<1> HIDE DEF a
<1>5. cl'[c].status = cl[c].status /\ cl'[c].holdPing = cl[c].holdPing
  BY <1>3 DEF TypeOK, Client
<1>6. dev[c].st = "connecting"
  BY <1>2 DEF AskedIn
<1>7. ~Accepted(c) /\ ~Accepted(c)'
  BY <1>2, <1>3, <1>4, AcceptsNot DEF Accepted, InA
<1>8. Eff(c) \in Low /\ Eff(c)' = Eff(c)
  <2>1. Eff(c) \in Low
    BY <1>2, <1>6, <1>7 DEF Calm, StatusFits, Low
  <2> QED
    BY <1>2, <1>5, <2>1 DEF After, Low
<1>9. StatusFits(c)' /\ Settled(c)'
  BY <1>2, <1>6, <1>7, <1>8 DEF StatusFits, Settled, Low
<1>10. EndsKept(c)
  <2>1. Leaving(c)' => Leaving(c)
    BY <1>2, <1>3 DEF Leaving
  <2> QED
    BY <1>2, <1>9, <2>1, EndsKeep
<1>11. ~InB(c)'
  BY <1>2, <1>3 DEF InB
<1> QED
  BY <1>1, <1>2, <1>3, <1>4, <1>5, <1>6, <1>9, <1>10, <1>11, Answered DEF AnswerIn

(* WILLMSG                                                                 *)
LEMMA WillmsgCalm ==
    ASSUME TypeOK, TypeOK', HandleWillmsg, NEW c \in Clients, c = Head(packetQ).client, Calm(c)
    PROVE  HandlerTakes(c) /\ Calm(c)'
<1> DEFINE p == Head(packetQ).pkt
           conn == [cl[c].conn EXCEPT !.msg = p.try]
           b == To(c, [type |-> "CONNECT", conn |-> conn])
<1>1. FromDevice("WILLMSG") /\ HandlerTakes(c)
  BY DEF HandleWillmsg, FromDevice, HandlerTakes
<1>2. /\ ~InB(c) /\ ~InD(c) /\ ~InA(c) /\ ~cl[c].holdPing /\ ~InP(c)' /\ Past(c)
      /\ Keeps(packetQ, packetQ', Due(c))
      /\ dev' = dev /\ net' = net /\ sent' = sent
      /\ AskedIn(dev[c].st, p) /\ p.type = "WILLMSG"
      /\ Eff(c) = cl[c].status
      /\ Eff(c)' = After(cl'[c].status, p)
  BY <1>1, TakeRequest
<1>3. /\ clientQ' = clientQ
      /\ \/ cl' = cl /\ brokerQ' = brokerQ
         \/ /\ cl' = [cl EXCEPT ![c].conn = conn, ![c].waitWill = FALSE]
            /\ brokerQ' = Append(brokerQ, b)
  BY DEF HandleWillmsg
<1>4. b \in Forwarded(c) /\ b.pkt.type = "CONNECT"
  <2>1. p \in DevicePacket
    BY <1>1, TakeDevice
  <2>2. conn \in Conn
    <3>1. cl[c].conn \in Conn
      BY DEF TypeOK, Client
    <3>2. p.try \in Nat
      BY <1>2, <2>1, DeviceFields
    <3> QED
      BY <3>1, <3>2 DEF Conn
  <2> HIDE DEF conn
  <2>3. [type |-> "CONNECT", conn |-> conn] \in GwPacket
    BY <2>2, MadePackets
  <2> QED
    BY <2>3 DEF Forwarded, To, Event
<1> HIDE DEF conn, b
<1>5. cl'[c].status = cl[c].status /\ cl'[c].holdPing = cl[c].holdPing
  <2>1. cl[c] \in Client /\ c \in DOMAIN cl
    BY DEF TypeOK
  <2>2. CASE cl' = [cl EXCEPT ![c].conn = conn, ![c].waitWill = FALSE]
    BY <2>1, <2>2 DEF Client
  <2> QED
    BY <1>3, <2>2
<1>6. dev[c].st = "connecting"
  BY <1>2 DEF AskedIn
<1>7. ~Accepted(c) /\ ~Accepted(c)' /\ ~InA(c)'
  BY <1>2, <1>3 DEF Accepted, InA
<1>8. Eff(c) \in Low /\ Eff(c)' = Eff(c)
  <2>1. Eff(c) \in Low
    BY <1>2, <1>6, <1>7 DEF Calm, StatusFits, Low
  <2> QED
    BY <1>2, <1>5, <2>1 DEF After, Low
<1>9. StatusFits(c)' /\ Settled(c)'
  BY <1>2, <1>6, <1>7, <1>8 DEF StatusFits, Settled, Low
<1>10. EndsKept(c)
  <2>1. b \in Event(GwPacket) /\ b \notin Leave(c)
    BY <1>4 DEF Forwarded, Leave
  <2>2. Leaving(c)' => Leaving(c)
    BY <1>2, <1>3, <2>1, LeavesOnly DEF Leaving
  <2> QED
    BY <1>2, <1>9, <2>2, EndsKeep
<1>11. CASE brokerQ' = brokerQ
  BY <1>1, <1>2, <1>5, <1>6, <1>7, <1>9, <1>10, <1>11, Vanishes
<1>12. CASE brokerQ' = Append(brokerQ, b)
  BY <1>1, <1>2, <1>4, <1>5, <1>6, <1>7, <1>9, <1>10, <1>12, Forwards DEF SentIn
<1> QED
  BY <1>1, <1>3, <1>11, <1>12

(* DISCONNECT                                                              *)
LEMMA DisconnectCalm ==
    ASSUME TypeOK, TypeOK', HandleDisconnect, NEW c \in Clients, c = Head(packetQ).client, Calm(c)
    PROVE  HandlerTakes(c) /\ Calm(c)'
<1> DEFINE p == Head(packetQ).pkt
           a == To(c, [type |-> "DISCONNECT"])
           l == To(c, [type |-> "DISCONNECT"])
<1>1. FromDevice("DISCONNECT") /\ HandlerTakes(c)
  BY DEF HandleDisconnect, FromDevice, HandlerTakes
<1>2. /\ ~InB(c) /\ ~InD(c) /\ ~InA(c) /\ ~cl[c].holdPing /\ ~InP(c)'
      /\ Keeps(packetQ, packetQ', Due(c))
      /\ dev' = dev /\ net' = net /\ sent' = sent
      /\ AskedIn(dev[c].st, p) /\ p.type = "DISCONNECT"
      /\ Eff(c) = cl[c].status
      /\ Eff(c)' = After(cl'[c].status, p)
  BY <1>1, TakeRequest
<1>3. /\ clientQ' = Append(clientQ, a) /\ cl' = cl
      /\ brokerQ' = IF p.sleep THEN brokerQ ELSE Append(brokerQ, l)
  BY DEF HandleDisconnect
<1>4. a \in Answer(c) /\ a.pkt.type = "DISCONNECT"
  BY MadeAnswers DEF To
<1>5. l \in Event(GwPacket) /\ l \notin Forwarded(c)
  <2>1. PICK g : g = [type |-> "DISCONNECT"]
    OBVIOUS
  <2>2. g \in GwPacket /\ g.type = "DISCONNECT"
    BY <2>1, MadePackets
  <2> QED
    BY <2>1, <2>2 DEF To, Event, Forwarded
<1> HIDE DEF a, l
<1>6. ~Accepted(c) /\ ~Accepted(c)' /\ InA(c)'
  BY <1>2, <1>3, <1>4, AcceptsNot DEF Accepted, InA
<1>7. ~InB(c)'
  <2>1. Elems(brokerQ') \subseteq Elems(brokerQ) \cup {l}
    BY <1>3, <1>5, Appended DEF TypeOK
  <2> QED
    BY <1>2, <1>5, <2>1 DEF InB
<1>8. Eff(c) \in Status
  BY <1>2 DEF TypeOK, Client
<1>9. CASE p.sleep
  <2>1. dev[c].st = "sleepReq"
    BY <1>2, <1>9 DEF AskedIn
  <2>2. Eff(c) \in {"Active", "Connecting"}
    BY <1>2, <2>1 DEF Calm, StatusFits
  <2>3. Eff(c)' \in {"Asleep", "Connecting"}
    BY <1>2, <1>3, <1>9, <2>2 DEF After
  <2>4. StatusFits(c)'
    BY <1>2, <1>6, <2>1, <2>3 DEF StatusFits
  <2>5. EndsKept(c)
    <3>1. ~Settled(c)
      BY <2>1 DEF Settled
    <3>2. Leaving(c)' => Leaving(c)
      BY <1>2, <1>3, <1>9 DEF Leaving
    <3> QED
      BY <1>2, <3>1, <3>2, EndsKeep
  <2> QED
    BY <1>1, <1>2, <1>3, <1>4, <1>7, <2>1, <2>4, <2>5, Answered DEF AnswerIn
<1>10. CASE ~p.sleep
  <2>1. dev[c].st = "discReq"
    BY <1>2, <1>10 DEF AskedIn
  <2>2. Eff(c)' \in Low
    BY <1>2, <1>3, <1>8, <1>10 DEF After, Low, Status
  <2>3. StatusFits(c)' /\ Settled(c)'
    BY <1>2, <1>6, <2>1, <2>2 DEF StatusFits, Settled
  <2>4. Ended(c)'
    <3>1. \A e \in Elems(packetQ') : e \notin Accept(c)
      BY <1>2 DEF InP, Accept, Asked
    <3>2. \A q \in Elems(net'[c].down) : q \notin AcceptD
      BY <1>2 DEF InD, AcceptD, Replied
    <3> QED
      BY <2>3, <3>1, <3>2 DEF Ended
  <2>5. EndsKept(c)
    BY <1>2, <2>3, <2>4, EndsKeep
  <2> QED
    BY <1>1, <1>2, <1>3, <1>4, <1>7, <2>1, <2>3, <2>5, Answered DEF AnswerIn
<1> QED
  BY <1>1, <1>9, <1>10

(* PINGREQ                                                                 *)
LEMMA PingreqCalm ==
    ASSUME TypeOK, TypeOK', HandlePingreq, NEW c \in Clients, c = Head(packetQ).client, Calm(c)
    PROVE  HandlerTakes(c) /\ Calm(c)'
<1> DEFINE p == Head(packetQ).pkt
           b == To(c, [type |-> "PINGREQ"])
<1>1. FromDevice("PINGREQ") /\ HandlerTakes(c)
  BY DEF HandlePingreq, FromDevice, HandlerTakes
<1>2. /\ ~InB(c) /\ ~InD(c) /\ ~InA(c) /\ ~cl[c].holdPing /\ ~InP(c)'
      /\ Keeps(packetQ, packetQ', Due(c))
      /\ dev' = dev /\ net' = net /\ sent' = sent
      /\ AskedIn(dev[c].st, p) /\ p.type = "PINGREQ"
      /\ Eff(c) = cl[c].status
      /\ Eff(c)' = After(cl'[c].status, p)
  BY <1>1, TakeRequest
<1>3. cl[c] \in Client /\ c \in DOMAIN cl
  BY DEF TypeOK
<1>4. dev[c].st \in {"pinging", "awake"}
  BY <1>2 DEF AskedIn
<1>5. ~Settled(c) /\ ~Ended(c) /\ ~InA(c)'
  BY <1>2, <1>4 DEF Settled, Ended, InA, HandlePingreq
<1>6. CASE Sleeping(c) /\ cl[c].sleepQ # <<>>
  <2>1. /\ cl' = [cl EXCEPT ![c].sleepQ = <<>>, ![c].holdPing = TRUE]
        /\ brokerQ' = brokerQ /\ clientQ' = clientQ
    BY <1>6 DEF HandlePingreq
  <2>2. cl'[c].status = cl[c].status
    BY <1>3, <2>1 DEF Client
  <2>3. dev[c].st = "awake"
    BY <1>2, <1>4, <1>6 DEF Calm, StatusFits, Sleeping
  <2>4. Eff(c)' = "Awake"
    BY <1>2, <1>6, <2>2 DEF After, Sleeping
  <2>5. StatusFits(c)'
    BY <1>2, <1>5, <2>3, <2>4 DEF StatusFits
  <2>6. Leaving(c)' => Leaving(c)
    BY <1>2, <2>1 DEF Leaving
  <2>7. EndsKept(c)
    BY <1>2, <1>5, <2>6, EndsKeep
  <2> QED
    BY <1>1, <1>2, <1>5, <2>1, <2>3, <2>5, <2>7, Vanishes
<1>7. CASE ~(Sleeping(c) /\ cl[c].sleepQ # <<>>)
  <2>1. /\ cl' = [cl EXCEPT ![c].holdPing = FALSE]
        /\ brokerQ' = Append(brokerQ, b) /\ clientQ' = clientQ
    BY <1>7 DEF HandlePingreq
  <2>2. cl'[c].status = cl[c].status /\ ~cl'[c].holdPing
    BY <1>3, <2>1 DEF Client
  <2>3. b \in Forwarded(c) /\ b.pkt.type = "PINGREQ" /\ b \in Event(GwPacket) /\ b \notin Leave(c)
    <3>1. PICK g : g = [type |-> "PINGREQ"]
      OBVIOUS
    <3>2. g \in GwPacket /\ g.type = "PINGREQ"
      BY <3>1, MadePackets
    <3> QED
      BY <3>1, <3>2 DEF To, Event, Forwarded, Leave
  <2> HIDE DEF b
  <2>4. StatusFits(c)'
    <3>1. dev[c].st = "pinging" => Eff(c) \in {"Active", "Connecting"}
      BY DEF Calm, StatusFits
    <3>2. dev[c].st = "awake" => Eff(c) \in {"Asleep", "Awake", "Connecting"}
      BY DEF Calm, StatusFits
    <3>3. dev[c].st = "pinging" => Eff(c)' \in {"Active", "Connecting"}
      BY <1>2, <2>2, <3>1 DEF After
    <3>4. dev[c].st = "awake" => Eff(c)' \in {"Awake", "Connecting"}
      BY <1>2, <2>2, <3>2 DEF After
    <3> QED
      BY <1>2, <1>4, <1>5, <3>3, <3>4 DEF StatusFits
  <2>5. Leaving(c)' => Leaving(c)
    BY <1>2, <2>1, <2>3, LeavesOnly
  <2>6. EndsKept(c)
    BY <1>2, <1>5, <2>5, EndsKeep
  <2> QED
    BY <1>1, <1>2, <1>4, <1>5, <2>1, <2>2, <2>3, <2>4, <2>6, Forwards DEF SentIn
<1> QED
  BY <1>1, <1>6, <1>7

(* A PUBLISH or a REGISTER goes to a device only when it expects some.     *)
LEMMA NotQuiet ==
    ASSUME NEW c, Calm(c), upd = None, cl[c].status \in {"Active", "Awake"}
    PROVE  ~Quiet(c)
<1>1. Eff(c) \in {"Active", "Awake"}
  BY EffNow
<1> QED
  BY <1>1 DEF Calm, StatusFits, Quiet

(* A handler that neither takes nor makes a request of c.                  *)
LEMMA IdleHandler ==
    ASSUME TypeOK, TypeOK', NEW c \in Clients, HandlerTakes(c), Calm(c),
           dev' = dev, net' = net, sent' = sent, Eff(c)' = Eff(c),
           cl'[c].holdPing => cl[c].holdPing,
           brokerQ' = brokerQ \/ \E b \in Event(GwPacket) : /\ b.pkt.type \in {"PUBACK", "PUBREC"}
                                                         /\ brokerQ' = Append(brokerQ, b),
           clientQ' = clientQ \/ \E e \in Event(SnPacket) : /\ e.pkt.type \in {"PUBLISH", "REGISTER"}
                                                         /\ clientQ' = Append(clientQ, e)
                                                         /\ cl[c].status \in {"Active", "Awake"}
    PROVE  Calm(c)'
<1>1. Keeps(packetQ, packetQ', Due(c))
  BY HandlerQueue
<1>2. Keeps(brokerQ, brokerQ', DueB(c))
  <2>1. CASE brokerQ' = brokerQ
    BY <2>1, KeepsSelf
  <2>2. ASSUME NEW b \in Event(GwPacket), b.pkt.type \in {"PUBACK", "PUBREC"},
               brokerQ' = Append(brokerQ, b)
        PROVE  Keeps(brokerQ, brokerQ', DueB(c))
    <3>1. b \notin DueB(c)
      BY <2>2 DEF DueB, Forwarded, Leave
    <3> QED
      BY <2>2, <3>1, Appended DEF TypeOK
  <2> QED
    BY <2>1, <2>2
<1>3. /\ Keeps(clientQ, clientQ', Answer(c))
      /\ \A e \in Answer(c) : e \in Elems(clientQ) => e \in Elems(clientQ')
      /\ Quiet(c) => clientQ' = clientQ
  <2>1. CASE clientQ' = clientQ
    BY <2>1, KeepsSelf
  <2>2. ASSUME NEW e \in Event(SnPacket), e.pkt.type \in {"PUBLISH", "REGISTER"},
               clientQ' = Append(clientQ, e)
        PROVE  /\ Keeps(clientQ, clientQ', Answer(c))
               /\ \A x \in Answer(c) : x \in Elems(clientQ) => x \in Elems(clientQ')
    <3>1. e \notin Answer(c) /\ clientQ \in Seq(Event(SnPacket))
      BY <2>2 DEF Answer, TypeOK
    <3> QED
      BY <2>2, <3>1, Appended
  <2>3. Quiet(c) => clientQ' = clientQ
    BY NotQuiet DEF HandlerTakes
  <2> QED
    BY <2>1, <2>2, <2>3
<1>4. Keeps(net[c].down, net'[c].down, Replied)
  BY KeepsSelf
<1>5. sent' # None /\ sent'.client = c /\ sent'.pkt.type # "CONNECT" => Leaving(c)
  BY DEF Leaving
<1>6. Undisturbed(c)
  BY <1>1, <1>2, <1>3, <1>4, <1>5 DEF Undisturbed
<1> QED
  BY <1>6, UndisturbedCalm

(* What handleRegAck does: the PUBLISH that waited, then the PINGREQ.      *)
LEMMA RegAckDoes ==
    ASSUME TypeOK, HandleRegAck, NEW c \in Clients, c = Head(packetQ).client
    PROVE  /\ cl'[c].status = cl[c].status
           /\ \A d \in Clients : d # c => cl'[d] = cl[d]
           /\ clientQ' = clientQ \/ \E x \in Event(SnPacket) : /\ x.client = c
                                                            /\ x.pkt.type \in {"PUBLISH", "REGISTER"}
                                                            /\ clientQ' = Append(clientQ, x)
                                                            /\ cl[c].status \in {"Active", "Awake"}
           /\ \/ brokerQ' = brokerQ /\ (cl'[c].holdPing => cl[c].holdPing)
              \/ /\ brokerQ' = Append(brokerQ, To(c, [type |-> "PINGREQ"]))
                 /\ cl[c].holdPing /\ ~cl'[c].holdPing
                 /\ cl[c].status \in {"Active", "Awake"}
<1> DEFINE found == FirstHeld(c, Head(packetQ).pkt.msgId)
           i == CHOOSE j \in found : TRUE
           left == IF found = {} THEN cl[c].held ELSE WithoutIndex(cl[c].held, i)
           ping == cl[c].holdPing /\ left = <<>>
           h == cl[c].held[i]
           x == To(c, [type |-> "PUBLISH", pub |-> h.pub, tid |-> h.tid])
<1>1. cl \in [Clients -> Client] /\ cl[c] \in Client /\ cl[c].held \in Seq(Held)
  BY DEF TypeOK, Client
<1>2. \/ /\ cl[c].status \in {"Active", "Awake"}
         /\ clientQ' = IF found = {} THEN clientQ ELSE Append(clientQ, x)
         /\ cl' = [cl EXCEPT ![c].held = left, ![c].holdPing = @ /\ ~ping]
         /\ brokerQ' = IF ping THEN Append(brokerQ, To(c, [type |-> "PINGREQ"])) ELSE brokerQ
      \/ cl' = cl /\ clientQ' = clientQ /\ brokerQ' = brokerQ
  BY DEF HandleRegAck
<1>3. found # {} => i \in DOMAIN cl[c].held
  BY DEF FirstHeld
<1>4. found # {} => x \in Event(SnPacket) /\ x.client = c /\ x.pkt.type = "PUBLISH"
  <2> SUFFICES ASSUME found # {} PROVE x \in Event(SnPacket) /\ x.client = c /\ x.pkt.type = "PUBLISH"
    OBVIOUS
  <2>1. h \in Held
    BY <1>1, <1>3, ElementOfSeq, LenProperties
  <2>2. h.pub \in Pubs /\ h.tid \in Nat
    BY <2>1 DEF Held
  <2> HIDE DEF h
  <2>3. [type |-> "PUBLISH", pub |-> h.pub, tid |-> h.tid] \in SnPacket
    BY <2>2, MadePackets
  <2> QED
    BY <2>3 DEF To, Event
<1> HIDE DEF found, left, i, x
<1>5. ping \in BOOLEAN /\ cl[c].holdPing \in BOOLEAN
  BY <1>1 DEF Client
<1> HIDE DEF ping
<1>6. ASSUME cl' = [cl EXCEPT ![c].held = left, ![c].holdPing = @ /\ ~ping]
      PROVE  /\ cl'[c].status = cl[c].status
             /\ \A d \in Clients : d # c => cl'[d] = cl[d]
             /\ cl'[c].holdPing = (cl[c].holdPing /\ ~ping)
  BY <1>1, <1>6 DEF Client
<1>7. ping => cl[c].holdPing
  BY DEF ping
<1> QED
  BY <1>2, <1>4, <1>6, <1>7

(* REGACK                                                                  *)
LEMMA RegAckCalm ==
    ASSUME TypeOK, TypeOK', HandleRegAck, NEW c \in Clients, c = Head(packetQ).client, Calm(c)
    PROVE  HandlerTakes(c) /\ Calm(c)'
<1> DEFINE e == Head(packetQ)
           b == To(c, [type |-> "PINGREQ"])
<1>1. /\ HandlerTakes(c) /\ packetQ' = Tail(packetQ)
      /\ e.pkt.type = "REGACK" /\ e.src = "client" /\ upd' = e /\ upd = None
      /\ dev' = dev /\ net' = net /\ sent' = sent
  BY DEF HandleRegAck, FromDevice, HandlerTakes
<1>2. cl[c] \in Client /\ cl'[c] \in Client
  BY DEF TypeOK
<1>3. e \in DeviceEvent /\ e # None
  <2>1. e \in PacketEvent
    BY <1>1, Taken DEF TypeOK, HandlerTakes
  <2> QED
    BY <1>1, <2>1, NoneAssumption DEF PacketEvent, BrokerEvent
<1>4. Eff(c) = cl[c].status /\ Eff(c)' = cl[c].status
  <2>1. Eff(c)' = UpdatedStatus(cl'[c], e.pkt).status
    BY <1>1, <1>3 DEF Eff, HandlerTakes
  <2>2. After(cl'[c].status, e.pkt) = cl'[c].status
    BY <1>1 DEF After
  <2>3. cl'[c].status = cl[c].status
    BY RegAckDoes
  <2> QED
    BY <1>1, <1>2, <2>1, <2>2, <2>3, UpdatedIs, EffNow
<1>5. Keeps(packetQ, packetQ', Due(c))
  BY <1>1, HandlerQueue
<1>6. CASE brokerQ' = brokerQ /\ (cl'[c].holdPing => cl[c].holdPing)
  <2> HIDE DEF e
  <2>1. clientQ' = clientQ \/ \E x \in Event(SnPacket) : /\ x.pkt.type \in {"PUBLISH", "REGISTER"}
                                                     /\ clientQ' = Append(clientQ, x)
                                                     /\ cl[c].status \in {"Active", "Awake"}
    BY RegAckDoes
  <2> QED
    BY <1>1, <1>4, <1>6, <2>1, IdleHandler
<1>7. CASE /\ brokerQ' = Append(brokerQ, b) /\ cl[c].holdPing /\ ~cl'[c].holdPing
           /\ cl[c].status \in {"Active", "Awake"}
  <2>1. b \in Forwarded(c) /\ b.pkt.type = "PINGREQ" /\ b \in Event(GwPacket) /\ b \notin Leave(c)
    <3>1. PICK g : g = [type |-> "PINGREQ"]
      OBVIOUS
    <3>2. g \in GwPacket /\ g.type = "PINGREQ"
      BY <3>1, MadePackets
    <3> QED
      BY <3>1, <3>2 DEF To, Event, Forwarded, Leave
  <2> HIDE DEF b, e
  <2>2. ~InP(c) /\ ~InB(c) /\ ~InD(c) /\ ~InA(c) /\ dev[c].st = "awake"
    BY <1>7 DEF Calm, OneRequest, RequestFits
  <2>3. ~InP(c)'
    BY <1>5, <2>2 DEF InP, Keeps, Due
  <2>4. ~InA(c)'
    <3>1. ASSUME NEW x \in Event(SnPacket), x.pkt.type \in {"PUBLISH", "REGISTER"},
                 clientQ' = Append(clientQ, x)
          PROVE  ~InA(c)'
      <4>1. Elems(clientQ') = Elems(clientQ) \cup {x} /\ x \notin Answer(c)
        BY <3>1, Appended DEF TypeOK, Answer
      <4> QED
        BY <2>2, <4>1 DEF InA
    <3>2. clientQ' = clientQ => ~InA(c)'
      BY <2>2 DEF InA
    <3> QED
      BY <3>1, <3>2, RegAckDoes
  <2>5. StatusFits(c)'
    <3>1. Eff(c)' = "Awake"
      BY <1>4, <1>7, <2>2 DEF Calm, StatusFits
    <3> QED
      BY <1>1, <2>2, <2>4, <3>1 DEF StatusFits
  <2>6. EndsKept(c)
    <3>1. ~Settled(c) /\ ~Ended(c)
      BY <2>2 DEF Settled, Ended
    <3>2. Leaving(c)' => Leaving(c)
      BY <1>1, <1>7, <2>1, LeavesOnly
    <3> QED
      BY <1>1, <1>5, <3>1, <3>2, EndsKeep
  <2> QED
    BY <1>1, <1>7, <2>1, <2>2, <2>3, <2>4, <2>5, <2>6, Forwards DEF SentIn
<1> QED
  BY <1>1, <1>6, <1>7, RegAckDoes

(* The status of a client that the step does not concern.                  *)
LEMMA EffKept ==
    ASSUME NEW d, cl'[d].status = cl[d].status, upd = None,
           upd' = None \/ upd'.client # d
    PROVE  Eff(d)' = Eff(d)
  BY DEF Eff

(* What is appended has the type of the queue.                             *)
LEMMA LastType ==
    ASSUME NEW S, NEW q \in Seq(S), NEW e, Append(q, e) \in Seq(S)
    PROVE  e \in S
<1> DEFINE r == Append(q, e)
<1>1. Len(q) + 1 \in 1..Len(r) /\ r[Len(q) + 1] = e
  OBVIOUS
<1> QED
  BY <1>1, ElementOfSeq

(* An event appended with To() is one for that client.                     *)
LEMMA SavesLast ==
    ASSUME NEW S, NEW q \in Seq(S), NEW c, NEW p, NEW r \in Seq(S), r = Append(q, To(c, p))
    PROVE  Saves(q, r, S, c)
<1>1. To(c, p).client = c /\ To(c, p) \in S
  BY LastType DEF To
<1> QED
  BY <1>1 DEF Saves

(* A handler of a packet of or for device c leaves the others alone.       *)
LEMMA HandlerOthers ==
    ASSUME TypeOK, TypeOK', NEW c \in Clients, HandlerTakes(c), NEW d \in Clients, d # c, Calm(d),
           cl'[d] = cl[d], dev' = dev, net' = net, sent' = sent,
           upd' = None \/ upd'.client = c,
           brokerQ' = brokerQ \/ \E p : brokerQ' = Append(brokerQ, To(c, p)),
           clientQ' = clientQ \/ \E p : clientQ' = Append(clientQ, To(c, p))
    PROVE  Calm(d)'
<1>1. Saves(brokerQ, brokerQ', Event(GwPacket), c)
  <2>1. brokerQ \in Seq(Event(GwPacket)) /\ brokerQ' \in Seq(Event(GwPacket))
    BY DEF TypeOK
  <2>2. ASSUME NEW p, brokerQ' = Append(brokerQ, To(c, p))
        PROVE  Saves(brokerQ, brokerQ', Event(GwPacket), c)
    BY <2>1, <2>2, SavesLast
  <2> QED
    BY <2>2 DEF Saves
<1>2. Saves(clientQ, clientQ', Event(SnPacket), c)
  <2>1. clientQ \in Seq(Event(SnPacket)) /\ clientQ' \in Seq(Event(SnPacket))
    BY DEF TypeOK
  <2>2. ASSUME NEW p, clientQ' = Append(clientQ, To(c, p))
        PROVE  Saves(clientQ, clientQ', Event(SnPacket), c)
    BY <2>1, <2>2, SavesLast
  <2> QED
    BY <2>2 DEF Saves
<1>3. Eff(d)' = Eff(d)
  BY EffKept DEF HandlerTakes
<1>4. Keeps(packetQ, packetQ', Due(d))
  BY HandlerQueue
<1> QED
  BY <1>1, <1>2, <1>3, <1>4, OthersKept

(* The same for all the handlers of the packets of the devices.            *)
LEMMA DeviceHandlersCalm ==
    ASSUME TypeOK, TypeOK', \A c \in Clients : Calm(c),
           HandleConnect \/ HandleWilltopic \/ HandleWillmsg \/ HandleDisconnect
           \/ HandlePingreq \/ HandleRegAck
    PROVE  \A c \in Clients : Calm(c)'
<1>1. PICK type : FromDevice(type)
  BY DEF HandleConnect, HandleWilltopic, HandleWillmsg, HandleDisconnect, HandlePingreq, HandleRegAck
<1>2. PICK c \in Clients : c = Head(packetQ).client
  BY <1>1, TakeDevice
<1>3. upd' = Head(packetQ) /\ dev' = dev /\ net' = net /\ sent' = sent
  BY <1>1 DEF FromDevice
<1>4. HandlerTakes(c) /\ Calm(c)'
  BY <1>2, ConnectCalm, WilltopicCalm, WillmsgCalm, DisconnectCalm, PingreqCalm, RegAckCalm
<1>5. cl \in [Clients -> Client]
  BY DEF TypeOK
<1>6. ASSUME NEW d \in Clients, d # c PROVE cl'[d] = cl[d]
  <2>1. CASE HandleConnect
    BY <1>2, <1>5, <1>6, <2>1 DEF HandleConnect
  <2>2. CASE HandleWilltopic
    BY <1>2, <1>5, <1>6, <2>2 DEF HandleWilltopic
  <2>3. CASE HandleWillmsg
    BY <1>2, <1>5, <1>6, <2>3 DEF HandleWillmsg
  <2>4. CASE HandleDisconnect
    BY <1>2, <2>4 DEF HandleDisconnect
  <2>5. CASE HandlePingreq
    BY <1>2, <1>5, <1>6, <2>5 DEF HandlePingreq
  <2>6. CASE HandleRegAck
    BY <1>2, <1>6, <2>6, RegAckDoes
  <2> QED
    BY <2>1, <2>2, <2>3, <2>4, <2>5, <2>6
<1>7. brokerQ' = brokerQ \/ \E p : brokerQ' = Append(brokerQ, To(c, p))
  <2>1. CASE HandleConnect
    BY <1>2, <2>1 DEF HandleConnect
  <2>2. CASE HandleWilltopic
    BY <1>2, <2>2 DEF HandleWilltopic
  <2>3. CASE HandleWillmsg
    BY <1>2, <2>3 DEF HandleWillmsg
  <2>4. CASE HandleDisconnect
    BY <1>2, <2>4 DEF HandleDisconnect
  <2>5. CASE HandlePingreq
    BY <1>2, <2>5 DEF HandlePingreq
  <2>6. CASE HandleRegAck
    BY <1>2, <2>6, RegAckDoes
  <2> QED
    BY <2>1, <2>2, <2>3, <2>4, <2>5, <2>6
<1>8. clientQ' = clientQ \/ \E p : clientQ' = Append(clientQ, To(c, p))
  <2>1. CASE HandleConnect
    BY <1>2, <2>1 DEF HandleConnect
  <2>2. CASE HandleWilltopic
    BY <1>2, <2>2 DEF HandleWilltopic
  <2>3. CASE HandleWillmsg
    BY <1>2, <2>3 DEF HandleWillmsg
  <2>4. CASE HandleDisconnect
    BY <1>2, <2>4 DEF HandleDisconnect
  <2>5. CASE HandlePingreq
    BY <1>2, <2>5 DEF HandlePingreq
  <2>6. CASE HandleRegAck
    <3>1. PICK k : k = FirstHeld(c, Head(packetQ).pkt.msgId)
      OBVIOUS
    <3> QED
      BY <1>2, <2>6, <3>1 DEF HandleRegAck
  <2> QED
    BY <2>1, <2>2, <2>3, <2>4, <2>5, <2>6
<1>9. ASSUME NEW d \in Clients, d # c PROVE Calm(d)'
  <2>1. cl'[d] = cl[d] /\ Calm(d) /\ upd'.client = c
    BY <1>2, <1>3, <1>6, <1>9
  <2> QED
    BY <1>2, <1>3, <1>4, <1>7, <1>8, <1>9, <2>1, HandlerOthers
<1> QED
  BY <1>4, <1>9

-----------------------------------------------------------------------------
(* The handlers of the packets of the broker                               *)

(* The handler of the answer e of the broker to c: the answer is in the    *)
(* packet queue, nowhere else, and taken out.                              *)
LEMMA TakeReply ==
    ASSUME TypeOK, TypeOK', NEW type \in {"CONNACK", "PINGRESP"}, FromBroker(type),
           NEW c \in Clients, HandlerTakes(c), Calm(c), net' = net
    PROVE  /\ InP(c) /\ ~InB(c) /\ ~InD(c) /\ ~InA(c) /\ ~cl[c].holdPing
           /\ ~InP(c)' /\ Past(c)
           /\ Keeps(packetQ, packetQ', Due(c))
           /\ dev' = dev /\ sent' = sent
           /\ AskedIn(dev[c].st, Head(packetQ).pkt) /\ Head(packetQ).pkt.type = type
           /\ Eff(c) = cl[c].status
           /\ Eff(c)' = cl'[c].status
<1> DEFINE e == Head(packetQ)
<1>1. /\ packetQ \in Seq(PacketEvent) /\ packetQ # <<>> /\ c = e.client
      /\ e.src = "broker" /\ e.pkt.type = type /\ upd' = upd /\ upd = None
      /\ dev' = dev /\ sent' = sent
  BY DEF TypeOK, FromBroker, HandlerTakes
<1>2. /\ e \in PacketEvent /\ Elems(packetQ) = Elems(Tail(packetQ)) \cup {e}
      /\ \A E : Lone(packetQ, E) /\ e \in E => \A x \in Elems(Tail(packetQ)) : x \notin E
  BY <1>1, Taken
<1> HIDE DEF e
<1>3. e \in Asked(c)
  BY <1>1, <1>2 DEF Asked
<1>4. \A x \in Elems(Tail(packetQ)) : x \notin Asked(c)
  BY <1>2, <1>3 DEF Calm, OneRequest
<1>5. Keeps(packetQ, packetQ', Due(c)) /\ Keeps(Tail(packetQ), packetQ', Due(c))
  BY HandlerQueue
<1>6. ~InP(c)'
  BY <1>4, <1>5 DEF InP, Keeps, Due
<1>7. InP(c) /\ Past(c)
  BY <1>1, <1>2, <1>3 DEF InP, Past
<1>8. ~InB(c) /\ ~InD(c) /\ ~InA(c) /\ ~cl[c].holdPing
  BY <1>7 DEF Calm, OneRequest
<1>9. AskedIn(dev[c].st, e.pkt)
  BY <1>2, <1>3 DEF Calm, RequestFits
<1>10. Eff(c) = cl[c].status /\ Eff(c)' = cl'[c].status
  BY <1>1 DEF Eff
<1> QED
  BY <1>1, <1>5, <1>6, <1>7, <1>8, <1>9, <1>10 DEF e

(* CONNACK                                                                 *)
LEMMA ConnackCalm ==
    ASSUME TypeOK, TypeOK', HandleConnack, NEW c \in Clients, c = Head(packetQ).client, Calm(c)
    PROVE  HandlerTakes(c) /\ Calm(c)'
<1> DEFINE ok == Head(packetQ).pkt.accepted
           a == To(c, [type |-> "CONNACK", accepted |-> ok])
<1>1. FromBroker("CONNACK") /\ HandlerTakes(c) /\ net' = net /\ brokerQ' = brokerQ
  BY DEF HandleConnack, FromBroker, HandlerTakes
<1>2. /\ ~InB(c) /\ ~InD(c) /\ ~InA(c) /\ ~cl[c].holdPing /\ ~InP(c)'
      /\ Keeps(packetQ, packetQ', Due(c))
      /\ dev' = dev /\ sent' = sent
      /\ AskedIn(dev[c].st, Head(packetQ).pkt) /\ Head(packetQ).pkt.type = "CONNACK"
      /\ Eff(c)' = cl'[c].status
  BY <1>1, TakeReply
<1>3. /\ clientQ' = Append(clientQ, a)
      /\ cl' = [cl EXCEPT ![c] = IF ok THEN [@ EXCEPT !.status = "Active"] ELSE Disconnected(@)]
  BY DEF HandleConnack
<1>4. ok \in BOOLEAN
  BY <1>1, TakeBroker, BrokerFields
<1>5. a \in Answer(c) /\ a.pkt.type = "CONNACK" /\ a.pkt.accepted = ok
  BY <1>4, MadeAnswers DEF To
<1>6. cl[c] \in Client /\ c \in DOMAIN cl
  BY DEF TypeOK
<1> HIDE DEF a, ok
<1>7. /\ cl'[c].holdPing = cl[c].holdPing
      /\ cl'[c].status = IF ok THEN "Active" ELSE "Disconnected"
  <2>1. cl'[c] = IF ok THEN [cl[c] EXCEPT !.status = "Active"] ELSE Disconnected(cl[c])
    BY <1>3, <1>6
  <2> QED
    BY <1>6, <2>1 DEF Client, Disconnected
<1>8. dev[c].st = "connecting"
  BY <1>2 DEF AskedIn
<1>9. (Accepted(c)' <=> ok) /\ ~Accepted(c)
  BY <1>2, <1>3, <1>4, <1>5, AcceptsNot DEF Accepted, InA
<1>10. StatusFits(c)' /\ (~ok => Settled(c)')
  BY <1>2, <1>7, <1>8, <1>9 DEF StatusFits, Settled, Low
<1>11. Leaving(c)' => Leaving(c)
  BY <1>1, <1>2 DEF Leaving
<1>12. CASE ok
  <2> DEFINE e == Head(packetQ)
  <2>1. /\ e \in PacketEvent /\ Elems(packetQ) = Elems(Tail(packetQ)) \cup {e}
        /\ \A E, F : ~Behind(packetQ, E, F) /\ e \in E => \A x \in Elems(Tail(packetQ)) : x \notin F
    BY Taken DEF TypeOK, HandleConnack, FromBroker
  <2>2. e \in Accept(c)
    BY <1>12, <2>1 DEF Accept, HandleConnack, FromBroker, ok
  <2>3. packetQ' = Tail(packetQ)
    BY DEF HandleConnack
  <2> HIDE DEF e
  <2>4. ~Ended(c)
    BY <2>1, <2>2 DEF Ended
  <2>5. ~Leaving(c)
    BY <2>4 DEF Calm, EndsFit
  <2>6. \A x \in Elems(packetQ') : x \notin Drop(c)
    BY <2>1, <2>2, <2>3 DEF Calm, EndsFit
  <2>7. ~Behind(packetQ', Accept(c), Drop(c))
    BY <2>6 DEF Behind, Elems
  <2>8. EndsKept(c)
    BY <1>11, <2>4, <2>5, <2>6, <2>7 DEF EndsKept
  <2>9. ~InB(c)'
    BY <1>1, <1>2 DEF InB
  <2> QED
    BY <1>1, <1>2, <1>3, <1>5, <1>7, <1>8, <1>10, <2>8, <2>9, Answered DEF AnswerIn
<1>13. CASE ~ok
  <2>1. EndsKept(c)
    BY <1>1, <1>2, <1>10, <1>11, <1>13, EndsKeep
  <2>2. ~InB(c)'
    BY <1>1, <1>2 DEF InB
  <2> QED
    BY <1>1, <1>2, <1>3, <1>5, <1>7, <1>8, <1>10, <2>1, <2>2, Answered DEF AnswerIn
<1> QED
  BY <1>12, <1>13

(* PINGRESP                                                                *)
LEMMA PingrespCalm ==
    ASSUME TypeOK, TypeOK', HandlePingresp, NEW c \in Clients, c = Head(packetQ).client, Calm(c)
    PROVE  HandlerTakes(c) /\ Calm(c)'
<1> DEFINE a == To(c, [type |-> "PINGRESP"])
           r == [type |-> "PINGRESP"]
<1>1. FromBroker("PINGRESP") /\ HandlerTakes(c) /\ net' = net /\ brokerQ' = brokerQ
  BY DEF HandlePingresp, FromBroker, HandlerTakes
<1>2. /\ ~InB(c) /\ ~InD(c) /\ ~InA(c) /\ ~cl[c].holdPing /\ ~InP(c)'
      /\ Keeps(packetQ, packetQ', Due(c))
      /\ dev' = dev /\ sent' = sent
      /\ AskedIn(dev[c].st, Head(packetQ).pkt) /\ Head(packetQ).pkt.type = "PINGRESP"
      /\ Eff(c) = cl[c].status
      /\ Eff(c)' = cl'[c].status
  BY <1>1, TakeReply
<1>3. /\ clientQ' = Append(clientQ, a)
      /\ cl' = [cl EXCEPT ![c] = UpdatedStatus(@, r)]
  BY DEF HandlePingresp
<1>4. a \in Answer(c) /\ a.pkt.type = "PINGRESP"
  BY MadeAnswers DEF To
<1>5. cl[c] \in Client /\ c \in DOMAIN cl
  BY DEF TypeOK
<1> HIDE DEF a
<1>6. cl'[c].holdPing = cl[c].holdPing /\ cl'[c].status = After(cl[c].status, r)
  <2>1. cl'[c] = UpdatedStatus(cl[c], r)
    BY <1>3, <1>5
  <2> QED
    BY <1>5, <2>1, UpdatedIs
<1>7. dev[c].st \in {"pinging", "awake"}
  BY <1>2 DEF AskedIn
<1>8. StatusFits(c)'
  <2>1. dev[c].st = "pinging" => Eff(c) \in {"Active", "Connecting"}
    BY DEF Calm, StatusFits
  <2>2. dev[c].st = "awake" => Eff(c) \in {"Asleep", "Awake", "Connecting"}
    BY DEF Calm, StatusFits
  <2>3. dev[c].st = "pinging" => Eff(c)' \in {"Active", "Connecting"}
    BY <1>2, <1>6, <2>1 DEF After
  <2>4. dev[c].st = "awake" => Eff(c)' \in {"Asleep", "Connecting"}
    BY <1>2, <1>6, <2>2 DEF After
  <2> QED
    BY <1>2, <1>7, <2>3, <2>4 DEF StatusFits
<1>9. EndsKept(c)
  <2>1. ~Settled(c)
    BY <1>7 DEF Settled
  <2>2. Leaving(c)' => Leaving(c)
    BY <1>1, <1>2 DEF Leaving
  <2> QED
    BY <1>1, <1>2, <2>1, <2>2, EndsKeep
<1>10. ~InB(c)'
  BY <1>1, <1>2 DEF InB
<1> QED
  BY <1>1, <1>2, <1>3, <1>4, <1>6, <1>7, <1>8, <1>9, <1>10, Answered DEF AnswerIn

(* A step that moves nothing, and of the status no more than a connection  *)
(* that begins or, when the device has settled for it, ends.               *)
LEMMA StatusCalm ==
    ASSUME TypeOK', NEW c \in Clients, Calm(c), dev' = dev,
           packetQ' = packetQ, brokerQ' = brokerQ, clientQ' = clientQ,
           cl'[c].holdPing = cl[c].holdPing,
           \/ Eff(c)' = Eff(c)
           \/ Eff(c)' = "Connecting"
           \/ Eff(c)' = "Disconnected" /\ Settled(c),
           sent' = sent \/ sent' = None,
           net'[c] = net[c] \/ (net'[c] = NoLink /\ Ended(c))
    PROVE  Calm(c)'
<1>1. Keeps(net[c].down, net'[c].down, Replied)
  <2>1. CASE net'[c] = net[c]
    BY <2>1, KeepsSelf
  <2>2. CASE net'[c] = NoLink
    BY <2>2 DEF NoLink, Keeps, Elems, Lone, Behind
  <2> QED
    BY <2>1, <2>2
<1>2. Undisturbed(c)
  BY <1>1, KeepsSelf DEF Undisturbed, Leaving
<1> QED
  BY <1>2, UndisturbedCalm

(* DISCONNECT of the broker or of BrokerSendTask                           *)
LEMMA BrokerDisconnectCalm ==
    ASSUME TypeOK, TypeOK', HandleBrokerDisconnect, NEW c \in Clients, c = Head(packetQ).client,
           Calm(c)
    PROVE  HandlerTakes(c) /\ Calm(c)'
<1> DEFINE e == Head(packetQ)
<1>1. /\ HandlerTakes(c) /\ e.src = "broker" /\ e.pkt.type = "DISCONNECT" /\ upd' = upd
      /\ dev' = dev /\ net' = net /\ sent' = sent /\ brokerQ' = brokerQ /\ clientQ' = clientQ
      /\ cl' = [cl EXCEPT ![c] = Disconnected(@)]
  BY DEF HandleBrokerDisconnect, FromBroker, HandlerTakes
<1>2. Settled(c)
  <2>1. e \in PacketEvent /\ e \in Elems(packetQ)
    BY <1>1, Taken DEF TypeOK, HandlerTakes
  <2>2. e \in Drop(c)
    BY <1>1, <2>1 DEF Drop, HandlerTakes
  <2> QED
    BY <2>1, <2>2 DEF Calm, EndsFit
<1> HIDE DEF e
<1>3. cl'[c].status = "Disconnected" /\ cl'[c].holdPing = cl[c].holdPing
  <2>1. cl[c] \in Client /\ cl'[c] = Disconnected(cl[c])
    BY <1>1 DEF TypeOK
  <2> QED
    BY <2>1 DEF Client, Disconnected
<1>4. Eff(c)' = "Disconnected"
  BY <1>1, <1>3 DEF Eff, HandlerTakes
<1>5. Keeps(packetQ, packetQ', Due(c))
  BY <1>1, HandlerQueue
<1>6. Undisturbed(c)
  BY <1>1, <1>2, <1>3, <1>4, <1>5, KeepsSelf DEF Undisturbed, Leaving
<1> QED
  BY <1>1, <1>6, UndisturbedCalm

(* What handlePublish does.                                                *)
LEMMA PublishDoes ==
    ASSUME TypeOK, TypeOK', HandlePublish, NEW c \in Clients, c = Head(packetQ).client
    PROVE  /\ cl'[c].status = cl[c].status /\ cl'[c].holdPing = cl[c].holdPing
           /\ \A d \in Clients : d # c => cl'[d] = cl[d]
           /\ brokerQ' = brokerQ \/ \E b \in Event(GwPacket) :
                /\ b.client = c /\ b.pkt.type \in {"PUBACK", "PUBREC"}
                /\ brokerQ' = Append(brokerQ, b)
           /\ clientQ' = clientQ \/ \E e \in Event(SnPacket) :
                /\ e.client = c /\ e.pkt.type \in {"PUBLISH", "REGISTER"}
                /\ clientQ' = Append(clientQ, e)
                /\ cl[c].status \in {"Active", "Awake"}
<1>1. PICK m : m = Head(packetQ).pkt.pub
  OBVIOUS
<1>2. /\ PublishDropped(c) \/ PublishSaved(c, m) \/ PublishKnown(c, m)
         \/ PublishUnmatched(c, m) \/ PublishRegister(c, m)
  BY <1>1 DEF HandlePublish
<1>3. /\ brokerQ \in Seq(Event(GwPacket)) /\ brokerQ' \in Seq(Event(GwPacket))
      /\ clientQ \in Seq(Event(SnPacket)) /\ clientQ' \in Seq(Event(SnPacket))
      /\ cl \in [Clients -> Client] /\ cl[c] \in Client
  BY DEF TypeOK
<1>4. /\ cl'[c].status = cl[c].status /\ cl'[c].holdPing = cl[c].holdPing
      /\ \A d \in Clients : d # c => cl'[d] = cl[d]
  <2>1. CASE cl' = cl
    BY <2>1
  <2>2. CASE PublishSaved(c, m)
    <3>1. CASE HasRoom(cl[c].sleepQ)
      <4> DEFINE q == Append(cl[c].sleepQ, m)
      <4>1. cl' = [cl EXCEPT ![c].sleepQ = q]
        BY <2>2, <3>1 DEF PublishSaved
      <4> HIDE DEF q
      <4> QED
        BY <1>3, <4>1 DEF Client
    <3>2. CASE ~HasRoom(cl[c].sleepQ)
      BY <2>1, <2>2, <3>2 DEF PublishSaved
    <3> QED
      BY <3>1, <3>2
  <2>3. CASE PublishRegister(c, m)
    <3>1. CASE Cardinality(NormalTopics(c)) < MaxNormal
      <4> DEFINE tid == NextTid(c)
                 msgId == NextSnMsgId(c)
                 h == [msgId |-> msgId, pub |-> m, tid |-> tid]
      <4>1. cl' = [cl EXCEPT ![c].held = Append(@, h),
                             ![c].snMsgId = msgId,
                             ![c].nextTid = tid,
                             ![c].tid[TopicOf[m]] = tid]
        BY <2>3, <3>1 DEF PublishRegister
      <4> HIDE DEF tid, msgId, h
      <4> QED
        BY <1>3, <4>1 DEF Client
    <3>2. CASE ~(Cardinality(NormalTopics(c)) < MaxNormal)
      BY <2>1, <2>3, <3>2 DEF PublishRegister
    <3> QED
      BY <3>1, <3>2
  <2> QED
    BY <1>2, <2>1, <2>2, <2>3 DEF PublishDropped, PublishKnown, PublishUnmatched
<1>5. brokerQ' = brokerQ \/ \E b \in Event(GwPacket) :
          /\ b.client = c /\ b.pkt.type \in {"PUBACK", "PUBREC"} /\ brokerQ' = Append(brokerQ, b)
  <2>1. \/ brokerQ' = brokerQ
        \/ brokerQ' = Append(brokerQ, To(c, [type |-> "PUBACK", pub |-> m]))
        \/ brokerQ' = Append(brokerQ, To(c, [type |-> "PUBREC", pub |-> m]))
    BY <1>2 DEF PublishDropped, PublishSaved, PublishKnown, PublishUnmatched, PublishRegister,
                ReplyAck
  <2>2. ASSUME NEW t \in {"PUBACK", "PUBREC"},
               brokerQ' = Append(brokerQ, To(c, [type |-> t, pub |-> m]))
        PROVE  \E b \in Event(GwPacket) : /\ b.client = c /\ b.pkt.type \in {"PUBACK", "PUBREC"}
                                          /\ brokerQ' = Append(brokerQ, b)
    <3>1. PICK b : b = To(c, [type |-> t, pub |-> m])
      OBVIOUS
    <3>2. b.client = c /\ b.pkt.type = t
      BY <3>1 DEF To
    <3>3. b \in Event(GwPacket)
      BY <1>3, <2>2, <3>1, LastType
    <3> QED
      BY <2>2, <3>1, <3>2, <3>3
  <2> QED
    BY <2>1, <2>2
<1>6. clientQ' = clientQ \/ \E e \in Event(SnPacket) :
          /\ e.client = c /\ e.pkt.type \in {"PUBLISH", "REGISTER"}
          /\ clientQ' = Append(clientQ, e)
          /\ cl[c].status \in {"Active", "Awake"}
  <2>1. \/ clientQ' = clientQ
        \/ /\ cl[c].status \in {"Active", "Awake"}
           /\ clientQ' = Append(clientQ, To(c, [type |-> "PUBLISH", pub |-> m,
                                                tid |-> cl[c].tid[TopicOf[m]]]))
        \/ /\ cl[c].status \in {"Active", "Awake"}
           /\ clientQ' = Append(clientQ, To(c, [type |-> "REGISTER", msgId |-> NextSnMsgId(c),
                                                tid |-> NextTid(c)]))
    BY <1>2 DEF PublishDropped, PublishSaved, PublishKnown, PublishUnmatched, PublishRegister,
                PostRegister
  <2>2. ASSUME NEW p, p.type \in {"PUBLISH", "REGISTER"}, clientQ' = Append(clientQ, To(c, p))
        PROVE  \E e \in Event(SnPacket) : /\ e.client = c /\ e.pkt.type \in {"PUBLISH", "REGISTER"}
                                          /\ clientQ' = Append(clientQ, e)
    <3>1. PICK e : e = To(c, p)
      OBVIOUS
    <3>2. e.client = c /\ e.pkt = p
      BY <3>1 DEF To
    <3>3. e \in Event(SnPacket)
      BY <1>3, <2>2, <3>1, LastType
    <3> QED
      BY <2>2, <3>1, <3>2, <3>3
  <2>3. /\ \A t : [type |-> "PUBLISH", pub |-> m, tid |-> t].type = "PUBLISH"
        /\ \A i, t : [type |-> "REGISTER", msgId |-> i, tid |-> t].type = "REGISTER"
    OBVIOUS
  <2> QED
    BY <2>1, <2>2, <2>3
<1> QED
  BY <1>4, <1>5, <1>6

(* PUBLISH                                                                 *)
LEMMA PublishCalm ==
    ASSUME TypeOK, TypeOK', HandlePublish, NEW c \in Clients, c = Head(packetQ).client, Calm(c)
    PROVE  HandlerTakes(c) /\ Calm(c)'
<1>1. /\ HandlerTakes(c) /\ upd' = upd /\ upd = None
      /\ dev' = dev /\ net' = net /\ sent' = sent
  BY DEF HandlePublish, FromBroker, HandlerTakes
<1>2. /\ cl'[c].status = cl[c].status /\ cl'[c].holdPing = cl[c].holdPing
      /\ brokerQ' = brokerQ \/ \E b \in Event(GwPacket) : /\ b.pkt.type \in {"PUBACK", "PUBREC"}
                                                          /\ brokerQ' = Append(brokerQ, b)
      /\ clientQ' = clientQ \/ \E e \in Event(SnPacket) : /\ e.pkt.type \in {"PUBLISH", "REGISTER"}
                                                          /\ clientQ' = Append(clientQ, e)
                                                          /\ cl[c].status \in {"Active", "Awake"}
  BY PublishDoes
<1>3. Eff(c)' = Eff(c)
  BY <1>1, <1>2, EffKept
<1> QED
  BY <1>1, <1>2, <1>3, IdleHandler

(* The same for all the handlers of the packets of the broker.             *)
LEMMA BrokerHandlersCalm ==
    ASSUME TypeOK, TypeOK', \A c \in Clients : Calm(c),
           HandleConnack \/ HandlePingresp \/ HandleBrokerDisconnect \/ HandlePublish
    PROVE  \A c \in Clients : Calm(c)'
<1>1. PICK type : FromBroker(type)
  BY DEF HandleConnack, HandlePingresp, HandleBrokerDisconnect, HandlePublish
<1>2. PICK c \in Clients : c = Head(packetQ).client
  BY <1>1, TakeBroker
<1>3. upd' = None /\ dev' = dev /\ sent' = sent
  BY <1>1 DEF FromBroker
<1>4. net' = net
  BY DEF HandleConnack, HandlePingresp, HandleBrokerDisconnect, HandlePublish
<1>5. HandlerTakes(c) /\ Calm(c)'
  BY <1>2, ConnackCalm, PingrespCalm, BrokerDisconnectCalm, PublishCalm
<1>6. cl \in [Clients -> Client]
  BY DEF TypeOK
<1>7. /\ \A d \in Clients : d # c => cl'[d] = cl[d]
      /\ brokerQ' = brokerQ \/ \E p : brokerQ' = Append(brokerQ, To(c, p))
      /\ clientQ' = clientQ \/ \E p : clientQ' = Append(clientQ, To(c, p))
  <2>1. CASE HandleConnack
    BY <1>2, <1>6, <2>1 DEF HandleConnack
  <2>2. CASE HandlePingresp
    BY <1>2, <1>6, <2>2 DEF HandlePingresp
  <2>3. CASE HandleBrokerDisconnect
    BY <1>2, <1>6, <2>3 DEF HandleBrokerDisconnect
  <2>4. CASE HandlePublish
    <3>1. PICK m : /\ m = Head(packetQ).pkt.pub
                   /\ PublishDropped(c) \/ PublishSaved(c, m) \/ PublishKnown(c, m)
                      \/ PublishUnmatched(c, m) \/ PublishRegister(c, m)
      BY <1>2, <2>4 DEF HandlePublish
    <3>2. brokerQ' = brokerQ \/ \E p : brokerQ' = Append(brokerQ, To(c, p))
      BY <3>1 DEF PublishDropped, PublishSaved, PublishKnown, PublishUnmatched, PublishRegister,
                  ReplyAck
    <3>3. clientQ' = clientQ \/ \E p : clientQ' = Append(clientQ, To(c, p))
      BY <3>1 DEF PublishDropped, PublishSaved, PublishKnown, PublishUnmatched, PublishRegister,
                  PostRegister
    <3> QED
      BY <1>2, <2>4, <3>2, <3>3, PublishDoes
  <2> QED
    BY <2>1, <2>2, <2>3, <2>4
<1>8. ASSUME NEW d \in Clients, d # c PROVE Calm(d)'
  <2>1. cl'[d] = cl[d] /\ Calm(d)
    BY <1>7, <1>8
  <2> QED
    BY <1>2, <1>3, <1>4, <1>5, <1>7, <1>8, <2>1, HandlerOthers
<1> QED
  BY <1>5, <1>8

(* updateStatus()                                                          *)
LEMMA UpdateStatusCalm ==
    ASSUME TypeOK, TypeOK', UpdateStatus, NEW c \in Clients, Calm(c)
    PROVE  Calm(c)'
<1>1. /\ upd # None /\ upd' = None /\ dev' = dev /\ sent' = sent /\ net' = net
      /\ packetQ' = packetQ /\ brokerQ' = brokerQ /\ clientQ' = clientQ
      /\ cl' = [cl EXCEPT ![upd.client] = UpdatedStatus(@, upd.pkt)]
  BY DEF UpdateStatus
<1>2. cl \in [Clients -> Client] /\ cl[c] \in Client
  BY DEF TypeOK
<1>3. Eff(c)' = Eff(c) /\ cl'[c].holdPing = cl[c].holdPing
  <2>1. CASE upd.client = c
    <3>1. cl'[c] = UpdatedStatus(cl[c], upd.pkt)
      BY <1>1, <1>2, <2>1
    <3> QED
      BY <1>1, <1>2, <2>1, <3>1, UpdatedIs DEF Eff
  <2>2. CASE upd.client # c
    <3>1. cl'[c] = cl[c]
      BY <1>1, <1>2, <2>2
    <3> QED
      BY <1>1, <2>2, <3>1 DEF Eff
  <2> QED
    BY <2>1, <2>2
<1> QED
  BY <1>1, <1>3, StatusCalm

-----------------------------------------------------------------------------
(* BrokerSendTask and BrokerRecvTask                                       *)

(* The status of a Client changes while an updateStatus() is to come.      *)
LEMMA EffSet ==
    ASSUME TypeOK', NEW c \in Clients, upd' = upd,
           cl'[c].status \in {"Connecting", "Disconnected"}
    PROVE  Eff(c)' = cl'[c].status
<1>1. cl'[c] \in Client
  BY DEF TypeOK
<1>2. \A p : UpdatedStatus(cl'[c], p).status = cl'[c].status
  BY <1>1, UpdatedIs DEF After
<1> QED
  BY <1>2 DEF Eff

(* BrokerSendTask is done with the packet: CONNECT makes the Client        *)
(* Connecting, DISCONNECT closes the connection.                           *)
LEMMA BrokerSentCalm ==
    ASSUME TypeOK, TypeOK', BrokerSent, NEW c \in Clients, Calm(c)
    PROVE  Calm(c)'
<1>1. /\ sent # None /\ sent' = None /\ dev' = dev /\ upd' = upd
      /\ packetQ' = packetQ /\ brokerQ' = brokerQ /\ clientQ' = clientQ
  BY DEF BrokerSent
<1>2. sent \in Event(GwPacket) /\ cl \in [Clients -> Client] /\ cl[c] \in Client
      /\ net \in [Clients -> Link]
  BY <1>1 DEF TypeOK
<1>3. CASE sent.client # c
  <2>1. cl'[c] = cl[c] /\ net'[c] = net[c]
    BY <1>2, <1>3 DEF BrokerSent, Event
  <2>2. Eff(c)' = Eff(c)
    BY <1>1, <2>1 DEF Eff
  <2> QED
    BY <1>1, <2>1, <2>2, StatusCalm
<1>4. CASE sent.client = c /\ sent.pkt.type = "CONNECT"
  <2>1. cl' = [cl EXCEPT ![c].status = "Connecting"] /\ net' = net
    BY <1>4 DEF BrokerSent
  <2>2. cl'[c].status = "Connecting" /\ cl'[c].holdPing = cl[c].holdPing
    BY <1>2, <2>1 DEF Client
  <2>3. Eff(c)' = "Connecting"
    BY <1>1, <2>2, EffSet
  <2> QED
    BY <1>1, <2>1, <2>2, <2>3, StatusCalm
<1>5. CASE sent.client = c /\ sent.pkt.type # "CONNECT"
  <2>1. cl' = [cl EXCEPT ![c] = Disconnected(@)] /\ net' = [net EXCEPT ![c] = NoLink]
    BY <1>5 DEF BrokerSent
  <2>2. cl'[c] = Disconnected(cl[c]) /\ net'[c] = NoLink
    BY <1>2, <2>1
  <2>3. cl'[c].status = "Disconnected" /\ cl'[c].holdPing = cl[c].holdPing
    BY <1>2, <2>2 DEF Client, Disconnected
  <2>4. Eff(c)' = "Disconnected"
    BY <1>1, <2>3, EffSet
  <2>5. Ended(c) /\ Settled(c)
    <3>1. Leaving(c)
      BY <1>1, <1>5 DEF Leaving
    <3> QED
      BY <3>1 DEF Calm, EndsFit, Ended
  <2> QED
    BY <1>1, <2>2, <2>3, <2>4, <2>5, StatusCalm
<1> QED
  BY <1>3, <1>4, <1>5

(* The broker answers only CONNECT and PINGREQ.                            *)
LEMMA ReactionsDo ==
    ASSUME NEW l \in Link, NEW p, NEW link \in Reactions(l, p)
    PROVE  /\ p.type \notin {"CONNECT", "PINGREQ"} => link.down = l.down
           /\ p.type \in {"PUBACK", "PUBREC"} /\ l.peer = "session" => link = l
           /\ p.type = "PINGREQ" /\ l.peer = "session"
                => link = [l EXCEPT !.down = Append(@, [type |-> "PINGRESP"])]
           /\ p.type = "CONNECT" /\ l = NewLink
                => \E ok \in BOOLEAN :
                     link = [sock |-> "open", peer |-> IF ok THEN "session" ELSE "gone",
                             down |-> <<[type |-> "CONNACK", accepted |-> ok]>>]
<1>1. CASE p.type = "CONNECT"
  <2> SUFFICES ASSUME l = NewLink
               PROVE  \E ok \in BOOLEAN :
                        link = [sock |-> "open", peer |-> IF ok THEN "session" ELSE "gone",
                                down |-> <<[type |-> "CONNACK", accepted |-> ok]>>]
    BY <1>1
  <2>1. PICK ok \in BOOLEAN :
            link = [l EXCEPT !.peer = IF ok THEN "session" ELSE "gone",
                             !.down = <<[type |-> "CONNACK", accepted |-> ok]>>]
    BY <1>1 DEF Reactions, NewLink
  <2>2. link = [sock |-> "open", peer |-> IF ok THEN "session" ELSE "gone",
                down |-> <<[type |-> "CONNACK", accepted |-> ok]>>]
    BY <2>1 DEF NewLink
  <2> QED
    BY <2>2
<1>2. CASE p.type # "CONNECT"
  <2>1. \/ link = [l EXCEPT !.peer = "gone"]
        \/ /\ l.peer = "session" /\ p.type = "PINGREQ"
           /\ link = [l EXCEPT !.down = Append(@, [type |-> "PINGRESP"])]
        \/ link = l
    BY <1>2 DEF Reactions
  <2>2. p.type \in {"PUBACK", "PUBREC", "PINGREQ"} /\ l.peer = "session" =>
            \/ /\ p.type = "PINGREQ"
               /\ link = [l EXCEPT !.down = Append(@, [type |-> "PINGRESP"])]
            \/ p.type # "PINGREQ" /\ link = l
    BY DEF Reactions
  <2>3. [l EXCEPT !.peer = "gone"].down = l.down
    BY DEF Link
  <2> QED
    BY <1>2, <2>1, <2>2, <2>3
<1> QED
  BY <1>1, <1>2

(* What a broker that has been sent CONNECT does.                          *)
LEMMA ConnectSends ==
    ASSUME TypeOK, TypeOK', NEW c \in Clients, Calm(c),
           sent = None, brokerQ # <<>>, Head(brokerQ).client = c,
           Head(brokerQ).pkt.type = "CONNECT",
           brokerQ' = Tail(brokerQ), packetQ' = packetQ, clientQ' = clientQ,
           cl' = cl, dev' = dev, upd' = upd, sent' = Head(brokerQ),
           NEW ok \in BOOLEAN,
           net'[c] = [sock |-> "open", peer |-> IF ok THEN "session" ELSE "gone",
                      down |-> <<[type |-> "CONNACK", accepted |-> ok]>>]
    PROVE  Calm(c)'
<1> DEFINE e == Head(brokerQ)
<1>1. /\ e \in Event(GwPacket) /\ Elems(brokerQ) = Elems(Tail(brokerQ)) \cup {e}
      /\ \A E : Lone(brokerQ, E) /\ e \in E => \A x \in Elems(Tail(brokerQ)) : x \notin E
      /\ \A E, F : ~Behind(brokerQ, E, F) /\ e \in E => \A x \in Elems(Tail(brokerQ)) : x \notin F
  BY Taken DEF TypeOK
<1>2. e \in Forwarded(c) /\ e \in Open(c)
  BY <1>1 DEF Forwarded, Open
<1>3. e.client = c /\ e.pkt.type = "CONNECT" /\ sent' = e
  OBVIOUS
<1> HIDE DEF e
<1>4. InB(c)
  BY <1>1, <1>2 DEF InB
<1>5. ~InP(c) /\ ~InD(c) /\ ~InA(c) /\ ~cl[c].holdPing
  BY <1>4 DEF Calm, OneRequest
<1>6. ~InB(c)'
  BY <1>1, <1>2 DEF InB, Calm, OneRequest
<1>7. ~InP(c)' /\ ~InA(c)' /\ ~cl'[c].holdPing /\ Eff(c)' = Eff(c)
  BY <1>5 DEF InP, InA, Eff
<1>8. dev[c].st = "connecting"
  BY <1>1, <1>2, <1>3 DEF Calm, RequestFits, SentIn
<1>9. ~Accepted(c) /\ ~Accepted(c)'
  BY <1>5 DEF Accepted, InA
<1>10. Eff(c) \in Low
  BY <1>4, <1>8, <1>9 DEF Calm, StatusFits, Low
<1>11. StatusFits(c)' /\ Settled(c)'
  BY <1>7, <1>8, <1>9, <1>10 DEF StatusFits, Settled, Low
<1>12. PICK p : p = [type |-> "CONNACK", accepted |-> ok]
  OBVIOUS
<1>13. net'[c].down = <<p>> /\ Elems(net'[c].down) = {p} /\ p.type = "CONNACK" /\ p.accepted = ok
  BY <1>12 DEF Elems
<1>14. OneRequest(c)'
  <2>1. Lone(net'[c].down, Replied)
    BY <1>13 DEF Lone
  <2>2. Lone(packetQ', Asked(c)) /\ Lone(brokerQ', Forwarded(c)) /\ Lone(clientQ', Answer(c))
    BY <1>6, <1>7, NoneLone DEF InP, InB, InA
  <2> QED
    BY <1>6, <1>7, <2>1, <2>2 DEF OneRequest
<1>15. RequestFits(c)'
  BY <1>6, <1>7, <1>8, <1>13 DEF RequestFits, InP, InB, InA, SentIn
<1>16. EndsFit(c)'
  <2>1. \A x \in Elems(brokerQ') : x \notin Leave(c)
    BY <1>1, <1>2 DEF Calm, EndsFit
  <2>2. ~Leaving(c)'
    BY <1>3, <2>1 DEF Leaving
  <2>3. ~Behind(brokerQ', Open(c), Leave(c))
    BY <2>1 DEF Behind, Elems
  <2>4. Ended(c)' \/ ok
    <3>1. \A x \in Elems(packetQ') : x \notin Accept(c)
      BY <1>7 DEF InP, Accept, Asked
    <3>2. ok \/ p \notin AcceptD
      BY <1>13 DEF AcceptD
    <3> QED
      BY <1>11, <1>13, <3>1, <3>2 DEF Ended
  <2>5. ok => net'[c].sock = "open" /\ net'[c].peer = "session"
    OBVIOUS
  <2>6. ~Behind(packetQ', Accept(c), Drop(c))
    BY DEF Calm, EndsFit
  <2> QED
    BY <1>11, <2>2, <2>3, <2>4, <2>5, <2>6 DEF EndsFit
<1>17. Hushed(c)'
  BY <1>8 DEF Hushed, Quiet
<1> QED
  BY <1>11, <1>14, <1>15, <1>16, <1>17 DEF Calm

(* What a broker that has been sent PINGREQ does.                          *)
LEMMA PingSends ==
    ASSUME TypeOK, TypeOK', NEW c \in Clients, Calm(c),
           sent = None, brokerQ # <<>>, Head(brokerQ).client = c,
           Head(brokerQ).pkt.type = "PINGREQ",
           brokerQ' = Tail(brokerQ), packetQ' = packetQ, clientQ' = clientQ,
           cl' = cl, dev' = dev, upd' = upd, sent' = None,
           net'[c] = [net[c] EXCEPT !.down = Append(@, [type |-> "PINGRESP"])]
    PROVE  Calm(c)'
<1> DEFINE e == Head(brokerQ)
<1>1. /\ e \in Event(GwPacket) /\ Elems(brokerQ) = Elems(Tail(brokerQ)) \cup {e}
      /\ \A T : Keeps(brokerQ, Tail(brokerQ), T)
      /\ \A E : Lone(brokerQ, E) /\ e \in E => \A x \in Elems(Tail(brokerQ)) : x \notin E
  BY Taken DEF TypeOK
<1>2. e \in Forwarded(c)
  BY <1>1 DEF Forwarded
<1>3. e.client = c /\ e.pkt.type = "PINGREQ"
  OBVIOUS
<1> HIDE DEF e
<1>4. InB(c)
  BY <1>1, <1>2 DEF InB
<1>5. ~InP(c) /\ ~InD(c) /\ ~InA(c) /\ ~cl[c].holdPing
  BY <1>4 DEF Calm, OneRequest
<1>6. ~InB(c)'
  BY <1>1, <1>2 DEF InB, Calm, OneRequest
<1>7. ~InP(c)' /\ ~InA(c)' /\ ~cl'[c].holdPing /\ Eff(c)' = Eff(c)
  BY <1>5 DEF InP, InA, Eff
<1>8. dev[c].st \in {"pinging", "awake"}
  BY <1>1, <1>2, <1>3 DEF Calm, RequestFits, SentIn
<1>9. StatusFits(c)'
  BY <1>5, <1>7, <1>8 DEF Calm, StatusFits
<1>10. PICK p : p = [type |-> "PINGRESP"]
  OBVIOUS
<1>11. net[c] \in Link /\ net[c].down \in Seq(BrokerPacket) /\ p \in BrokerPacket
       /\ p.type = "PINGRESP"
  BY <1>10, MadePackets DEF TypeOK, Link
<1>12. net'[c].down = Append(net[c].down, p) /\ net'[c].sock = net[c].sock
       /\ net'[c].peer = net[c].peer
  BY <1>10, <1>11 DEF Link
<1>13. Elems(net'[c].down) = Elems(net[c].down) \cup {p} /\ Lone(net'[c].down, Replied)
  <2>1. \A x \in Elems(net[c].down) : x \notin Replied
    BY <1>5 DEF InD
  <2>2. Lone(net[c].down, Replied)
    BY DEF Calm, OneRequest
  <2> QED
    BY <1>11, <1>12, <2>1, <2>2, Appended
<1>14. OneRequest(c)'
  <2>1. Lone(packetQ', Asked(c)) /\ Lone(brokerQ', Forwarded(c)) /\ Lone(clientQ', Answer(c))
    BY <1>6, <1>7, NoneLone DEF InP, InB, InA
  <2> QED
    BY <1>6, <1>7, <1>13, <2>1 DEF OneRequest
<1>15. RequestFits(c)'
  BY <1>5, <1>6, <1>7, <1>8, <1>11, <1>13 DEF RequestFits, InP, InB, InD, InA, SentIn
<1>16. EndsFit(c)'
  <2>1. ~Ended(c) /\ ~Settled(c)
    BY <1>8 DEF Ended, Settled
  <2>2. Leaving(c)' => Leaving(c)
    BY <1>1 DEF Leaving
  <2>3. ~Behind(brokerQ', Open(c), Leave(c))
    BY <1>6, NoneLone DEF InB, Open, Forwarded
  <2> QED
    BY <1>12, <2>1, <2>2, <2>3 DEF EndsFit, Calm
<1>17. Hushed(c)'
  BY <1>7, <1>8 DEF Hushed, Quiet
<1> QED
  BY <1>9, <1>14, <1>15, <1>16, <1>17 DEF Calm

(* BrokerSendTask sends.                                                   *)
LEMMA BrokerSendCalm ==
    ASSUME TypeOK, TypeOK', BrokerSend, \A c \in Clients : Calm(c), NEW d \in Clients
    PROVE  Calm(d)'
<1>1. PICK e \in Event(GwPacket) : e = Head(brokerQ)
  BY Taken DEF TypeOK, BrokerSend
<1>2. PICK c \in Clients : c = e.client
  BY DEF Event
<1>3. PICK p \in GwPacket : p = e.pkt
  BY DEF Event
<1>4. PICK l : l = IF Reuses(c, p) THEN net[c] ELSE NewLink
  OBVIOUS
<1>5. PICK link \in Reactions(l, p) : net' = [net EXCEPT ![c] = link]
  BY <1>1, <1>2, <1>3, <1>4 DEF BrokerSend
<1>6. /\ sent = None /\ brokerQ # <<>> /\ brokerQ' = Tail(brokerQ) /\ packetQ' = packetQ
      /\ clientQ' = clientQ /\ cl' = cl /\ dev' = dev /\ upd' = upd
      /\ sent' = IF p.type \in {"CONNECT", "DISCONNECT"} THEN e ELSE None
  BY <1>1, <1>2, <1>3 DEF BrokerSend
<1>7. net \in [Clients -> Link] /\ net[c] \in Link /\ l \in Link
  BY <1>4, LinkTypes DEF TypeOK
<1>8. /\ p.type \notin {"CONNECT", "PINGREQ"} => link.down = l.down
      /\ p.type \in {"PUBACK", "PUBREC"} /\ l.peer = "session" => link = l
      /\ p.type = "PINGREQ" /\ l.peer = "session"
           => link = [l EXCEPT !.down = Append(@, [type |-> "PINGRESP"])]
      /\ p.type = "CONNECT" /\ l = NewLink
           => \E ok \in BOOLEAN :
                link = [sock |-> "open", peer |-> IF ok THEN "session" ELSE "gone",
                        down |-> <<[type |-> "CONNACK", accepted |-> ok]>>]
  BY <1>7, ReactionsDo
<1>9. net'[c] = link
  BY <1>5, <1>7
<1>10. e \in Elems(brokerQ) /\ \A T : Keeps(brokerQ, brokerQ', T)
  BY <1>1, <1>6, Taken DEF TypeOK
<1>11. CASE d # c
  <2>1. net'[d] = net[d] /\ Eff(d)' = Eff(d) /\ Calm(d)
    BY <1>5, <1>6, <1>7, <1>11 DEF Eff
  <2>2. sent' = None \/ sent'.client = c
    BY <1>2, <1>6
  <2>3. Keeps(packetQ, packetQ', Due(d)) /\ Saves(clientQ, clientQ', Event(SnPacket), c)
    BY <1>6, KeepsSelf DEF Saves
  <2> QED
    BY <1>6, <1>11, <2>1, <2>2, <2>3, OthersKept
<1>12. CASE d = c /\ p.type = "CONNECT"
  <2>1. l = NewLink
    BY <1>4, <1>12 DEF Reuses
  <2>2. PICK ok \in BOOLEAN :
            net'[c] = [sock |-> "open", peer |-> IF ok THEN "session" ELSE "gone",
                       down |-> <<[type |-> "CONNACK", accepted |-> ok]>>]
    BY <1>8, <1>9, <1>12, <2>1
  <2>3. Head(brokerQ).client = c /\ Head(brokerQ).pkt.type = "CONNECT" /\ sent' = Head(brokerQ)
    BY <1>1, <1>2, <1>3, <1>6, <1>12
  <2>4. Calm(c)
    OBVIOUS
  <2> QED
    BY <1>6, <1>12, <2>2, <2>3, <2>4, ConnectSends
<1>13. CASE d = c /\ p.type = "PINGREQ"
  <2>1. e \in Forwarded(c)
    BY <1>2, <1>3, <1>13 DEF Forwarded
  <2>2. dev[c].st \in {"pinging", "awake"}
    BY <1>3, <1>10, <1>13, <2>1 DEF Calm, RequestFits, SentIn
  <2>3. net[c].sock = "open" /\ net[c].peer = "session"
    BY <2>2 DEF Calm, EndsFit, Ended, Settled
  <2>4. l = net[c]
    BY <1>4, <1>13, <2>3 DEF Reuses
  <2>5. net'[c] = [net[c] EXCEPT !.down = Append(@, [type |-> "PINGRESP"])]
    BY <1>8, <1>9, <1>13, <2>3, <2>4
  <2>6. Head(brokerQ).client = c /\ Head(brokerQ).pkt.type = "PINGREQ" /\ sent' = None
    BY <1>1, <1>2, <1>3, <1>6, <1>13
  <2>7. Calm(c)
    OBVIOUS
  <2> QED
    BY <1>6, <1>13, <2>5, <2>6, <2>7, PingSends
<1>14. CASE d = c /\ p.type \notin {"CONNECT", "PINGREQ"}
  <2>1. p.type \in {"DISCONNECT", "PUBACK", "PUBREC"}
    BY <1>14 DEF GwPacket
  <2>2. Calm(c)
    OBVIOUS
  <2>3. p.type = "DISCONNECT" => Leaving(c) /\ Ended(c)
    <3>1. ASSUME p.type = "DISCONNECT" PROVE e \in Leave(c)
      BY <1>2, <1>3, <3>1 DEF Leave
    <3>2. p.type = "DISCONNECT" => Leaving(c)
      BY <1>10, <3>1 DEF Leaving
    <3> QED
      BY <2>2, <3>2 DEF Calm, EndsFit
  <2>4. net'[c] = net[c] \/ Ended(c)
    <3>1. CASE ~Ended(c)
      <4>1. net[c].sock = "open" /\ net[c].peer = "session"
        BY <2>2, <3>1 DEF Calm, EndsFit
      <4>2. l = net[c]
        BY <1>4, <1>14, <4>1 DEF Reuses
      <4> QED
        BY <1>8, <1>9, <2>1, <2>3, <3>1, <4>1, <4>2
    <3> QED
      BY <3>1
  <2>5. Keeps(net[c].down, net'[c].down, Replied)
    <3>1. net'[c].down = l.down
      BY <1>8, <1>9, <1>14
    <3>2. Keeps(net[c].down, <<>>, Replied)
      BY DEF Keeps, Elems, Lone, Behind
    <3>3. l.down = net[c].down \/ l.down = <<>>
      BY <1>4 DEF NewLink
    <3> QED
      BY <3>1, <3>2, <3>3, KeepsSelf
  <2>6. sent' # None /\ sent'.client = c /\ sent'.pkt.type # "CONNECT" => Leaving(c)
    BY <1>6, <2>1, <2>3
  <2>7. Eff(c)' = Eff(c)
    BY <1>6 DEF Eff
  <2>8. Undisturbed(c)
    BY <1>6, <1>10, <2>4, <2>5, <2>6, <2>7, KeepsSelf DEF Undisturbed
  <2> QED
    BY <1>14, <2>2, <2>8, UndisturbedCalm
<1> QED
  BY <1>11, <1>12, <1>13, <1>14

(* The events of the receiving tasks.                                      *)
LEMMA MadeEvents ==
    ASSUME NEW c \in Clients
    PROVE  /\ \A p \in BrokerPacket : /\ BrokerRecv(c, p) \in PacketEvent
                                     /\ BrokerRecv(c, p).client = c
                                     /\ BrokerRecv(c, p).src = "broker"
                                     /\ BrokerRecv(c, p).pkt = p
           /\ \A p \in DevicePacket : /\ ClientRecv(c, p) \in PacketEvent
                                     /\ ClientRecv(c, p).client = c
                                     /\ ClientRecv(c, p).src = "client"
                                     /\ ClientRecv(c, p).pkt = p
<1>1. ASSUME NEW p \in BrokerPacket PROVE BrokerRecv(c, p) \in BrokerEvent
  BY DEF BrokerRecv, BrokerEvent
<1>2. ASSUME NEW p \in DevicePacket PROVE ClientRecv(c, p) \in DeviceEvent
  BY DEF ClientRecv, DeviceEvent
<1> QED
  BY <1>1, <1>2 DEF PacketEvent, BrokerRecv, ClientRecv

(* A send fails.                                                           *)
LEMMA BrokerSendFailsCalm ==
    ASSUME TypeOK, TypeOK', BrokerSendFails, \A c \in Clients : Calm(c), NEW d \in Clients
    PROVE  Calm(d)'
<1>1. PICK c \in Clients : c = Head(brokerQ).client
  BY Taken DEF TypeOK, BrokerSendFails, Event
<1>2. PICK e \in PacketEvent : /\ e = BrokerRecv(c, [type |-> "DISCONNECT"])
                               /\ e.client = c /\ e.src = "broker" /\ e.pkt.type = "DISCONNECT"
  <2>1. PICK p : p = [type |-> "DISCONNECT"]
    OBVIOUS
  <2>2. p \in BrokerPacket /\ p.type = "DISCONNECT"
    BY <2>1, MadePackets
  <2> QED
    BY <2>1, <2>2, MadeEvents
<1>3. /\ sent = None /\ sent' = sent /\ brokerQ # <<>> /\ brokerQ' = Tail(brokerQ)
      /\ net[c].peer = "gone" /\ net' = [net EXCEPT ![c] = NoLink]
      /\ packetQ' = Posted(packetQ, <<e>>)
      /\ clientQ' = clientQ /\ cl' = cl /\ dev' = dev /\ upd' = upd
  BY <1>1, <1>2 DEF BrokerSendFails
<1>4. packetQ \in Seq(PacketEvent) /\ net \in [Clients -> Link]
  BY DEF TypeOK
<1>5. Eff(d)' = Eff(d)
  BY <1>3 DEF Eff
<1>6. \A T : e \notin T => Keeps(packetQ, packetQ', T)
  BY <1>3, <1>4, PostedOne
<1>7. CASE d # c
  <2>1. net'[d] = net[d] /\ Calm(d)
    BY <1>3, <1>4, <1>7
  <2>2. e \notin Due(d)
    BY <1>2, <1>7 DEF Due, Asked, Drop
  <2>3. Saves(clientQ, clientQ', Event(SnPacket), c)
    BY <1>3 DEF Saves
  <2> QED
    BY <1>3, <1>5, <1>6, <1>7, <2>1, <2>2, <2>3, OthersKept
<1>8. CASE d = c
  <2>1. Calm(c) /\ net'[c] = NoLink
    BY <1>3, <1>4
  <2>2. Ended(c)
    BY <1>3, <2>1 DEF Calm, EndsFit
  <2>3. e \notin Asked(c)
    BY <1>2 DEF Asked
  <2>4. Keeps(brokerQ, brokerQ', DueB(c))
    BY <1>3, Taken DEF TypeOK
  <2>5. Keeps(net[c].down, net'[c].down, Replied)
    BY <2>1 DEF NoLink, Keeps, Elems, Lone, Behind
  <2>6. Undisturbed(c)
    BY <1>3, <1>5, <1>6, <1>8, <2>2, <2>3, <2>4, <2>5, KeepsSelf DEF Undisturbed
  <2> QED
    BY <1>8, <2>1, <2>6, UndisturbedCalm
<1> QED
  BY <1>7, <1>8

(* BrokerRecvTask posts a packet of the broker.                            *)
LEMMA BrokerRecvPacketCalm ==
    ASSUME TypeOK, TypeOK', NEW c \in Clients, BrokerRecvPacket(c),
           \A d \in Clients : Calm(d), NEW d \in Clients
    PROVE  Calm(d)'
<1>1. /\ net \in [Clients -> Link] /\ net[c] \in Link /\ net[c].down \in Seq(BrokerPacket)
      /\ packetQ \in Seq(PacketEvent)
  BY DEF TypeOK, Link
<1>2. net[c].down # <<>>
  BY DEF BrokerRecvPacket
<1>3. PICK p \in BrokerPacket : p = Head(net[c].down)
  BY <1>1, <1>2, Taken
<1>4. PICK e \in PacketEvent : /\ e = BrokerRecv(c, p) /\ e.client = c /\ e.src = "broker"
                               /\ e.pkt = p
  BY MadeEvents
<1>5. /\ packetQ' = Posted(packetQ, <<e>>) /\ net' = [net EXCEPT ![c].down = Tail(@)]
      /\ sent' = sent /\ brokerQ' = brokerQ /\ clientQ' = clientQ
      /\ cl' = cl /\ dev' = dev /\ upd' = upd
  BY <1>3, <1>4 DEF BrokerRecvPacket
<1>6. /\ net'[c].down = Tail(net[c].down) /\ net'[c].sock = net[c].sock
      /\ net'[c].peer = net[c].peer
      /\ \A x \in Clients : x # c => net'[x] = net[x]
  BY <1>1, <1>5 DEF Link
<1>7. /\ Elems(net[c].down) = Elems(net'[c].down) \cup {p}
      /\ \A T : Keeps(net[c].down, net'[c].down, T)
      /\ \A E : Lone(net[c].down, E) /\ p \in E => \A x \in Elems(net'[c].down) : x \notin E
  BY <1>1, <1>2, <1>3, <1>6, Taken
<1>8. /\ \A x \in Elems(packetQ') : x \in Elems(packetQ) \cup {e}
      /\ \A T : e \notin T => Keeps(packetQ, packetQ', T)
  BY <1>1, <1>5, PostedOne
<1>9. Eff(d)' = Eff(d) /\ Calm(d) /\ Calm(c)
  BY <1>5 DEF Eff
<1>10. p \in Replied => p.type \in {"CONNACK", "PINGRESP"} /\ SentIn(dev[c].st, p.type)
  <2>1. p \in Replied => SentIn(dev[c].st, p.type)
    BY <1>7, <1>9 DEF Calm, RequestFits
  <2>2. p.type \in {"CONNACK", "PINGRESP", "PUBLISH", "DISCONNECT"}
    BY DEF BrokerPacket
  <2> QED
    BY <2>1, <2>2 DEF SentIn, Replied
<1>11. CASE d # c
  <2>1. e \notin Due(d)
    BY <1>4, <1>11 DEF Due, Asked, Drop
  <2>2. /\ Saves(clientQ, clientQ', Event(SnPacket), c)
        /\ Saves(brokerQ, brokerQ', Event(GwPacket), c)
    BY <1>5 DEF Saves
  <2> QED
    BY <1>5, <1>6, <1>8, <1>9, <1>11, <2>1, <2>2, OthersKept
<1>12. CASE d = c /\ p \notin Replied
  <2>1. e \notin Due(c)
    BY <1>4, <1>12 DEF Due, Asked, Drop, Replied
  <2>2. Undisturbed(c)
    BY <1>5, <1>6, <1>7, <1>8, <1>9, <1>12, <2>1, KeepsSelf DEF Undisturbed, Leaving
  <2> QED
    BY <1>9, <1>12, <2>2, UndisturbedCalm
<1>13. CASE d = c /\ p \in Replied
  <2>1. e \in Asked(c)
    BY <1>4, <1>10, <1>13 DEF Asked
  <2>2. InD(c)
    BY <1>7, <1>13 DEF InD
  <2>3. ~InP(c) /\ ~InB(c) /\ ~InA(c) /\ ~cl[c].holdPing
    BY <1>9, <2>2 DEF Calm, OneRequest
  <2>4. ~InD(c)'
    BY <1>7, <1>9, <1>13 DEF Calm, OneRequest, InD
  <2>5. AskedIn(dev[c].st, e.pkt)
    BY <1>4, <1>10, <1>13 DEF AskedIn, SentIn
  <2>6. ~InA(c)' /\ (Accepted(c)' <=> Accepted(c)) /\ ~Accepted(c)
    BY <1>5, <2>3 DEF InA, Accepted
  <2>7. StatusFits(c)'
    <3>1. dev[c].st \in {"connecting", "pinging", "awake"}
      BY <1>10, <1>13 DEF SentIn
    <3>2. dev[c].st = "connecting" => Eff(c) \in Low
      BY <1>9, <2>2, <2>6 DEF Calm, StatusFits, Low
    <3>3. dev[c].st \in {"pinging", "awake"} => StatusFits(c)'
      BY <1>5, <1>9, <1>13, <2>3, <2>6 DEF Calm, StatusFits
    <3>4. dev[c].st = "connecting" => StatusFits(c)'
      BY <1>5, <1>9, <1>13, <2>6, <3>2 DEF StatusFits, Low
    <3> QED
      BY <3>1, <3>3, <3>4
  <2>8. Settled(c) => Settled(c)'
    BY <1>5, <1>9, <1>13, <2>6 DEF Settled
  <2>9. Ended(c) => Ended(c)'
    <3>1. e \in Accept(c) => p \in AcceptD
      BY <1>4 DEF Accept, AcceptD
    <3> QED
      BY <1>7, <1>8, <2>8, <3>1 DEF Ended
  <2>10. (Leaving(c)' => Leaving(c)) /\ (Leaving(c) => Ended(c)')
    BY <1>5, <1>9, <2>9 DEF Leaving, Calm, EndsFit
  <2> QED
    BY <1>5, <1>6, <1>9, <1>13, <2>1, <2>3, <2>4, <2>5, <2>7, <2>8, <2>9, <2>10, Posts
<1> QED
  BY <1>11, <1>12, <1>13

(* BrokerRecvTask notices that the broker has closed the connection.       *)
LEMMA BrokerRecvClosedCalm ==
    ASSUME TypeOK, TypeOK', NEW c \in Clients, BrokerRecvClosed(c), NEW d \in Clients, Calm(d)
    PROVE  Calm(d)'
<1>1. /\ net[c].peer = "gone" /\ net' = [net EXCEPT ![c] = NoLink]
      /\ cl' = [cl EXCEPT ![c] = Disconnected(@)]
      /\ dev' = dev /\ upd' = upd /\ sent' = sent
      /\ packetQ' = packetQ /\ brokerQ' = brokerQ /\ clientQ' = clientQ
  BY DEF BrokerRecvClosed
<1>2. cl \in [Clients -> Client] /\ net \in [Clients -> Link] /\ cl[d] \in Client
  BY DEF TypeOK
<1>3. CASE d # c
  <2>1. cl'[d] = cl[d] /\ net'[d] = net[d]
    BY <1>1, <1>2, <1>3
  <2>2. Eff(d)' = Eff(d)
    BY <1>1, <2>1 DEF Eff
  <2> QED
    BY <1>1, <2>1, <2>2, StatusCalm
<1>4. CASE d = c
  <2>1. cl'[d] = Disconnected(cl[d]) /\ net'[d] = NoLink
    BY <1>1, <1>2, <1>4
  <2>2. cl'[d].status = "Disconnected" /\ cl'[d].holdPing = cl[d].holdPing
    BY <1>2, <2>1 DEF Client, Disconnected
  <2>3. Eff(d)' = "Disconnected"
    BY <1>1, <2>2, EffSet
  <2>4. Ended(d) /\ Settled(d)
    BY <1>1, <1>4 DEF Calm, EndsFit, Ended
  <2> QED
    BY <1>1, <2>1, <2>2, <2>3, <2>4, StatusCalm
<1> QED
  BY <1>3, <1>4

(* The broker publishes.                                                   *)
LEMMA BrokerPublishCalm ==
    ASSUME TypeOK, TypeOK', NEW c \in Clients, NEW m \in Pubs, BrokerPublish(c, m),
           NEW d \in Clients, Calm(d)
    PROVE  Calm(d)'
<1>1. PICK p \in BrokerPacket : p = [type |-> "PUBLISH", pub |-> m] /\ p.type = "PUBLISH"
  BY MadePackets
<1>2. /\ net' = [net EXCEPT ![c].down = Append(@, p)]
      /\ cl' = cl /\ dev' = dev /\ upd' = upd /\ sent' = sent
      /\ packetQ' = packetQ /\ brokerQ' = brokerQ /\ clientQ' = clientQ
  BY <1>1 DEF BrokerPublish
<1>3. net \in [Clients -> Link] /\ net[d] \in Link /\ net[d].down \in Seq(BrokerPacket)
  BY DEF TypeOK, Link
<1>4. net'[d].down \in {net[d].down, Append(net[d].down, p)}
      /\ net'[d].sock = net[d].sock /\ net'[d].peer = net[d].peer
  BY <1>2, <1>3 DEF Link
<1>5. p \notin Replied
  BY <1>1 DEF Replied
<1>6. Keeps(net[d].down, net'[d].down, Replied)
  <2>1. Keeps(net[d].down, Append(net[d].down, p), Replied)
    BY <1>3, <1>5, Appended
  <2> QED
    BY <1>4, <2>1, KeepsSelf
<1>7. Eff(d)' = Eff(d)
  BY <1>2 DEF Eff
<1>8. Undisturbed(d)
  BY <1>2, <1>4, <1>6, <1>7, KeepsSelf DEF Undisturbed, Leaving
<1> QED
  BY <1>8, UndisturbedCalm

-----------------------------------------------------------------------------
(* ClientSendTask and the devices                                          *)

(* What the device makes of an answer.                                     *)
LEMMA ReceivedSt ==
    ASSUME NEW r \in Device, NEW p \in SnPacket
    PROVE  /\ p.type \in {"PUBLISH", "REGISTER"} => Received(r, p).st = r.st
           /\ r.st = "connecting" /\ p.type = "CONNACK"
                => Received(r, p).st = IF p.accepted THEN "active" ELSE "off"
           /\ r.st = "connecting" /\ p.type \in {"WILLTOPICREQ", "WILLMSGREQ"}
                => Received(r, p).st \in {"connecting", "topicReq", "msgReq"}
           /\ p.type = "DISCONNECT"
                => Received(r, p).st = IF r.st = "sleepReq" THEN "asleep" ELSE "off"
           /\ r.st = "awake" /\ p.type = "PINGRESP" => Received(r, p).st = "asleep"
           /\ r.st = "pinging" /\ p.type = "PINGRESP" => Received(r, p).st = "active"
<1>1. \A s : [r EXCEPT !.st = s].st = s
  BY DEF Device
<1>2. /\ \A x, y : [r EXCEPT !.told = x, !.regs = y].st = r.st
      /\ \A x : [r EXCEPT !.got = x].st = r.st
  BY DEF Device
<1>3. p.type = "REGISTER" => Received(r, p).st = r.st
  BY <1>2 DEF Received
<1>4. p.type = "PUBLISH" => Received(r, p).st = r.st
  BY <1>2 DEF Received
<1> QED
  BY <1>1, <1>3, <1>4 DEF Received

(* A device takes the answer it waits for.                                 *)
LEMMA AnswerTaken ==
    ASSUME TypeOK, TypeOK', NEW c \in Clients, Calm(c), clientQ # <<>>,
           Head(clientQ) \in Answer(c), clientQ' = Tail(clientQ),
           dev'[c].st = Received(dev[c], Head(clientQ).pkt).st,
           cl' = cl, upd' = upd, sent' = sent, net' = net, packetQ' = packetQ, brokerQ' = brokerQ
    PROVE  Calm(c)'
<1>1. PICK e \in Answer(c) : e = Head(clientQ)
  OBVIOUS
<1>2. /\ Elems(clientQ) = Elems(clientQ') \cup {e}
      /\ \A E : Lone(clientQ, E) /\ e \in E => \A x \in Elems(clientQ') : x \notin E
      /\ \A E, F : Covered(clientQ, E, F) => Covered(clientQ', E, F)
  BY <1>1, Taken DEF TypeOK
<1>3. PICK p \in SnPacket : p = e.pkt
  BY DEF Answer, Event
<1>4. \A x \in Elems(clientQ') : x \notin Answer(c)
  BY <1>2 DEF Calm, OneRequest
<1>5. InA(c) /\ ~InA(c)' /\ ~Accepted(c)'
  BY <1>2, <1>4 DEF InA, Accepted
<1>6. Accepted(c) <=> p.type = "CONNACK" /\ p.accepted
  BY <1>2, <1>3, <1>4 DEF Accepted
<1>7. ~InP(c) /\ ~InB(c) /\ ~InD(c) /\ ~cl[c].holdPing
  BY <1>5 DEF Calm, OneRequest
<1>8. AnswerIn(dev[c].st, p.type)
  BY <1>2, <1>3 DEF Calm, RequestFits
<1>9. dev[c] \in Device /\ dev'[c].st = Received(dev[c], p).st
  BY <1>1, <1>3 DEF TypeOK
<1>10. Eff(c)' = Eff(c)
  BY DEF Eff
<1>11. p.type \in {"CONNACK", "WILLTOPICREQ", "WILLMSGREQ", "DISCONNECT", "PINGRESP"}
  BY <1>3 DEF Answer, SnPacket
<1>12. /\ StatusFits(c)'
       /\ Settled(c) => Settled(c)'
       /\ dev'[c].st = "asleep" => Quiet(c)
  <2>1. CASE dev[c].st = "connecting" /\ Accepted(c)
    <3>1. dev'[c].st = "active"
      BY <1>6, <1>9, <2>1, ReceivedSt
    <3>2. Eff(c)' \in {"Active", "Connecting"}
      BY <1>5, <1>10, <2>1 DEF Calm, StatusFits
    <3> QED
      BY <2>1, <3>1, <3>2 DEF StatusFits, Settled
  <2>2. CASE dev[c].st = "connecting" /\ ~Accepted(c)
    <3>1. dev'[c].st \in {"off", "connecting", "topicReq", "msgReq"}
      BY <1>6, <1>8, <1>9, <1>11, <2>2, ReceivedSt DEF AnswerIn
    <3>2. Eff(c)' \in Low
      BY <1>5, <1>10, <2>2 DEF Calm, StatusFits, Low
    <3> QED
      BY <1>5, <3>1, <3>2 DEF StatusFits, Settled, Low
  <2>3. CASE dev[c].st = "pinging"
    <3>1. dev'[c].st = "active"
      BY <1>8, <1>9, <2>3, ReceivedSt DEF AnswerIn
    <3>2. Eff(c)' \in {"Active", "Connecting"}
      BY <1>10, <2>3 DEF Calm, StatusFits
    <3> QED
      BY <2>3, <3>1, <3>2 DEF StatusFits, Settled
  <2>4. CASE dev[c].st \in {"awake", "sleepReq"}
    <3>1. dev'[c].st = "asleep"
      BY <1>8, <1>9, <2>4, ReceivedSt DEF AnswerIn
    <3>2. Eff(c)' \in {"Asleep", "Connecting"}
      BY <1>5, <1>10, <2>4 DEF Calm, StatusFits
    <3> QED
      BY <1>5, <2>4, <3>1, <3>2 DEF StatusFits, Settled, Quiet
  <2>5. CASE dev[c].st = "discReq"
    <3>1. dev'[c].st = "off"
      BY <1>8, <1>9, <2>5, ReceivedSt DEF AnswerIn
    <3>2. Eff(c)' \in Low
      BY <1>5, <1>10, <2>5 DEF Calm, StatusFits
    <3> QED
      BY <1>5, <3>1, <3>2 DEF StatusFits, Settled
  <2> QED
    BY <1>8, <2>1, <2>2, <2>3, <2>4, <2>5 DEF AnswerIn
<1>13. dev'[c].st = "asleep" => \A x \in Elems(clientQ') : x \notin Delivery(c)
  <2> SUFFICES ASSUME dev'[c].st = "asleep"
               PROVE  \A x \in Elems(clientQ') : x \notin Delivery(c)
    OBVIOUS
  <2>1. Covered(clientQ', Delivery(c), Answer(c))
    BY <1>2, <1>12 DEF Calm, Hushed
  <2> QED
    BY <1>4, <2>1 DEF Covered, Elems
<1>14. EndsKept(c)
  <2>1. Leaving(c)' => Leaving(c)
    BY DEF Leaving
  <2> QED
    BY <1>12, <2>1, KeepsSelf, EndsKeep
<1>15. ~InP(c)' /\ ~cl'[c].holdPing
  BY <1>7 DEF InP
<1> QED
  BY <1>5, <1>7, <1>12, <1>13, <1>14, <1>15, Vanishes

(* ClientSendTask sends, the device receives.                              *)
LEMMA ClientSendCalm ==
    ASSUME TypeOK, TypeOK', ClientSend, NEW d \in Clients, Calm(d)
    PROVE  Calm(d)'
<1>1. PICK e \in Event(SnPacket) : e = Head(clientQ)
  BY Taken DEF TypeOK, ClientSend
<1>2. PICK c \in Clients : c = e.client
  BY DEF Event
<1>3. /\ clientQ # <<>> /\ clientQ' = Tail(clientQ)
      /\ dev' = [dev EXCEPT ![c] = Received(@, e.pkt)]
      /\ cl' = cl /\ upd' = upd /\ sent' = sent /\ net' = net /\ packetQ' = packetQ
      /\ brokerQ' = brokerQ
  BY <1>1, <1>2 DEF ClientSend
<1>4. dev \in [Clients -> Device] /\ dev[d] \in Device /\ e.pkt \in SnPacket
  BY DEF TypeOK, Event
<1>5. CASE e \in Answer(d)
  <2>1. d = c
    BY <1>2, <1>5 DEF Answer
  <2>2. dev'[d].st = Received(dev[d], Head(clientQ).pkt).st
    BY <1>1, <1>3, <1>4, <2>1
  <2> QED
    BY <1>1, <1>3, <1>5, <2>2, AnswerTaken
<1>6. CASE e \notin Answer(d)
  <2>1. dev'[d].st = dev[d].st
    <3>1. CASE d # c
      BY <1>3, <1>4, <3>1
    <3>2. CASE d = c
      <4>1. e.pkt.type \in {"PUBLISH", "REGISTER"}
        BY <1>2, <1>6, <3>2 DEF Answer
      <4>2. dev'[d] = Received(dev[d], e.pkt)
        BY <1>3, <1>4, <3>2
      <4> QED
        BY <1>4, <4>1, <4>2, ReceivedSt
    <3> QED
      BY <3>1, <3>2
  <2>2. /\ Elems(clientQ) = Elems(clientQ') \cup {e}
        /\ \A T : Keeps(clientQ, clientQ', T)
        /\ \A E, F : Covered(clientQ, E, F) => Covered(clientQ', E, F)
    BY <1>1, <1>3, Taken DEF TypeOK
  <2>3. Eff(d)' = Eff(d)
    BY <1>3 DEF Eff
  <2>4. \A x \in Answer(d) : x \in Elems(clientQ) => x \in Elems(clientQ')
    BY <1>6, <2>2
  <2>5. sent' # None /\ sent'.client = d /\ sent'.pkt.type # "CONNECT" => Leaving(d)
    BY <1>3 DEF Leaving
  <2>6. Undisturbed(d)
    BY <1>3, <2>1, <2>2, <2>3, <2>4, <2>5, KeepsSelf DEF Undisturbed
  <2> QED
    BY <2>6, UndisturbedCalm
<1> QED
  BY <1>5, <1>6

(* The requests that are in turn, and the state each leads to.             *)
Turn(from, to, p) ==
    \/ from \in {"off", "asleep"} /\ to = "connecting" /\ p.type = "CONNECT"
    \/ from = "topicReq" /\ to = "connecting" /\ p.type = "WILLTOPIC"
    \/ from = "msgReq" /\ to = "connecting" /\ p.type = "WILLMSG"
    \/ from = "active" /\ to = "sleepReq" /\ p.type = "DISCONNECT" /\ p.sleep
    \/ from \in {"active", "asleep"} /\ to = "discReq" /\ p.type = "DISCONNECT" /\ ~p.sleep
    \/ from = "active" /\ to = "pinging" /\ p.type = "PINGREQ"
    \/ from = "asleep" /\ to = "awake" /\ p.type = "PINGREQ"

(* A device in turn has no request under way.                              *)
LEMMA NothingUnderWay ==
    ASSUME NEW c \in Clients, TypeOK, Calm(c),
           dev[c].st \in {"off", "topicReq", "msgReq", "active", "asleep"}
    PROVE  ~InP(c) /\ ~InB(c) /\ ~InD(c) /\ ~InA(c) /\ ~cl[c].holdPing /\ ~Accepted(c)
<1>1. /\ \A p : ~AskedIn(dev[c].st, p)
      /\ \A t : ~SentIn(dev[c].st, t) /\ ~AnswerIn(dev[c].st, t)
  BY DEF AskedIn, SentIn, AnswerIn
<1>2. ~InP(c) /\ ~InB(c) /\ ~InD(c) /\ ~InA(c) /\ ~cl[c].holdPing
  BY <1>1 DEF Calm, RequestFits, InP, InB, InD, InA, TypeOK, Client
<1> QED
  BY <1>2 DEF InA, Accepted

(* A Disconnected client stays so.                                         *)
LEMMA EffDisconnected ==
    ASSUME TypeOK, NEW c \in Clients, cl[c].status = "Disconnected"
    PROVE  Eff(c) = "Disconnected"
<1>1. cl[c] \in Client
  BY DEF TypeOK
<1>2. \A p : UpdatedStatus(cl[c], p).status = cl[c].status
  BY <1>1, UpdatedIs DEF After
<1> QED
  BY <1>2 DEF Eff

(* The request of a device gets into the packet queue, or ClientRecvTask   *)
(* answers it.                                                             *)
LEMMA RequestCalm ==
    ASSUME TypeOK, TypeOK', NEW c \in Clients, Calm(c), NEW r, NEW p \in DevicePacket,
           DeviceSends(c, r, p), Turn(dev[c].st, r.st, p)
    PROVE  Calm(c)'
<1>1. PICK e \in PacketEvent : /\ e = ClientRecv(c, p) /\ e.client = c /\ e.src = "client"
                               /\ e.pkt = p
  BY MadeEvents
<1>2. /\ cl' = cl /\ brokerQ' = brokerQ /\ upd' = upd /\ sent' = sent /\ net' = net
      /\ \/ /\ cl[c].status = "Disconnected" /\ p.type # "CONNECT"
            /\ clientQ' = Append(clientQ, To(c, [type |-> "DISCONNECT"])) /\ packetQ' = packetQ
         \/ /\ ~(cl[c].status = "Disconnected" /\ p.type # "CONNECT")
            /\ packetQ' = Posted(packetQ, <<e>>) /\ clientQ' = clientQ
  BY <1>1 DEF DeviceSends, RecvFromDevice
<1>3. dev'[c].st = r.st
  BY DEF DeviceSends, TypeOK
<1>4. dev[c].st \in {"off", "topicReq", "msgReq", "active", "asleep"}
  BY DEF Turn
<1>5. ~InP(c) /\ ~InB(c) /\ ~InD(c) /\ ~InA(c) /\ ~cl[c].holdPing /\ ~Accepted(c)
  BY <1>4, NothingUnderWay
<1>6. Eff(c)' = Eff(c)
  BY <1>2 DEF Eff
<1>7. ~InB(c)' /\ ~InD(c)' /\ ~cl'[c].holdPing /\ (Leaving(c)' => Leaving(c))
  BY <1>2, <1>5 DEF InB, InD, Leaving
<1>8. p.type \in {"CONNECT", "WILLTOPIC", "WILLMSG", "DISCONNECT", "PINGREQ"}
  BY DEF Turn
<1>9. CASE /\ cl[c].status = "Disconnected" /\ p.type # "CONNECT"
           /\ clientQ' = Append(clientQ, To(c, [type |-> "DISCONNECT"])) /\ packetQ' = packetQ
  <2>1. PICK a \in Answer(c) : a = To(c, [type |-> "DISCONNECT"]) /\ a.pkt.type = "DISCONNECT"
    BY MadeAnswers DEF To
  <2>2. Eff(c) = "Disconnected"
    BY <1>9, EffDisconnected
  <2>3. dev[c].st \in {"topicReq", "msgReq"} /\ r.st = "connecting"
    BY <1>9, <2>2 DEF Turn, Calm, StatusFits
  <2>4. ~Accepted(c)'
    BY <1>5, <1>9, <2>1, AcceptsNot
  <2>5. StatusFits(c)' /\ Settled(c)'
    BY <1>3, <1>6, <2>2, <2>3, <2>4 DEF StatusFits, Settled, Low
  <2>6. EndsKept(c)
    BY <1>2, <1>7, <1>9, <2>5, KeepsSelf, EndsKeep
  <2>7. ~InP(c)'
    BY <1>5, <1>9 DEF InP
  <2>8. AnswerIn(dev'[c].st, a.pkt.type)
    BY <1>3, <2>1, <2>3 DEF AnswerIn
  <2> QED
    BY <1>2, <1>5, <1>7, <1>9, <2>1, <2>5, <2>6, <2>7, <2>8, Answered
<1>10. CASE /\ ~(cl[c].status = "Disconnected" /\ p.type # "CONNECT")
            /\ packetQ' = Posted(packetQ, <<e>>) /\ clientQ' = clientQ
  <2>1. e \in Asked(c) /\ e \notin Accept(c)
    BY <1>1, <1>8 DEF Asked, Accept
  <2>2. \A x \in Elems(packetQ') : x \in Elems(packetQ) \cup {e}
    BY <1>10, PostedOne DEF TypeOK
  <2>3. ~InA(c)' /\ ~Accepted(c)'
    BY <1>5, <1>10 DEF InA, Accepted
  <2>4. p.type = "CONNECT" => ~Past(c)'
    BY <1>1, <1>5, <2>2 DEF Past, InP
  <2>5. AskedIn(dev'[c].st, e.pkt)
    BY <1>1, <1>3 DEF Turn, AskedIn
  <2>6. StatusFits(c)' /\ (Settled(c) => Settled(c)')
    <3>1. CASE dev[c].st = "off" \/ dev[c].st \in {"topicReq", "msgReq"}
      <4>1. Eff(c) \in Low
        BY <3>1 DEF Calm, StatusFits
      <4>2. dev'[c].st = "connecting"
        BY <1>3, <3>1 DEF Turn
      <4> QED
        BY <1>6, <2>3, <4>1, <4>2 DEF StatusFits, Settled, Low
    <3>2. CASE dev[c].st = "asleep"
      <4>1. Eff(c) \in {"Asleep", "Connecting"}
        BY <3>2 DEF Calm, StatusFits
      <4>2. \/ dev'[c].st = "connecting" /\ p.type = "CONNECT"
            \/ dev'[c].st \in {"discReq", "awake"}
        BY <1>3, <3>2 DEF Turn
      <4> QED
        BY <1>6, <1>7, <2>3, <2>4, <3>2, <4>1, <4>2 DEF StatusFits, Settled
    <3>3. CASE dev[c].st = "active"
      <4>1. Eff(c) \in {"Active", "Connecting"}
        BY <3>3 DEF Calm, StatusFits
      <4>2. dev'[c].st \in {"sleepReq", "discReq", "pinging"}
        BY <1>3, <3>3 DEF Turn
      <4> QED
        BY <1>6, <2>3, <3>3, <4>1, <4>2 DEF StatusFits, Settled
    <3> QED
      BY <1>4, <3>1, <3>2, <3>3
  <2>7. Ended(c) => Ended(c)'
    BY <1>2, <2>1, <2>2, <2>6 DEF Ended
  <2>8. Leaving(c) => Ended(c)'
    BY <2>7 DEF Calm, EndsFit
  <2> QED
    BY <1>2, <1>5, <1>7, <1>10, <2>1, <2>5, <2>6, <2>7, <2>8, Posts
<1> QED
  BY <1>2, <1>9, <1>10

(* The packets of the devices.                                             *)
LEMMA MadeRequests ==
    /\ \A clean, will \in BOOLEAN, n \in Nat :
          [type |-> "CONNECT", clean |-> clean, will |-> will, try |-> n] \in DevicePacket
    /\ \A t \in {"WILLTOPIC", "WILLMSG"}, n \in Nat : [type |-> t, try |-> n] \in DevicePacket
    /\ \A b \in BOOLEAN : [type |-> "DISCONNECT", sleep |-> b] \in DevicePacket
    /\ [type |-> "PINGREQ"] \in DevicePacket
    /\ \A id \in Nat : [type |-> "REGACK", msgId |-> id] \in DevicePacket
  BY DEF DevicePacket

(* REGACK is no request.                                                   *)
LEMMA RegAckSentCalm ==
    ASSUME TypeOK, TypeOK', NEW c \in Clients, Calm(c), DeviceRegAck(c)
    PROVE  Calm(c)'
<1>1. PICK id \in dev[c].regs :
          DeviceSends(c, [dev[c] EXCEPT !.regs = @ \ {id}], [type |-> "REGACK", msgId |-> id])
  BY DEF DeviceRegAck
<1>2. dev[c] \in Device /\ id \in Nat
  BY DEF TypeOK, Device
<1>3. PICK p \in DevicePacket : p = [type |-> "REGACK", msgId |-> id] /\ p.type = "REGACK"
  BY <1>2, MadeRequests
<1>4. PICK e \in PacketEvent : /\ e = ClientRecv(c, p) /\ e.client = c /\ e.src = "client"
                               /\ e.pkt = p
  BY MadeEvents
<1>5. cl[c].status # "Disconnected"
  <2>1. Eff(c) # "Disconnected"
    BY DEF DeviceRegAck, Calm, StatusFits
  <2> QED
    BY <2>1, EffDisconnected
<1>6. /\ cl' = cl /\ brokerQ' = brokerQ /\ upd' = upd /\ sent' = sent /\ net' = net
      /\ packetQ' = Posted(packetQ, <<e>>) /\ clientQ' = clientQ
      /\ dev' = [dev EXCEPT ![c] = [dev[c] EXCEPT !.regs = @ \ {id}]]
  BY <1>1, <1>3, <1>4, <1>5 DEF DeviceSends, RecvFromDevice
<1>7. dev'[c].st = dev[c].st
  <2>1. dev'[c] = [dev[c] EXCEPT !.regs = @ \ {id}]
    BY <1>6 DEF TypeOK
  <2> QED
    BY <1>2, <2>1 DEF Device
<1>8. Keeps(packetQ, packetQ', Due(c))
  <2>1. e \notin Due(c)
    BY <1>3, <1>4 DEF Due, Asked, Drop
  <2> QED
    BY <1>6, <2>1, PostedOne DEF TypeOK
<1>9. Eff(c)' = Eff(c)
  BY <1>6 DEF Eff
<1>10. Undisturbed(c)
  BY <1>6, <1>7, <1>8, <1>9, KeepsSelf DEF Undisturbed, Leaving
<1> QED
  BY <1>10, UndisturbedCalm

(* What a device sends does not concern the others.                        *)
LEMMA DeviceOthers ==
    ASSUME TypeOK, TypeOK', NEW c \in Clients, NEW d \in Clients, d # c, Calm(d), NEW r,
           NEW p \in DevicePacket, DeviceSends(c, r, p)
    PROVE  Calm(d)'
<1>1. PICK e \in PacketEvent : e = ClientRecv(c, p) /\ e.client = c
  BY MadeEvents
<1>2. /\ cl' = cl /\ brokerQ' = brokerQ /\ upd' = upd /\ sent' = sent /\ net' = net
      /\ dev' = [dev EXCEPT ![c] = r]
      /\ \/ clientQ' = Append(clientQ, To(c, [type |-> "DISCONNECT"])) /\ packetQ' = packetQ
         \/ packetQ' = Posted(packetQ, <<e>>) /\ clientQ' = clientQ
  BY <1>1 DEF DeviceSends, RecvFromDevice
<1>3. dev'[d] = dev[d]
  BY <1>2 DEF TypeOK
<1>4. Eff(d)' = Eff(d)
  BY <1>2 DEF Eff
<1>5. Keeps(packetQ, packetQ', Due(d))
  <2>1. e \notin Due(d)
    BY <1>1 DEF Due, Asked, Drop
  <2> QED
    BY <1>2, <2>1, PostedOne, KeepsSelf DEF TypeOK
<1>6. Saves(clientQ, clientQ', Event(SnPacket), c) /\ Saves(brokerQ, brokerQ', Event(GwPacket), c)
  <2>1. Saves(brokerQ, brokerQ', Event(GwPacket), c)
    BY <1>2 DEF Saves
  <2>2. CASE clientQ' = clientQ
    BY <2>1, <2>2 DEF Saves
  <2>3. CASE clientQ' = Append(clientQ, To(c, [type |-> "DISCONNECT"]))
    <3>1. clientQ \in Seq(Event(SnPacket)) /\ clientQ' \in Seq(Event(SnPacket))
      BY DEF TypeOK
    <3> QED
      BY <2>1, <2>3, <3>1, SavesLast
  <2> QED
    BY <1>2, <2>1, <2>2, <2>3
<1> QED
  BY <1>2, <1>3, <1>4, <1>5, <1>6, OthersKept

(* A request in turn leaves all the devices as they are.                   *)
LEMMA RequestAllCalm ==
    ASSUME TypeOK, TypeOK', NEW c \in Clients, \A d \in Clients : Calm(d), NEW r,
           NEW p \in DevicePacket, DeviceSends(c, r, p), Turn(dev[c].st, r.st, p),
           NEW d \in Clients
    PROVE  Calm(d)'
<1>1. CASE d = c
  BY <1>1, RequestCalm
<1>2. CASE d # c
  BY <1>2, DeviceOthers
<1> QED
  BY <1>1, <1>2

(* Every step of a device that costs no fault.                             *)
LEMMA DeviceStepCalm ==
    ASSUME TypeOK, TypeOK', NEW c \in Clients, DeviceStep(c), faults' = 0,
           \A d \in Clients : Calm(d), NEW d \in Clients
    PROVE  Calm(d)'
<1>1. dev[c] \in Device /\ faults \in Nat
  BY DEF TypeOK
<1>2. /\ \A s : [dev[c] EXCEPT !.st = s].st = s
      /\ \A s, n : [dev[c] EXCEPT !.st = s, !.requests = n].st = s
      /\ \A s, t, w : [dev[c] EXCEPT !.st = s, !.try = t, !.will = w, !.regs = {}].st = s
  BY <1>1 DEF Device
<1>3. CASE DeviceConnect(c)
  <2>1. PICK clean \in CleanFlags, will \in WillFlags :
            DeviceSends(c, [dev[c] EXCEPT !.st = "connecting", !.try = @ + 1, !.will = will,
                                          !.regs = {}],
                        [type |-> "CONNECT", clean |-> clean, will |-> will,
                         try |-> dev[c].try + 1])
    BY <1>3 DEF DeviceConnect
  <2>2. clean \in BOOLEAN /\ will \in BOOLEAN /\ dev[c].try + 1 \in Nat
    BY <1>1, SessionAssumption DEF Device
  <2>3. PICK r : r = [dev[c] EXCEPT !.st = "connecting", !.try = @ + 1, !.will = will, !.regs = {}]
    OBVIOUS
  <2>4. PICK p \in DevicePacket : /\ p = [type |-> "CONNECT", clean |-> clean, will |-> will,
                                          try |-> dev[c].try + 1]
                                  /\ p.type = "CONNECT"
    BY <2>2, MadeRequests
  <2>5. dev[c].st \in {"off", "asleep"}
    BY <1>1, <1>3 DEF DeviceConnect, Asks
  <2>6. r.st = "connecting"
    BY <1>2, <2>3
  <2>7. Turn(dev[c].st, r.st, p)
    BY <2>4, <2>5, <2>6 DEF Turn
  <2> QED
    BY <2>1, <2>3, <2>4, <2>7, RequestAllCalm
<1>4. ASSUME NEW t \in {"WILLTOPIC", "WILLMSG"},
             dev[c].st = IF t = "WILLTOPIC" THEN "topicReq" ELSE "msgReq",
             DeviceSends(c, [dev[c] EXCEPT !.st = "connecting"], [type |-> t, try |-> dev[c].try])
      PROVE  Calm(d)'
  <2>1. PICK r : r = [dev[c] EXCEPT !.st = "connecting"]
    OBVIOUS
  <2>2. PICK p \in DevicePacket : p = [type |-> t, try |-> dev[c].try] /\ p.type = t
    BY <1>1, MadeRequests DEF Device
  <2>3. r.st = "connecting"
    BY <1>2, <2>1
  <2>4. Turn(dev[c].st, r.st, p)
    BY <1>4, <2>2, <2>3 DEF Turn
  <2> QED
    BY <1>4, <2>1, <2>2, <2>4, RequestAllCalm
<1>5. CASE DeviceWilltopic(c)
  BY <1>4, <1>5 DEF DeviceWilltopic
<1>6. CASE DeviceWillmsg(c)
  BY <1>4, <1>6 DEF DeviceWillmsg
<1>7. CASE DeviceRegAck(c)
  <2>1. CASE d = c
    BY <1>7, <2>1, RegAckSentCalm
  <2>2. CASE d # c
    <3>1. PICK id \in dev[c].regs :
              DeviceSends(c, [dev[c] EXCEPT !.regs = @ \ {id}], [type |-> "REGACK", msgId |-> id])
      BY <1>7 DEF DeviceRegAck
    <3>2. id \in Nat
      BY <1>1 DEF Device
    <3>3. PICK p \in DevicePacket : p = [type |-> "REGACK", msgId |-> id]
      BY <3>2, MadeRequests
    <3>4. PICK r : r = [dev[c] EXCEPT !.regs = @ \ {id}]
      OBVIOUS
    <3> QED
      BY <2>2, <3>1, <3>3, <3>4, DeviceOthers
  <2> QED
    BY <2>1, <2>2
<1>8. ASSUME NEW from, NEW to, NEW p \in DevicePacket, DeviceRequests(c, from, to, p),
             dev[c].st \in from => Turn(dev[c].st, to, p)
      PROVE  Calm(d)'
  <2>1. PICK r : r = [dev[c] EXCEPT !.st = to, !.requests = @ + 1]
    OBVIOUS
  <2>2. r.st = to
    BY <1>2, <2>1
  <2>3. DeviceSends(c, r, p) /\ dev[c].st \in from
    BY <1>1, <1>8, <2>1 DEF DeviceRequests, Asks
  <2> QED
    BY <1>8, <2>2, <2>3, RequestAllCalm
<1>9. PICK sleep \in DevicePacket, leave \in DevicePacket, ping \in DevicePacket :
           /\ sleep = [type |-> "DISCONNECT", sleep |-> TRUE]
           /\ sleep.type = "DISCONNECT" /\ sleep.sleep
           /\ leave = [type |-> "DISCONNECT", sleep |-> FALSE]
           /\ leave.type = "DISCONNECT" /\ ~leave.sleep
           /\ ping = [type |-> "PINGREQ"] /\ ping.type = "PINGREQ"
  BY MadeRequests
<1>10. CASE DeviceSleep(c)
  <2>1. DeviceRequests(c, {"active"}, "sleepReq", sleep)
    BY <1>9, <1>10 DEF DeviceSleep
  <2>2. dev[c].st \in {"active"} => Turn(dev[c].st, "sleepReq", sleep)
    BY <1>9 DEF Turn
  <2> QED
    BY <1>8, <2>1, <2>2
<1>11. CASE DeviceDisconnect(c)
  <2>1. DeviceRequests(c, {"active", "asleep"}, "discReq", leave)
    BY <1>9, <1>11 DEF DeviceDisconnect
  <2>2. dev[c].st \in {"active", "asleep"} => Turn(dev[c].st, "discReq", leave)
    BY <1>9 DEF Turn
  <2> QED
    BY <1>8, <2>1, <2>2
<1>12. CASE DevicePing(c)
  <2>1. DeviceRequests(c, {"active"}, "pinging", ping)
    BY <1>9, <1>12 DEF DevicePing
  <2>2. dev[c].st \in {"active"} => Turn(dev[c].st, "pinging", ping)
    BY <1>9 DEF Turn
  <2> QED
    BY <1>8, <2>1, <2>2
<1>13. CASE DeviceWake(c)
  <2>1. DeviceRequests(c, {"asleep"}, "awake", ping)
    BY <1>9, <1>13 DEF DeviceWake
  <2>2. dev[c].st \in {"asleep"} => Turn(dev[c].st, "awake", ping)
    BY <1>9 DEF Turn
  <2> QED
    BY <1>8, <2>1, <2>2
<1> QED
  BY <1>3, <1>5, <1>6, <1>7, <1>10, <1>11, <1>12, <1>13 DEF DeviceStep, DeviceAnswers

-----------------------------------------------------------------------------
(* The invariant                                                           *)

(* The invariant: until something goes wrong every device is as Calm says. *)
CalmInv == TypeOK /\ (faults = 0 => \A c \in Clients : Calm(c))

(* No request is under way and every device is off.                        *)
LEMMA CalmInit == Init => CalmInv
<1> SUFFICES ASSUME Init PROVE CalmInv
  OBVIOUS
<1>1. TypeOK
  BY InitType
<1>2. ASSUME NEW c \in Clients PROVE Calm(c)
  <2>1. /\ Elems(packetQ) = {} /\ Elems(brokerQ) = {} /\ Elems(clientQ) = {}
        /\ Elems(net[c].down) = {}
    BY DEF Init, NoLink, Elems
  <2>2. /\ \A E : Lone(packetQ, E) /\ Lone(brokerQ, E) /\ Lone(clientQ, E) /\ Lone(net[c].down, E)
        /\ \A E, F : ~Behind(packetQ, E, F) /\ ~Behind(brokerQ, E, F)
    BY <2>1, NoneLone
  <2>3. /\ ~InP(c) /\ ~InB(c) /\ ~InD(c) /\ ~InA(c) /\ ~Accepted(c) /\ ~Leaving(c)
    BY <2>1 DEF InP, InB, InD, InA, Accepted, Leaving, Init
  <2>4. dev[c].st = "off" /\ ~cl[c].holdPing /\ Eff(c) = "Disconnected"
    BY DEF Init, NewDevice, NewClient, Eff
  <2>5. OneRequest(c)
    BY <2>2, <2>3, <2>4 DEF OneRequest
  <2>6. RequestFits(c)
    BY <2>1, <2>4 DEF RequestFits
  <2>7. StatusFits(c)
    BY <2>4 DEF StatusFits, Low
  <2>8. Ended(c)
    BY <2>1, <2>3, <2>4 DEF Ended, Settled, Low
  <2>9. EndsFit(c)
    BY <2>1, <2>2, <2>8 DEF EndsFit
  <2>10. Hushed(c)
    BY <2>4 DEF Hushed, Quiet
  <2> QED
    BY <2>5, <2>6, <2>7, <2>9, <2>10 DEF Calm
<1> QED
  BY <1>1, <1>2 DEF CalmInv

(* Every step keeps it: a step that costs a fault makes faults positive    *)
(* for ever, the others are the ones above.                                *)
LEMMA CalmNext == CalmInv /\ [Next]_vars => CalmInv'
<1> SUFFICES ASSUME CalmInv, [Next]_vars PROVE CalmInv'
  OBVIOUS
<1>1. TypeOK /\ TypeOK'
  BY NextType DEF CalmInv
<1>2. SUFFICES ASSUME faults' = 0, NEW d \in Clients PROVE Calm(d)'
  BY <1>1 DEF CalmInv
<1>3. faults \in Nat
  BY <1>1 DEF TypeOK
<1>4. CASE UNCHANGED vars
  <2>1. Calm(d)
    BY <1>2, <1>4 DEF CalmInv, vars
  <2>2. Eff(d)' = Eff(d)
    BY <1>4 DEF vars, Eff
  <2> QED
    BY <1>1, <1>4, <2>1, <2>2, StatusCalm DEF vars
<1>5. CASE PacketHandle
  <2>1. faults' = faults
    BY <1>5 DEF PacketHandle, HandleConnect, HandleWilltopic, HandleWillmsg, HandleDisconnect,
                HandlePingreq, HandleRegAck, UpdateStatus, HandleConnack, HandlePingresp,
                HandleBrokerDisconnect, HandlePublish, FromDevice, FromBroker
  <2>2. \A c \in Clients : Calm(c)
    BY <1>2, <2>1 DEF CalmInv
  <2> QED
    BY <1>1, <1>5, <2>2, DeviceHandlersCalm, BrokerHandlersCalm, UpdateStatusCalm DEF PacketHandle
<1>6. CASE BrokerSendStep
  <2>1. ~BrokerConnectFails
    BY <1>2, <1>3 DEF BrokerConnectFails
  <2>2. faults' = faults
    BY <1>6, <2>1 DEF BrokerSendStep, BrokerSend, BrokerSent, BrokerSendFails
  <2>3. \A c \in Clients : Calm(c)
    BY <1>2, <2>2 DEF CalmInv
  <2> QED
    BY <1>1, <1>6, <2>1, <2>3, BrokerSendCalm, BrokerSentCalm, BrokerSendFailsCalm
       DEF BrokerSendStep
<1>7. CASE ClientSend
  <2>1. Calm(d)
    BY <1>2, <1>7 DEF CalmInv, ClientSend
  <2> QED
    BY <1>1, <1>7, <2>1, ClientSendCalm
<1>8. CASE ClientSendLost
  BY <1>2, <1>3, <1>8 DEF ClientSendLost
<1>9. ASSUME NEW c \in Clients, BrokerRecvStep(c) PROVE Calm(d)'
  <2>1. \A x \in Clients : Calm(x)
    BY <1>2, <1>9 DEF CalmInv, BrokerRecvStep, BrokerRecvPacket, BrokerRecvClosed
  <2> QED
    BY <1>1, <1>9, <2>1, BrokerRecvPacketCalm, BrokerRecvClosedCalm DEF BrokerRecvStep
<1>10. ASSUME NEW c \in Clients, DeviceStep(c) PROVE Calm(d)'
  <2>1. \A inTurn : Asks(inTurn) => faults' = faults
    BY <1>2, <1>3 DEF Asks
  <2>2. faults' = faults
    BY <1>10, <2>1 DEF DeviceStep, DeviceAnswers, DeviceConnect, DeviceSleep, DeviceDisconnect,
                DevicePing, DeviceWake, DeviceWilltopic, DeviceWillmsg, DeviceRegAck, DeviceRequests
  <2>3. \A x \in Clients : Calm(x)
    BY <1>2, <2>2 DEF CalmInv
  <2> QED
    BY <1>1, <1>2, <1>10, <2>3, DeviceStepCalm
<1>11. ASSUME NEW c \in Clients, BrokerStep(c) PROVE Calm(d)'
  <2>1. ~BrokerCloses(c)
    BY <1>2, <1>3 DEF BrokerCloses
  <2>2. PICK m \in Pubs : BrokerPublish(c, m)
    BY <1>11, <2>1 DEF BrokerStep
  <2>3. Calm(d)
    BY <1>2, <2>2 DEF CalmInv, BrokerPublish
  <2> QED
    BY <1>1, <2>2, <2>3, BrokerPublishCalm
<1> QED
  BY <1>4, <1>5, <1>6, <1>7, <1>8, <1>9, <1>10, <1>11 DEF Next

(* A device that is asleep waits for no answer, and what it is covered by  *)
(* is one.                                                                 *)
LEMMA CalmSilent == CalmInv => SilentWhenAsleep
<1> SUFFICES ASSUME CalmInv, faults = 0, NEW i \in DOMAIN clientQ,
                    clientQ[i].pkt.type \in {"PUBLISH", "REGISTER"},
                    dev[clientQ[i].client].st = "asleep"
             PROVE  FALSE
  BY DEF SilentWhenAsleep
<1>1. PICK c \in Clients : c = clientQ[i].client
  <2>1. clientQ[i] \in Event(SnPacket)
    BY ElementOfSeq, LenProperties DEF CalmInv, TypeOK
  <2> QED
    BY <2>1 DEF Event
<1>2. clientQ[i] \in Delivery(c)
  <2>1. clientQ[i] \in Event(SnPacket)
    BY ElementOfSeq, LenProperties DEF CalmInv, TypeOK
  <2> QED
    BY <1>1, <2>1 DEF Delivery
<1>3. TypeOK /\ Calm(c) /\ dev[c].st = "asleep"
  BY <1>1 DEF CalmInv
<1>4. ~InA(c)
  BY <1>3, NothingUnderWay
<1>5. PICK j \in DOMAIN clientQ : clientQ[j] \in Answer(c)
  BY <1>2, <1>3 DEF Calm, Hushed, Quiet, Covered
<1> QED
  BY <1>4, <1>5 DEF InA, Elems

(* No PUBLISH and no REGISTER is in the queue to a device that is asleep,  *)
(* as long as nothing is lost, no connection breaks and every device       *)
(* speaks in its turn: handlePublish and sendStoredPublish look at the     *)
(* status of the Client (isActive, isSleep, isAwake), and the device       *)
(* sleeps only when the DISCONNECT or the PINGRESP that follows has        *)
(* reached it.                                                             *)
THEOREM SleepersLeftAlone == Spec => []SilentWhenAsleep
<1>1. Init => CalmInv
  BY CalmInit
<1>2. CalmInv /\ [Next]_vars => CalmInv'
  BY CalmNext
<1>3. CalmInv => SilentWhenAsleep
  BY CalmSilent
<1> QED
  BY <1>1, <1>2, <1>3, PTL DEF Spec
=============================================================================
