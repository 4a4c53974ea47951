------------------------ MODULE SensorNetwork_proofs ------------------------
(***************************************************************************)
(* For any set of devices and any number of connections, restarts and      *)
(* reported errors: the types, that only a reported error makes read()     *)
(* keep the mutex, and that a packet is written to another device's        *)
(* session only with an index that closing a connection has led astray.    *)
(***************************************************************************)
EXTENDS SensorNetwork, TLAPS, SequenceTheorems

-----------------------------------------------------------------------------
(* The slots                                                               *)

Slot(n) == [dev : Devices, ssl : 1 .. n]

(* Closing a connection leaves one slot less and no slot of another kind.  *)
LEMMA CloseSlot ==
    ASSUME NEW T, NEW s \in Seq(T), NEW i \in 1 .. Len(s)
    PROVE  RemoveAt(s, i) \in Seq(T) /\ Len(RemoveAt(s, i)) = Len(s) - 1
<1> DEFINE a == SubSeq(s, 1, i - 1)
<1> DEFINE b == SubSeq(s, i + 1, Len(s))
<1>1. a \in Seq(T) /\ Len(a) = i - 1
  <2>1. \A j \in 1 .. i - 1 : s[j] \in T
    OBVIOUS
  <2>2. Len(a) = IF 1 <= i - 1 THEN i - 1 - 1 + 1 ELSE 0
    BY <2>1, SubSeqProperties
  <2> QED
    BY <2>1, <2>2, SubSeqProperties
<1>2. b \in Seq(T) /\ Len(b) = Len(s) - i
  <2>1. \A j \in i + 1 .. Len(s) : s[j] \in T
    OBVIOUS
  <2>2. Len(b) = IF i + 1 <= Len(s) THEN Len(s) - (i + 1) + 1 ELSE 0
    BY <2>1, SubSeqProperties
  <2> QED
    BY <2>1, <2>2, SubSeqProperties
<1>4. RemoveAt(s, i) = a \o b
  BY DEF RemoveAt, a, b
<1> HIDE DEF a, b
<1>3. a \o b \in Seq(T) /\ Len(a \o b) = Len(a) + Len(b)
  BY <1>1, <1>2, ConcatProperties
<1>5. Len(s) \in Nat
  BY LenProperties
<1>6. Len(a \o b) = Len(s) - 1
  BY <1>1, <1>2, <1>3, <1>5
<1> QED
  BY <1>3, <1>4, <1>6

(* Closing a connection leaves the slots before it.                        *)
LEMMA SlotsBefore ==
    ASSUME NEW T, NEW s \in Seq(T), NEW i \in 1 .. Len(s)
    PROVE  \A j \in 1 .. i - 1 : RemoveAt(s, i)[j] = s[j]
<1> DEFINE a == SubSeq(s, 1, i - 1)
<1> DEFINE b == SubSeq(s, i + 1, Len(s))
<1>5. Len(s) \in Nat
  BY LenProperties
<1>1. a \in Seq(T) /\ Len(a) = i - 1 /\ \A j \in 1 .. i - 1 : a[j] = s[j]
  <2>1. \A j \in 1 .. i - 1 : s[j] \in T
    OBVIOUS
  <2>2. Len(a) = IF 1 <= i - 1 THEN i - 1 - 1 + 1 ELSE 0
    BY <2>1, SubSeqProperties
  <2>3. \A j \in 1 .. Len(a) : a[j] = s[1 + j - 1]
    BY <2>1, SubSeqProperties
  <2>4. Len(a) = i - 1
    BY <1>5, <2>2
  <2>5. \A j \in 1 .. i - 1 : 1 + j - 1 = j
    BY <1>5
  <2>6. \A j \in 1 .. i - 1 : a[j] = s[j]
    BY <2>3, <2>4, <2>5
  <2> QED
    BY <2>1, <2>4, <2>6, SubSeqProperties
<1>2. b \in Seq(T)
  <2>1. \A j \in i + 1 .. Len(s) : s[j] \in T
    OBVIOUS
  <2> QED
    BY <2>1, SubSeqProperties
<1>3. RemoveAt(s, i) = a \o b
  BY DEF RemoveAt, a, b
<1> HIDE DEF a, b
<1>4. \A j \in 1 .. Len(a) : (a \o b)[j] = a[j]
  <2>1. /\ Len(a \o b) = Len(a) + Len(b)
        /\ \A j \in 1 .. Len(a) + Len(b) : (a \o b)[j] = IF j <= Len(a) THEN a[j] ELSE b[j - Len(a)]
    BY <1>1, <1>2, ConcatProperties
  <2>2. Len(b) \in Nat /\ Len(a) \in Nat
    BY <1>1, <1>2, LenProperties
  <2> QED
    BY <2>1, <2>2
<1> QED
  BY <1>1, <1>3, <1>4

(* Adding a connection gives it the next slot and leaves the others.       *)
LEMMA AddSlot ==
    ASSUME NEW n \in Nat, NEW s \in Seq(Slot(n)), NEW d \in Devices
    PROVE  LET t == Append(s, [dev |-> d, ssl |-> n + 1])
           IN  /\ t \in Seq(Slot(n + 1)) /\ Len(t) = Len(s) + 1
               /\ t[Len(s) + 1].dev = d /\ \A i \in 1 .. Len(s) : t[i] = s[i]
<1> DEFINE e == [dev |-> d, ssl |-> n + 1]
<1>1. s \in Seq(Slot(n + 1))
  <2>1. \A r \in Slot(n) : r \in Slot(n + 1)
    BY DEF Slot
  <2> QED
    BY <2>1
<1>2. e \in Slot(n + 1) /\ e.dev = d
  BY DEF Slot
<1> HIDE DEF e
<1> QED
  BY <1>1, <1>2, AppendProperties DEF e

-----------------------------------------------------------------------------
(* Types                                                                   *)

(* TypeOK in parts: the slots, the devices, the tasks.                     *)
Slots ==
    /\ conns \in Seq(Slot(accepts)) /\ accepts \in 0 .. MaxAccepts /\ Len(conns) <= accepts
Indexes == index \in [Devices -> -1 .. MaxAccepts - 1] /\ overrun \in BOOLEAN
DeviceTypes ==
    /\ session \in [Devices -> {"down", "hello", "up"}]
    /\ wire \in [Devices -> {"none", "hello", "data"}] /\ error \in [Devices -> BOOLEAN]
RType ==
    R \in [pc : {"poll", "lock", "serve", "close"}, slot : 0 .. MaxAccepts,
          ready : SUBSET Devices, errors : SUBSET Devices]
Session == [dev : Devices \cup {None}, ssl : 0 .. accepts]
SType == S \in [pc : {"idle", "lock", "fetch", "write"}, to : Devices \cup {None}, with : Session]
SentType == sent \in [for : Devices \cup {None}, to : Devices \cup {None}]
HolderType == holder \in {"none", "R", "S"}
HasClient == S.pc # "idle" => S.to \in Devices /\ index[S.to] # -1
ClosesSlot == R.pc = "close" => R.slot \in DOMAIN conns

TypeParts ==
    Slots /\ Indexes /\ DeviceTypes /\ RType /\ SType /\ SentType /\ HolderType /\ ClosesSlot /\ HasClient

(* The parts are TypeOK, in this state and in the next.                    *)
LEMMA Parts == (TypeOK <=> TypeParts) /\ (TypeOK' <=> TypeParts')
  BY DEF TypeOK, TypeParts, Slots, Indexes, DeviceTypes, RType, Session, SType, SentType, HolderType,
         ClosesSlot, HasClient, Slot

(* A slot is that of a device and its number is one of the connections'.   *)
LEMMA SlotType ==
    ASSUME Slots, NEW i \in DOMAIN conns
    PROVE  /\ conns[i] \in Slot(accepts) /\ conns[i].dev \in Devices
           /\ i \in 1 .. Len(conns) /\ i \in 1 .. MaxAccepts
<1>1. DOMAIN conns = 1 .. Len(conns) /\ Len(conns) \in Nat /\ conns[i] \in Slot(accepts)
  BY LenProperties DEF Slots
<1> QED
  BY <1>1, SensorAssumption DEF Slots, Slot

(* The initial state has the types.                                        *)
LEMMA InitTypeOK == Init => TypeOK
<1> SUFFICES ASSUME Init PROVE TypeOK
  OBVIOUS
<1>1. Slots /\ ClosesSlot
  BY SensorAssumption DEF Init, Slots, ClosesSlot, Polling
<1>2. Indexes
  <2>1. \A d \in Devices : (IF d \in Listed THEN 0 ELSE -1) \in -1 .. MaxAccepts - 1
    BY SensorAssumption
  <2> QED
    BY <2>1 DEF Init, Indexes
<1>5. DeviceTypes /\ HolderType
  BY DEF Init, DeviceTypes, HolderType
<1>3. RType /\ SentType
  BY SensorAssumption DEF Init, RType, SentType, Polling
<1>4. SType /\ HasClient
  BY SensorAssumption DEF Init, SType, HasClient, Session, Waiting, NoSession
<1> QED
  BY <1>1, <1>2, <1>3, <1>4, <1>5, Parts DEF TypeParts

(* The types after a step: those of what it leaves alone are kept.         *)
LEMMA Kept ==
    ASSUME TypeOK
    PROVE  /\ UNCHANGED <<conns, accepts>> => Slots'
           /\ UNCHANGED <<index, overrun>> => Indexes'
           /\ UNCHANGED device => DeviceTypes'
           /\ UNCHANGED R => RType'
           /\ UNCHANGED <<S, accepts>> => SType'
           /\ UNCHANGED sent => SentType'
           /\ UNCHANGED holder => HolderType'
           /\ UNCHANGED <<R, conns>> => ClosesSlot'
           /\ R'.pc # "close" => ClosesSlot'
           /\ UNCHANGED <<S, index>> => HasClient'
<1>1. Slots /\ Indexes /\ DeviceTypes /\ RType /\ SType /\ SentType /\ HolderType
      /\ ClosesSlot /\ HasClient
  BY Parts DEF TypeParts
<1>2. UNCHANGED <<conns, accepts>> => Slots'
  BY <1>1 DEF Slots
<1>3. UNCHANGED <<index, overrun>> => Indexes'
  BY <1>1 DEF Indexes
<1>4. UNCHANGED device => DeviceTypes'
  BY <1>1 DEF DeviceTypes, device
<1>5. UNCHANGED R => RType'
  BY <1>1 DEF RType
<1>6. UNCHANGED <<S, accepts>> => SType'
  BY <1>1 DEF SType, Session
<1>7. (UNCHANGED sent => SentType') /\ (UNCHANGED holder => HolderType')
  BY <1>1 DEF SentType, HolderType
<1>8. (UNCHANGED <<R, conns>> => ClosesSlot') /\ (R'.pc # "close" => ClosesSlot')
  BY <1>1 DEF ClosesSlot
<1>9. UNCHANGED <<S, index>> => HasClient'
  BY <1>1 DEF HasClient
<1> QED
  BY <1>2, <1>3, <1>4, <1>5, <1>6, <1>7, <1>8, <1>9

(* read() that waits for the next packet has its types.                    *)
LEMMA PollingType == R' = Polling => RType' /\ R'.pc # "close"
<1>1. 0 \in 0 .. MaxAccepts
  BY SensorAssumption
<1> QED
  BY <1>1 DEF Polling, RType

(* The states after a step of a device have the types.                     *)
LEMMA DeviceTypeOK ==
    ASSUME TypeOK, NEW d \in Devices,
           Hello(d) \/ Repeat(d) \/ Retransmit(d) \/ SendData(d) \/ Stop(d)
    PROVE  TypeOK'
<1>1. UNCHANGED <<table, holder, R, S, sent>>
  BY DEF Hello, Repeat, Retransmit, SendData, Stop
<1>2. DeviceTypes'
  BY Parts DEF TypeParts, DeviceTypes, Hello, Repeat, Retransmit, SendData, Stop
<1> QED
  BY <1>1, <1>2, Kept, Parts DEF TypeParts, table

(* So have the states after a step of ClientSendTask.                      *)
LEMMA SendTypeOK ==
    ASSUME TypeOK, Send \/ \E d \in Devices : Take(d)
    PROVE  TypeOK'
<1>1. UNCHANGED <<table, R>>
  BY DEF Send, Take, LockSend, GetClientSSL, Write
<1>2. DeviceTypes'
  <2>1. CASE Write
    <3>1. \A d \in Devices : (Reports /\ Connected(d) /\ ~error[d] /\ session[d] = "down") \in BOOLEAN
      OBVIOUS
    <3> QED
      BY <2>1, <3>1, Parts DEF TypeParts, Write, DeviceTypes
  <2>2. CASE ~Write
    BY <2>2, Kept DEF Send, Take, LockSend, GetClientSSL
  <2> QED
    BY <2>1, <2>2
<1>3. SType'
  <2>1. CASE GetClientSSL
    <3> DEFINE w == IF index[S.to] < Len(conns) THEN conns[index[S.to] + 1] ELSE NoSession
    <3>1. w \in Session
      <4>1. index[S.to] \in Nat
        BY <2>1, Parts DEF TypeParts, HasClient, Indexes, GetClientSSL
      <4>2. CASE index[S.to] < Len(conns)
        <5>1. index[S.to] + 1 \in DOMAIN conns
          BY <4>1, <4>2, Parts, LenProperties DEF TypeParts, Slots
        <5> QED
          BY <4>2, <5>1, Parts, SlotType DEF TypeParts, Slot, Session
      <4>3. CASE ~(index[S.to] < Len(conns))
        BY <4>3, Parts DEF TypeParts, NoSession, Session, Slots
      <4> QED
        BY <4>2, <4>3
    <3> QED
      BY <2>1, <3>1, Parts DEF TypeParts, SType, Session, GetClientSSL, table
  <2>2. CASE LockSend
    BY <1>1, <2>2, Parts DEF TypeParts, SType, Session, LockSend, table
  <2>3. CASE Write
    <3>1. Waiting \in [pc : {"idle"}, to : {None}, with : [dev : {None}, ssl : {0}]]
      BY DEF Waiting, NoSession
    <3> QED
      BY <1>1, <2>3, <3>1, Parts DEF TypeParts, SType, Session, Write, table, Slots
  <2>4. ASSUME NEW d \in Devices, Take(d)
        PROVE  SType'
    BY <1>1, <2>4, Parts DEF TypeParts, SType, Session, Take, table
  <2> QED
    BY <2>1, <2>2, <2>3, <2>4 DEF Send
<1>4. SentType' /\ HolderType'
  <2>1. CASE Write
    BY <2>1, Parts DEF TypeParts, Write, SentType, HolderType, SType, Session, Unlock
  <2>2. CASE ~Write
    BY <2>2, Parts DEF TypeParts, SentType, HolderType, Send, Take, LockSend, GetClientSSL, Lock
  <2> QED
    BY <2>1, <2>2
<1>5. HasClient'
  <2>1. CASE LockSend \/ GetClientSSL
    <3>1. UNCHANGED index /\ S'.to = S.to /\ S.pc # "idle"
      BY <2>1, Parts DEF TypeParts, SType, LockSend, GetClientSSL, table
    <3> QED
      BY <3>1, Parts DEF TypeParts, HasClient
  <2>2. CASE Write
    BY <2>2 DEF Write, Waiting, HasClient
  <2>3. ASSUME NEW d \in Devices, Take(d)
        PROVE  HasClient'
    BY <2>3, Parts DEF TypeParts, Take, SType, HasClient, table
  <2> QED
    BY <2>1, <2>2, <2>3 DEF Send
<1> QED
  BY <1>1, <1>2, <1>3, <1>4, <1>5, Kept, Parts DEF TypeParts, table

(* And the states after a step of read().                                  *)
LEMMA ReadTypeOK ==
    ASSUME TypeOK, Read
    PROVE  TypeOK'
<1>1. CASE Poll \/ LockRead \/ NothingRead
  <2>1. UNCHANGED <<table, device, S, sent>> /\ HolderType'
    BY <1>1, Parts DEF TypeParts, Poll, LockRead, NothingRead, Lock, HolderType
  <2>2. RType' /\ R'.pc # "close"
    <3>1. Arrived \in SUBSET Devices /\ Errors \in SUBSET Devices
      BY DEF Arrived, Errors
    <3> QED
      BY <1>1, <3>1, PollingType, Parts DEF TypeParts, Poll, LockRead, NothingRead, Serve, RType
  <2> QED
    BY <2>1, <2>2, Kept, Parts DEF TypeParts, table
<1>2. CASE Close
  <2>1. Slots'
    <3>1. R.slot \in 1 .. Len(conns)
      BY <1>2, Parts, LenProperties DEF TypeParts, Close, ClosesSlot, Slots
    <3>2. conns' \in Seq(Slot(accepts)) /\ Len(conns') = Len(conns) - 1
      BY <1>2, <3>1, CloseSlot, Parts DEF TypeParts, Close, Slots
    <3> QED
      BY <1>2, <3>2, Parts, LenProperties DEF TypeParts, Close, Slots
  <2>2. DeviceTypes'
    BY <1>2, Parts DEF TypeParts, Close, DeviceTypes
  <2> QED
    BY <1>2, <2>1, <2>2, PollingType, Kept, Parts DEF TypeParts, Close
<1>3. ASSUME NEW i \in DOMAIN conns, ReadData(i)
      PROVE  TypeOK'
  <2>1. Indexes'
    BY <1>3, SlotType, Parts, SensorAssumption DEF TypeParts, ReadData, SenderIndex, Indexes
  <2>2. DeviceTypes'
    BY <1>3, SlotType, Parts DEF TypeParts, ReadData, DeviceTypes
  <2>4. HolderType' /\ R' = Polling
    BY <1>3 DEF ReadData, Serve, Unlock, HolderType
  <2>3. HasClient'
    BY <1>3, SlotType, Parts DEF TypeParts, ReadData, SenderIndex, HasClient, Indexes
  <2> QED
    BY <1>3, <2>1, <2>2, <2>3, <2>4, PollingType, Kept, Parts DEF TypeParts, ReadData
<1>4. ASSUME NEW i \in DOMAIN conns, Reconnect(i)
      PROVE  TypeOK'
  <2>1. R' = [R EXCEPT !.pc = "close", !.slot = i] /\ HolderType'
    BY <1>4 DEF Reconnect, Unlock, HolderType
  <2>2. UNCHANGED <<conns, accepts, index, overrun, device, S, sent>>
    BY <1>4 DEF Reconnect, table
  <2>3. RType' /\ R'.slot = i
    <3>1. i \in 0 .. MaxAccepts
      BY SlotType, Parts, SensorAssumption DEF TypeParts
    <3>2. RType
      BY Parts DEF TypeParts
    <3> QED
      BY <2>1, <3>1, <3>2 DEF RType
  <2>4. ClosesSlot'
    BY <2>2, <2>3 DEF ClosesSlot
  <2> QED
    BY <2>1, <2>2, <2>3, <2>4, Kept, Parts DEF TypeParts
<1>5. ASSUME NEW d \in Devices, NotAccepted(d)
      PROVE  TypeOK'
  <2>1. DeviceTypes' /\ HolderType' /\ R' = Polling
    BY <1>5, Parts DEF TypeParts, NotAccepted, Serve, Unlock, DeviceTypes, HolderType
  <2> QED
    BY <1>5, <2>1, PollingType, Kept, Parts DEF TypeParts, NotAccepted, table
<1>6. ASSUME NEW d \in Devices, Accept(d)
      PROVE  TypeOK'
  <2>1. accepts \in Nat /\ conns \in Seq(Slot(accepts))
    BY Parts DEF TypeParts, Slots
  <2>2. conns' = Append(conns, [dev |-> d, ssl |-> accepts + 1])
    BY <1>6 DEF Accept, AddClientSSL
  <2>3. conns' \in Seq(Slot(accepts + 1)) /\ Len(conns') = Len(conns) + 1
    BY <2>1, <2>2, AddSlot
  <2>4. Slots'
    BY <1>6, <2>1, <2>3, Parts, SensorAssumption DEF TypeParts, Slots, Accept, AddClientSSL
  <2>5. SType'
    BY <1>6, Parts DEF TypeParts, SType, Session, Slots, Accept, AddClientSSL
  <2>6. Indexes'
    BY <1>6, Parts DEF TypeParts, Indexes, Accept, AddClientSSL
  <2>7. DeviceTypes' /\ HolderType' /\ R' = Polling
    BY <1>6, Parts DEF TypeParts, Accept, Serve, Unlock, DeviceTypes, HolderType
  <2> QED
    BY <1>6, <2>4, <2>5, <2>6, <2>7, PollingType, Kept, Parts DEF TypeParts, Accept
<1> QED
  BY <1>1, <1>2, <1>3, <1>4, <1>5, <1>6 DEF Read

(* Every step keeps the types: the slots are those of devices, with        *)
(* sessions that were made, and read() closes only a slot that is there.   *)
THEOREM TypeCorrect == Spec => []TypeOK
<1>1. ASSUME TypeOK, [Next]_vars
      PROVE  TypeOK'
  <2>1. CASE Next
    BY <1>1, <2>1, DeviceTypeOK, SendTypeOK, ReadTypeOK DEF Next
  <2>2. CASE UNCHANGED vars
    BY <1>1, <2>2, Kept, Parts DEF TypeParts, vars, table
  <2> QED
    BY <1>1, <2>1, <2>2
<1> QED
  BY <1>1, InitTypeOK, PTL DEF Spec

-----------------------------------------------------------------------------
(* The mutex                                                               *)

(* Once poll() has found something it stays: a packet that was received,   *)
(* or the error that was reported then.                                    *)
Something ==
    R.pc \in {"lock", "serve"} => R.errors # {} \/ \E d \in R.ready : d \in Devices

(* poll() returns when a socket has an event.                              *)
LEMMA SomethingKept ==
    ASSUME TypeOK, Something, Next
    PROVE  Something'
<1>1. ASSUME NEW d \in Devices,
             Hello(d) \/ Repeat(d) \/ Retransmit(d) \/ SendData(d) \/ Stop(d) \/ Take(d)
      PROVE  Something'
  BY <1>1 DEF Something, Hello, Repeat, Retransmit, SendData, Stop, Take
<1>3. CASE Send \/ LockRead
  BY <1>3, Parts DEF TypeParts, RType, Something, Send, LockSend, GetClientSSL, Write, LockRead, device
<1>4. CASE Poll
  <2>1. R'.errors = Errors /\ R'.ready = Arrived
    BY <1>4, Parts DEF TypeParts, RType, Poll
  <2> QED
    BY <1>4, <2>1 DEF Poll, Something, Arrived
<1>5. ASSUME NEW i \in DOMAIN conns, ReadData(i) \/ Reconnect(i)
      PROVE  Something'
  <2>1. R' = Polling \/ R' = [R EXCEPT !.pc = "close", !.slot = i]
    BY <1>5 DEF ReadData, Reconnect, Serve
  <2>2. R'.pc \in {"poll", "close"}
    <3>1. RType
      BY Parts DEF TypeParts
    <3>2. Polling.pc = "poll" /\ [R EXCEPT !.pc = "close", !.slot = i].pc = "close"
      BY <3>1 DEF RType, Polling
    <3> QED
      BY <2>1, <3>2
  <2> QED
    BY <2>2 DEF Something
<1>6. ASSUME NEW d \in Devices, NotAccepted(d) \/ Accept(d)
      PROVE  Something'
  BY <1>6 DEF NotAccepted, Accept, Serve, Polling, Something
<1>7. CASE NothingRead \/ Close
  BY <1>7 DEF NothingRead, Close, Serve, Polling, Something
<1>8. CASE Read
  BY <1>3, <1>4, <1>5, <1>6, <1>7, <1>8 DEF Read
<1> QED
  BY <1>1, <1>3, <1>8 DEF Next

(* The step that returns with the mutex is the one that serves no slot:    *)
(* what poll() has found is then on a socket with an error.                *)
LEMMA KeepsByError ==
    ASSUME TypeOK, Something, Next, Keeps
    PROVE  R.errors # {} \/ \E d \in Devices : error[d]
<1>1. NothingRead
  <2>1. ~Poll /\ ~LockRead /\ ~Close
    BY DEF Keeps, Poll, LockRead, Close
  <2>2. \A i \in DOMAIN conns : ~ReadData(i) /\ ~Reconnect(i)
    BY DEF Keeps, ReadData, Reconnect, Unlock
  <2>3. \A d \in Devices : ~NotAccepted(d) /\ ~Accept(d)
    BY DEF Keeps, NotAccepted, Accept, Unlock
  <2>4. /\ ~Send
        /\ \A d \in Devices : ~(Hello(d) \/ Repeat(d) \/ Retransmit(d) \/ SendData(d) \/ Stop(d) \/ Take(d))
    BY DEF Keeps, Send, LockSend, GetClientSSL, Write, Hello, Repeat, Retransmit, SendData, Stop, Take
  <2> QED
    BY <2>1, <2>2, <2>3, <2>4 DEF Next, Read
<1> SUFFICES ASSUME R.errors = {} PROVE \E d \in Devices : error[d]
  OBVIOUS
<1>2. PICK d \in Devices : d \in R.ready
  BY DEF Something, Keeps
<1>3. PICK i \in DOMAIN conns : conns[i].dev = d
  BY <1>1, <1>2 DEF NothingRead, Unicast, Connected
<1>4. error[d]
  BY <1>1, <1>2, <1>3 DEF NothingRead, PollIn
<1> QED
  BY <1>4

(* read() returns with the mutex locked only after a report of a closed    *)
(* port: the code's other paths all unlock it.                             *)
THEOREM KeptOnlyByError == Spec => KeptByError
<1>1. Init => Something
  BY DEF Init, Polling, Something
<1>2. ASSUME TypeOK, Something, [Next]_vars
      PROVE  Something'
  <2>1. CASE UNCHANGED vars
    BY <1>2, <2>1 DEF Something, vars, device
  <2> QED
    BY <1>2, <2>1, SomethingKept
<1>3. ASSUME TypeOK, Something, [Next]_vars
      PROVE  [Keeps => R.errors # {} \/ \E d \in Devices : error[d]]_vars
  BY <1>3, KeepsByError
<1> QED
  BY <1>1, <1>2, <1>3, TypeCorrect, PTL DEF Spec, KeptByError

-----------------------------------------------------------------------------
(* The right session                                                       *)

(* A step of read() on a slot: it gives a Client that has none the index   *)
(* of its own device's slot, and leaves the slots.                         *)
LEMMA ReadDataIndex ==
    ASSUME TypeOK, NEW i \in DOMAIN conns, ReadData(i)
    PROVE  /\ UNCHANGED <<conns, accepts, S, sent>>
           /\ \A d \in Devices : /\ Astray(d)' => Astray(d)
                                 /\ index'[d] = index[d] \/ ~Astray(d)'
<1>1. conns[i].dev \in Devices /\ i \in 1 .. Len(conns) /\ UNCHANGED <<conns, accepts, S, sent>>
  BY SlotType, Parts DEF TypeParts, ReadData
<1>2. index' = [index EXCEPT ![conns[i].dev] = IF @ = -1 THEN i - 1 ELSE @]
  BY DEF ReadData, SenderIndex
<1>3. index \in [Devices -> -1 .. MaxAccepts - 1]
  BY Parts DEF TypeParts, Indexes
<1> SUFFICES ASSUME NEW d \in Devices
             PROVE  (Astray(d)' => Astray(d)) /\ (index'[d] = index[d] \/ ~Astray(d)')
  BY <1>1
<1>4. CASE index'[d] = index[d]
  BY <1>1, <1>4 DEF Astray
<1>5. CASE index'[d] # index[d]
  <2>1. d = conns[i].dev /\ index'[d] = i - 1
    BY <1>2, <1>3, <1>5
  <2>2. index'[d] + 1 = i
    BY <1>1, <2>1
  <2>3. ~Astray(d)'
    BY <1>1, <2>1, <2>2 DEF Astray
  <2> QED
    BY <2>3
<1> QED
  BY <1>4, <1>5

(* A connection that is added leaves every slot that an index leads to.    *)
LEMMA AcceptIndex ==
    ASSUME TypeOK, NEW d \in Devices, Accept(d)
    PROVE  /\ UNCHANGED <<index, S, sent>> /\ Len(conns') = Len(conns) + 1 /\ accepts' = accepts + 1
           /\ \A e \in Devices : Astray(e)' => Astray(e)
<1>1. /\ conns' \in Seq(Slot(accepts + 1)) /\ Len(conns') = Len(conns) + 1
      /\ \A i \in 1 .. Len(conns) : conns'[i] = conns[i]
  BY AddSlot, Parts DEF TypeParts, Slots, Accept, AddClientSSL
<1>2. DOMAIN conns = 1 .. Len(conns) /\ DOMAIN conns' = 1 .. Len(conns) + 1 /\ Len(conns) \in Nat
  BY <1>1, Parts, LenProperties DEF TypeParts, Slots
<1>3. UNCHANGED <<index, S, sent>> /\ accepts' = accepts + 1
  BY DEF Accept, AddClientSSL
<1>4. \A i \in DOMAIN conns : i \in DOMAIN conns' /\ conns'[i] = conns[i]
  BY <1>1, <1>2
<1> HIDE DEF Slot
<1>5. ASSUME NEW e \in Devices, ~Astray(e)
      PROVE  ~Astray(e)'
  BY <1>3, <1>4, <1>5 DEF Astray
<1> QED
  BY <1>1, <1>3, <1>5

(* Closing a connection leaves the slots before it and one slot less.      *)
LEMMA CloseIndex ==
    ASSUME TypeOK, Close
    PROVE  /\ UNCHANGED <<index, accepts, S, sent>> /\ Len(conns') = Len(conns) - 1
           /\ \A d \in Devices : Astray(d)' => Astray(d) \/ R.slot <= index[d] + 1
<1>1. R.slot \in 1 .. Len(conns) /\ conns \in Seq(Slot(accepts)) /\ Len(conns) \in Nat
  BY Parts, LenProperties DEF TypeParts, Close, ClosesSlot, Slots
<1>2. conns' = RemoveAt(conns, R.slot) /\ UNCHANGED <<index, accepts, S, sent>>
  BY DEF Close
<1>3. conns' \in Seq(Slot(accepts)) /\ Len(conns') = Len(conns) - 1
  BY <1>1, <1>2, CloseSlot
<1>4. \A i \in 1 .. R.slot - 1 : conns'[i] = conns[i]
  BY <1>1, <1>2, SlotsBefore
<1>5. DOMAIN conns = 1 .. Len(conns) /\ DOMAIN conns' = 1 .. Len(conns) - 1
  BY <1>1, <1>3, LenProperties
<1>6. \A i \in DOMAIN conns : i < R.slot => i \in DOMAIN conns' /\ conns'[i] = conns[i]
  BY <1>1, <1>4, <1>5
<1>7. ASSUME NEW d \in Devices, ~Astray(d), ~(R.slot <= index[d] + 1)
      PROVE  ~Astray(d)'
  <2>1. index[d] \in -1 .. MaxAccepts - 1
    BY Parts DEF TypeParts, Indexes
  <2>2. CASE index[d] = -1
    BY <1>2, <2>2 DEF Astray
  <2>3. CASE index[d] # -1
    <3>1. index[d] + 1 \in DOMAIN conns /\ conns[index[d] + 1].dev = d
      BY <1>7, <2>3 DEF Astray
    <3>2. index[d] + 1 < R.slot
      BY <1>1, <1>7, <2>1, SensorAssumption
    <3> QED
      BY <1>2, <1>6, <3>1, <3>2 DEF Astray
  <2> QED
    BY <2>2, <2>3
<1> QED
  BY <1>2, <1>3, <1>7

(* A session that unicast() fetches with an index that is not astray is    *)
(* that of the device the packet is for.                                   *)
LEMMA FetchesOwn ==
    ASSUME TypeOK, GetClientSSL, ~Astray(S.to)
    PROVE  S'.with.dev = S.to /\ S'.to = S.to /\ S'.pc = "write"
<1>1. index[S.to] # -1 /\ S.to \in Devices /\ index[S.to] \in -1 .. MaxAccepts - 1
  BY Parts DEF TypeParts, HasClient, Indexes, GetClientSSL
<1>2. index[S.to] + 1 \in DOMAIN conns /\ conns[index[S.to] + 1].dev = S.to
  BY <1>1 DEF Astray
<1>3. index[S.to] < Len(conns)
  BY <1>1, <1>2, Parts, SlotType, SensorAssumption DEF TypeParts
<1>4. S' = [S EXCEPT !.pc = "write", !.with = conns[index[S.to] + 1]]
  BY <1>3 DEF GetClientSSL
<1> QED
  BY <1>2, <1>4, Parts DEF TypeParts, SType

(* Neither the devices nor ClientSendTask change a slot or an index, and   *)
(* of them only GetClientSSL begins to write.                              *)
LEMMA OthersLeave ==
    ASSUME TypeOK, NEW d \in Devices,
           Hello(d) \/ Repeat(d) \/ Retransmit(d) \/ SendData(d) \/ Stop(d) \/ Take(d) \/ Send
    PROVE  /\ UNCHANGED <<conns, accepts, index, R>> /\ \A e \in Devices : Astray(e)' <=> Astray(e)
           /\ S'.pc = "write" => GetClientSSL \/ UNCHANGED <<S, sent>>
<1>1. UNCHANGED <<conns, accepts, index, R>>
  BY DEF Hello, Repeat, Retransmit, SendData, Stop, Take, Send, LockSend, GetClientSSL, Write, table
<1>2. \A e \in Devices : Astray(e)' <=> Astray(e)
  BY <1>1 DEF Astray
<1>3. CASE Hello(d) \/ Repeat(d) \/ Retransmit(d) \/ SendData(d) \/ Stop(d)
  BY <1>1, <1>2, <1>3 DEF Hello, Repeat, Retransmit, SendData, Stop
<1>4. CASE Take(d) \/ LockSend
  <2>1. S'.pc \in {"lock", "fetch"}
    BY <1>4, Parts DEF TypeParts, SType, Take, LockSend
  <2> QED
    BY <1>1, <1>2, <2>1
<1>5. CASE Write
  BY <1>1, <1>2, <1>5 DEF Write, Waiting
<1> QED
  BY <1>1, <1>2, <1>3, <1>4, <1>5 DEF Send

(* read() leaves ClientSendTask alone.                                     *)
LEMMA ReadLeaves == ASSUME Read PROVE UNCHANGED <<S, sent>>
  BY DEF Read, Poll, LockRead, NothingRead, Close, ReadData, Reconnect, NotAccepted, Accept

(* What poll(), a refused hello and a ClientHello of a connection leave.   *)
LEMMA QuietRead ==
    ASSUME TypeOK,
           \/ Poll \/ LockRead \/ NothingRead
           \/ \E d \in Devices : NotAccepted(d)
           \/ \E i \in DOMAIN conns : Reconnect(i)
    PROVE  UNCHANGED <<conns, accepts, index>> /\ \A d \in Devices : Astray(d)' <=> Astray(d)
<1>1. UNCHANGED <<conns, accepts, index>>
  BY DEF Poll, LockRead, NothingRead, NotAccepted, Reconnect, table
<1> QED
  BY <1>1 DEF Astray

(* Every step of the network leads no other index astray than those of     *)
(* the slot that is closed and of the slots after it.                      *)
LEMMA StepAstray ==
    ASSUME TypeOK, Next
    PROVE  AstrayStep
<1>1. CASE Read
  <2>1. UNCHANGED S
    BY <1>1, ReadLeaves
  <2>2. CASE Close
    BY <2>1, <2>2, CloseIndex DEF Close, Polling, AstrayStep
  <2>3. ASSUME NEW i \in DOMAIN conns, ReadData(i)
        PROVE  AstrayStep
    BY <2>1, <2>3, ReadDataIndex DEF AstrayStep
  <2>4. ASSUME NEW d \in Devices, Accept(d)
        PROVE  AstrayStep
    BY <2>1, <2>4, AcceptIndex DEF AstrayStep
  <2>5. CASE \/ Poll \/ LockRead \/ NothingRead
             \/ \E d \in Devices : NotAccepted(d)
             \/ \E i \in DOMAIN conns : Reconnect(i)
    BY <2>1, <2>5, QuietRead DEF AstrayStep
  <2> QED
    BY <1>1, <2>2, <2>3, <2>4, <2>5 DEF Read
<1>2. ASSUME NEW d \in Devices,
             Hello(d) \/ Repeat(d) \/ Retransmit(d) \/ SendData(d) \/ Stop(d) \/ Take(d) \/ Send
      PROVE  AstrayStep
  <2>1. CASE GetClientSSL /\ ~Astray(S.to)
    BY <1>2, <2>1, OthersLeave, FetchesOwn DEF AstrayStep
  <2>2. CASE ~GetClientSSL \/ Astray(S.to)
    BY <1>2, <2>2, OthersLeave DEF AstrayStep
  <2> QED
    BY <2>1, <2>2
<1>3. CASE Send
  <2>1. S.to \in Devices
    BY <1>3, Parts DEF TypeParts, HasClient, Send, LockSend, GetClientSSL, Write
  <2> QED
    BY <1>2, <1>3, <2>1
<1> QED
  BY <1>1, <1>2, <1>3 DEF Next

(* Whatever connects, connects again or reports an error, the index in a   *)
(* Client's address leads to its device's connection until close() closes  *)
(* a slot that is not after it, and no packet is fetched for another       *)
(* device before.                                                          *)
THEOREM OnlyCloseLeadsAstray == Spec => AstrayByClose
<1>1. ASSUME TypeOK, [Next]_vars
      PROVE  [AstrayStep]_vars
  BY <1>1, StepAstray
<1> QED
  BY <1>1, TypeCorrect, PTL DEF Spec, AstrayByClose

(* While no connection has been closed the indexes that read() has given   *)
(* lead to their devices, and so do the session that is written to and the *)
(* last packet.                                                            *)
LEMMA NoneClosedBefore ==
    ASSUME TypeOK, Next, NoneClosed'
    PROVE  NoneClosed /\ ~Close
<1>1. Slots /\ Len(conns) \in Nat /\ accepts \in Nat
  BY Parts, LenProperties, SensorAssumption DEF TypeParts, Slots
<1>2. ~Close
  BY <1>1, CloseIndex DEF NoneClosed, Slots
<1>3. CASE UNCHANGED <<conns, accepts>>
  BY <1>2, <1>3 DEF NoneClosed
<1>4. ASSUME NEW d \in Devices, Accept(d)
      PROVE  NoneClosed
  BY <1>1, <1>4, AcceptIndex DEF NoneClosed
<1>5. CASE Read /\ ~\E d \in Devices : Accept(d)
  BY <1>2, <1>3, <1>5, QuietRead, ReadDataIndex DEF Read
<1>6. CASE ~Read
  BY <1>3, <1>6 DEF Next, Hello, Repeat, Retransmit, SendData, Stop, Take, Send, LockSend,
     GetClientSSL, Write, table
<1> QED
  BY <1>2, <1>4, <1>5, <1>6

(* Every step keeps it.                                                    *)
LEMMA RightKept ==
    ASSUME TypeOK, RightUntilClosed, Next
    PROVE  RightUntilClosed'
<1> SUFFICES ASSUME NoneClosed'
             PROVE  /\ \A d \in Devices \ Listed : ~Astray(d)'
                    /\ S'.pc = "write" /\ S'.to \notin Listed => S'.with.dev = S'.to
                    /\ sent'.for \notin Listed => sent'.to = sent'.for
  BY DEF RightUntilClosed
<1>1. /\ ~Close /\ \A d \in Devices \ Listed : ~Astray(d)
      /\ S.pc = "write" /\ S.to \notin Listed => S.with.dev = S.to
      /\ sent.for \notin Listed => sent.to = sent.for
  BY NoneClosedBefore DEF RightUntilClosed
<1>2. \A d \in Devices \ Listed : ~Astray(d)'
  <2>1. AstrayStep
    BY StepAstray
  <2>2. R.pc = "close" => R'.pc = "close"
    <3>1. CASE Read
      BY <1>1, <3>1 DEF Read, Poll, LockRead, NothingRead, ReadData, Reconnect, NotAccepted, Accept, Serve
    <3>2. CASE ~Read
      BY <3>2 DEF Next, Hello, Repeat, Retransmit, SendData, Stop, Take, Send, LockSend, GetClientSSL, Write
    <3> QED
      BY <3>1, <3>2
  <2> QED
    BY <1>1, <2>1, <2>2 DEF AstrayStep
<1>3. CASE Read
  BY <1>1, <1>2, <1>3, ReadLeaves
<1>4. ASSUME NEW d \in Devices,
             Hello(d) \/ Repeat(d) \/ Retransmit(d) \/ SendData(d) \/ Stop(d) \/ Take(d) \/ Send
      PROVE  /\ S'.pc = "write" /\ S'.to \notin Listed => S'.with.dev = S'.to
             /\ sent'.for \notin Listed => sent'.to = sent'.for
  <2>1. CASE GetClientSSL
    <3>1. S.to \in Devices /\ UNCHANGED sent /\ S'.to = S.to
      BY <2>1, Parts DEF TypeParts, SType, HasClient, GetClientSSL
    <3> QED
      BY <1>1, <2>1, <3>1, FetchesOwn
  <2>2. CASE ~GetClientSSL
    <3>1. S'.pc = "write" => UNCHANGED <<S, sent>>
      BY <1>4, <2>2, OthersLeave
    <3>2. CASE Write
      BY <1>1, <3>2 DEF Write, Waiting
    <3>3. CASE ~Write
      BY <1>1, <1>4, <2>2, <3>1, <3>3 DEF Hello, Repeat, Retransmit, SendData, Stop, Take, Send, LockSend
    <3> QED
      BY <3>2, <3>3
  <2> QED
    BY <2>1, <2>2
<1>5. CASE Send
  <2>1. S.to \in Devices
    BY <1>5, Parts DEF TypeParts, HasClient, Send, LockSend, GetClientSSL, Write
  <2> QED
    BY <1>2, <1>4, <1>5, <2>1
<1> QED
  BY <1>2, <1>3, <1>4, <1>5 DEF Next

(* Until the first connection is closed, whoever connects and restarts,    *)
(* a packet for a Client that clients.conf does not name is written to the *)
(* session of its own device.                                              *)
THEOREM RightSession == Spec => []RightUntilClosed
<1>1. Init => RightUntilClosed
  BY DEF Init, RightUntilClosed, Astray, Waiting
<1>2. ASSUME TypeOK, RightUntilClosed, [Next]_vars
      PROVE  RightUntilClosed'
  <2>1. CASE UNCHANGED vars
    BY <1>2, <2>1 DEF vars, table, RightUntilClosed, NoneClosed, Astray
  <2> QED
    BY <1>2, <2>1, RightKept
<1> QED
  BY <1>1, <1>2, TypeCorrect, PTL DEF Spec

=============================================================================
