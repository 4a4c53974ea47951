-------------------------- MODULE MCClientSession --------------------------
(***************************************************************************)
(* One or two devices, publications on topics of several kinds.  A         *)
(* property needs its own environment (lost packets, wills, two devices),  *)
(* so a behaviour begins with the choice of a setting: one of the          *)
(* instances below, with the constants that suit the property.             *)
(***************************************************************************)
EXTENDS ClientSession

CONSTANTS c1, c2, m1, m2, shortTopic, plainTopic, wildTopic

MCTopics == {shortTopic, plainTopic, wildTopic}
MCKindOf == [t \in MCTopics |-> CASE t = shortTopic -> "short"
                                  [] t = wildTopic -> "wild"
                                  [] OTHER -> "plain"]
MCQosOf == [m \in Pubs |-> IF m = m1 THEN 1 ELSE 2]

(* m1 needs a REGISTER, m2 does not. *)
TopicsMixed == [m \in Pubs |-> IF m = m1 THEN plainTopic ELSE shortTopic]
(* m1 matches a predefined filter; both need one of the topic table's entries. *)
TopicsWild == [m \in Pubs |-> IF m = m1 THEN wildTopic ELSE plainTopic]
(* Both are on one topic that needs a REGISTER. *)
TopicsPlain == [m \in Pubs |-> plainTopic]

VARIABLE setting
mcVars == <<vars, setting>>

(* Sleep and wake with a full store, on connections that hold. *)
Saving == INSTANCE ClientSession WITH
    TopicOf <- TopicsMixed, MaxSaved <- 1, RoundTrip <- FALSE, MaxConnects <- 3, MaxRequests <- 6
(* Packets are lost and repeated, devices restart, every limit is met; a   *)
(* CONNECT begins a new session or resumes the one before.                 *)
Retrying == INSTANCE ClientSession WITH
    TopicOf <- TopicsWild, MaxPackets <- 2, MaxSnMsgId <- 1, MaxTid <- 1,
    StopAndWait <- FALSE, RoundTrip <- FALSE, CleanFlags <- {TRUE}, MaxRequests <- 2, MaxFaults <- 2
Resuming == INSTANCE ClientSession WITH
    TopicOf <- TopicsWild, MaxPackets <- 2, MaxSnMsgId <- 1, MaxTid <- 1,
    StopAndWait <- FALSE, RoundTrip <- FALSE, MaxRequests <- 2, MaxFaults <- 2
(* CONNECTs with and without a will, lost and repeated. *)
Willed == INSTANCE ClientSession WITH
    Pubs <- {}, TopicOf <- <<>>, QosOf <- <<>>, MaxPackets <- 2, StopAndWait <- FALSE,
    RoundTrip <- FALSE, CleanFlags <- {TRUE}, WillFlags <- BOOLEAN, MaxConnects <- 3, MaxRequests <- 1, MaxFaults <- 2
(* Two devices and no publication. *)
Answering == INSTANCE ClientSession WITH
    Clients <- {c1, c2}, Pubs <- {}, TopicOf <- <<>>, QosOf <- <<>>, MaxSaved <- 1,
    RoundTrip <- FALSE, CleanFlags <- {TRUE}, MaxRequests <- 1

-----------------------------------------------------------------------------
SafeInit ==
    \/ setting = "saving" /\ Saving!Init
    \/ setting = "retrying" /\ Retrying!Init
    \/ setting = "resuming" /\ Resuming!Init
    \/ setting = "willed" /\ Willed!Init
SafeNext ==
    /\ UNCHANGED setting
    /\ \/ setting = "saving" /\ Saving!Next
       \/ setting = "retrying" /\ Retrying!Next
       \/ setting = "resuming" /\ Resuming!Next
       \/ setting = "willed" /\ Willed!Next
SafeSpec == SafeInit /\ [][SafeNext]_mcVars

LiveInit == \/ setting = "waking" /\ Init
            \/ setting = "answering" /\ Answering!Init
LiveNext == /\ UNCHANGED setting
            /\ \/ setting = "waking" /\ Next
               \/ setting = "answering" /\ Answering!Next
LiveSpec ==
    /\ LiveInit /\ [][LiveNext]_mcVars
    /\ WF_vars(setting = "waking" /\ PacketHandle) /\ WF_vars(setting = "answering" /\ Answering!PacketHandle)
    /\ WF_vars(setting = "waking" /\ BrokerSendStep) /\ WF_vars(setting = "answering" /\ Answering!BrokerSendStep)
    /\ WF_vars(setting = "waking" /\ ClientSend) /\ WF_vars(setting = "answering" /\ Answering!ClientSend)
    /\ \A c \in {c1} : /\ WF_vars(setting = "waking" /\ BrokerRecvStep(c))
                       /\ WF_vars(setting = "waking" /\ DeviceAnswers(c))
    /\ \A c \in {c1, c2} : /\ WF_vars(setting = "answering" /\ Answering!BrokerRecvStep(c))
                           /\ WF_vars(setting = "answering" /\ Answering!DeviceAnswers(c))

(* The module's own constants only. *)
OneSpec ==
    /\ setting = "waking" /\ Init /\ [][Next /\ UNCHANGED setting]_mcVars
    /\ WF_vars(PacketHandle) /\ WF_vars(BrokerSendStep) /\ WF_vars(ClientSend)
    /\ \A c \in Clients : WF_vars(BrokerRecvStep(c)) /\ WF_vars(DeviceAnswers(c))

-----------------------------------------------------------------------------
(* Every CONNECT, PINGREQ of an active device, sleep request and           *)
(* DISCONNECT of each of two devices is answered, and the client of a      *)
(* device that was accepted becomes Active: connackSended sets its status  *)
(* (MQTTGWConnectionHandler.cpp:76); the CONNACK comes after               *)
(* BrokerSendTask is done with the CONNECT.                                *)
BothAnswered ==
    /\ \A c \in {c1, c2} : (setting = "answering" /\ dev[c].st \in Waiting)
                               ~> (setting = "answering" /\ dev[c].st \notin Waiting)
    /\ \A c \in Clients : (setting = "waking" /\ dev[c].st = "active")
                               ~> (dev[c].st # "active" \/ cl[c].status = "Active")
=============================================================================
