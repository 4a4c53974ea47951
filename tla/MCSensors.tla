----------------------------- MODULE MCSensors ------------------------------
(***************************************************************************)
(* The sensor networks with connections: DTLS (SensorNetwork) and          *)
(* Bluetooth (Rfcomm), with two devices.  A behaviour begins with the      *)
(* choice of a part; the other module rests in its initial state.          *)
(*   "faults"    the constants of the configuration, but two connections   *)
(*               in all: reports of closed ports, restarts, late records   *)
(*   "connects"  devices that connect once                                 *)
(*   "restarts"  devices that connect again, without other packets         *)
(*   "ports"     Bluetooth, a channel for each device                      *)
(***************************************************************************)
EXTENDS SensorNetwork

CONSTANTS d1, d2

VARIABLES part,
          sock, backlog, sender, reader, got, replied, up, authors, connects  \* Rfcomm
portVars == <<sock, backlog, sender, reader, got, replied, up, authors, connects>>
suiteVars == <<part, vars, portVars>>

Faults == INSTANCE SensorNetwork WITH MaxAccepts <- 2
Connects == INSTANCE SensorNetwork WITH Reports <- FALSE, Restarts <- FALSE, MaxAccepts <- 2
Again == INSTANCE SensorNetwork WITH Reports <- FALSE, Chatty <- FALSE
Ports == INSTANCE Rfcomm WITH
    Channels <- {1, 2}, ChannelOf <- [d \in Devices |-> IF d = d1 THEN 1 ELSE 2],
    Ends <- {"reset", "end"}, Apart <- TRUE, MaxSent <- 3, MaxConnects <- 4,
    R <- reader, sent <- replied
ASSUME Faults!SensorAssumption /\ Connects!SensorAssumption /\ Again!SensorAssumption /\ Ports!RfcommAssumption

SuiteInit == part \in {"faults", "connects", "restarts", "ports"} /\ Init /\ Ports!Init
NetworkNext ==
    /\ \/ part = "faults" /\ Faults!Next
       \/ part = "connects" /\ Connects!Next
       \/ part = "restarts" /\ Again!Next
    /\ UNCHANGED <<part, portVars>>
PortsNext == part = "ports" /\ Ports!Next /\ UNCHANGED <<part, vars>>
SuiteNext == NetworkNext \/ PortsNext

\* The bounds of the settings differ in what the devices do and in Accept.
Fair == part \in {"connects", "restarts"}
Served == \/ part = "connects" /\ Connects!Read
          \/ part = "restarts" /\ Again!Read
Accepts(d) == \/ part = "connects" /\ Connects!Accept(d)
              \/ part = "restarts" /\ Again!Accept(d)
SuiteFairness ==
    /\ WF_vars(Served)
    /\ WF_vars(Fair /\ (GetClientSSL \/ Write))
    /\ SF_vars(Fair /\ LockSend) /\ SF_vars(Fair /\ LockRead)
    /\ \A d \in Devices : WF_vars(Fair /\ Repeat(d)) /\ SF_vars(Accepts(d))
    /\ WF_portVars(part = "ports" /\ Ports!Read)
SuiteSpec == SuiteInit /\ [][SuiteNext]_suiteVars /\ SuiteFairness

-----------------------------------------------------------------------------
(* The index in a Client's address leads to its device's connection until  *)
(* a slot that is not after it is closed, whatever connects, connects      *)
(* again or reports an error, and a packet of a Client is written to its   *)
(* device until then; every packet of a Bluetooth device is handed on once *)
(* and in order (SensorNetwork, Connections::close, getClientSSL; Rfcomm,  *)
(* read).                                                                  *)
PacketsGoRight ==
    /\ AstrayByClose /\ [](RightUntilClosed /\ (part = "connects" => RightDevice /\ Found))
    /\ [](Ports!TypeOK /\ Ports!InOrder)
(* A packet that was taken is written (SensorNetwork, unicast); a device   *)
(* that says hello is connected (SensorNetwork, read); a Bluetooth         *)
(* connection that waits is accepted or leaves (Rfcomm, read).             *)
EveryoneServed ==
    /\ (part = "connects" /\ S.pc # "idle") ~> S.pc = "idle"
    /\ \A d \in Devices : (part = "restarts" /\ session[d] = "hello")
                              ~> session[d] = "up" \/ accepts = MaxAccepts
    /\ Ports!Accepted
=============================================================================
