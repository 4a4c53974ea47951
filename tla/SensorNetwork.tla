---------------------------- MODULE SensorNetwork ---------------------------
(***************************************************************************)
(* The DTLS sensor network: Connections and SensorNetwork, as              *)
(* ClientRecvTask ("R", read) and ClientSendTask ("S", unicast) use them.  *)
(* A device keeps its address; what multicast brings is left out.          *)
(***************************************************************************)
EXTENDS Integers, Sequences, FiniteSets, SequencesExt

CONSTANTS Devices,
          MaxClients,   \* MaxNumberOfClients: _maxfds less POLL_SSL
          Listed,       \* the devices that clients.conf gives the addresses of
          Reports,      \* whether the network reports that a device's port is closed
          Restarts,     \* whether a device that was connected connects again
          Chatty,       \* whether a device sends more than its CONNECT, late records too
          MaxAccepts,   \* bound: connections made
          None          \* no device
ASSUME SensorAssumption ==
       /\ MaxClients \in Nat /\ MaxAccepts \in Nat \ {0} /\ Listed \subseteq Devices
       /\ Reports \in BOOLEAN /\ Restarts \in BOOLEAN /\ Chatty \in BOOLEAN
       /\ None \notin Devices
VARIABLES conns,        \* _ssls and _pollfds from POLL_SSL on: whose, which session
          accepts,      \* sessions made so far: the name of the last one
          overrun,      \* whether a slot past _maxfds was written
          index,        \* the index in the Client's address, -1 when there is no Client
          session,      \* the device's end: "down", "hello", "up"
          wire,         \* what a device's socket has received: "none", "hello", "data"
          error,        \* whether the device's socket has an error to report
          holder,       \* who holds SensorNetwork::_mutex
          R, S,         \* where the two tasks are
          sent          \* the last packet sent: for whom, to whom
table == <<conns, accepts, overrun, index>>
device == <<session, wire, error>>
vars == <<table, device, holder, R, S, sent>>

NoSession == [dev |-> None, ssl |-> 0]
Polling == [pc |-> "poll", slot |-> 0, ready |-> {}, errors |-> {}]
Waiting == [pc |-> "idle", to |-> None, with |-> NoSession]

TypeOK ==
    /\ conns \in Seq([dev : Devices, ssl : 1 .. accepts])
    /\ accepts \in 0 .. MaxAccepts /\ overrun \in BOOLEAN
    /\ index \in [Devices -> -1 .. MaxAccepts - 1]
    /\ session \in [Devices -> {"down", "hello", "up"}]
    /\ wire \in [Devices -> {"none", "hello", "data"}] /\ error \in [Devices -> BOOLEAN]
    /\ holder \in {"none", "R", "S"}
    /\ R \in [pc : {"poll", "lock", "serve", "close"}, slot : 0 .. MaxAccepts,
              ready : SUBSET Devices, errors : SUBSET Devices]
    /\ S \in [pc : {"idle", "lock", "fetch", "write"}, to : Devices \cup {None},
              with : [dev : Devices \cup {None}, ssl : 0 .. accepts]]
    /\ sent \in [for : Devices \cup {None}, to : Devices \cup {None}]
    /\ Len(conns) <= accepts /\ (R.pc = "close" => R.slot \in DOMAIN conns)
    /\ S.pc # "idle" => S.to \in Devices /\ index[S.to] # -1

Init ==
    /\ conns = <<>> /\ accepts = 0 /\ overrun = FALSE
    /\ index = [d \in Devices |-> IF d \in Listed THEN 0 ELSE -1]
    /\ session = [d \in Devices |-> "down"] /\ wire = [d \in Devices |-> "none"]
    /\ error = [d \in Devices |-> FALSE]
    /\ holder = "none" /\ R = Polling /\ S = Waiting /\ sent = [for |-> None, to |-> None]

Connected(d) == \E i \in DOMAIN conns : conns[i].dev = d
Lock(task) == holder = "none" /\ holder' = task
Unlock == holder' = "none"

-----------------------------------------------------------------------------
(* The device and the network                                              *)

Hello(d) ==
    /\ session[d] # "hello" /\ (Connected(d) => Restarts) /\ accepts < MaxAccepts
    /\ session' = [session EXCEPT ![d] = "hello"] /\ wire' = [wire EXCEPT ![d] = "hello"]
    /\ UNCHANGED <<table, error, holder, R, S, sent>>

Repeat(d) ==
    /\ session[d] = "hello" /\ wire[d] = "none" /\ wire' = [wire EXCEPT ![d] = "hello"]
    /\ UNCHANGED <<table, session, error, holder, R, S, sent>>

\* A record of the handshake comes late, or once more.
Retransmit(d) ==
    /\ Restarts /\ Chatty /\ session[d] = "up" /\ Connected(d) /\ wire[d] = "none"
    /\ wire' = [wire EXCEPT ![d] = "hello"]
    /\ UNCHANGED <<table, session, error, holder, R, S, sent>>

SendData(d) ==
    /\ session[d] = "up" /\ wire[d] = "none" /\ (Chatty \/ index[d] = -1)
    /\ wire' = [wire EXCEPT ![d] = "data"]
    /\ UNCHANGED <<table, session, error, holder, R, S, sent>>

Stop(d) ==
    /\ session[d] = "up" /\ session' = [session EXCEPT ![d] = "down"]
    /\ UNCHANGED <<table, wire, error, holder, R, S, sent>>

-----------------------------------------------------------------------------
(* read()                                                                  *)

Arrived == {d \in Devices : wire[d] # "none"}
Errors == {d \in Devices : Connected(d) /\ error[d]}
\* What poll() has reported of the listening socket and of a connection's:
\* POLLIN alone, and recvfrom has no error to return
Unicast == {d \in R.ready : ~Connected(d)}
PollIn(i) == LET d == conns[i].dev IN d \in R.ready /\ ~error[d] /\ d \notin R.errors

Poll ==
    /\ R.pc = "poll" /\ Arrived \cup Errors # {}
    /\ R' = [R EXCEPT !.pc = "lock", !.ready = Arrived, !.errors = Errors]
    /\ UNCHANGED <<table, device, holder, S, sent>>

LockRead ==
    /\ R.pc = "lock" /\ Lock("R") /\ R' = [R EXCEPT !.pc = "serve"]
    /\ UNCHANGED <<table, device, S, sent>>

Serve == R.pc = "serve" /\ R' = Polling

\* Variant: the mutex stays locked.
NotAcceptedLocked(d) ==
    /\ Serve /\ d \in Unicast /\ wire' = [wire EXCEPT ![d] = "none"]
    /\ UNCHANGED <<table, session, error, holder, S, sent>>

\* DTLSv1_listen asks for the cookie, or what came is not a ClientHello, or
\* SSL_accept has no answer in time.
NotAccepted(d) ==
    /\ Serve /\ d \in Unicast /\ wire' = [wire EXCEPT ![d] = "none"] /\ Unlock
    /\ UNCHANGED <<table, session, error, S, sent>>

AddClientSSL(d) ==
    /\ accepts' = accepts + 1 /\ conns' = Append(conns, [dev |-> d, ssl |-> accepts'])
    /\ overrun' = (overrun \/ Len(conns) >= MaxClients)

Accept(d) ==
    /\ Serve /\ d \in Unicast /\ session[d] = "hello" /\ wire[d] = "hello"
    /\ accepts < MaxAccepts /\ AddClientSSL(d) /\ Unlock
    /\ session' = [session EXCEPT ![d] = "up"] /\ wire' = [wire EXCEPT ![d] = "none"]
    /\ UNCHANGED <<index, error, S, sent>>

\* The slot that is served: the first one
First(i) == PollIn(i) /\ \A j \in 1 .. i - 1 : ~PollIn(j)

\* Variant: the index is that of the next slot.
SenderNext(i) == i
\* _senderAddr's index: of the slot that the packet was read from
SenderIndex(i) == i - 1

\* ClientRecvTask finds the Client by its address or makes it (CONNECT).
ReadData(i) ==
    /\ Serve /\ Unicast = {} /\ First(i) /\ Unlock
    /\ LET d == conns[i].dev
       IN  /\ wire[d] = "data" /\ wire' = [wire EXCEPT ![d] = "none"]
           /\ index' = [index EXCEPT ![d] = IF @ = -1 THEN SenderIndex(i) ELSE @]
    /\ UNCHANGED <<conns, accepts, overrun, session, error, S, sent>>

\* Variant: the index is taken for the slot before.
ReconnectBefore(i) ==
    /\ R.pc = "serve" /\ Unicast = {} /\ First(i) /\ wire[conns[i].dev] = "hello"
    /\ R' = [R EXCEPT !.pc = "close", !.slot = i - 1] /\ Unlock
    /\ UNCHANGED <<table, device, S, sent>>

\* A ClientHello on the socket of a connection
Reconnect(i) ==
    /\ R.pc = "serve" /\ Unicast = {} /\ First(i) /\ wire[conns[i].dev] = "hello"
    /\ R' = [R EXCEPT !.pc = "close", !.slot = i] /\ Unlock
    /\ UNCHANGED <<table, device, S, sent>>

\* Every slot is skipped: read() returns without unlocking.
NothingRead ==
    /\ Serve /\ Unicast = {} /\ \A i \in DOMAIN conns : ~PollIn(i)
    /\ UNCHANGED <<holder, table, device, S, sent>>

\* Variant: the socket is closed, the slot stays.
CloseKeepSlot ==
    /\ R.pc = "close" /\ R' = Polling
    /\ LET d == conns[R.slot].dev
       IN  wire' = [wire EXCEPT ![d] = "none"] /\ error' = [error EXCEPT ![d] = FALSE]
    /\ UNCHANGED <<table, session, holder, S, sent>>

\* Connections::close: the later slots move down, the socket and what it has
\* received are gone.
Close ==
    /\ R.pc = "close" /\ R' = Polling /\ conns' = RemoveAt(conns, R.slot)
    /\ LET d == conns[R.slot].dev
       IN  wire' = [wire EXCEPT ![d] = "none"] /\ error' = [error EXCEPT ![d] = FALSE]
    /\ UNCHANGED <<accepts, overrun, index, session, holder, S, sent>>

-----------------------------------------------------------------------------
(* unicast()                                                               *)

Take(d) ==
    /\ S.pc = "idle" /\ index[d] # -1 /\ S' = [S EXCEPT !.pc = "lock", !.to = d]
    /\ UNCHANGED <<table, device, holder, R, sent>>

LockSend ==
    /\ S.pc = "lock" /\ Lock("S") /\ S' = [S EXCEPT !.pc = "fetch"]
    /\ UNCHANGED <<table, device, R, sent>>

\* An index past the last slot finds no session.
GetClientSSL ==
    /\ S.pc = "fetch"
    /\ S' = [S EXCEPT !.pc = "write",
                      !.with = IF index[S.to] < Len(conns) THEN conns[index[S.to] + 1]
                                                           ELSE NoSession]
    /\ UNCHANGED <<table, device, holder, R, sent>>

\* A socket that reports an error sends nothing and forgets the error.
Write ==
    /\ S.pc = "write" /\ Unlock /\ S' = Waiting
    /\ LET d == S.with.dev
       IN  /\ sent' = [for |-> S.to, to |-> d]
           /\ error' = IF d = None THEN error
                       ELSE [error EXCEPT ![d] = Reports /\ Connected(d) /\ ~@ /\ session[d] = "down"]
    /\ UNCHANGED <<table, session, wire, R>>

-----------------------------------------------------------------------------
Read == \/ Poll \/ LockRead \/ NothingRead \/ Close
        \/ \E i \in DOMAIN conns : ReadData(i) \/ Reconnect(i)
        \/ \E d \in Devices : NotAccepted(d) \/ Accept(d)
Send == LockSend \/ GetClientSSL \/ Write
Next == Read \/ Send
        \/ \E d \in Devices : Hello(d) \/ Repeat(d) \/ Retransmit(d) \/ SendData(d) \/ Stop(d) \/ Take(d)

Spec == Init /\ [][Next]_vars
\* The tasks run on; a device repeats its ClientHello; a handshake that is
\* tried again and again succeeds; a mutex that is free again and again is taken.
Fairness ==
    /\ WF_vars(Read) /\ WF_vars(GetClientSSL \/ Write) /\ SF_vars(LockSend) /\ SF_vars(LockRead)
    /\ \A d \in Devices : WF_vars(Repeat(d)) /\ SF_vars(Accept(d))
FairSpec == Spec /\ Fairness

-----------------------------------------------------------------------------
(* A device gets what was sent to its Client and never another device's    *)
(* packet: the index in the Client's address is that of its connection.    *)
RightDevice == sent.to \in {sent.for, None}

(* unicast() finds a session to write to: SSL_write is not given NULL.     *)
Found == S.pc = "write" => S.with # NoSession

(* The Client's address no longer leads to the device's connection.        *)
Astray(d) ==
    index[d] # -1 /\ ~(index[d] + 1 \in DOMAIN conns /\ conns[index[d] + 1].dev = d)
(* An index goes astray only when Connections::close() closes a slot that  *)
(* is not after it, and what was sent astray was fetched with such an      *)
(* index: adding a connection and reading from one never do it.            *)
AstrayStep ==
    /\ \A d \in Devices : Astray(d)' => Astray(d) \/ (R.pc = "close" /\ R'.pc = "poll"
                                                         /\ R.slot <= index[d] + 1)
    /\ S'.pc = "write" /\ S'.with.dev # S.to => S.pc = "write" \/ Astray(S.to)
AstrayByClose == [][AstrayStep]_vars

(* Until the first connection is closed every packet of a Client that has  *)
(* its index from read() reaches the device it is for.                     *)
NoneClosed == Len(conns) = accepts
RightUntilClosed ==
    NoneClosed => /\ \A d \in Devices \ Listed : ~Astray(d)
                  /\ S.pc = "write" /\ S.to \notin Listed => S.with.dev = S.to
                  /\ sent.for \notin Listed => sent.to = sent.for

(* The session that unicast() has fetched is not freed before it is used.  *)
InUse == S.pc = "write" /\ S.with # NoSession => \E i \in DOMAIN conns : conns[i] = S.with

(* The arrays have a slot for every connection: no more than               *)
(* MaxNumberOfClients devices are connected at a time.                     *)
NoOverrun == ~overrun

(* read() returns with the mutex only when the network has reported a      *)
(* closed port, whatever else arrives, restarts or closes.                 *)
Keeps == R.pc = "serve" /\ R'.pc = "poll" /\ holder' = "R"
KeptByError == [][Keeps => R.errors # {} \/ \E d \in Devices : error[d]]_vars

(* A packet that ClientSendTask has taken is written: read() does not keep *)
(* the mutex while no port is reported closed.                             *)
SendEnds == S.pc # "idle" ~> S.pc = "idle"

(* A read that has something to read returns: it is to wait for six        *)
(* seconds at most.                                                        *)
ReadReturns == R.pc # "poll" ~> R.pc = "poll"

(* A device that says hello is connected, again after a restart too, even  *)
(* though its old connection still takes what it sends.                    *)
Accepted == \A d \in Devices : session[d] = "hello" ~> session[d] = "up" \/ accepts = MaxAccepts
=============================================================================
