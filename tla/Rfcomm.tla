-------------------------------- MODULE Rfcomm ------------------------------
(***************************************************************************)
(* The Bluetooth sensor network: one connection for each channel, read by  *)
(* ClientRecvTask and written by ClientSendTask.  A connection is whose it *)
(* is, the packets (numbers) that it has brought and nobody has read, and  *)
(* how it has ended, if it has.                                            *)
(***************************************************************************)
EXTENDS Integers, Sequences, FiniteSets, FiniteSetsExt, SequencesExt

CONSTANTS Devices,
          Channels,    \* of the MAX_RFCOMM_CH channels, those in use
          ChannelOf,   \* the channel a device connects to
          Ends,        \* how a connection may end: "reset" (an error), "end" (no more data)
          Apart,       \* whether a device sends or leaves only when read() has nothing to do
          MaxSent,     \* bound: packets of the devices
          MaxConnects, \* bound: connections
          None         \* no device
RfcommAssumption ==
       /\ Channels \subseteq Nat \ {0} /\ ChannelOf \in [Devices -> Channels]
       /\ Ends \subseteq {"reset", "end"} /\ Apart \in BOOLEAN
       /\ MaxSent \in Nat /\ MaxConnects \in Nat /\ None \notin Devices
VARIABLES sock,     \* _rfCommSock of each port
          backlog,  \* the connection that waits to be accepted
          sender,   \* _senderAddr: the device, or None
          R,        \* read(): the ports select has reported and not served, rc, buf
          got,      \* what ClientRecvTask was given: packets with the sender
          sent,     \* the last packet of ClientSendTask: for whom, to whom
          up,       \* the devices that are connected
          authors,  \* who sent each packet
          connects  \* connections made so far
vars == <<sock, backlog, sender, R, got, sent, up, authors, connects>>

NoConn == [dev |-> None, data |-> <<>>, end |-> "open"]
Selecting == [pc |-> "select", ready |-> {}, rc |-> 0, buf |-> 0]
Conns == [dev : Devices \cup {None}, data : Seq(1 .. MaxSent), end : {"open"} \cup Ends]

TypeOK ==
    /\ \A c \in Channels : {sock[c], backlog[c]} \subseteq Conns
    /\ sender \in Devices \cup {None} /\ up \subseteq Devices
    /\ R.pc \in {"select", "serve"} /\ R.ready \subseteq Channels
    /\ R.rc \in {-1, 0, 1} /\ R.buf \in 0 .. MaxSent

Init ==
    /\ sock = [c \in Channels |-> NoConn] /\ backlog = sock
    /\ sender = None /\ R = Selecting /\ got = <<>>
    /\ sent = [for |-> None, to |-> None]
    /\ up = {} /\ authors = <<>> /\ connects = 0

-----------------------------------------------------------------------------
(* The devices (external).                                                 *)

\* A connection that has taken the place of one that ended is still waiting.
Current(d) == IF backlog[ChannelOf[d]].dev = d THEN "backlog" ELSE "sock"
Brings(d, packets, end) ==
    LET c == ChannelOf[d]
        After(conn) == [conn EXCEPT !.data = @ \o packets, !.end = end]
    IN  IF Current(d) = "backlog"
        THEN backlog' = [backlog EXCEPT ![c] = After(@)] /\ UNCHANGED sock
        ELSE sock' = [sock EXCEPT ![c] = After(@)] /\ UNCHANGED backlog

\* A port waits for its connection's data or end, or for a connection.
Ready == {c \in Channels : IF sock[c] = NoConn THEN backlog[c] # NoConn
                           ELSE sock[c].data # <<>> \/ sock[c].end # "open"}
Quiet == R.pc = "select" /\ Ready = {}

\* A port has one connection: a device finds it free when the last one has gone.
DeviceConnects(d) ==
    LET c == ChannelOf[d]
    IN  /\ d \notin up /\ connects < MaxConnects
        /\ backlog[c] = NoConn /\ \A e \in up : ChannelOf[e] # c
        /\ backlog' = [backlog EXCEPT ![c] = [NoConn EXCEPT !.dev = d]]
        /\ up' = up \cup {d} /\ connects' = connects + 1
        /\ UNCHANGED <<sock, sender, R, got, sent, authors>>

DeviceSends(d) ==
    /\ d \in up /\ Len(authors) < MaxSent /\ (Apart => Quiet)
    /\ Brings(d, <<Len(authors) + 1>>, "open")
    /\ authors' = Append(authors, d)
    /\ UNCHANGED <<sender, R, got, sent, up, connects>>

DeviceLeaves(d, how) ==
    /\ d \in up /\ (Apart => Quiet)
    /\ Brings(d, <<>>, how) /\ up' = up \ {d}
    /\ UNCHANGED <<sender, R, got, sent, authors, connects>>

-----------------------------------------------------------------------------
(* read()                                                                  *)

Select ==
    /\ R.pc = "select" /\ Ready # {}
    /\ R' = [Selecting EXCEPT !.pc = "serve", !.ready = Ready]
    /\ UNCHANGED <<sock, backlog, sender, got, sent, up, authors, connects>>

Port == Min(R.ready)
Serving == R.pc = "serve" /\ R.ready # {}
Served(rc, buf) == R' = [R EXCEPT !.ready = @ \ {Port}, !.rc = rc, !.buf = buf]

close == [sock EXCEPT ![Port] = NoConn]

\* RfcommPort::recv takes all there is; the first packet of it is handled.
\* After the last byte it returns 0, again and again.
ServeRecv ==
    LET conn == sock[Port]
    IN  /\ Serving /\ conn # NoConn
        /\ \/ /\ conn.data # <<>> /\ Served(1, Head(conn.data))
              /\ sock' = [sock EXCEPT ![Port].data = <<>>]
           \/ /\ conn.data = <<>> /\ conn.end = "end" /\ Served(0, R.buf)
              /\ UNCHANGED sock
           \/ /\ conn.data = <<>> /\ conn.end = "reset" /\ Served(-1, R.buf)
              /\ sock' = close
        /\ UNCHANGED <<backlog, sender, got, sent, up, authors, connects>>

ServeAccept ==
    /\ Serving /\ sock[Port] = NoConn
    /\ sock' = [sock EXCEPT ![Port] = backlog[Port]]
    /\ backlog' = [backlog EXCEPT ![Port] = NoConn]
    /\ sender' = backlog[Port].dev
    /\ Served(R.rc, R.buf)
    /\ UNCHANGED <<got, sent, up, authors, connects>>

\* ClientRecvTask ignores a result below 2: here, what is not positive.
Return ==
    /\ R.pc = "serve" /\ R.ready = {} /\ R' = [R EXCEPT !.pc = "select"]
    /\ got' = IF R.rc > 0 THEN Append(got, [packet |-> R.buf, from |-> sender]) ELSE got
    /\ UNCHANGED <<sock, backlog, sender, sent, up, authors, connects>>

-----------------------------------------------------------------------------
\* unicast() for the Client of a device that was heard.
Unicast(d) ==
    LET c == ChannelOf[d]
    IN  /\ \E i \in DOMAIN got : got[i].from = d
        /\ sock[c] # NoConn
        /\ sent' = [for |-> d, to |-> sock[c].dev]
        /\ UNCHANGED <<sock, backlog, sender, R, got, up, authors, connects>>

Read == Select \/ ServeRecv \/ ServeAccept \/ Return
Next ==
    \/ Read
    \/ \E d \in Devices :
        \/ DeviceConnects(d)
        \/ DeviceSends(d)
        \/ \E how \in Ends : DeviceLeaves(d, how)
        \/ Unicast(d)

Spec == Init /\ [][Next]_vars
FairSpec == Spec /\ WF_vars(Read)

-----------------------------------------------------------------------------
(* When one port at a time has something to read (a later one replaces the *)
(* packet and the result of an earlier one), every packet is handed on     *)
(* once and in order, over connections that come and go.                   *)
InOrder == \A i \in DOMAIN got : got[i].packet = i

(* A connection that waits is accepted or its device leaves: the port of a *)
(* connection that was reset is given free; that of one that came to its   *)
(* end is not, which is the exception.                                     *)
Accepted ==
    \A d \in Devices :
        LET c == ChannelOf[d]
        IN  backlog[c].dev = d ~> backlog[c].dev # d \/ d \notin up \/ sock[c].end = "end"

(* getSenderAddress(), which ClientRecvTask::run() looks the Client up     *)
(* with, is the address of the device that sent the packet.                *)
RightSender == \A i \in DOMAIN got : got[i].from = authors[got[i].packet]

(* What unicast() is given for a Client reaches the Client's device.       *)
RightDevice == sent.for = sent.to
=============================================================================
