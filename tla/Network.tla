------------------------------ MODULE Network -------------------------------
(***************************************************************************)
(* The gateway's connections to the broker: TCPStack and Network, as       *)
(* BrokerSendTask ("S") and BrokerRecvTask ("R") use them.                 *)
(***************************************************************************)
EXTENDS Integers, Sequences, FiniteSets

CONSTANTS Clients, Secure, \* whether the connections are TLS connections
          Tickets,         \* whether the broker sends a session ticket first
          Kinds,           \* MQTT packets to send: "CONNECT", "other", "DISCONNECT"
          MaxPackets       \* bound: packets of the broker
VARIABLES sock, ssl, sslValid, busy, \* _sockfd > 0, _ssl, _sslValid, _busy
          holder,                    \* who holds _mutex
          instances, ctx,            \* _numOfInstance, _ctx
          broker, greeted,           \* the broker's end; whether it has got CONNECT
          input, half, packets,      \* what is on the way to the gateway, whether the
                                     \* rest of a packet is not yet; packets begun
          active,                    \* the clients that are Active, Asleep or Awake
          S, R                       \* where the two tasks are
own == <<sock, ssl, sslValid, busy, instances, ctx>>
peer == <<broker, greeted, input, half, packets>>
vars == <<own, holder, peer, active, S, R>>

Idle == [pc |-> "idle"]

Init ==
    /\ sock = [c \in Clients |-> FALSE] /\ ssl = sock /\ sslValid = sock /\ busy = sock
    /\ greeted = sock /\ half = sock /\ active = sock
    /\ holder = [c \in Clients |-> "none"] /\ broker = holder
    /\ instances = 0 /\ ctx = FALSE
    /\ input = [c \in Clients |-> <<>>] /\ packets = 0
    /\ S = Idle /\ R = Idle

IsValid(c) == sock[c] /\ (Secure => sslValid[c] /\ ~busy[c])
Free(c) == holder[c] = "none"
At(pc) == S.pc = pc
Goto(pc) == S' = [S EXCEPT !.pc = pc]
Lock(c, task) == holder' = [holder EXCEPT ![c] = task]

-----------------------------------------------------------------------------
(* Closing                                                                 *)

\* Variant: the connection is closed without _mutex.
CloseAnyTime(c) ==
    /\ sock' = [sock EXCEPT ![c] = FALSE] /\ ssl' = [ssl EXCEPT ![c] = FALSE]
    /\ instances' = IF ssl[c] THEN instances - 1 ELSE instances
    /\ sslValid' = [sslValid EXCEPT ![c] = @ /\ ~ssl[c]]
    /\ busy' = [busy EXCEPT ![c] = @ /\ ~ssl[c]]
    /\ ctx' = (ctx /\ instances' # 0)
    /\ broker' = [broker EXCEPT ![c] = "none"] /\ greeted' = [greeted EXCEPT ![c] = FALSE]
    /\ input' = [input EXCEPT ![c] = <<>>] /\ half' = [half EXCEPT ![c] = FALSE]
    /\ UNCHANGED packets

Close(c) ==
    /\ Free(c)
    /\ sock' = [sock EXCEPT ![c] = FALSE] /\ ssl' = [ssl EXCEPT ![c] = FALSE]
    /\ instances' = IF ssl[c] THEN instances - 1 ELSE instances
    /\ sslValid' = [sslValid EXCEPT ![c] = @ /\ ~ssl[c]]
    /\ busy' = [busy EXCEPT ![c] = @ /\ ~ssl[c]]
    /\ ctx' = (ctx /\ instances' # 0)
    /\ broker' = [broker EXCEPT ![c] = "none"] /\ greeted' = [greeted EXCEPT ![c] = FALSE]
    /\ input' = [input EXCEPT ![c] = <<>>] /\ half' = [half EXCEPT ![c] = FALSE]
    /\ UNCHANGED packets

-----------------------------------------------------------------------------
(* BrokerSendTask                                                          *)

Take(c, kind) ==
    /\ At("idle")
    /\ S' = [pc |-> CASE kind = "CONNECT" /\ IsValid(c) -> "reopen"
                      [] kind # "CONNECT" /\ IsValid(c) -> "send"
                      [] OTHER -> "connect", c |-> c, kind |-> kind]
    /\ UNCHANGED <<own, holder, peer, active, R>>

Reopen == At("reopen") /\ Close(S.c) /\ Goto("connect") /\ UNCHANGED <<holder, active, R>>

\* The context is made before the socket is connected and used afterwards.
Connect ==
    /\ At("connect") /\ Free(S.c) /\ Lock(S.c, "S") /\ Goto("tcp")
    /\ ctx' = (ctx \/ Secure)
    /\ UNCHANGED <<sock, ssl, sslValid, busy, instances, peer, active, R>>

Unlocked(pc) == Goto(pc) /\ Lock(S.c, "none")

\* Both connects keep a socket that is open.
TcpConnect ==
    /\ At("tcp")
    /\ IF sock[S.c] THEN UNCHANGED <<sock, broker>>
       ELSE /\ sock' = [sock EXCEPT ![S.c] = TRUE] /\ broker' = [broker EXCEPT ![S.c] = "tcp"]
    /\ IF Secure THEN Goto("new") /\ UNCHANGED holder ELSE Unlocked("send")
    /\ UNCHANGED <<ssl, sslValid, busy, instances, ctx, greeted, input, half, packets, active, R>>

\* Variant: _mutex stays locked.
TcpRefusedLocked ==
    /\ At("tcp") /\ ~sock[S.c] /\ Goto("refused")
    /\ UNCHANGED <<own, holder, peer, active, R>>

TcpRefused ==
    /\ At("tcp") /\ ~sock[S.c] /\ Unlocked("refused")
    /\ UNCHANGED <<own, peer, active, R>>

SslNew ==
    /\ At("new") /\ ssl' = [ssl EXCEPT ![S.c] = ctx]
    /\ IF ctx THEN Goto("handshake") /\ UNCHANGED holder ELSE Unlocked("failed")
    /\ UNCHANGED <<sock, sslValid, busy, instances, ctx, peer, active, R>>

SslConnect ==
    /\ At("handshake") /\ broker[S.c] = "tcp" /\ Unlocked("send")
    /\ broker' = [broker EXCEPT ![S.c] = "tls"]
    /\ input' = [input EXCEPT ![S.c] = IF Tickets THEN <<"ticket">> ELSE <<>>]
    /\ instances' = instances + 1 /\ sslValid' = [sslValid EXCEPT ![S.c] = TRUE]
    /\ UNCHANGED <<sock, ssl, busy, ctx, greeted, half, packets, active, R>>

\* The broker's certificate is refused, or the broker is not in a handshake.
SslFailed ==
    /\ At("handshake") /\ ssl' = [ssl EXCEPT ![S.c] = FALSE]
    /\ Unlocked(IF broker[S.c] = "tls" THEN "failed" ELSE "refused")
    /\ broker' = [broker EXCEPT ![S.c] = "closed"]
    /\ UNCHANGED <<sock, sslValid, busy, instances, ctx, greeted, input, half, packets, active, R>>

Sent(ok) == IF ok THEN "sent" ELSE "unsent"

\* A write to a broker that has closed may still succeed.
PlainSend ==
    /\ At("send") /\ ~Secure
    /\ \E ok \in BOOLEAN : (broker[S.c] = "tcp" => ok) /\ (~sock[S.c] => ~ok) /\ Goto(Sent(ok))
    /\ greeted' = [greeted EXCEPT ![S.c] = @ \/ (broker[S.c] = "tcp" /\ S.kind = "CONNECT")]
    /\ UNCHANGED <<own, holder, broker, input, half, packets, active, R>>

BeginSend ==
    /\ At("send") /\ Secure /\ Free(S.c)
    /\ IF ssl[S.c] THEN busy' = [busy EXCEPT ![S.c] = TRUE] /\ Lock(S.c, "S") /\ Goto("writing")
       ELSE Goto("unsent") /\ UNCHANGED <<busy, holder>>
    /\ UNCHANGED <<sock, ssl, sslValid, instances, ctx, peer, active, R>>

EndSend ==
    /\ At("writing") /\ busy' = [busy EXCEPT ![S.c] = FALSE] /\ Lock(S.c, "none")
    /\ \E ok \in BOOLEAN : (broker[S.c] = "tls" => ok) /\ Goto(Sent(ok))
    /\ greeted' = [greeted EXCEPT ![S.c] = @ \/ (broker[S.c] = "tls" /\ S.kind = "CONNECT")]
    /\ UNCHANGED <<sock, ssl, sslValid, instances, ctx, broker, input, half, packets, active, R>>

\* connectSended and disconnected: the client is not Active.
Finish ==
    /\ At("sent") /\ S.kind # "DISCONNECT" /\ S' = Idle
    /\ active' = [active EXCEPT ![S.c] = @ /\ S.kind # "CONNECT"]
    /\ UNCHANGED <<own, holder, peer, R>>

GiveUp ==
    /\ S.pc \in {"refused", "failed", "unsent"} \/ (At("sent") /\ S.kind = "DISCONNECT")
    /\ Close(S.c) /\ S' = Idle
    /\ active' = [active EXCEPT ![S.c] = @ /\ S.pc # "sent"]
    /\ UNCHANGED <<holder, R>>

-----------------------------------------------------------------------------
(* BrokerRecvTask                                                          *)

Head1(c) == Head(input[c])
Readable(c) == input[c] # <<>> \/ broker[c] = "closed"

Select(c) ==
    /\ R.pc = "idle" /\ IsValid(c) /\ Readable(c)
    /\ R' = [pc |-> "recv", c |-> c, part |-> "header"]
    /\ UNCHANGED <<own, holder, peer, active, S>>

\* MQTTGWPacket::recv reads the header, the length and the rest; when 0 is
\* returned for the length it goes on with what c happens to hold.
Part(part) == [R EXCEPT !.pc = "recv", !.part = part]
Returns(rc) ==
    \/ rc = "read" /\ R' = CASE R.part = "header" -> Part("length")
                              [] R.part = "length" -> Part("payload")
                              [] OTHER -> Idle
    \/ rc = "0" /\ R.part = "header" /\ R' = [R EXCEPT !.pc = "gone"]
    \/ rc = "0" /\ R.part = "length" /\ R' = Part("payload")
    \/ (rc = "short" \/ (rc = "0" /\ R.part # "header")) /\ R' = [R EXCEPT !.pc = "invalid"]
    \/ rc = "-1" /\ R' = [R EXCEPT !.pc = "error"]

\* One recv takes what has come, over TLS one record at most.
Whole(c) == input[c][1] = "part" /\ ~Secure /\ Len(input[c]) > 1
Taken(c) == IF R.part = "payload" /\ Whole(c) THEN 2 ELSE 1
Results(c) ==
    CASE R.part # "payload" \/ input[c][1] = "payload" -> {"read"}
      [] R.part = "payload" /\ input[c][1] = "part" -> {IF Whole(c) THEN "read" ELSE "short"}
      [] OTHER -> {"read", "short"}
Consume(c) ==
    /\ input' = [input EXCEPT ![c] = SubSeq(@, Taken(c) + 1, Len(@))]
    /\ \E rc \in Results(c) : /\ Returns(rc)
                              /\ active' = [active EXCEPT ![c] = @ \/ (R.part = "payload" /\ rc = "read")]
    /\ UNCHANGED <<broker, greeted, half, packets>>

PlainRecv ==
    /\ R.pc = "recv" /\ ~Secure
    /\ CASE ~sock[R.c] -> Returns("-1") /\ UNCHANGED <<peer, active>>
         [] sock[R.c] /\ input[R.c] # <<>> -> Consume(R.c)
         [] sock[R.c] /\ input[R.c] = <<>> -> broker[R.c] = "closed" /\ Returns("0") /\ UNCHANGED <<peer, active>>
    /\ UNCHANGED <<own, holder, S>>

BeginRecv ==
    /\ R.pc = "recv" /\ Secure
    /\ IF busy[R.c] \/ ~ssl[R.c]
       THEN (busy[R.c] \/ Free(R.c)) /\ Returns("0") /\ UNCHANGED <<busy, holder>>
       ELSE Free(R.c) /\ busy' = [busy EXCEPT ![R.c] = TRUE] /\ Lock(R.c, "R") /\ R' = [R EXCEPT !.pc = "reading"]
    /\ UNCHANGED <<sock, ssl, sslValid, instances, ctx, peer, active, S>>

\* SSL_read goes on behind a ticket, and waits for data with _mutex held.
SkipTicket ==
    /\ R.pc = "reading" /\ input[R.c] # <<>> /\ Head1(R.c) = "ticket"
    /\ input' = [input EXCEPT ![R.c] = Tail(@)]
    /\ UNCHANGED <<own, holder, broker, greeted, half, packets, active, S, R>>

EndRecv ==
    /\ R.pc = "reading" /\ Lock(R.c, "none") /\ busy' = [busy EXCEPT ![R.c] = FALSE]
    /\ \/ /\ input[R.c] # <<>> /\ Head1(R.c) # "ticket" /\ Consume(R.c)
          /\ UNCHANGED <<ssl, instances>>
       \/ /\ input[R.c] = <<>> /\ broker[R.c] = "closed" /\ Returns("-1")
          /\ ssl' = [ssl EXCEPT ![R.c] = FALSE] /\ instances' = instances - 1
          /\ UNCHANGED <<peer, active>>
    /\ UNCHANGED <<sock, sslValid, ctx, S>>

CloseGone ==
    /\ R.pc = "gone" \/ (R.pc \in {"invalid", "error"} /\ active[R.c])
    /\ Close(R.c) /\ active' = [active EXCEPT ![R.c] = FALSE] /\ R' = Idle
    /\ UNCHANGED <<holder, S>>
Ignore ==
    /\ R.pc \in {"invalid", "error"} /\ ~active[R.c] /\ R' = Idle
    /\ UNCHANGED <<own, holder, peer, active, S>>

-----------------------------------------------------------------------------
(* The broker                                                              *)

Open(c) == broker[c] = IF Secure THEN "tls" ELSE "tcp"

\* A packet comes whole or in two pieces.
BrokerSends(c) ==
    /\ Open(c) /\ greeted[c] /\ ~half[c] /\ packets < MaxPackets /\ packets' = packets + 1
    /\ \E last \in {"payload", "part"} :
          /\ input' = [input EXCEPT ![c] = @ \o <<"header", "length", last>>]
          /\ half' = [half EXCEPT ![c] = last = "part"]
    /\ UNCHANGED <<own, holder, broker, greeted, active, S, R>>
BrokerSendsRest(c) ==
    /\ half[c] /\ Open(c)
    /\ input' = [input EXCEPT ![c] = Append(@, "rest")] /\ half' = [half EXCEPT ![c] = FALSE]
    /\ UNCHANGED <<own, holder, broker, greeted, packets, active, S, R>>
BrokerCloses(c) ==
    /\ broker[c] \in {"tcp", "tls"} /\ broker' = [broker EXCEPT ![c] = "closed"]
    /\ UNCHANGED <<own, holder, greeted, input, half, packets, active, S, R>>
BrokerNext == \E c \in Clients : BrokerSends(c) \/ BrokerSendsRest(c) \/ BrokerCloses(c)

SStep == Reopen \/ Connect \/ TcpConnect \/ TcpRefused \/ SslNew
         \/ SslConnect \/ SslFailed \/ PlainSend \/ BeginSend \/ EndSend \/ Finish \/ GiveUp
SNext == (\E c \in Clients, k \in Kinds : Take(c, k)) \/ SStep
RNext == (\E c \in Clients : Select(c)) \/ PlainRecv \/ BeginRecv \/ SkipTicket \/ EndRecv \/ CloseGone \/ Ignore
Next == SNext \/ RNext \/ BrokerNext
Spec == Init /\ [][Next]_vars

\* Both tasks go on; the broker sends the rest of what it began.
Fairness ==
    /\ WF_vars(SStep) /\ WF_vars(RNext)
    /\ \A c \in Clients : WF_vars(BrokerSendsRest(c))
FairSpec == Spec /\ Fairness

-----------------------------------------------------------------------------
(* Properties                                                              *)

\* InUse: an SSL is not freed while one of the tasks reads or writes it
\* (Network.cpp:441, 526).
InUse ==
    /\ S.pc \in {"handshake", "writing"} => ssl[S.c]
    /\ R.pc = "reading" => ssl[R.c] /\ busy[R.c]

\* GoneIsGone: a connection that is said to be closed by the broker is
\* (MQTTSNGWBrokerRecvTask.cpp:139).
GoneIsGone == [][R.pc # "gone" /\ R'.pc = "gone" => ~Open(R.c)]_vars

\* RefusedIsRefused: a connection is not made only if the broker refuses it
\* (MQTTSNGWBrokerSendTask.cpp:109).
RefusedIsRefused == S.pc # "failed"

\* LengthIsInvalid: no packet of a broker that keeps to the protocol is said
\* to be of invalid length (MQTTSNGWBrokerRecvTask.cpp:154).
LengthIsInvalid == R.pc = "invalid" => ~Open(R.c)

\* Aligned: a packet is read from its first byte on
\* (MQTTGWPacket.cpp:190).
Aligned == [][\A c \in Clients : R.pc \in {"recv", "reading"} /\ R.part = "header" /\ input'[R.c] # input[R.c]
                  /\ (PlainRecv \/ EndRecv) => input[R.c][1] = "header"]_vars

\* EventDone: BrokerSendTask comes to the end of every event
\* (MQTTSNGWBrokerSendTask.cpp:93).
EventDone == ~At("idle") ~> At("idle")
=============================================================================
