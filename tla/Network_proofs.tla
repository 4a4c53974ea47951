--------------------------- MODULE Network_proofs ---------------------------
(***************************************************************************)
(* An SSL of a connection to the broker is not freed while one of the      *)
(* tasks shakes hands, reads or writes with it, for any number of clients, *)
(* with TLS and without.                                                   *)
(*                                                                         *)
(* InUse is not inductive: nothing in it keeps the other task from closing *)
(* the connection.  What does is that the task at work holds the           *)
(* connection's _mutex, from Connect on to the end of the handshake and    *)
(* during a read or a write.                                               *)
(***************************************************************************)
EXTENDS Network, TLAPS

(* Where the tasks are while they are at work.                             *)
SPlace == {"reopen", "connect", "tcp", "new", "handshake", "refused", "failed",
           "send", "writing", "sent", "unsent"}
RPlace == {"recv", "reading", "gone", "invalid", "error"}
SState == [pc : SPlace, c : Clients, kind : Kinds]
RState == [pc : RPlace, c : Clients, part : {"header", "length", "payload"}]

(* What the proof needs of the types.                                      *)
FlagsTyped ==
    /\ ssl \in [Clients -> BOOLEAN] /\ busy \in [Clients -> BOOLEAN] /\ ctx \in BOOLEAN
    /\ holder \in [Clients -> {"none", "S", "R"}]

(* Whoever connects, writes or reads over TLS holds _mutex, and has an SSL *)
(* in the calls that use it.                                               *)
SHolds ==
    /\ S = Idle \/ S \in SState
    /\ S.pc \in {"tcp", "new", "handshake", "writing"} => holder[S.c] = "S"
    /\ S.pc \in {"handshake", "writing"} => ssl[S.c]

RHolds ==
    /\ R = Idle \/ R \in RState
    /\ R.pc = "reading" => holder[R.c] = "R" /\ ssl[R.c] /\ busy[R.c]

UseInv == FlagsTyped /\ SHolds /\ RHolds

LEMMA UseInit == Init => UseInv
<1> SUFFICES ASSUME Init PROVE UseInv
  OBVIOUS
<1>1. FlagsTyped
  BY DEF Init, FlagsTyped
<1>2. SHolds /\ RHolds
  BY DEF Init, SHolds, RHolds, Idle
<1> QED
  BY <1>1, <1>2 DEF UseInv

-----------------------------------------------------------------------------
(* A step of one task keeps the other's part when it leaves the            *)
(* connections that the other holds as they are.                           *)
LeavesR == /\ R' = R
           /\ \A c \in Clients : holder[c] = "R" =>
                  holder'[c] = "R" /\ ssl'[c] = ssl[c] /\ busy'[c] = busy[c]
LeavesS == /\ S' = S
           /\ \A c \in Clients : holder[c] = "S" => holder'[c] = "S" /\ ssl'[c] = ssl[c]

LEMMA RStays == ASSUME RHolds, LeavesR PROVE RHolds'
<1>1. CASE R = Idle
  BY <1>1 DEF RHolds, LeavesR, Idle
<1>2. CASE R \in RState
  BY <1>2 DEF RHolds, LeavesR, RState
<1> QED
  BY <1>1, <1>2 DEF RHolds

LEMMA SStays == ASSUME SHolds, LeavesS PROVE SHolds'
<1>1. CASE S = Idle
  BY <1>1 DEF SHolds, LeavesS, Idle
<1>2. CASE S \in SState
  BY <1>2 DEF SHolds, LeavesS, SState
<1> QED
  BY <1>1, <1>2 DEF SHolds

(* Closing waits until nobody holds the connection.                        *)
LEMMA CloseLeaves ==
    ASSUME FlagsTyped, NEW c \in Clients, Close(c), holder' = holder
    PROVE  FlagsTyped' /\ (R' = R => LeavesR) /\ (S' = S => LeavesS)
  BY DEF FlagsTyped, Close, Free, LeavesR, LeavesS

-----------------------------------------------------------------------------
(* BrokerSendTask                                                          *)

(* It is at work on an event, and goes on with it.                         *)
LEMMA SAtWork ==
    ASSUME SHolds, S.pc # "idle"
    PROVE  S \in SState /\ S.c \in Clients
  BY DEF SHolds, SState, Idle

LEMMA SGoesOn ==
    ASSUME S \in SState, NEW pc \in SPlace, Goto(pc)
    PROVE  S' \in SState /\ S'.pc = pc /\ S'.c = S.c
  BY DEF Goto, SState

LEMMA SIdles == ASSUME S' = Idle PROVE SHolds'
  BY DEF SHolds, Idle

LEMMA SendKeeps == ASSUME UseInv, SNext PROVE UseInv'
<1> USE DEF UseInv
<1>1. CASE \E c \in Clients, k \in Kinds : Take(c, k)
  <2>1. PICK c \in Clients, k \in Kinds : Take(c, k)
    BY <1>1
  <2>2. S' \in SState /\ S'.pc \in {"reopen", "send", "connect"}
    BY <2>1 DEF Take, SState, SPlace
  <2>3. FlagsTyped' /\ LeavesR
    BY <2>1 DEF Take, own, FlagsTyped, LeavesR
  <2> QED
    BY <2>2, <2>3, RStays DEF SHolds
<1>2. CASE Reopen
  <2>1. S \in SState /\ S.c \in Clients
    BY <1>2, SAtWork DEF Reopen, At
  <2>2. S' \in SState /\ S'.pc = "connect"
    BY <1>2, <2>1, SGoesOn DEF Reopen, SPlace
  <2>3. FlagsTyped' /\ LeavesR
    BY <1>2, <2>1, CloseLeaves DEF Reopen
  <2> QED
    BY <2>2, <2>3, RStays DEF SHolds
<1>3. CASE Connect
  <2>1. S \in SState /\ S.c \in Clients
    BY <1>3, SAtWork DEF Connect, At
  <2>2. S' \in SState /\ S'.c = S.c /\ S'.pc \in {"tcp"}
    BY <1>3, <2>1, SGoesOn DEF Connect, SPlace
  <2>3. FlagsTyped' /\ LeavesR
    BY <1>3, <2>1 DEF Connect, At, Lock, Free, FlagsTyped, LeavesR, SHolds
  <2>4. holder'[S.c] = "S"
    BY <1>3, <2>1, <2>2, SGoesOn DEF Connect, At, Lock, Free, FlagsTyped, SHolds, SPlace
  <2> QED
    BY <2>2, <2>3, <2>4, RStays DEF SHolds
<1>4. CASE TcpConnect
  <2>1. S \in SState /\ S.c \in Clients
    BY <1>4, SAtWork DEF TcpConnect, At
  <2>2. S' \in SState /\ S'.c = S.c /\ S'.pc \in {"new", "send"}
    BY <1>4, <2>1, SGoesOn DEF TcpConnect, Unlocked, SPlace
  <2>3. FlagsTyped' /\ LeavesR
    BY <1>4, <2>1 DEF TcpConnect, At, Unlocked, Lock, FlagsTyped, LeavesR, SHolds
  <2>4. S'.pc = "new" => holder'[S.c] = "S"
    BY <1>4, <2>1, <2>2, SGoesOn DEF TcpConnect, At, Unlocked, Lock, FlagsTyped, SHolds, SPlace
  <2> QED
    BY <2>2, <2>3, <2>4, RStays DEF SHolds
<1>5. CASE TcpRefused
  <2>1. S \in SState /\ S.c \in Clients
    BY <1>5, SAtWork DEF TcpRefused, At
  <2>2. S' \in SState /\ S'.c = S.c /\ S'.pc \in {"refused"}
    BY <1>5, <2>1, SGoesOn DEF TcpRefused, Unlocked, SPlace
  <2>3. FlagsTyped' /\ LeavesR
    BY <1>5, <2>1 DEF TcpRefused, At, Unlocked, Lock, own, FlagsTyped, LeavesR, SHolds
  <2> QED
    BY <2>2, <2>3, RStays DEF SHolds
<1>6. CASE SslNew
  <2>1. S \in SState /\ S.c \in Clients
    BY <1>6, SAtWork DEF SslNew, At
  <2>2. S' \in SState /\ S'.c = S.c /\ S'.pc \in {"handshake", "failed"}
    BY <1>6, <2>1, SGoesOn DEF SslNew, Unlocked, SPlace
  <2>3. FlagsTyped' /\ LeavesR
    BY <1>6, <2>1 DEF SslNew, At, Unlocked, Lock, FlagsTyped, LeavesR, SHolds
  <2>4. S'.pc = "handshake" => holder'[S.c] = "S" /\ ssl'[S.c]
    BY <1>6, <2>1, <2>2, SGoesOn DEF SslNew, At, Unlocked, Lock, FlagsTyped, SHolds, SPlace
  <2> QED
    BY <2>2, <2>3, <2>4, RStays DEF SHolds
<1>7. CASE SslConnect
  <2>1. S \in SState /\ S.c \in Clients
    BY <1>7, SAtWork DEF SslConnect, At
  <2>2. S' \in SState /\ S'.c = S.c /\ S'.pc \in {"send"}
    BY <1>7, <2>1, SGoesOn DEF SslConnect, Unlocked, SPlace
  <2>3. FlagsTyped' /\ LeavesR
    BY <1>7, <2>1 DEF SslConnect, At, Unlocked, Lock, FlagsTyped, LeavesR, SHolds
  <2> QED
    BY <2>2, <2>3, RStays DEF SHolds
<1>8. CASE SslFailed
  <2>1. S \in SState /\ S.c \in Clients
    BY <1>8, SAtWork DEF SslFailed, At
  <2>2. S' \in SState /\ S'.c = S.c /\ S'.pc \in {"failed", "refused"}
    BY <1>8, <2>1, SGoesOn DEF SslFailed, Unlocked, SPlace
  <2>3. FlagsTyped' /\ LeavesR
    BY <1>8, <2>1 DEF SslFailed, At, Unlocked, Lock, FlagsTyped, LeavesR, SHolds
  <2> QED
    BY <2>2, <2>3, RStays DEF SHolds
<1>9. CASE PlainSend
  <2>1. S \in SState /\ S.c \in Clients
    BY <1>9, SAtWork DEF PlainSend, At
  <2>2. S' \in SState /\ S'.c = S.c /\ S'.pc \in {"sent", "unsent"}
    BY <1>9, <2>1, SGoesOn DEF PlainSend, Sent, SPlace
  <2>3. FlagsTyped' /\ LeavesR
    BY <1>9, <2>1 DEF PlainSend, At, own, FlagsTyped, LeavesR, SHolds
  <2> QED
    BY <2>2, <2>3, RStays DEF SHolds
<1>10. CASE BeginSend
  <2>1. S \in SState /\ S.c \in Clients
    BY <1>10, SAtWork DEF BeginSend, At
  <2>2. S' \in SState /\ S'.c = S.c /\ S'.pc \in {"writing", "unsent"}
    BY <1>10, <2>1, SGoesOn DEF BeginSend, SPlace
  <2>3. FlagsTyped' /\ LeavesR
    BY <1>10, <2>1 DEF BeginSend, At, Lock, Free, FlagsTyped, LeavesR, SHolds
  <2>4. S'.pc = "writing" => holder'[S.c] = "S" /\ ssl'[S.c]
    BY <1>10, <2>1, <2>2, SGoesOn DEF BeginSend, At, Lock, Free, FlagsTyped, SHolds, SPlace
  <2> QED
    BY <2>2, <2>3, <2>4, RStays DEF SHolds
<1>11. CASE EndSend
  <2>1. S \in SState /\ S.c \in Clients
    BY <1>11, SAtWork DEF EndSend, At
  <2>2. S' \in SState /\ S'.c = S.c /\ S'.pc \in {"sent", "unsent"}
    BY <1>11, <2>1, SGoesOn DEF EndSend, Sent, SPlace
  <2>3. FlagsTyped' /\ LeavesR
    BY <1>11, <2>1 DEF EndSend, At, Lock, FlagsTyped, LeavesR, SHolds
  <2> QED
    BY <2>2, <2>3, RStays DEF SHolds
<1>12. CASE Finish
  BY <1>12, SIdles, RStays DEF Finish, own, FlagsTyped, LeavesR
<1>13. CASE GiveUp
  <2>1. S \in SState /\ S.c \in Clients
    BY <1>13, SAtWork DEF GiveUp, At
  <2> QED
    BY <1>13, <2>1, CloseLeaves, SIdles, RStays DEF GiveUp
<1> QED
  BY <1>1, <1>2, <1>3, <1>4, <1>5, <1>6, <1>7, <1>8, <1>9, <1>10, <1>11, <1>12, <1>13
  DEF SNext, SStep

-----------------------------------------------------------------------------
(* BrokerRecvTask                                                          *)

LEMMA RAtWork ==
    ASSUME RHolds, R.pc # "idle"
    PROVE  R \in RState /\ R.c \in Clients
  BY DEF RHolds, RState, Idle

(* A read that has returned leaves it outside Network.                     *)
LEMMA ReturnsElsewhere ==
    ASSUME R \in RState, NEW rc, Returns(rc)
    PROVE  RHolds'
<1>1. CASE R' = Idle
  BY <1>1 DEF RHolds, Idle
<1>2. CASE R' # Idle
  <2>1. R' = Part("length") \/ R' = Part("payload")
        \/ \E pc \in {"gone", "invalid", "error"} : R' = [R EXCEPT !.pc = pc]
    BY <1>2 DEF Returns
  <2>2. R' \in RState /\ R'.pc # "reading"
    BY <2>1 DEF Part, RState, RPlace
  <2> QED
    BY <2>2 DEF RHolds
<1> QED
  BY <1>1, <1>2

LEMMA RecvKeeps == ASSUME UseInv, RNext PROVE UseInv'
<1> USE DEF UseInv
<1>1. CASE \E c \in Clients : Select(c)
  <2>1. R' \in RState /\ R'.pc = "recv"
    BY <1>1 DEF Select, RState, RPlace
  <2>2. FlagsTyped' /\ LeavesS
    BY <1>1 DEF Select, own, FlagsTyped, LeavesS
  <2> QED
    BY <2>1, <2>2, SStays DEF RHolds
<1>2. CASE PlainRecv
  <2>1. R \in RState /\ \E rc : Returns(rc)
    BY <1>2, RAtWork DEF PlainRecv, Consume
  <2>2. FlagsTyped' /\ LeavesS
    BY <1>2 DEF PlainRecv, own, FlagsTyped, LeavesS
  <2> QED
    BY <2>1, <2>2, ReturnsElsewhere, SStays
<1>3. CASE BeginRecv
  <2>1. R \in RState /\ R.c \in Clients
    BY <1>3, RAtWork DEF BeginRecv
  <2>2. FlagsTyped' /\ LeavesS
    BY <1>3, <2>1 DEF BeginRecv, Lock, Free, FlagsTyped, LeavesS
  <2>3. CASE busy[R.c] \/ ~ssl[R.c]
    BY <1>3, <2>1, <2>2, <2>3, ReturnsElsewhere, SStays DEF BeginRecv
  <2>4. CASE ~(busy[R.c] \/ ~ssl[R.c])
    <3>1. R' \in RState /\ R'.c = R.c /\ holder'[R.c] = "R" /\ ssl'[R.c] /\ busy'[R.c]
      BY <1>3, <2>1, <2>4 DEF BeginRecv, Lock, FlagsTyped, RState, RPlace
    <3> QED
      BY <2>2, <3>1, SStays DEF RHolds
  <2> QED
    BY <2>3, <2>4
<1>4. CASE SkipTicket
  BY <1>4, RStays, SStays DEF SkipTicket, own, FlagsTyped, LeavesR, LeavesS
<1>5. CASE EndRecv
  <2>1. R \in RState /\ R.c \in Clients /\ holder[R.c] = "R"
    BY <1>5, RAtWork DEF EndRecv, RHolds
  <2>2. \E rc : Returns(rc)
    BY <1>5 DEF EndRecv, Consume
  <2>3. /\ ssl' = ssl \/ ssl' = [ssl EXCEPT ![R.c] = FALSE]
        /\ busy' = [busy EXCEPT ![R.c] = FALSE]
        /\ holder' = [holder EXCEPT ![R.c] = "none"]
        /\ S' = S /\ ctx' = ctx
    BY <1>5 DEF EndRecv, Lock
  <2>4. FlagsTyped' /\ LeavesS
    BY <2>1, <2>3 DEF FlagsTyped, LeavesS
  <2> QED
    BY <2>1, <2>2, <2>4, ReturnsElsewhere, SStays
<1>6. CASE CloseGone
  <2>1. R.c \in Clients
    BY <1>6, RAtWork DEF CloseGone
  <2>2. FlagsTyped' /\ LeavesS
    BY <1>6, <2>1, CloseLeaves DEF CloseGone
  <2> QED
    BY <1>6, <2>2, SStays DEF CloseGone, RHolds, Idle
<1>7. CASE Ignore
  BY <1>7, SStays DEF Ignore, own, FlagsTyped, LeavesS, RHolds, Idle
<1> QED
  BY <1>1, <1>2, <1>3, <1>4, <1>5, <1>6, <1>7 DEF RNext

-----------------------------------------------------------------------------
(* The broker does not see the tasks.                                      *)
LEMMA BrokerKeeps == ASSUME UseInv, BrokerNext \/ UNCHANGED vars PROVE UseInv'
<1>1. UNCHANGED <<ssl, busy, ctx, holder, S, R>>
  BY DEF BrokerNext, BrokerSends, BrokerSendsRest, BrokerCloses, vars, own
<1> QED
  BY <1>1, RStays, SStays DEF UseInv, FlagsTyped, LeavesR, LeavesS

(* The SSL of a connection is there as long as a task is in one of the     *)
(* calls that use it (Network::connect, Network::send, Network::recv).     *)
THEOREM SslOutlivesItsUse == Spec => []InUse
<1>1. Init => UseInv
  BY UseInit
<1>2. UseInv /\ [Next]_vars => UseInv'
  BY SendKeeps, RecvKeeps, BrokerKeeps DEF Next
<1>3. UseInv => InUse
  BY DEF UseInv, SHolds, RHolds, InUse
<1> QED
  BY <1>1, <1>2, <1>3, PTL DEF Spec
=============================================================================
