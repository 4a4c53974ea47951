------------------------------- MODULE LoRaLink -----------------------------
(***************************************************************************)
(* LoRaLink between the gateway and its two modems: one hands over what    *)
(* the devices sent, the other one is given what is to be sent and answers *)
(* with an acknowledgement.  recv() of ClientRecvTask reads both lines     *)
(* byte by byte into one frame; send() of ClientSendTask waits on _sem for *)
(* the answer.  A wait of one second for a byte is no failure here: what   *)
(* was read of a frame is kept.                                            *)
(***************************************************************************)
EXTENDS Integers, Sequences, SequencesExt, Functions

CONSTANTS Packets,  \* what devices send: their address and a few bytes
          Mixed,    \* whether the modems' bytes may alternate
          Late,     \* whether an answer may come after the time-out
          MaxIn,    \* bound: packets of devices
          MaxOut    \* bound: packets to devices
START_BYTE == 126
ESCAPE == 125
MQTT_SN == 64
API_RSP == {128, 129, 130}  \* API_RSP_ACK, API_RSP_NFC, API_RSP_TOT
LoRaLinkAssumption ==
       /\ Packets \subseteq [src : 1 .. 254, payload : Seq(0 .. 255)]
       /\ Mixed \in BOOLEAN /\ Late \in BOOLEAN /\ MaxIn \in Nat /\ MaxOut \in Nat
VARIABLES rx, tx,   \* bytes that the modems have for the gateway
          due,      \* answers that the sending modem has not begun yet
          R,        \* readApiFrame() and recv()
          respCd,   \* _respCd: the type of the answer or 0
          sem,      \* _sem
          S,        \* where send() is
          in, got,  \* what devices sent, what recv() returned
          answer,   \* the modem's answer to each packet sent, 0: none
          result,   \* what send() returned
          alone     \* no byte of an answer came within the last packet
vars == <<rx, tx, due, R, respCd, sem, S, in, got, answer, result, alone>>

Special == {START_BYTE, ESCAPE, 17, 19}  \* ... XON, XOFF

\* b ^ PAD
Padded(b) == IF (b \div 32) % 2 = 1 THEN b - 32 ELSE b + 32
Escaped(b) == IF b \in Special THEN <<ESCAPE, Padded(b)>> ELSE <<b>>
Checksum(s) == 255 - (FoldFunction(+, 0, s) % 256)

\* A frame of a modem: length, address, RSSI, SNR, type, payload, checksum.
Frame(src, type, payload) ==
    LET body == <<src, 0, 0, 0, 0, type>> \o payload
        bytes == <<0, Len(body) + 1>> \o body \o <<Checksum(body)>>
    IN  <<START_BYTE>> \o FlattenSeq([i \in DOMAIN bytes |-> Escaped(bytes[i])])

TypeOK ==
    /\ rx \in Seq(0 .. 255) /\ tx \in Seq(0 .. 255) /\ due \in Seq(API_RSP)
    /\ R.pc \in {"read", "post"} /\ R.pos \in 0 .. 3 /\ R.len \in 0 .. 65535
    /\ R.body \in Seq(0 .. 255) /\ R.esc \in BOOLEAN /\ R.kept \in BOOLEAN
    /\ respCd \in {0} \cup API_RSP /\ sem \in Nat /\ S \in {"idle", "write", "wait", "compare"}
    /\ in \in Seq(Packets) /\ Len(got) <= Len(in)
    /\ answer \in Seq({0} \cup API_RSP) /\ result \in Seq(BOOLEAN) /\ alone \in BOOLEAN

Init ==
    /\ rx = <<>> /\ tx = <<>> /\ due = <<>>
    /\ R = [pc |-> "read", pos |-> 0, len |-> 0, body |-> <<>>, esc |-> FALSE, kept |-> FALSE]
    /\ respCd = 0 /\ sem = 0 /\ S = "idle"
    /\ in = <<>> /\ got = <<>> /\ answer = <<>> /\ result = <<>> /\ alone = TRUE

-----------------------------------------------------------------------------
(* The modems.                                                             *)

Receive(p) ==
    /\ rx = <<>> /\ (Mixed \/ tx = <<>>) /\ Len(in) < MaxIn
    /\ rx' = Frame(p.src, MQTT_SN, p.payload) /\ in' = Append(in, p) /\ alone' = (tx = <<>>)
    /\ UNCHANGED <<tx, due, R, respCd, sem, S, got, answer, result>>

Answer ==
    /\ tx = <<>> /\ (Mixed \/ rx = <<>>) /\ due # <<>>
    /\ tx' = Frame(0, Head(due), <<>>) /\ due' = Tail(due)
    /\ alone' = (alone /\ rx = <<>>)
    /\ UNCHANGED <<rx, R, respCd, sem, S, in, got, answer, result>>

-----------------------------------------------------------------------------
(* recv() with readApiFrame()                                              *)

\* apipos >= PayloadLen + 2, behind the nine bytes up to the type
Complete(r) == Len(r.body) >= 6 /\ Len(r.body) + 1 >= r.len

\* _respCd = ..., before _sem.post()
Answered(r) == R' = [r EXCEPT !.pc = "post", !.pos = 0] /\ respCd' = r.body[6]

\* A whole frame: a packet is returned, an answer posted, anything else dropped.
Handed(r) ==
    \/ /\ r.body[6] \in API_RSP /\ Answered(r) /\ UNCHANGED got
    \/ /\ r.body[6] = MQTT_SN /\ R' = [r EXCEPT !.pos = 0]
       /\ got' = Append(got, [src |-> r.body[1], payload |-> SubSeq(r.body, 7, r.len - 1)])
       /\ UNCHANGED respCd
    \/ /\ r.body[6] \notin API_RSP \cup {MQTT_SN}
       /\ R' = [r EXCEPT !.pos = 0] /\ UNCHANGED <<respCd, got>>

\* One decoded byte at apipos, which is 3 + Len(body) behind the length; a
\* byte between frames (apipos 0) moves it on, too.
Take(r, b) ==
    \/ /\ r.pos = 0 /\ R' = [r EXCEPT !.pos = 1] /\ UNCHANGED <<respCd, got>>
    \/ /\ r.pos = 1 /\ R' = [r EXCEPT !.pos = 2, !.len = b * 256] /\ UNCHANGED <<respCd, got>>
    \/ /\ r.pos = 2 /\ UNCHANGED <<respCd, got>>
       /\ R' = [r EXCEPT !.pos = 3, !.len = (@ + b) % 65536, !.body = <<>>]
    \/ /\ r.pos = 3 /\ ~Complete(r) /\ R' = [r EXCEPT !.body = Append(@, b)]
       /\ UNCHANGED <<respCd, got>>
    \/ /\ r.pos = 3 /\ Complete(r) /\ b = Checksum(r.body) /\ Handed(r)
    \/ /\ r.pos = 3 /\ Complete(r) /\ b # Checksum(r.body)
       /\ R' = [r EXCEPT !.pos = 0] /\ UNCHANGED <<respCd, got>>

\* The byte behind an ESCAPE is decoded whatever it is, unless the wait for it
\* has timed out; then a START_BYTE begins a frame with Escape still set.
Read(b) ==
    \/ /\ R.esc
       /\ Take([R EXCEPT !.esc = FALSE, !.kept = FALSE], IF R.kept THEN b ELSE Padded(b))
    \/ /\ ~R.esc /\ b = START_BYTE /\ R' = [R EXCEPT !.pos = 1] /\ UNCHANGED <<respCd, got>>
    \/ /\ ~R.esc /\ b = ESCAPE /\ R.pos > 0
       /\ R' = [R EXCEPT !.esc = TRUE] /\ UNCHANGED <<respCd, got>>
    \/ /\ ~R.esc /\ b # START_BYTE /\ (b # ESCAPE \/ R.pos = 0)
       /\ Take([R EXCEPT !.kept = FALSE], IF R.kept THEN Padded(b) ELSE b)

\* Of two lines with a byte select() prefers the receiving modem's; whether
\* its next byte is there already is open.
ReadRx ==
    /\ R.pc = "read" /\ rx # <<>> /\ Read(Head(rx)) /\ rx' = Tail(rx)
    /\ UNCHANGED <<tx, due, sem, S, in, answer, result, alone>>

ReadTx ==
    /\ R.pc = "read" /\ tx # <<>> /\ Read(Head(tx)) /\ tx' = Tail(tx)
    /\ UNCHANGED <<rx, due, sem, S, in, answer, result, alone>>

\* One second without a byte behind an ESCAPE; elsewhere nothing changes.
ReadTimesOut ==
    /\ R.pc = "read" /\ R.esc /\ R' = [R EXCEPT !.esc = FALSE, !.kept = TRUE]
    /\ UNCHANGED <<rx, tx, due, respCd, sem, S, in, got, answer, result, alone>>

Posts ==
    /\ R.pc = "post" /\ R' = [R EXCEPT !.pc = "read"] /\ sem' = sem + 1
    /\ UNCHANGED <<rx, tx, due, respCd, S, in, got, answer, result, alone>>

-----------------------------------------------------------------------------
(* send()                                                                  *)

SendBegins ==
    /\ S = "idle" /\ Len(result) < MaxOut /\ S' = "write" /\ respCd' = 0
    /\ UNCHANGED <<rx, tx, due, R, sem, in, got, answer, result, alone>>

\* The modem has the whole frame: it answers, or it does not.
SendWrites ==
    /\ S = "write" /\ S' = "wait"
    /\ \E a \in {0} \cup API_RSP :
           /\ answer' = Append(answer, a)
           /\ due' = IF a = 0 THEN due ELSE Append(due, a)
    /\ UNCHANGED <<rx, tx, R, respCd, sem, in, got, result, alone>>

SendWaits ==
    /\ S = "wait" /\ sem > 0 /\ sem' = sem - 1 /\ S' = "compare"
    /\ UNCHANGED <<rx, tx, due, R, respCd, in, got, answer, result, alone>>

\* _sem.timedwait(LORALINK_TIMEOUT_ACK); recv() is not slow, the modem may be.
SendTimesOut ==
    /\ S = "wait" /\ sem = 0 /\ (Late \/ (due = <<>> /\ tx = <<>> /\ R.pc = "read"))
    /\ S' = "compare"
    /\ UNCHANGED <<rx, tx, due, R, respCd, sem, in, got, answer, result, alone>>

SendCompares ==
    /\ S = "compare" /\ S' = "idle" /\ result' = Append(result, respCd = 128)
    /\ UNCHANGED <<rx, tx, due, R, respCd, sem, in, got, answer, alone>>

Recv == ReadRx \/ ReadTx \/ ReadTimesOut \/ Posts
Send == SendBegins \/ SendWrites \/ SendWaits \/ SendTimesOut \/ SendCompares
Next == (\E p \in Packets : Receive(p)) \/ Answer \/ Recv \/ Send

Spec == Init /\ [][Next]_vars

-----------------------------------------------------------------------------
(* Whatever the silences between its bytes are and whatever it carries,    *)
(* every packet of a device is returned by recv(), in order and with its   *)
(* sender, and no answer of the modem passes for one.                      *)
Kept == IsPrefix(got, in) /\ (rx = <<>> => got = in)

(* Bytes of an answer in the middle of a packet spoil one or both of them; *)
(* the next packet that comes alone is read, whatever they left behind.    *)
Heals == rx = <<>> /\ in # <<>> /\ alone => got # <<>> /\ Last(got) = Last(in)

(* "wait ACK": send() returns the length of the packet only when the modem *)
(* acknowledged that packet.                                               *)
Truthful == \A i \in DOMAIN result : result[i] => answer[i] = 128

(* A packet that the modem acknowledged is not reported as "Not            *)
(* Acknowleged": the acknowledgement is in _respCd when the wait ends.     *)
Acknowledged == \A i \in DOMAIN result : answer[i] = 128 => result[i]
=============================================================================
