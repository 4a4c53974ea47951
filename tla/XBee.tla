--------------------------------- MODULE XBee -------------------------------
(***************************************************************************)
(* XBee::send of ClientSendTask ("S") and XBee::recv of ClientRecvTask     *)
(* ("R"): send() waits on _sem for the modem's status of its frame, which  *)
(* recv() leaves in _respCd and _respId.  A frame is one item here; its    *)
(* bytes are in XBeeFrames.                                                *)
(***************************************************************************)
EXTENDS Integers, Sequences, SequencesExt

CONSTANTS Width,     \* _frameId has 2^Width values (8 bits)
          Codes,     \* delivery statuses that the modem reports: 0 is success
          Late,      \* whether a status may come after the time-out
          MaxSends,  \* bound: packets to send
          MaxLost    \* bound: statuses that are lost
XBeeAssumption ==
       /\ Width \in Nat \ {0} /\ Codes \subseteq 0 .. 254
       /\ Late \in BOOLEAN /\ MaxSends \in Nat /\ MaxLost \in Nat
VARIABLES frameId, respCd, respId,  \* _frameId, _respCd, _respId
          sem,     \* _sem
          S,       \* where send() is
          R,       \* where recv() is, and the frame it has
          modem,   \* the statuses that the modem has for the gateway, in order
          report,  \* of each frame sent: its id and its status, -1 if that was lost
          result,  \* what the calls of send() returned
          lost
vars == <<frameId, respCd, respId, sem, S, R, modem, report, result, lost>>

NoCode == 255  \* _respCd = -1
Ids == 0 .. 2^Width - 1
Status == [id : Ids, code : Codes, n : 1 .. MaxSends]

TypeOK ==
    /\ frameId \in Ids /\ respId \in Ids
    /\ respCd \in Codes \cup {0, NoCode} /\ sem \in Nat
    /\ S \in {"idle", "write", "wait", "compare", "id"}
    /\ R.pc \in {"read", "code", "id", "post"} /\ modem \in Seq(Status)
    /\ report \in Seq([id : Ids, code : Codes \cup {-1}]) /\ result \in Seq(BOOLEAN) /\ lost \in 0 .. MaxLost
    /\ Len(result) <= Len(report) /\ Len(report) <= Len(result) + 1

Init ==
    /\ frameId = 0 /\ respCd = 0 /\ respId = 0 /\ sem = 0
    /\ S = "idle" /\ R = [pc |-> "read", id |-> 0, code |-> 0]
    /\ modem = <<>> /\ report = <<>> /\ result = <<>> /\ lost = 0

-----------------------------------------------------------------------------
(* send()                                                                  *)

Wrapped(n) == n % 2^Width

\* if (_frameId++ == 0x00) _frameId = 1
NextId(id) == IF id = 0 THEN 1 ELSE Wrapped(id + 1)

SendBegins ==
    /\ S = "idle" /\ Len(result) < MaxSends
    /\ S' = "write" /\ respCd' = NoCode
    /\ UNCHANGED <<frameId, respId, sem, R, modem, report, result, lost>>

\* The modem reports the delivery of every frame but those with the id 0.
SendWrites ==
    /\ S = "write" /\ S' = "wait"
    /\ frameId' = NextId(frameId)
    /\ \E c \in Codes :
           /\ modem' = IF frameId' = 0 THEN modem
                       ELSE Append(modem, [id |-> frameId', code |-> c, n |-> Len(report) + 1])
           /\ report' = Append(report, [id |-> frameId', code |-> c])
    /\ UNCHANGED <<respCd, respId, sem, R, result, lost>>

SendWaits ==
    /\ S = "wait" /\ sem > 0 /\ sem' = sem - 1 /\ S' = "compare"
    /\ UNCHANGED <<frameId, respCd, respId, R, modem, report, result, lost>>

\* _sem.timedwait(XMIT_STATUS_TIME_OVER); recv() is not slow, the modem may be.
SendTimesOut ==
    /\ S = "wait" /\ sem = 0 /\ (Late \/ (modem = <<>> /\ R.pc = "read"))
    /\ S' = "compare"
    /\ UNCHANGED <<frameId, respCd, respId, sem, R, modem, report, result, lost>>

Returns(ok) == S' = "idle" /\ result' = Append(result, ok)

\* if (_respCd || _frameId != _respId): two reads.
SendCompares ==
    /\ S = "compare"
    /\ \/ respCd = 0 /\ S' = "id" /\ UNCHANGED result
       \/ respCd # 0 /\ Returns(FALSE)
    /\ UNCHANGED <<frameId, respCd, respId, sem, R, modem, report, lost>>

SendComparesId ==
    /\ S = "id" /\ Returns(frameId = respId)
    /\ UNCHANGED <<frameId, respCd, respId, sem, R, modem, report, lost>>

-----------------------------------------------------------------------------
(* recv(): the assignments for an API_XMITSTATUS frame.                    *)

RecvStatus ==
    /\ R.pc = "read" /\ modem # <<>>
    /\ R' = [pc |-> "code", id |-> Head(modem).id, code |-> Head(modem).code]
    /\ modem' = Tail(modem)
    /\ UNCHANGED <<frameId, respCd, respId, sem, S, report, result, lost>>

\* Variant: the semaphore is posted before the id is known.
RecvCodeEarly ==
    /\ R.pc = "code" /\ R' = [R EXCEPT !.pc = "id"] /\ respCd' = R.code /\ sem' = sem + 1
    /\ UNCHANGED <<frameId, respId, S, modem, report, result, lost>>

RecvCode ==
    /\ R.pc = "code" /\ R' = [R EXCEPT !.pc = "id"] /\ respCd' = R.code
    /\ UNCHANGED <<frameId, respId, sem, S, modem, report, result, lost>>

RecvId ==
    /\ R.pc = "id" /\ R' = [R EXCEPT !.pc = "post"] /\ respId' = R.id
    /\ UNCHANGED <<frameId, respCd, sem, S, modem, report, result, lost>>

RecvPosts ==
    /\ R.pc = "post" /\ R' = [R EXCEPT !.pc = "read"] /\ sem' = sem + 1
    /\ UNCHANGED <<frameId, respCd, respId, S, modem, report, result, lost>>

\* A status does not come, or a flush() of readApiFrame() drops it.
StatusLost ==
    /\ modem # <<>> /\ lost < MaxLost /\ lost' = lost + 1
    /\ modem' = Tail(modem)
    /\ report' = [report EXCEPT ![Head(modem).n].code = -1]
    /\ UNCHANGED <<frameId, respCd, respId, sem, S, R, result>>

Send == SendBegins \/ SendWrites \/ SendWaits \/ SendTimesOut \/ SendCompares \/ SendComparesId
Recv == RecvStatus \/ RecvCode \/ RecvId \/ RecvPosts
Next == Send \/ Recv \/ StatusLost

Spec == Init /\ [][Next]_vars

-----------------------------------------------------------------------------
(* send() reports success only when the modem reported it of this frame:   *)
(* no status of an earlier one with the same id, lost ones in between or   *)
(* not, passes for it.                                                     *)
Truthful == \A i \in DOMAIN result : result[i] => report[i].code = 0

(* A packet is not sent, says send(), only when its status says so or did  *)
(* not come - or when the id was 0, which the wrap-around does not skip    *)
(* and which asks the modem for no status.                                 *)
NoFalseAlarm ==
    \A i \in DOMAIN result : ~result[i] => report[i].code # 0 \/ report[i].id = 0

(* "wait Txim Status 0x8B": a wait that does not time out ends with the    *)
(* status of the frame that was sent.                                      *)
Waits == [][SendWaits => respId = frameId]_vars
=============================================================================
