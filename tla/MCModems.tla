------------------------------ MODULE MCModems ------------------------------
(***************************************************************************)
(* What is at the ends of the gateway: the modems of two sensor networks   *)
(* (XBee, XBeeFrames, LoRaLink) and the broker's TLS connections           *)
(* (Network).  A behaviour begins with the choice of a part with its       *)
(* constants.  The variables of the modems rest at None, those of Network  *)
(* in its initial state: two connections with TLS, session tickets,        *)
(* packets in pieces.                                                      *)
(***************************************************************************)
EXTENDS Network

CONSTANTS None

VARIABLES part,
          reader, writer, got, respCd, sem, result,                 \* of more than one modem
          frameId, respId, modem, report, lost,                     \* XBee
          sent, todo, line, broken, damage,                         \* XBeeFrames
          rx, tx, due, in, answer, alone                            \* LoRaLink
statusVars == <<frameId, respId, modem, report, lost>>
frameVars == <<sent, todo, line, broken, damage>>
loraVars == <<rx, tx, due, in, answer, alone>>
modemVars == <<reader, writer, got, respCd, sem, result, statusVars, frameVars, loraVars>>
suiteVars == <<part, modemVars, vars>>

NoStatus == frameId = None /\ respId = None /\ modem = None /\ report = None /\ lost = None
NoFrames == sent = None /\ todo = None /\ line = None /\ broken = None /\ damage = None
NoLora == rx = None /\ tx = None /\ due = None /\ in = None /\ answer = None /\ alone = None

-----------------------------------------------------------------------------
(* Frame ids of two bits, statuses that are lost.                          *)
Statuses == INSTANCE XBee WITH
    Width <- 2, Codes <- {0, 33}, Late <- FALSE, MaxSends <- 6, MaxLost <- 3,
    R <- reader, S <- writer

(* Frames with each of the bytes that must be escaped, in the data and in  *)
(* the checksum, and noise that is one of them or looks like a length.     *)
Frames == {<<126>>, <<125, 2>>, <<17, 19>>, <<129>>, <<1, 238>>}
Noise == {0, 1, 2, 17, 93, 126}
Undamaged == INSTANCE XBeeFrames WITH Gaps <- TRUE, MaxFrames <- 3, MaxDamage <- 0, R <- reader
Damaged == INSTANCE XBeeFrames WITH Gaps <- TRUE, MaxFrames <- 2, MaxDamage <- 1, R <- reader

(* Packets whose address, bytes or checksum must be escaped, an empty one  *)
(* and one that looks like an answer.                                      *)
Packets == {[src |-> 125, payload |-> <<126>>], [src |-> 1, payload |-> <<125, 19>>],
            [src |-> 62, payload |-> <<0>>], [src |-> 17, payload |-> <<>>],
            [src |-> 2, payload |-> <<126, 0, 7, 128>>]}
Unmixed == INSTANCE LoRaLink WITH
    Mixed <- FALSE, Late <- FALSE, MaxIn <- 2, MaxOut <- 3, R <- reader, S <- writer
Mingled == INSTANCE LoRaLink WITH
    Packets <- {[src |-> 17, payload |-> <<>>]}, Mixed <- TRUE, Late <- FALSE, MaxIn <- 2, MaxOut <- 1,
    R <- reader, S <- writer

ASSUME /\ Statuses!XBeeAssumption /\ Undamaged!FramesAssumption /\ Damaged!FramesAssumption
       /\ Unmixed!LoRaLinkAssumption /\ Mingled!LoRaLinkAssumption

-----------------------------------------------------------------------------
SuiteInit ==
    /\ \/ /\ part = "statuses" /\ Statuses!Init
          /\ got = None /\ NoFrames /\ NoLora
       \/ /\ \/ part = "undamaged" /\ Undamaged!Init
             \/ part = "damaged" /\ Damaged!Init
          /\ writer = None /\ respCd = None /\ sem = None /\ result = None /\ NoStatus /\ NoLora
       \/ /\ \/ part = "whole" /\ Unmixed!Init
             \/ part = "mingled" /\ Mingled!Init
          /\ NoStatus /\ NoFrames
       \/ /\ part = "secure" /\ reader = None /\ writer = None
          /\ got = None /\ respCd = None /\ sem = None /\ result = None /\ NoStatus /\ NoFrames /\ NoLora
    /\ Init

ModemsNext ==
    /\ \/ /\ part = "statuses" /\ Statuses!Next
          /\ UNCHANGED <<got, frameVars, loraVars>>
       \/ /\ \/ part = "undamaged" /\ Undamaged!Next
             \/ part = "damaged" /\ Damaged!Next
          /\ UNCHANGED <<writer, respCd, sem, result, statusVars, loraVars>>
       \/ /\ \/ part = "whole" /\ Unmixed!Next
             \/ part = "mingled" /\ Mingled!Next
          /\ UNCHANGED <<statusVars, frameVars>>
    /\ UNCHANGED <<part, vars>>
NetworkNext == part = "secure" /\ Next /\ UNCHANGED <<part, modemVars>>
SuiteNext == ModemsNext \/ NetworkNext
SuiteSpec == SuiteInit /\ [][SuiteNext]_suiteVars

-----------------------------------------------------------------------------
(* send() reports success of what was delivered, or acknowledged, and of   *)
(* every such packet (XBee, LoRaLink).                                     *)
SendsTruthful ==
    /\ part = "statuses" => Statuses!TypeOK /\ Statuses!Truthful /\ Statuses!NoFalseAlarm
    /\ part = "whole" => Unmixed!Truthful /\ Unmixed!Acknowledged
(* What is handed on was sent, damage and gaps or not; without damage it   *)
(* is handed on once and in order; after bytes that were mixed up the next *)
(* whole packet is read (XBeeFrames, LoRaLink, readApiFrame).              *)
FramesIntact ==
    /\ part = "undamaged" => Undamaged!TypeOK /\ Undamaged!Intact /\ Undamaged!Kept
    /\ part = "damaged" => Damaged!TypeOK /\ Damaged!Intact
    /\ part = "whole" => Unmixed!TypeOK /\ Unmixed!Kept
    /\ part = "mingled" => Mingled!TypeOK /\ Mingled!Heals
=============================================================================
