------------------------------ MODULE XBeeFrames ----------------------------
(***************************************************************************)
(* The bytes between the gateway and its XBee modem in API mode 2: frames  *)
(* as XBee::send writes them (the modem does the same), readApiFrame() at  *)
(* the other end of the line, where a silence of 500 ms is a failure.      *)
(***************************************************************************)
EXTENDS Integers, Sequences, FiniteSets, FiniteSetsExt, SequencesExt, Functions

CONSTANTS Frames,    \* what the frames carry: short sequences of bytes
          Noise,     \* what a damaged byte may be read as
          Gaps,      \* whether the modem may be silent in the middle of a frame
          MaxFrames, \* bound: frames sent
          MaxDamage  \* bound: damaged bytes
START_BYTE == 126
ESCAPE == 125
FramesAssumption ==
       /\ \A f \in Frames : f \in Seq(0 .. 255) /\ Len(f) \in 1 .. 16
       /\ Noise \subseteq (0 .. 255) \ {ESCAPE} /\ Gaps \in BOOLEAN
       /\ MaxFrames \in Nat /\ MaxDamage \in Nat
VARIABLES sent,    \* the frames that were sent from the beginning on
          todo,    \* bytes of the last one that have not arrived yet
          line,    \* bytes that have arrived and were not read
          R,       \* readApiFrame(): what it waits for and what it has
          got,     \* what recv() was given
          broken,  \* whether a flush has dropped a byte or a silence cut a frame
          damage   \* bytes damaged so far
vars == <<sent, todo, line, R, got, broken, damage>>

Special == {START_BYTE, ESCAPE, 17, 19}  \* ... XON, XOFF

\* b ^ 0x20
Padded(b) == IF (b \div 32) % 2 = 1 THEN b - 32 ELSE b + 32

\* XBee::send(uint8_t)
Escaped(b) == IF b \in Special THEN <<ESCAPE, Padded(b)>> ELSE <<b>>

Checksum(f) == 255 - (FoldFunction(+, 0, f) % 256)

\* XBee::send: only the first byte of a frame is a START_BYTE.
Encoded(f) ==
    <<START_BYTE>> \o Escaped(0) \o Escaped(Len(f))
    \o FlattenSeq([i \in DOMAIN f |-> Escaped(f[i])]) \o Escaped(Checksum(f))

Starting == [pc |-> "start", esc |-> FALSE, buf |-> 0, len |-> 0, data |-> <<>>]

TypeOK ==
    /\ sent \in Seq(Frames) /\ todo \in Seq(0 .. 255) /\ line \in Seq(0 .. 255)
    /\ R.pc \in {"start", "msb", "lsb", "data", "sum", "flush"} /\ R.esc \in BOOLEAN
    /\ R.buf \in 0 .. 255 /\ R.len \in 0 .. 255 /\ R.data \in Seq(0 .. 255)
    /\ got \in Seq(Seq(0 .. 255)) /\ broken \in BOOLEAN /\ damage \in 0 .. MaxDamage

\* The gateway may start while the modem is in the middle of a frame.
Init ==
    /\ \E f \in Frames : \E n \in 1 .. Len(Encoded(f)) :
           todo = SubSeq(Encoded(f), n + 1, Len(Encoded(f)))
    /\ sent = <<>> /\ line = <<>> /\ R = Starting /\ got = <<>>
    /\ broken = FALSE /\ damage = 0

-----------------------------------------------------------------------------
(* The line.                                                               *)

Begin(f) ==
    /\ todo = <<>> /\ Len(sent) < MaxFrames
    /\ todo' = Encoded(f) /\ sent' = Append(sent, f)
    /\ UNCHANGED <<line, R, got, broken, damage>>

Arrive ==
    /\ todo # <<>> /\ todo' = Tail(todo) /\ line' = Append(line, Head(todo))
    /\ UNCHANGED <<sent, R, got, broken, damage>>

\* A byte behind the length arrives as another one.
Damage(b) ==
    /\ todo # <<>> /\ sent # <<>> /\ damage < MaxDamage
    /\ Len(todo) <= Len(Encoded(Last(sent))) - 3
    /\ Head(todo) \notin {ESCAPE, b}
    /\ todo' = Tail(todo) /\ line' = Append(line, b) /\ damage' = damage + 1
    /\ UNCHANGED <<sent, R, got, broken>>

-----------------------------------------------------------------------------
(* readApiFrame()                                                          *)

Reading(r) == R' = [r EXCEPT !.esc = FALSE]

\* Variant: the length counts the checksum, too.
AfterLong == IF Len(R.data) = R.len THEN "sum" ELSE "data"

After == IF Len(R.data) + 1 = R.len THEN "sum" ELSE "data"

Valid(b) == b = Checksum(R.data)

\* One byte for what readApiFrame() waits for.
Take(b) ==
    \/ /\ R.pc = "msb" /\ Reading([R EXCEPT !.pc = "lsb", !.buf = b]) /\ UNCHANGED got
    \/ /\ R.pc = "lsb" /\ UNCHANGED got
       /\ Reading([R EXCEPT !.pc = IF b = 0 THEN "sum" ELSE "data", !.buf = b, !.len = b])
    \/ /\ R.pc = "data" /\ UNCHANGED got
       /\ Reading([R EXCEPT !.pc = After, !.buf = b, !.data = Append(@, b)])
    \/ /\ R.pc = "sum" /\ Valid(b)
       /\ R' = Starting /\ got' = Append(got, R.data)
    \/ /\ R.pc = "sum" /\ ~Valid(b)
       /\ R' = [Starting EXCEPT !.pc = "flush"] /\ UNCHANGED got

Silence == line = <<>> /\ (todo = <<>> \/ Gaps)

ReadByte ==
    LET b == Head(line)
        escape == R.pc # "start" /\ b = ESCAPE /\ ~R.esc
    IN  /\ R.pc # "flush" /\ line # <<>> /\ line' = Tail(line)
        /\ \/ /\ R.pc = "start"
              /\ R' = IF b = START_BYTE THEN [Starting EXCEPT !.pc = "msb"] ELSE R
              /\ UNCHANGED got
           \/ /\ escape /\ R' = [R EXCEPT !.esc = TRUE] /\ UNCHANGED got
           \/ R.pc # "start" /\ ~escape /\ Take(IF R.esc THEN Padded(b) ELSE b)
        /\ UNCHANGED <<sent, todo, broken, damage>>

\* A silence ends the wait for a byte; behind an ESCAPE and for the checksum
\* the failure is not looked at, and buf has what was read before.
TimeUp ==
    /\ Silence /\ R.pc # "flush"
    /\ \/ R.esc /\ Take(Padded(ESCAPE))
       \/ ~R.esc /\ R.pc = "sum" /\ Take(R.buf)
       \/ /\ ~R.esc /\ R.pc # "sum"
          /\ R' = [Starting EXCEPT !.pc = "flush"] /\ UNCHANGED got
    /\ broken' = (broken \/ todo # <<>>)
    /\ UNCHANGED <<sent, todo, line, damage>>

\* SerialPort::flush(): what has arrived since the silence is lost.
Flush ==
    /\ R.pc = "flush" /\ R' = Starting
    /\ line' = <<>> /\ broken' = (broken \/ line # <<>>)
    /\ UNCHANGED <<sent, todo, got, damage>>

Next ==
    \/ \E f \in Frames : Begin(f)
    \/ Arrive
    \/ \E b \in Noise : Damage(b)
    \/ ReadByte \/ TimeUp \/ Flush

Spec == Init /\ [][Next]_vars

-----------------------------------------------------------------------------
(* What recv() is given are frames that were sent, in order, and none of   *)
(* them twice, wherever reading began and whatever the checksum discarded. *)
Intact ==
    \E S \in SUBSET DOMAIN sent :
        /\ Cardinality(S) = Len(got)
        /\ \A i \in S : got[Cardinality({j \in S : j <= i})] = sent[i]

(* Only a flush or a silence within a frame loses one: reading that begins *)
(* in the middle of a frame is in step with the line at the next one.      *)
Kept == (todo = <<>> /\ line = <<>> /\ R = Starting /\ ~broken /\ damage = 0) => got = sent
=============================================================================
