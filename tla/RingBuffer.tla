----------------------------- MODULE RingBuffer -----------------------------
(***************************************************************************)
(* The log in shared memory: the gateway puts messages, the log monitor    *)
(* gets whatever is unread.  A byte is the number of its place in the log, *)
(* so that what a get returns shows which bytes they were.                 *)
(***************************************************************************)
EXTENDS Naturals, Sequences, SequencesExt

CONSTANTS Length,   \* *_length; the monitor's buffer is longer
          Sizes,    \* the lengths of messages
          MaxBytes  \* bound: the length of the log
SizesAssumption == Length \in Nat /\ \A n \in Sizes : n \in 1..Length - 1

VARIABLES start, end,  \* *_start, *_end
          buffer,      \* _buffer, 0 where nothing was ever written
          log,         \* the number of bytes put so far
          got,         \* what the last get returned
          shown        \* the newest byte that any get returned
vars == <<start, end, buffer, log, got, shown>>

Init ==
    /\ start = 0 /\ end = 0 /\ log = 0 /\ got = <<>> /\ shown = 0
    /\ buffer = [i \in 0..Length - 1 |-> 0]

\* The n bytes of the next message at position at, going on at 0.
Written(at, n) ==
    [i \in DOMAIN buffer |->
        LET k == (i + Length - at) % Length IN IF k < n THEN log + k + 1 ELSE buffer[i]]

Bytes(from, n) == [k \in 1..n |-> buffer[from + k - 1]]

\* Variant: the new start is forgotten.
PutIndicesKeepStart(n) ==
    LET blen == Length - end IN
    <<start, IF n < blen THEN end + n ELSE n - blen>>

\* The indices after put: <<start, end>>
PutIndices(n) ==
    LET blen == Length - end
        wraps == ~(n < blen)
        isEmpty == end - start = 1
    IN
    CASE end > start /\ ~wraps -> <<IF isEmpty THEN end ELSE start, end + n>>
      [] end > start /\ wraps  -> <<IF isEmpty THEN end ELSE n - blen + 1, n - blen>>
      [] end = start           -> <<start, end + n>>
      [] end < start /\ ~wraps -> <<end + n + 1, end + n>>
      [] end < start /\ wraps  -> <<end, n - blen>>

Put(n) ==
    /\ log + n <= MaxBytes
    /\ buffer' = Written(end, n)
    /\ start' = PutIndices(n)[1] /\ end' = PutIndices(n)[2]
    /\ log' = log + n
    /\ got' = <<>> /\ UNCHANGED shown

\* One unread byte means that there is none.
Get ==
    /\ CASE end > start -> /\ got' = IF end - start = 1 THEN <<>> ELSE Bytes(start, end - start)
                           /\ start' = end - 1
         [] end < start -> /\ got' = Bytes(start, Length - start) \o Bytes(0, end)
                           /\ start' = IF end > 0 THEN end - 1 ELSE 0
         [] end = start -> got' = <<>> /\ UNCHANGED start
    /\ shown' = IF got' = <<>> THEN shown ELSE Last(got')
    /\ UNCHANGED <<end, buffer, log>>

\* A gateway that starts again empties the log that its monitor reads.
Reset == start' = 0 /\ end' = 0 /\ got' = <<>> /\ UNCHANGED <<buffer, log, shown>>

Next == Get \/ Reset \/ \E n \in Sizes : Put(n)
Spec == Init /\ [][Next]_vars

-----------------------------------------------------------------------------
(* Properties                                                              *)

\* Bounded: every index that put and get compute stays inside the shared
\* memory (linux/Threading.cpp:343, :419), and start never reaches end from
\* the side that would hide a full buffer.
Bounded ==
    /\ end \in 0..Length - 1 /\ start \in 0..Length
    /\ start = end => start = 0

\* NothingInvented: a get returns bytes that were put, none of the memory
\* that was never written (linux/Threading.cpp:427).
NothingInvented == \A i \in 1..Len(got) : got[i] > 0

\* NewestLast: the next get ends with the last byte of the newest message and
\* gives all of it (linux/Threading.cpp:373), however much older text is lost.
NewestLast ==
    [][\A n \in Sizes : Put(n) =>
          LET s == start' e == end' b == buffer' IN
          LET unread == IF e > s THEN e - s ELSE Length - s + e IN
          /\ unread >= n
          /\ b[(e + Length - 1) % Length] = log']_vars

\* ReadOnce: the monitor shows the log in order and nothing twice
\* (linux/Threading.cpp:356, :431).
ReadOnce ==
    [][got' # <<>> /\ got' # got =>
          /\ got'[1] > shown
          /\ \A i \in 1..Len(got') - 1 : got'[i] < got'[i + 1]]_vars
=============================================================================
