----------------------------- MODULE EventFifo -----------------------------
(***************************************************************************)
(* What an event queue of the gateway promises to the tasks around it      *)
(* (MQTTSNGateway.cpp, class EventQue): post() never blocks and appends in *)
(* one step, or drops the event when the queue has reached its maximum;    *)
(* the one consumer gets the events in the order they were appended; a     *)
(* consumer that calls timedwait() may get a timeout event instead, but    *)
(* only at a moment when the queue is empty.  What is assumed of the       *)
(* constants is stated in EventQue, the module that implements this one.   *)
(***************************************************************************)
EXTENDS Naturals, Sequences

CONSTANTS
    Producers,      \* the tasks that post
    Budget,         \* how many events each of them posts (bound)
    Stopper,        \* Gateway::run, which posts the stop event
    MaxSize,        \* EventQue::setMaxSize, 0 is unbounded
    None, Stop, Timeout

Event == Producers \X Nat

VARIABLES
    sent,   \* posts so far, per producer
    fifo,   \* the events in the queue
    out,    \* what the consumer was handed and has not finished with
    timed   \* TRUE: the consumer calls timedwait(), FALSE: wait()

vars == <<sent, fifo, out, timed>>

(* The event that p's next post carries. *)
NextEvent(p) == IF p = Stopper THEN Stop ELSE <<p, sent[p] + 1>>

HasRoom(q) == MaxSize = 0 \/ Len(q) < MaxSize

Init ==
    /\ sent = [p \in Producers |-> 0]
    /\ fifo = <<>>
    /\ out = None
    /\ timed \in BOOLEAN

Post(p) ==
    /\ sent[p] < Budget[p]
    /\ sent' = [sent EXCEPT ![p] = @ + 1]
    /\ fifo' = IF HasRoom(fifo) THEN Append(fifo, NextEvent(p)) ELSE fifo
    /\ UNCHANGED <<out, timed>>

Get ==
    /\ out = None
    /\ fifo # <<>>
    /\ out' = Head(fifo)
    /\ fifo' = Tail(fifo)
    /\ UNCHANGED <<sent, timed>>

TimeUp ==
    /\ timed
    /\ out = None
    /\ fifo = <<>>
    /\ out' = Timeout
    /\ UNCHANGED <<sent, fifo, timed>>

(* The consumer is done with the event and asks for the next one; it asks  *)
(* for nothing after the stop event.                                       *)
Finish ==
    /\ out \notin {None, Stop}
    /\ out' = None
    /\ UNCHANGED <<sent, fifo, timed>>

Next == (\E p \in Producers : Post(p)) \/ Get \/ TimeUp \/ Finish

Spec == Init /\ [][Next]_vars

(* An event in the queue of a consumer that asks for one is handed over.   *)
FairSpec == Spec /\ WF_vars(Get) /\ WF_vars(Finish)
=============================================================================
