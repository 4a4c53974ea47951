------------------------------ MODULE EventQue ------------------------------
(***************************************************************************)
(* The event queue between two tasks of the gateway: class EventQue of     *)
(* MQTTSNGateway.cpp over Que<Event> (MQTTSNGWProcess.h), a pthread mutex  *)
(* and a counting semaphore (linux/Threading.cpp).  Any number of tasks    *)
(* post, one task consumes, with wait() or with timedwait().               *)
(*                                                                         *)
(* Each lock, queue operation and semaphore operation is a step of its     *)
(* own.  The consumer reads size() WITHOUT the mutex before it decides to  *)
(* wait, so the semaphore does not count the elements of the queue: it may *)
(* hold more credits than there are events, and what keeps a wake-up from  *)
(* being lost is that it never holds fewer (Credit).                       *)
(***************************************************************************)
EXTENDS Naturals, Sequences

CONSTANTS Producers, Budget, Stopper, MaxSize, None, Stop, Timeout,
          Consumer          \* the one task that calls wait() or timedwait()

VARIABLES
    sent,   \* events given to post(), per producer
    que,    \* Que<Event> _que
    out,    \* ev of the consumer, None for nullptr
    sem,    \* the value of Semaphore _sem
    mutex,  \* the holder of Mutex _mutex, or None
    ppc,    \* where each producer is in post()
    cpc,    \* where the consumer is in wait() or timedwait()
    timed   \* which of the two its loop calls: TRUE for timedwait()

vars == <<sent, que, out, sem, mutex, ppc, cpc, timed>>

Fifo == INSTANCE EventFifo WITH fifo <- que

Event == Fifo!Event

ASSUME QueAssumption ==
    /\ Budget \in [Producers -> Nat]
    /\ MaxSize \in Nat
    /\ Consumer \notin Producers
    /\ None \notin Producers \cup {Consumer}
    /\ None \notin Event /\ Stop \notin Event /\ Timeout \notin Event
    /\ None # Stop /\ None # Timeout /\ Stop # Timeout

Init ==
    /\ sent = [p \in Producers |-> 0]
    /\ que = <<>>
    /\ out = None
    /\ sem = 0
    /\ mutex = None
    /\ ppc = [p \in Producers |-> "idle"]
    /\ cpc = "size"
    /\ timed \in BOOLEAN

-----------------------------------------------------------------------------
(* EventQue::post                                                          *)

PostLock(p) ==
    /\ ppc[p] = "idle"
    /\ sent[p] < Budget[p]
    /\ mutex = None
    /\ mutex' = p
    /\ ppc' = [ppc EXCEPT ![p] = "append"]
    /\ UNCHANGED <<sent, que, out, sem, cpc, timed>>

(* Variant: Que<Event>::post puts the event in front.                      *)
PostAppendFirst(p) ==
    /\ ppc[p] = "append"
    /\ sent' = [sent EXCEPT ![p] = @ + 1]
    /\ IF MaxSize = 0 \/ Len(que) < MaxSize
          THEN que' = <<Fifo!NextEvent(p)>> \o que /\ ppc' = [ppc EXCEPT ![p] = "signal"]
          ELSE ppc' = [ppc EXCEPT ![p] = "unlock"] /\ UNCHANGED que
    /\ UNCHANGED <<out, sem, mutex, cpc, timed>>

(* Que<Event>::post: a full queue takes nothing and the event is deleted.  *)
PostAppend(p) ==
    /\ ppc[p] = "append"
    /\ sent' = [sent EXCEPT ![p] = @ + 1]
    /\ IF MaxSize = 0 \/ Len(que) < MaxSize
          THEN /\ que' = Append(que, Fifo!NextEvent(p))
               /\ ppc' = [ppc EXCEPT ![p] = "signal"]
          ELSE /\ ppc' = [ppc EXCEPT ![p] = "unlock"]
               /\ UNCHANGED que
    /\ UNCHANGED <<out, sem, mutex, cpc, timed>>

(* Variant: no _sem.post().                                                *)
PostSignalForgotten(p) ==
    /\ ppc[p] = "signal"
    /\ ppc' = [ppc EXCEPT ![p] = "unlock"]
    /\ UNCHANGED <<sent, que, out, sem, mutex, cpc, timed>>

PostSignal(p) ==
    /\ ppc[p] = "signal"
    /\ sem' = sem + 1
    /\ ppc' = [ppc EXCEPT ![p] = "unlock"]
    /\ UNCHANGED <<sent, que, out, mutex, cpc, timed>>

PostUnlock(p) ==
    /\ ppc[p] = "unlock"
    /\ mutex' = None
    /\ ppc' = [ppc EXCEPT ![p] = "idle"]
    /\ UNCHANGED <<sent, que, out, sem, cpc, timed>>

-----------------------------------------------------------------------------
(* EventQue::wait and EventQue::timedwait                                  *)

(* if (_que.size() == 0), read outside the mutex.                          *)
ReadSize ==
    /\ cpc = "size"
    /\ cpc' = IF que = <<>> THEN "wait" ELSE "lock"
    /\ UNCHANGED <<sent, que, out, sem, mutex, ppc, timed>>

(* Variant: the semaphore does not block at zero.                          *)
SemWaitUnblocked ==
    /\ cpc = "wait"
    /\ sem' = sem - 1
    /\ cpc' = "lock"
    /\ UNCHANGED <<sent, que, out, mutex, ppc, timed>>

(* Semaphore::wait, or a Semaphore::timedwait that gets a credit in time.  *)
SemWait ==
    /\ cpc = "wait"
    /\ sem > 0
    /\ sem' = sem - 1
    /\ cpc' = "lock"
    /\ UNCHANGED <<sent, que, out, mutex, ppc, timed>>

(* Semaphore::timedwait without a credit until the time is up.             *)
SemTimeUp ==
    /\ timed
    /\ cpc = "wait"
    /\ sem = 0
    /\ cpc' = "lock"
    /\ UNCHANGED <<sent, que, out, sem, mutex, ppc, timed>>

GetLock ==
    /\ cpc = "lock"
    /\ mutex = None
    /\ mutex' = Consumer
    /\ cpc' = "front"
    /\ UNCHANGED <<sent, que, out, sem, ppc, timed>>

(* front() and pop(); timedwait makes a timeout event of an empty queue,   *)
(* wait is left with a null pointer.                                       *)
GetFront ==
    /\ cpc = "front"
    /\ IF que # <<>>
          THEN out' = Head(que) /\ que' = Tail(que)
          ELSE out' = (IF timed THEN Timeout ELSE None) /\ UNCHANGED que
    /\ cpc' = "unlock"
    /\ UNCHANGED <<sent, sem, mutex, ppc, timed>>

(* while (ev == nullptr): wait() starts again when it got nothing.         *)
GetUnlock ==
    /\ cpc = "unlock"
    /\ mutex' = None
    /\ cpc' = IF out = None THEN "size" ELSE "handle"
    /\ UNCHANGED <<sent, que, out, sem, ppc, timed>>

(* Variant: the task does not look for the stop event.                     *)
HandleNoStop ==
    /\ cpc = "handle"
    /\ cpc' = "size" /\ out' = None
    /\ UNCHANGED <<sent, que, sem, mutex, ppc, timed>>

(* The loop of the task: it handles the event and calls wait() again, or   *)
(* ends when the event is the stop event.                                  *)
Handle ==
    /\ cpc = "handle"
    /\ IF out = Stop
          THEN cpc' = "stopped" /\ UNCHANGED out
          ELSE cpc' = "size" /\ out' = None
    /\ UNCHANGED <<sent, que, sem, mutex, ppc, timed>>

PostStep(p) == PostLock(p) \/ PostAppend(p) \/ PostSignal(p) \/ PostUnlock(p)
GetStep == ReadSize \/ SemWait \/ SemTimeUp \/ GetLock \/ GetFront \/ GetUnlock \/ Handle

Next == (\E p \in Producers : PostStep(p)) \/ GetStep

Spec == Init /\ [][Next]_vars

(* Threads are scheduled, a post that began ends, and a mutex that stays   *)
(* free is taken.  The number of posts is finite, so the consumer cannot   *)
(* be kept from the mutex for ever and weak fairness is enough.            *)
FairSpec ==
    /\ Spec
    /\ \A p \in Producers : WF_vars(PostStep(p))
    /\ WF_vars(GetStep)

-----------------------------------------------------------------------------
(* Properties                                                              *)

(* The queue, the semaphore, the mutex and the program counters have their *)
(* types: in particular the semaphore never falls below zero.              *)
TypeOK ==
    /\ sent \in [Producers -> Nat]
    /\ que \in Seq(Event \cup {Stop})
    /\ out \in Event \cup {Stop, Timeout, None}
    /\ sem \in Nat
    /\ mutex \in Producers \cup {Consumer, None}
    /\ ppc \in [Producers -> {"idle", "append", "signal", "unlock"}]
    /\ cpc \in {"size", "wait", "lock", "front", "unlock", "handle", "stopped"}
    /\ timed \in BOOLEAN

(* A producer between _que.post and _sem.post owes the semaphore a credit. *)
Owed == IF \E p \in Producers : ppc[p] = "signal" THEN 1 ELSE 0

(* The consumer between its wait (or the wait it skipped) and pop.         *)
Claimed == IF cpc \in {"lock", "front"} THEN 1 ELSE 0

(* The semaphore plus the credit still owed and the one the consumer is    *)
(* using covers every event of the queue: reading size() without the mutex *)
(* (MQTTSNGateway.cpp:461, 476) wastes credits and never misses one.       *)
Credit == Len(que) <= sem + Owed + Claimed

(* No lost wake-up: a consumer blocked in _sem.wait() while no post is     *)
(* under way has an empty queue, so nothing posted is left lying.          *)
NoLostWakeup ==
    (cpc = "wait" /\ sem = 0 /\ \A p \in Producers : ppc[p] = "idle") => que = <<>>

(* The queue with its mutex and semaphore behaves as the FIFO the tasks    *)
(* rely on: an atomic post, events in order, a timeout only when empty.    *)
ImplementsFifo == Fifo!Spec

(* ... and an event of the queue is handed to the task that waits for one. *)
ImplementsFairFifo == Fifo!FairSpec

(* Gateway::run posts a stop event to each queue and waits for every task  *)
(* to end: a consumer ends once the event has found room in its queue.     *)
TaskStops == (\E i \in DOMAIN que : que[i] = Stop) ~> (cpc = "stopped")

-----------------------------------------------------------------------------
(* A statement of the repository that the code does not keep.              *)

(* MQTTSNGateway.cpp:359, "stop Tasks", and 371, "wait until all Task      *)
(* stop": a stop event that was posted ends the consumer, though the queue *)
(* may be full.                                                            *)
PostedStops == (sent[Stopper] > 0) ~> (cpc = "stopped")
=============================================================================
