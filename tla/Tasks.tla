------------------------------- MODULE Tasks --------------------------------
(***************************************************************************)
(* The end of the gateway: SIGINT or an exception of a task makes the main *)
(* thread stop the others, and it waits until all of them have counted     *)
(* themselves as stopped.                                                  *)
(***************************************************************************)
EXTENDS Naturals, FiniteSets

CONSTANTS Signals,    \* the signals that the user or the system may send
          MaxSignals, \* bound: how many
          Failing     \* the tasks that may throw an exception

Receivers == {"clientRecv", "brokerRecv"}  \* they poll for SIGINT
Queues == {"packet", "brokerSend", "clientSend"}  \* the tasks that wait for events, and their queues
Tasks == Receivers \cup Queues
AfterStop == [packet |-> "brokerSend", brokerSend |-> "clientSend", clientSend |-> "waiting"]

VARIABLES theSignaled, \* 0 or the last signal
          sent,        \* the number of signals sent
          main,        \* "running", the queue to stop next, "waiting" or "ended"
          stopFlg,     \* _stopFlg
          posted,      \* the queues with a stop event
          task,        \* "running", "ended" (its run is over), "counting", "stopped"
          lock,        \* the task that holds the mutex of the process
          seen,        \* _stopCount as a task read it
          stopCount    \* _stopCount
vars == <<theSignaled, sent, main, stopFlg, posted, task, lock, seen, stopCount>>

TypeOK ==
    /\ theSignaled \in Signals \cup {"none", "INT"} /\ sent \in 0..MaxSignals
    /\ main \in {"running", "waiting", "ended"} \cup Queues
    /\ stopFlg \in BOOLEAN /\ posted \subseteq Queues
    /\ task \in [Tasks -> {"running", "ended", "counting", "stopped"}]
    /\ lock \in Tasks \cup {"nobody"} /\ seen \in [Tasks -> 0..5] /\ stopCount \in 0..5

Init ==
    /\ theSignaled = "none" /\ sent = 0
    /\ main = "running" /\ stopFlg = FALSE /\ posted = {}
    /\ task = [t \in Tasks |-> "running"]
    /\ lock = "nobody" /\ seen = [t \in Tasks |-> 0] /\ stopCount = 0

\* The handler keeps the last signal only.
SignalHandler(sig) ==
    /\ sent < MaxSignals
    /\ sent' = sent + 1
    /\ theSignaled' = sig
    /\ UNCHANGED <<main, stopFlg, posted, task, lock, seen, stopCount>>

\* The main thread looks once a second.
MainSeesSignal ==
    /\ main = "running" /\ theSignaled = "INT"
    /\ main' = "packet" /\ stopFlg' = TRUE
    /\ UNCHANGED <<theSignaled, sent, posted, task, lock, seen, stopCount>>

\* The packet queue has room (EventQue shows what happens otherwise).
PostStop ==
    /\ main \in Queues
    /\ posted' = posted \cup {main}
    /\ main' = AfterStop[main]
    /\ UNCHANGED <<theSignaled, sent, stopFlg, task, lock, seen, stopCount>>

WaitStop ==
    /\ main = "waiting" /\ stopCount >= Cardinality(Tasks)
    /\ main' = "ended"
    /\ UNCHANGED <<theSignaled, sent, stopFlg, posted, task, lock, seen, stopCount>>

\* A task leaves its loop; the sender to the clients does so with any event
\* that comes after the flag is set.
Ends(t) ==
    \/ t \in Receivers /\ theSignaled = "INT"
    \/ t \in posted
    \/ t = "clientSend" /\ stopFlg
RunEnds(t) ==
    /\ task[t] = "running" /\ Ends(t)
    /\ task' = [task EXCEPT ![t] = "ended"]
    /\ UNCHANGED <<theSignaled, sent, main, stopFlg, posted, lock, seen, stopCount>>

\* Variant: the exception ends the task only.
RunFailsAlone(t) ==
    /\ task[t] = "running" /\ t \in Failing
    /\ task' = [task EXCEPT ![t] = "ended"]
    /\ UNCHANGED <<theSignaled, sent, main, stopFlg, posted, lock, seen, stopCount>>

\* abort() is a SIGINT of the gateway's own.
RunFails(t) ==
    /\ task[t] = "running" /\ t \in Failing
    /\ task' = [task EXCEPT ![t] = "ended"]
    /\ theSignaled' = "INT"
    /\ UNCHANGED <<sent, main, stopFlg, posted, lock, seen, stopCount>>

ThreadStopped(t) ==
    /\ task[t] = "ended" /\ lock = "nobody"
    /\ task' = [task EXCEPT ![t] = "counting"]
    /\ lock' = t /\ seen' = [seen EXCEPT ![t] = stopCount]
    /\ UNCHANGED <<theSignaled, sent, main, stopFlg, posted, stopCount>>

Counted(t) ==
    /\ task[t] = "counting"
    /\ task' = [task EXCEPT ![t] = "stopped"]
    /\ stopCount' = seen[t] + 1 /\ lock' = "nobody"
    /\ UNCHANGED <<theSignaled, sent, main, stopFlg, posted, seen>>

MainStep == MainSeesSignal \/ PostStop \/ WaitStop
Step(t) == RunEnds(t) \/ RunFails(t) \/ ThreadStopped(t) \/ Counted(t)
Next == MainStep \/ (\E t \in Tasks : Step(t)) \/ \E sig \in Signals : SignalHandler(sig)

\* Every thread goes on; nothing makes a task fail.  A mutex is taken at last.
Spec ==
    /\ Init /\ [][Next]_vars
    /\ WF_vars(MainStep)
    /\ \A t \in Tasks : WF_vars(RunEnds(t) \/ Counted(t)) /\ SF_vars(ThreadStopped(t))

-----------------------------------------------------------------------------
(* Properties                                                              *)

\* NoEarlyEnd: the gateway does not end, and destroy its queues and clients,
\* under a task that still runs (MQTTSNGateway.cpp:371).
NoEarlyEnd == main = "ended" => \A t \in Tasks : task[t] = "stopped"

\* Stops: once a user types CTRL+C or a task has failed, the gateway ends
\* (MQTTSNGateway.cpp:354).
Stops == (theSignaled = "INT" \/ \E t \in Failing : task[t] # "running") ~> main = "ended"

\* StopSeen: once the gateway stops its tasks it ends, whatever other signal
\* comes (MQTTSNGateway.cpp:370).
StopSeen == stopFlg ~> main = "ended"
=============================================================================
