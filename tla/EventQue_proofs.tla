-------------------------- MODULE EventQue_proofs --------------------------
(***************************************************************************)
(* For any set of producers, any number of posts and any maximum size:     *)
(* types, no lost wake-up, and the queue implements the FIFO.              *)
(***************************************************************************)
EXTENDS EventQue, TLAPS, SequenceTheorems

(* The mutex is held by exactly the task whose program counter says so.    *)
MutexHeld ==
    /\ \A p \in Producers : ppc[p] # "idle" <=> mutex = p
    /\ cpc \in {"front", "unlock"} <=> mutex = Consumer

(* ev is null until front() and not null once wait() has returned.         *)
OutInv ==
    /\ cpc \in {"size", "wait", "lock", "front"} => out = None
    /\ cpc = "handle" => out # None

BudgetInv == \A p \in Producers : ppc[p] = "append" => sent[p] < Budget[p]

IInv == TypeOK /\ MutexHeld /\ OutInv /\ BudgetInv /\ Credit

(* The queue starts empty, its mutex free and nobody in it.                *)
LEMMA InitIInv == Init => IInv
  BY QueAssumption DEF Init, IInv, TypeOK, MutexHeld, OutInv, BudgetInv, Credit, Owed,
     Claimed, Event, Fifo!Event

(* Every step of a poster and of the task keeps the types.                 *)
LEMMA TypeStep == IInv /\ [Next]_vars => TypeOK'
<1> SUFFICES ASSUME IInv, [Next]_vars PROVE TypeOK'
  OBVIOUS
<1> USE QueAssumption DEF IInv, TypeOK
<1>1. ASSUME NEW p \in Producers, PostLock(p) PROVE TypeOK'
  BY <1>1 DEF PostLock
<1>2. ASSUME NEW p \in Producers, PostAppend(p) PROVE TypeOK'
  <2>1. Fifo!NextEvent(p) \in Event \cup {Stop}
    BY DEF Fifo!NextEvent, Event, Fifo!Event
  <2>2. Append(que, Fifo!NextEvent(p)) \in Seq(Event \cup {Stop})
    BY <2>1
  <2>3. que' \in Seq(Event \cup {Stop})
    BY <1>2, <2>2 DEF PostAppend
  <2>4. sent' \in [Producers -> Nat]
    BY <1>2 DEF PostAppend
  <2>5. ppc' \in [Producers -> {"idle", "append", "signal", "unlock"}]
    BY <1>2 DEF PostAppend
  <2> QED
    BY <1>2, <2>3, <2>4, <2>5 DEF PostAppend
<1>3. ASSUME NEW p \in Producers, PostSignal(p) PROVE TypeOK'
  BY <1>3 DEF PostSignal
<1>4. ASSUME NEW p \in Producers, PostUnlock(p) PROVE TypeOK'
  BY <1>4 DEF PostUnlock
<1>5. CASE ReadSize
  BY <1>5 DEF ReadSize
<1>6. CASE SemWait
  BY <1>6 DEF SemWait
<1>7. CASE SemTimeUp
  BY <1>7 DEF SemTimeUp
<1>8. CASE GetLock
  BY <1>8 DEF GetLock
<1>9. CASE GetFront
  <2>1. CASE que # <<>>
    <3>1. Head(que) \in Event \cup {Stop} /\ Tail(que) \in Seq(Event \cup {Stop})
      BY <2>1
    <3> QED
      BY <1>9, <2>1, <3>1 DEF GetFront
  <2>2. CASE que = <<>>
    BY <1>9, <2>2 DEF GetFront
  <2> QED
    BY <2>1, <2>2
<1>10. CASE GetUnlock
  BY <1>10 DEF GetUnlock
<1>11. CASE Handle
  BY <1>11 DEF Handle
<1>12. CASE UNCHANGED vars
  BY <1>12 DEF vars
<1> QED
  BY <1>1, <1>2, <1>3, <1>4, <1>5, <1>6, <1>7, <1>8, <1>9, <1>10, <1>11, <1>12
     DEF Next, PostStep, GetStep

(* post(), front() and pop() hold the mutex of the queue, size() does not. *)
LEMMA MutexStep == IInv /\ [Next]_vars => MutexHeld'
<1> SUFFICES ASSUME IInv, [Next]_vars PROVE MutexHeld'
  OBVIOUS
<1> USE QueAssumption DEF IInv, TypeOK, MutexHeld
<1>1. ASSUME NEW p \in Producers, PostStep(p) PROVE MutexHeld'
  BY <1>1 DEF PostStep, PostLock, PostAppend, PostSignal, PostUnlock
<1>2. CASE GetStep
  BY <1>2 DEF GetStep, ReadSize, SemWait, SemTimeUp, GetLock, GetFront, GetUnlock, Handle
<1>3. CASE UNCHANGED vars
  BY <1>3 DEF vars
<1> QED
  BY <1>1, <1>2, <1>3 DEF Next

(* The task holds an event when wait() has returned, and none before.      *)
LEMMA OutStep == IInv /\ [Next]_vars => OutInv'
<1> SUFFICES ASSUME IInv, [Next]_vars PROVE OutInv'
  OBVIOUS
<1> USE QueAssumption DEF IInv, TypeOK, OutInv
<1>1. ASSUME NEW p \in Producers, PostStep(p) PROVE OutInv'
  BY <1>1 DEF PostStep, PostLock, PostAppend, PostSignal, PostUnlock
<1>2. CASE GetStep
  BY <1>2 DEF GetStep, ReadSize, SemWait, SemTimeUp, GetLock, GetFront, GetUnlock, Handle
<1>3. CASE UNCHANGED vars
  BY <1>3 DEF vars
<1> QED
  BY <1>1, <1>2, <1>3 DEF Next

(* A poster that is inside post() has an event left to post.               *)
LEMMA BudgetStep == IInv /\ [Next]_vars => BudgetInv'
<1> SUFFICES ASSUME IInv, [Next]_vars PROVE BudgetInv'
  OBVIOUS
<1> USE QueAssumption DEF IInv, TypeOK, BudgetInv
<1>1. ASSUME NEW p \in Producers, PostStep(p) PROVE BudgetInv'
  BY <1>1 DEF PostStep, PostLock, PostAppend, PostSignal, PostUnlock, MutexHeld
<1>2. CASE GetStep
  BY <1>2 DEF GetStep, ReadSize, SemWait, SemTimeUp, GetLock, GetFront, GetUnlock, Handle
<1>3. CASE UNCHANGED vars
  BY <1>3 DEF vars
<1> QED
  BY <1>1, <1>2, <1>3 DEF Next

(* Every step keeps the balance of events and credits: an append borrows   *)
(* one credit that the post returns, a skipped wait spends none, and a pop *)
(* removes the event the consumer's credit stood for.                      *)
LEMMA CreditStep == IInv /\ [Next]_vars => Credit'
<1> SUFFICES ASSUME IInv, [Next]_vars PROVE Credit'
  OBVIOUS
<1> USE QueAssumption DEF IInv, TypeOK, Credit
<1>0. Len(que) \in Nat
  BY LenProperties
<1>1. ASSUME NEW p \in Producers, PostLock(p) PROVE Credit'
  <2>1. Owed' = Owed
    BY <1>1 DEF PostLock, Owed
  <2> QED
    BY <1>1, <2>1 DEF PostLock, Claimed
<1>2. ASSUME NEW p \in Producers, PostAppend(p) PROVE Credit'
  <2>1. Owed = 0
    BY <1>2 DEF PostAppend, Owed, MutexHeld
  <2>2. Claimed' = Claimed /\ sem' = sem
    BY <1>2 DEF PostAppend, Claimed
  <2>3. CASE MaxSize = 0 \/ Len(que) < MaxSize
    <3>1. Len(que') = Len(que) + 1
      BY <1>2, <2>3 DEF PostAppend
    <3>2. Owed' = 1
      BY <1>2, <2>3 DEF PostAppend, Owed
    <3> QED
      BY <1>0, <2>1, <2>2, <3>1, <3>2 DEF Claimed
  <2>4. CASE ~(MaxSize = 0 \/ Len(que) < MaxSize)
    BY <1>0, <1>2, <2>1, <2>2, <2>4 DEF PostAppend, Owed, Claimed
  <2> QED
    BY <2>3, <2>4
<1>3. ASSUME NEW p \in Producers, PostSignal(p) PROVE Credit'
  <2>1. Owed = 1 /\ Owed' = 0
    BY <1>3 DEF PostSignal, Owed, MutexHeld
  <2> QED
    BY <1>0, <1>3, <2>1 DEF PostSignal, Claimed
<1>4. ASSUME NEW p \in Producers, PostUnlock(p) PROVE Credit'
  <2>1. Owed' = Owed
    BY <1>4 DEF PostUnlock, Owed
  <2> QED
    BY <1>4, <2>1 DEF PostUnlock, Claimed
<1>5. ASSUME GetStep PROVE Owed' = Owed
  BY <1>5 DEF GetStep, ReadSize, SemWait, SemTimeUp, GetLock, GetFront, GetUnlock, Handle, Owed
<1>6. CASE ReadSize
  BY <1>0, <1>5, <1>6 DEF GetStep, ReadSize, Claimed, Owed
<1>7. CASE SemWait
  BY <1>0, <1>5, <1>7 DEF GetStep, SemWait, Claimed, Owed
<1>8. CASE SemTimeUp
  BY <1>0, <1>5, <1>8 DEF GetStep, SemTimeUp, Claimed, Owed
<1>9. CASE GetLock
  BY <1>0, <1>5, <1>9 DEF GetStep, GetLock, Claimed, Owed
<1>10. CASE GetFront
  <2>1. Len(que') = IF que = <<>> THEN 0 ELSE Len(que) - 1
    BY <1>10 DEF GetFront
  <2> QED
    BY <1>0, <1>5, <1>10, <2>1 DEF GetStep, GetFront, Claimed, Owed
<1>11. CASE GetUnlock
  BY <1>0, <1>5, <1>11 DEF GetStep, GetUnlock, Claimed, Owed
<1>12. CASE Handle
  BY <1>0, <1>5, <1>12 DEF GetStep, Handle, Claimed, Owed
<1>13. CASE UNCHANGED vars
  BY <1>13 DEF vars, Claimed, Owed
<1> QED
  BY <1>1, <1>2, <1>3, <1>4, <1>6, <1>7, <1>8, <1>9, <1>10, <1>11, <1>12, <1>13
     DEF Next, PostStep, GetStep

(* The inductive invariant holds in every reachable state.                 *)
THEOREM Inductive == Spec => []IInv
<1>1. IInv /\ [Next]_vars => IInv'
  BY TypeStep, MutexStep, OutStep, BudgetStep, CreditStep DEF IInv
<1> QED
  BY InitIInv, <1>1, PTL DEF Spec

(* The types of the queue, its semaphore and its mutex, for any number of  *)
(* posting tasks and any maximum size.                                     *)
THEOREM TypeCorrect == Spec => []TypeOK
  BY Inductive, PTL DEF IInv

(* The semaphore covers the queue although size() is read unlocked.        *)
THEOREM CreditCovers == Spec => []Credit
  BY Inductive, PTL DEF IInv

(* A consumer blocked in _sem.wait() with no post under way has nothing to *)
(* fetch: no event is left behind in the queue.                            *)
THEOREM WakeupNotLost == Spec => []NoLostWakeup
<1>1. IInv => NoLostWakeup
  BY LenProperties, EmptySeq DEF IInv, TypeOK, Credit, NoLostWakeup, Owed, Claimed
<1> QED
  BY Inductive, <1>1, PTL

(* post(), wait() and timedwait() with their unlocked reads, their mutex   *)
(* and their semaphore behave as the atomic FIFO the tasks rely on.        *)
THEOREM FifoImplemented == Spec => ImplementsFifo
<1>1. Init => Fifo!Init
  BY DEF Init, Fifo!Init
<1>2. IInv /\ [Next]_vars => [Fifo!Next]_(Fifo!vars)
  <2> SUFFICES ASSUME IInv, [Next]_vars PROVE Fifo!Next \/ UNCHANGED Fifo!vars
    OBVIOUS
  <2> USE QueAssumption DEF IInv, TypeOK
  <2>1. ASSUME NEW p \in Producers, PostAppend(p) PROVE Fifo!Post(p)
    BY <2>1 DEF PostAppend, Fifo!Post, Fifo!HasRoom, BudgetInv
  <2>2. ASSUME NEW p \in Producers, PostLock(p) \/ PostSignal(p) \/ PostUnlock(p)
        PROVE UNCHANGED Fifo!vars
    BY <2>2 DEF PostLock, PostSignal, PostUnlock, Fifo!vars
  <2>3. CASE ReadSize \/ SemWait \/ SemTimeUp \/ GetLock \/ GetUnlock
    BY <2>3 DEF ReadSize, SemWait, SemTimeUp, GetLock, GetUnlock, Fifo!vars
  <2>4. CASE GetFront
    <3>1. out = None
      BY <2>4 DEF GetFront, OutInv
    <3>2. CASE que # <<>>
      BY <2>4, <3>1, <3>2 DEF GetFront, Fifo!Get, Fifo!Next
    <3>3. CASE que = <<>> /\ timed
      BY <2>4, <3>1, <3>3 DEF GetFront, Fifo!TimeUp, Fifo!Next
    <3>4. CASE que = <<>> /\ ~timed
      BY <2>4, <3>1, <3>4 DEF GetFront, Fifo!vars
    <3> QED
      BY <3>2, <3>3, <3>4
  <2>5. CASE Handle
    <3>1. CASE out = Stop
      BY <2>5, <3>1 DEF Handle, Fifo!vars
    <3>2. CASE out # Stop
      BY <2>5, <3>2 DEF Handle, OutInv, Fifo!Finish, Fifo!Next
    <3> QED
      BY <3>1, <3>2
  <2>6. CASE UNCHANGED vars
    BY <2>6 DEF vars, Fifo!vars
  <2> QED
    BY <2>1, <2>2, <2>3, <2>4, <2>5, <2>6 DEF Next, PostStep, GetStep, Fifo!Next
<1> QED
  BY <1>1, <1>2, Inductive, PTL DEF Spec, ImplementsFifo, Fifo!Spec
=============================================================================
