------------------------ MODULE BlockingQueueProofs -------------------------
(***************************************************************************)
(* Proofs about BlockingQueue, for any set of threads and any queue size.  *)
(***************************************************************************)
EXTENDS BlockingQueue, TLAPS

\* The mutex belongs to the thread that is between lock and unlock.
HoldsMutex ==
  \A t \in Threads :
    pc[t] \in {"locked", "last_check", "ready", "unlocking"} <=> owner = t

\* What a thread has found to hold still holds when it acts on it.
ReadyToRun == \A t \in Threads : pc[t] = "ready" => Condition(t)

\* The types alone are not inductive, since a pop takes the tail of a queue that
\* it has seen not empty in an earlier step.
QueueInv == TypeOK /\ HoldsMutex /\ ReadyToRun

\* A step that leaves the queue and the operations alone changes no condition.
LEMMA SameConditions ==
  ASSUME UNCHANGED <<deque, op>>
  PROVE \A t \in Threads : Condition(t)' <=> Condition(t)
BY DEF Condition, Pushes, Pops, QueueNotFullCondition, QueueEmptyCondition

LEMMA TypeNext == QueueInv /\ [Next]_vars => TypeOK'
<1> SUFFICES ASSUME QueueInv, [Next]_vars PROVE TypeOK'
  OBVIOUS
<1> USE QueueAssumption DEF QueueInv, TypeOK, Pc, Goto
<1>1. ASSUME NEW t \in Threads, Call(t) PROVE TypeOK'
  BY <1>1 DEF Call
<1>2. ASSUME NEW t \in Threads, Lock(t) PROVE TypeOK'
  BY <1>2, Zenon DEF Lock
<1>3. ASSUME NEW t \in Threads, Check(t) PROVE TypeOK'
  BY <1>3 DEF Check
<1>4. ASSUME NEW t \in Threads, Run(t) PROVE TypeOK'
  <2>1. deque' \in Seq(Value)
    <3>1. CASE \E v \in Value : deque' = Append(deque, v)
      BY <3>1
    <3>2. CASE Pops(t) /\ deque' = Tail(deque)
      <4>1. deque # <<>>
        BY <1>4, <3>2 DEF Run, ReadyToRun, Condition, QueueEmptyCondition
      <4>2. QED
        BY <3>2, <4>1
    <3>3. CASE deque' = deque
      BY <3>3
    <3>4. QED
      BY <1>4, <3>1, <3>2, <3>3 DEF Run, Body
  <2>2. QED
    BY <1>4, <2>1 DEF Run
<1>5. ASSUME NEW t \in Threads, Await(t) PROVE TypeOK'
  BY <1>5 DEF Await
<1>6. ASSUME NEW t \in Threads, SpuriousWakeup(t) PROVE TypeOK'
  BY <1>6 DEF SpuriousWakeup
<1>7. ASSUME NEW t \in Threads, TimeOut(t) PROVE TypeOK'
  BY <1>7 DEF TimeOut
<1>8. ASSUME NEW t \in Threads, GiveUp(t) PROVE TypeOK'
  BY <1>8 DEF GiveUp
<1>9. ASSUME NEW t \in Threads, Unlock(t) PROVE TypeOK'
  BY <1>9 DEF Unlock
<1>10. ASSUME NEW t \in Threads, NotifyAll(t) PROVE TypeOK'
  BY <1>10 DEF NotifyAll
<1>11. CASE UNCHANGED vars
  BY <1>11 DEF vars
<1>12. QED
  BY <1>1, <1>2, <1>3, <1>4, <1>5, <1>6, <1>7, <1>8, <1>9, <1>10, <1>11
     DEF Next, Step

LEMMA MutexNext == QueueInv /\ [Next]_vars => HoldsMutex'
<1> SUFFICES ASSUME QueueInv, [Next]_vars PROVE HoldsMutex'
  OBVIOUS
<1> USE QueueAssumption DEF QueueInv, TypeOK, HoldsMutex, Goto
<1>1. ASSUME NEW t \in Threads, Call(t) PROVE HoldsMutex'
  BY <1>1 DEF Call
<1>2. ASSUME NEW t \in Threads, Lock(t) PROVE HoldsMutex'
  BY <1>2 DEF Lock
<1>3. ASSUME NEW t \in Threads, Check(t) PROVE HoldsMutex'
  BY <1>3 DEF Check
<1>4. ASSUME NEW t \in Threads, Run(t) PROVE HoldsMutex'
  BY <1>4 DEF Run
<1>5. ASSUME NEW t \in Threads, Await(t) PROVE HoldsMutex'
  BY <1>5 DEF Await
<1>6. ASSUME NEW t \in Threads, SpuriousWakeup(t) PROVE HoldsMutex'
  BY <1>6 DEF SpuriousWakeup
<1>7. ASSUME NEW t \in Threads, TimeOut(t) PROVE HoldsMutex'
  BY <1>7 DEF TimeOut
<1>8. ASSUME NEW t \in Threads, GiveUp(t) PROVE HoldsMutex'
  BY <1>8 DEF GiveUp
<1>9. ASSUME NEW t \in Threads, Unlock(t) PROVE HoldsMutex'
  BY <1>9 DEF Unlock
<1>10. ASSUME NEW t \in Threads, NotifyAll(t) PROVE HoldsMutex'
  BY <1>10 DEF NotifyAll
<1>11. CASE UNCHANGED vars
  BY <1>11 DEF vars
<1>12. QED
  BY <1>1, <1>2, <1>3, <1>4, <1>5, <1>6, <1>7, <1>8, <1>9, <1>10, <1>11
     DEF Next, Step

\* The mutex keeps the queue as it is between the look at a condition and the
\* step that relies on it: a thread that runs its body leaves no other thread
\* ready.
LEMMA ReadyNext == QueueInv /\ [Next]_vars => ReadyToRun'
<1> SUFFICES ASSUME QueueInv, [Next]_vars, NEW u \in Threads, pc'[u] = "ready"
             PROVE Condition(u)'
  BY DEF ReadyToRun
<1> USE DEF QueueInv, TypeOK, Goto
<1>1. pc[u] = "ready" => Condition(u)
  BY DEF ReadyToRun
<1>2. ASSUME UNCHANGED <<deque, op>>, pc[u] = "ready" PROVE Condition(u)'
  BY <1>1, <1>2, SameConditions
<1>3. ASSUME NEW t \in Threads, Call(t) PROVE Condition(u)'
  <2>1. u # t /\ pc[u] = "ready"
    BY <1>3 DEF Call
  <2>2. deque' = deque /\ op'[u] = op[u]
    BY <1>3, <2>1 DEF Call
  <2>3. QED
    BY <1>1, <2>1, <2>2 DEF Condition, Pushes, Pops, QueueNotFullCondition,
                            QueueEmptyCondition
<1>4. ASSUME NEW t \in Threads, Lock(t) PROVE Condition(u)'
  BY <1>2, <1>4 DEF Lock
<1>5. ASSUME NEW t \in Threads, Check(t) PROVE Condition(u)'
  <2>1. UNCHANGED <<deque, op>> /\ Condition(t) /\ (u = t \/ pc[u] = "ready")
    BY <1>5 DEF Check
  <2>2. QED
    BY <1>1, <2>1, SameConditions
<1>6. ASSUME NEW t \in Threads, Run(t) PROVE Condition(u)'
  <2>1. pc[t] = "ready" /\ u # t /\ pc[u] = "ready"
    BY <1>6 DEF Run
  <2>2. owner = t /\ owner = u
    BY <2>1 DEF HoldsMutex
  <2>3. QED
    BY <2>1, <2>2
<1>7. ASSUME NEW t \in Threads,
             Await(t) \/ SpuriousWakeup(t) \/ TimeOut(t) \/ GiveUp(t) \/ Unlock(t)
      PROVE Condition(u)'
  BY <1>2, <1>7 DEF Await, SpuriousWakeup, TimeOut, GiveUp, Unlock
<1>8. ASSUME NEW t \in Threads, NotifyAll(t) PROVE Condition(u)'
  BY <1>2, <1>8 DEF NotifyAll
<1>9. CASE UNCHANGED vars
  BY <1>2, <1>9 DEF vars
<1>10. QED
  BY <1>3, <1>4, <1>5, <1>6, <1>7, <1>8, <1>9 DEF Next, Step

\* What a thread has seen of the queue under the mutex is still so when it acts.
THEOREM QueueInvariant == Spec => []QueueInv
<1>1. Init => QueueInv
  BY QueueAssumption
     DEF Init, QueueInv, TypeOK, Pc, Op, HoldsMutex, ReadyToRun
<1>2. QueueInv /\ [Next]_vars => QueueInv'
  BY TypeNext, MutexNext, ReadyNext DEF QueueInv
<1>3. QED
  BY <1>1, <1>2, PTL DEF Spec

\* The variables of the queue always have the types that TypeOK gives them.
THEOREM TypeCorrect == Spec => []TypeOK
<1>1. QueueInv => TypeOK
  BY DEF QueueInv
<1>2. QED
  BY <1>1, QueueInvariant, PTL

\* No notification is lost: only the body of an operation can make a condition
\* true, and the thread that ran it notifies later.
THEOREM NotificationsAreNotLost == Spec => []NoLostNotification
<1> USE DEF NoLostNotification, Goto
<1>1. Init => NoLostNotification
  BY DEF Init
<1>2. TypeOK /\ NoLostNotification /\ [Next]_vars => NoLostNotification'
  <2> SUFFICES ASSUME TypeOK, NoLostNotification, [Next]_vars
               PROVE NoLostNotification'
    OBVIOUS
  <2> USE DEF TypeOK
  <2>1. ASSUME NEW t \in Threads, Call(t) PROVE NoLostNotification'
    <3>1. \A u \in Threads \ {t} : Condition(u)' <=> Condition(u)
      BY <2>1 DEF Call, Condition, Pushes, Pops, QueueNotFullCondition,
                  QueueEmptyCondition
    <3>2. QED
      BY <2>1, <3>1 DEF Call
  <2>2. ASSUME NEW t \in Threads, Lock(t) PROVE NoLostNotification'
    BY <2>2, SameConditions DEF Lock
  <2>3. ASSUME NEW t \in Threads, Check(t) \/ Run(t) PROVE NoLostNotification'
    BY <2>3, SameConditions DEF Check, Run
  <2>4. ASSUME NEW t \in Threads, Await(t) PROVE NoLostNotification'
    BY <2>4, SameConditions DEF Await
  <2>5. ASSUME NEW t \in Threads, SpuriousWakeup(t) PROVE NoLostNotification'
    BY <2>5, SameConditions DEF SpuriousWakeup
  <2>6. ASSUME NEW t \in Threads, TimeOut(t) PROVE NoLostNotification'
    BY <2>6, SameConditions DEF TimeOut
  <2>7. ASSUME NEW t \in Threads, GiveUp(t) PROVE NoLostNotification'
    BY <2>7 DEF GiveUp
  <2>8. ASSUME NEW t \in Threads, Unlock(t) PROVE NoLostNotification'
    BY <2>8 DEF Unlock
  <2>9. ASSUME NEW t \in Threads, NotifyAll(t) PROVE NoLostNotification'
    BY <2>9 DEF NotifyAll
  <2>10. CASE UNCHANGED vars
    BY <2>10, SameConditions DEF vars
  <2>11. QED
    BY <2>1, <2>2, <2>3, <2>4, <2>5, <2>6, <2>7, <2>8, <2>9, <2>10
       DEF Next, Step
<1>3. QED
  BY <1>1, <1>2, TypeCorrect, PTL DEF Spec

\* BlockingQueue implements the bounded FIFO: the body of an operation is a Put
\* or a Take, since its condition still holds, and every other step leaves the
\* contents alone.
THEOREM QueueIsFifo == Spec => ImplementsFifo
<1>1. Init => Fifo!FifoInit
  BY DEF Init, Fifo!FifoInit
<1>2. QueueInv /\ [Next]_vars => [Fifo!FifoNext]_deque
  <2> SUFFICES ASSUME QueueInv, [Next]_vars PROVE [Fifo!FifoNext]_deque
    OBVIOUS
  <2>1. ASSUME NEW t \in Threads, Run(t) PROVE [Fifo!FifoNext]_deque
    <3>1. Condition(t) /\ Body(t)
      BY <2>1 DEF Run, QueueInv, ReadyToRun
    <3>2. QED
      BY <3>1 DEF Body, Condition, QueueNotFullCondition, QueueEmptyCondition,
                  Fifo!FifoNext, Fifo!Put, Fifo!Take
  <2>2. ASSUME NEW t \in Threads, Call(t) \/ SpuriousWakeup(t)
        PROVE UNCHANGED deque
    BY <2>2 DEF Call, SpuriousWakeup
  <2>3. ASSUME NEW t \in Threads, Step(t), ~Run(t) PROVE UNCHANGED deque
    BY <2>3 DEF Step, Lock, Check, Await, TimeOut, GiveUp, Unlock, NotifyAll
  <2>4. CASE UNCHANGED vars
    BY <2>4 DEF vars
  <2>5. QED
    BY <2>1, <2>2, <2>3, <2>4 DEF Next
<1>3. QED
  BY <1>1, <1>2, QueueInvariant, PTL DEF Spec, ImplementsFifo, Fifo!FifoSpec
=============================================================================
