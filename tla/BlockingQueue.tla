--------------------------- MODULE BlockingQueue ----------------------------
(***************************************************************************)
(* common::BlockingQueue (blocking_queue.h) on common::Mutex (mutex.h): a  *)
(* monitor with one condition variable.  Every operation takes the mutex,  *)
(* waits for its condition, and ends by releasing the mutex and, after     *)
(* that, waking every waiting thread.                                      *)
(***************************************************************************)
EXTENDS Naturals, Sequences, FiniteSets

CONSTANTS
  Threads,
  NoThread,
  Value,
  QueueSize,  \* queue_size_; 0 is kInfiniteQueueSize
  OpsOf,      \* the operations each thread calls
  MaxOps      \* bound: calls a thread makes

Op == {"Push", "PushWithTimeout", "Pop", "PopWithTimeout", "Peek", "Size",
       "WaitUntilEmpty"}

ASSUME QueueAssumption ==
  /\ QueueSize \in Nat
  /\ MaxOps \in Nat
  /\ NoThread \notin Threads
  /\ OpsOf \in [Threads -> SUBSET Op]

VARIABLES
  deque,
  owner,  \* the thread that holds the mutex
  pc,     \* where each thread is in its operation
  op,     \* the operation it runs
  calls   \* how many it has begun

vars == <<deque, owner, pc, op, calls>>

\* "locking": in the constructor of the Locker, or woken and about to take the
\* mutex again.  "waiting": blocked on the condition variable.  "timed_out":
\* the wait has timed out and the mutex is not taken again yet.  "ready": the
\* condition has been found to hold and the body comes next.
Pc == {"idle", "locking", "locked", "waiting", "timed_out", "last_check",
       "ready", "unlocking", "notifying"}

TypeOK ==
  /\ deque \in Seq(Value)
  /\ owner \in Threads \cup {NoThread}
  /\ pc \in [Threads -> Pc]
  /\ op \in [Threads -> Op]
  /\ calls \in [Threads -> 0..MaxOps]

Init ==
  /\ deque = <<>>
  /\ owner = NoThread
  /\ pc = [t \in Threads |-> "idle"]
  /\ op = [t \in Threads |-> "Size"]
  /\ calls = [t \in Threads |-> 0]

-----------------------------------------------------------------------------

QueueEmptyCondition == deque = <<>>
QueueNotFullCondition == QueueSize = 0 \/ Len(deque) < QueueSize

Pushes(t) == op[t] \in {"Push", "PushWithTimeout"}
Pops(t) == op[t] \in {"Pop", "PopWithTimeout"}
Timed(t) == op[t] \in {"PushWithTimeout", "PopWithTimeout"}

\* The predicate that the operation awaits; Peek and Size await nothing.
Condition(t) ==
  /\ Pushes(t) => QueueNotFullCondition
  /\ Pops(t) => ~QueueEmptyCondition
  /\ op[t] = "WaitUntilEmpty" => QueueEmptyCondition

Goto(t, label) == pc' = [pc EXCEPT ![t] = label]

Call(t) ==
  /\ pc[t] = "idle"
  /\ calls[t] < MaxOps
  /\ \E o \in OpsOf[t] : op' = [op EXCEPT ![t] = o]
  /\ calls' = [calls EXCEPT ![t] = @ + 1]
  /\ Goto(t, "locking")
  /\ UNCHANGED <<deque, owner>>

\* The mutex is taken in the constructor of the Locker, and again at the end of
\* a wait.
Lock(t) ==
  /\ owner = NoThread
  /\ owner' = t
  /\ \/ pc[t] = "locking" /\ Goto(t, "locked")
     \/ pc[t] = "timed_out" /\ Goto(t, "last_check")
  /\ UNCHANGED <<deque, op, calls>>

\* Mutant: the value has been moved away before it is pushed.
BodyAfterMove(t) ==
  \/ /\ Pushes(t)
     /\ deque' = Append(deque, NoThread)
  \/ /\ Pops(t)
     /\ deque' = Tail(deque)
  \/ /\ ~Pushes(t) /\ ~Pops(t)
     /\ UNCHANGED deque

\* The body of an operation, which takes its condition for granted.
Body(t) ==
  \/ /\ Pushes(t)
     /\ \E v \in Value : deque' = Append(deque, v)
  \/ /\ Pops(t)
     /\ deque' = Tail(deque)
  \/ /\ ~Pushes(t) /\ ~Pops(t)
     /\ UNCHANGED deque

\* The predicate is true: the wait, if there was one, is over.
Check(t) ==
  /\ pc[t] \in {"locked", "last_check"}
  /\ Condition(t)
  /\ Goto(t, "ready")
  /\ UNCHANGED <<deque, owner, op, calls>>

\* Mutant: a push appends its value after it has released the mutex.
RunAfterRelease(t) ==
  /\ pc[t] = "ready"
  /\ \/ /\ Pushes(t) /\ owner = t
        /\ owner' = NoThread
        /\ UNCHANGED <<deque, pc>>
     \/ /\ Pushes(t) /\ owner # t
        /\ Body(t)
        /\ Goto(t, "notifying")
        /\ UNCHANGED owner
     \/ /\ ~Pushes(t)
        /\ Body(t)
        /\ Goto(t, "unlocking")
        /\ UNCHANGED owner
  /\ UNCHANGED <<op, calls>>

Run(t) ==
  /\ pc[t] = "ready"
  /\ Body(t)
  /\ Goto(t, "unlocking")
  /\ UNCHANGED <<owner, op, calls>>

\* The predicate is false: release the mutex and block, in one step.
Await(t) ==
  /\ pc[t] = "locked"
  /\ ~Condition(t)
  /\ owner' = NoThread
  /\ Goto(t, "waiting")
  /\ UNCHANGED <<deque, op, calls>>

\* A condition variable may wake a thread that nobody notified.
SpuriousWakeup(t) ==
  /\ pc[t] = "waiting"
  /\ Goto(t, "locking")
  /\ UNCHANGED <<deque, owner, op, calls>>

TimeOut(t) ==
  /\ pc[t] = "waiting"
  /\ Timed(t)
  /\ Goto(t, "timed_out")
  /\ UNCHANGED <<deque, owner, op, calls>>

\* The predicate, looked at once more after the timeout, is still false: return
\* false or nullptr.
GiveUp(t) ==
  /\ pc[t] = "last_check"
  /\ ~Condition(t)
  /\ Goto(t, "unlocking")
  /\ UNCHANGED <<deque, owner, op, calls>>

\* The destructor of the Locker: unlock, then notify_all.
Unlock(t) ==
  /\ pc[t] = "unlocking"
  /\ owner' = NoThread
  /\ Goto(t, "notifying")
  /\ UNCHANGED <<deque, op, calls>>

\* Mutant: notify_one.
NotifyOne(t) ==
  /\ pc[t] = "notifying"
  /\ LET sleeping == {u \in Threads : pc[u] = "waiting"} IN
     IF sleeping = {}
     THEN Goto(t, "idle")
     ELSE \E u \in sleeping :
            pc' = [pc EXCEPT ![t] = "idle", ![u] = "locking"]
  /\ UNCHANGED <<deque, owner, op, calls>>

NotifyAll(t) ==
  /\ pc[t] = "notifying"
  /\ pc' = [u \in Threads |-> IF u = t THEN "idle"
                              ELSE IF pc[u] = "waiting" THEN "locking"
                              ELSE pc[u]]
  /\ UNCHANGED <<deque, owner, op, calls>>

Step(t) ==
  \/ Lock(t)
  \/ Check(t)
  \/ Run(t)
  \/ Await(t)
  \/ TimeOut(t)
  \/ GiveUp(t)
  \/ Unlock(t)
  \/ NotifyAll(t)

Next == \E t \in Threads : Call(t) \/ Step(t) \/ SpuriousWakeup(t)

Spec == Init /\ [][Next]_vars

\* A thread inside an operation goes on whenever it can, and every timed wait
\* ends.  Nobody has to call anything, and no spurious wakeup is relied upon.
FairSpec == Spec /\ \A t \in Threads : WF_vars(Step(t))

-----------------------------------------------------------------------------
(* Properties *)

\* No wakeup is lost: a thread that sleeps although its condition holds is about
\* to be notified, since ~Locker notifies after every operation.
NoLostNotification ==
  \A t \in Threads :
    (pc[t] = "waiting" /\ Condition(t))
      => \E u \in Threads : pc[u] \in {"unlocking", "notifying"}

\* The queue behaves as a bounded FIFO: no push goes beyond the size and no pop
\* finds the queue empty, although a thread's condition is looked at before the
\* step that relies on it, perhaps after a timeout, and other threads may push
\* and pop as soon as they get the mutex.
Fifo == INSTANCE BoundedFifo WITH fifo <- deque
ImplementsFifo == Fifo!FifoSpec

\* A thread whose condition holds does not sleep for ever.
SleepersWakeUp ==
  \A t \in Threads :
    (pc[t] = "waiting" /\ Condition(t)) ~> (pc[t] # "waiting" \/ ~Condition(t))
=============================================================================
