------------------------ MODULE CompletionQueuePool -------------------------
(***************************************************************************)
(* The completion queues that asynchronous clients share                   *)
(* (completion_queue_pool.cc).  The pool is created by the first use, shut *)
(* down by one thread, here the administrator, and may be used again then. *)
(*                                                                         *)
(* Only Shutdown keeps the mutex over several steps: it is held exactly    *)
(* while administrator = "shutdown".  Initialize is one step.  Between its *)
(* lock and its unlock it changes nothing that is read without the mutex,  *)
(* except after a Shutdown, and then GetCompletionQueue has gone wrong     *)
(* already.                                                                *)
(***************************************************************************)
EXTENDS Integers, FiniteSets

CONSTANTS
  MaxQueues,    \* kDefaultNumberCompletionQueues, and bound: completion queues
  MaxShutdowns  \* bound: calls of Shutdown

ASSUME PoolAssumption == MaxQueues \in Nat \ {0} /\ MaxShutdowns \in Nat

VARIABLES
  administrator,  \* the call that the administrator is in
  initialized,    \* initialized_
  number,         \* number_completion_queues_
  size,           \* completion_queues_.size()
  thread,         \* the CompletionQueues: their threads, and if they are shut down
  shutdowns,      \* calls of Shutdown so far
  fault           \* the failed CHECK or undefined operation that ends it all

poolVars == <<administrator, initialized, number, size, thread, shutdowns>>

Queues == 1..MaxQueues

ThreadState == {"none", "running", "shut_down", "exited"}

PoolTypeOK ==
  /\ administrator \in {"idle", "set_number", "shutdown"}
  /\ initialized \in BOOLEAN
  /\ number \in Queues
  /\ size \in 0..MaxQueues
  /\ thread \in [Queues -> ThreadState]
  /\ shutdowns \in 0..MaxShutdowns

PoolInit ==
  /\ administrator = "idle"
  /\ initialized = FALSE
  /\ number = MaxQueues
  /\ size = 0
  /\ thread = [q \in Queues |-> "none"]
  /\ shutdowns = 0

MutexIsFree == administrator # "shutdown"

-----------------------------------------------------------------------------
(* Initialize *)

\* Mutant: a pool that is in use is initialized again.
InitializeAlways ==
  /\ MutexIsFree
  /\ size' = number
  /\ thread' = [q \in Queues |-> IF q <= number THEN "running" ELSE "none"]
  /\ initialized' = TRUE

\* Mutant: a vector from before Shutdown would do as well.
InitializeOnce ==
  /\ MutexIsFree
  /\ IF initialized \/ shutdowns > 0
     THEN UNCHANGED <<size, thread, initialized>>
     ELSE /\ size' = number
          /\ thread' = [q \in Queues |-> IF q <= number THEN "running" ELSE "none"]
          /\ initialized' = TRUE

\* Mutant: resize(number_completion_queues_ + 1).
InitializeOneMore ==
  /\ MutexIsFree
  /\ IF initialized
     THEN UNCHANGED <<size, thread, initialized>>
     ELSE /\ size' = number + 1
          /\ thread' = [q \in Queues |-> IF q <= number + 1 THEN "running" ELSE "none"]
          /\ initialized' = TRUE

Initialize ==
  /\ MutexIsFree
  /\ IF initialized
     THEN UNCHANGED <<size, thread, initialized>>
     ELSE /\ size' = number
          /\ thread' = [q \in Queues |-> IF q <= number THEN "running" ELSE "none"]
          /\ initialized' = TRUE

-----------------------------------------------------------------------------
(* The administrator *)

Administrator(from, to) ==
  /\ fault = "none"
  /\ administrator = from
  /\ administrator' = to

\* The CHECKs of SetNumberCompletionQueues(n): initialized_ is read without the
\* mutex, and n must not be 0 ...
CheckNotInitialized(n) ==
  /\ Administrator("idle", "set_number")
  /\ \/ initialized /\ fault' = "CHECK(!initialized_)"
     \/ ~initialized /\ n = 0 /\ fault' = "CHECK_GT(number, 0)"
     \/ ~initialized /\ n # 0 /\ UNCHANGED fault
  /\ UNCHANGED <<initialized, number, size, thread, shutdowns>>

\* ... and the number is set later.
SetNumberCompletionQueues(n) ==
  /\ Administrator("set_number", "idle")
  /\ number' = n
  /\ UNCHANGED <<initialized, size, thread, shutdowns, fault>>

Start ==
  /\ Administrator("idle", "idle")
  /\ Initialize
  /\ UNCHANGED <<number, shutdowns, fault>>

ShutdownLocks ==
  /\ Administrator("idle", "shutdown")
  /\ shutdowns < MaxShutdowns
  /\ shutdowns' = shutdowns + 1
  /\ UNCHANGED <<initialized, number, size, thread, fault>>

\* Mutant: the thread is joined, but its queue is not shut down.
ShutDownQueueJoinsOnly(q) ==
  /\ Administrator("shutdown", "shutdown")
  /\ q <= size
  /\ thread[q] = "running"
  /\ \A p \in 1..(q - 1) : thread[p] = "exited"
  /\ UNCHANGED <<initialized, number, size, thread, shutdowns, fault>>

\* CompletionQueue::Shutdown, for one queue after the other: the queue is shut
\* down, and its thread joined before it is the turn of the next one.
ShutDownQueue(q) ==
  /\ Administrator("shutdown", "shutdown")
  /\ q <= size
  /\ thread[q] = "running"
  /\ \A p \in 1..(q - 1) : thread[p] = "exited"
  /\ thread' = [thread EXCEPT ![q] = "shut_down"]
  /\ UNCHANGED <<initialized, number, size, shutdowns, fault>>

\* Next returns false, which ends RunCompletionQueue.
ThreadExits(q) ==
  /\ fault = "none"
  /\ thread[q] = "shut_down"
  /\ thread' = [thread EXCEPT ![q] = "exited"]
  /\ UNCHANGED <<administrator, initialized, number, size, shutdowns, fault>>

\* Mutant: the queues are cleared without waiting for their threads.
ShutdownWithoutJoin ==
  /\ Administrator("shutdown", "idle")
  /\ \A q \in 1..size : thread[q] # "running"
  /\ size' = 0
  /\ thread' = [q \in Queues |-> IF thread[q] = "exited" THEN "none" ELSE thread[q]]
  /\ initialized' = FALSE
  /\ UNCHANGED <<number, shutdowns, fault>>

ShutdownClears ==
  /\ Administrator("shutdown", "idle")
  /\ \A q \in 1..size : thread[q] = "exited"
  /\ size' = 0
  /\ thread' = [q \in Queues |-> "none"]
  /\ initialized' = FALSE
  /\ UNCHANGED <<number, shutdowns, fault>>
=============================================================================
