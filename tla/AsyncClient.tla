---------------------------- MODULE AsyncClient -----------------------------
(***************************************************************************)
(* Asynchronous clients (async_client.h) on the threads of the pool.       *)
(* A client makes one call: its ClientContext serves for no more.  The     *)
(* user of a client constructs it, calls WriteAsync and destroys it, on a  *)
(* thread of its own or, for the clients in Nested, inside of a callback.  *)
(* A user's callback may take its time: it begins in HandleEvent and ends  *)
(* in HandlerReturns, with what the handler does after it.                 *)
(*                                                                         *)
(* 'careful' says if the users have kept the rules that make clients and   *)
(* the pool safe; see UsesThePool.  They may break each of them.           *)
(***************************************************************************)
EXTENDS CompletionQueuePool

CONSTANTS
  Clients,     \* the client objects
  Kind,        \* the RpcType of each: NORMAL_RPC or SERVER_STREAMING
  Nested,      \* the clients that are constructed inside of callbacks
  MaxMessages  \* bound: messages on a stream

ASSUME ClientsAssumption ==
  /\ Kind \in [Clients -> {"NORMAL_RPC", "SERVER_STREAMING"}]
  /\ Nested \subseteq Clients
  /\ MaxMessages \in Nat

VARIABLES
  client,     \* how far the user has come with each client
  cq,         \* completion_queue_: the index of a queue, or NoQueue or Dangling
  inside,     \* the thread whose callback constructs the client, or NoQueue
  callback,   \* callback_ is not null
  tag,        \* where write_event_, read_event_ and finish_event_ are
  handling,   \* the event that each thread of the pool is handling
  messages,   \* invocations of the callback with a message of the stream
  finals,     \* invocations of the callback with the status of the call
  destroyed,  \* the clients that are destroyed
  careful     \* the users have kept the rules

clientVars == <<client, cq, inside, callback, tag, handling, messages, finals,
                destroyed>>
vars == <<poolVars, fault, clientVars, careful>>

NoQueue == 0
Dangling == MaxQueues + 1

Event == {"WRITE", "READ", "FINISH"}
TagState == {"idle", "out", "ok", "failed"}

Handled == [client : Clients, event : Event, ok : BOOLEAN, calls_back : BOOLEAN]
Idle == [client |-> "none"]

Fault == {"none", "CHECK(!initialized_)", "CHECK_GT(number, 0)", "no queue",
          "dangling queue", "operation on a queue that is shut down",
          "use of a destroyed client"}

TypeOK ==
  /\ PoolTypeOK
  /\ fault \in Fault
  /\ client \in [Clients -> {"none", "initialize", "select", "ready", "called"}]
  /\ cq \in [Clients -> 0..(MaxQueues + 1)]
  /\ inside \in [Clients -> 0..MaxQueues]
  /\ callback \in [Clients -> BOOLEAN]
  /\ tag \in [Clients -> [Event -> TagState]]
  /\ handling \in [Queues -> Handled \cup {Idle}]
  /\ messages \in [Clients -> 0..MaxMessages]
  /\ finals \in [Clients -> Nat]
  /\ destroyed \in SUBSET Clients
  /\ careful \in BOOLEAN

Init ==
  /\ PoolInit
  /\ fault = "none"
  /\ client = [c \in Clients |-> "none"]
  /\ cq = [c \in Clients |-> NoQueue]
  /\ inside = [c \in Clients |-> NoQueue]
  /\ callback = [c \in Clients |-> TRUE]
  /\ tag = [c \in Clients |-> [e \in Event |-> "idle"]]
  /\ handling = [q \in Queues |-> Idle]
  /\ messages = [c \in Clients |-> 0]
  /\ finals = [c \in Clients |-> 0]
  /\ destroyed = {}
  /\ careful = TRUE

-----------------------------------------------------------------------------
(* Helpers *)

OfQueue(q, states) ==
  {ce \in Clients \X Event : cq[ce[1]] = q /\ tag[ce[1]][ce[2]] \in states}

Handling(c) == \E q \in Queues : handling[q] # Idle /\ handling[q].client = c

InFlight(c) == Handling(c) \/ \E e \in Event : tag[c][e] # "idle"

Constructing(c) == client[c] \in {"initialize", "select"}

\* The rules for Shutdown: no client is being constructed and no stream is open.
\* Unary calls may be.
MayShutDown ==
  \A c \in Clients :
    ~Constructing(c) /\ (Kind[c] = "SERVER_STREAMING" => ~InFlight(c))

\* The rule for the others: no Shutdown is under way, and the queue still exists.
UsesThePool(c) == MutexIsFree /\ cq[c] # Dangling

\* What an operation on a completion queue that gRPC does not count any
\* operation for, and that is shut down, or that is gone, does.
OpFault(c) ==
  CASE cq[c] = Dangling -> "dangling queue"
    [] thread[cq[c]] # "running" /\ OfQueue(cq[c], {"out"}) = {} ->
         "operation on a queue that is shut down"
    [] OTHER -> "none"

StartOp(c, e) ==
  /\ fault' = OpFault(c)
  /\ tag' = [tag EXCEPT ![c][e] = "out"]

-----------------------------------------------------------------------------
(* The users *)

\* The constructor is called: by the user's thread ...
Construct(c) ==
  /\ fault = "none"
  /\ c \notin Nested
  /\ client[c] = "none"
  /\ client' = [client EXCEPT ![c] = "initialize"]
  /\ careful' = (careful /\ UsesThePool(c))
  /\ UNCHANGED <<poolVars, fault, cq, inside, callback, tag, handling, messages,
                 finals, destroyed>>

\* ... or by a callback, which does one thing at a time.
ConstructInside(c, q) ==
  /\ fault = "none"
  /\ c \in Nested
  /\ client[c] = "none"
  /\ handling[q] # Idle /\ handling[q].calls_back
  /\ \A d \in Clients : inside[d] # q
  /\ client' = [client EXCEPT ![c] = "initialize"]
  /\ inside' = [inside EXCEPT ![c] = q]
  /\ careful' = (careful /\ UsesThePool(c))
  /\ UNCHANGED <<poolVars, fault, cq, callback, tag, handling, messages, finals,
                 destroyed>>

\* GetCompletionQueue: Initialize with the mutex ...
ConstructorInitializes(c) ==
  /\ fault = "none"
  /\ client[c] = "initialize"
  /\ Initialize
  /\ client' = [client EXCEPT ![c] = "select"]
  /\ UNCHANGED <<administrator, number, shutdowns, fault, cq, inside, callback,
                 tag, handling, messages, finals, destroyed, careful>>

\* ... and a random queue without it.
ConstructorSelects(c) ==
  /\ fault = "none"
  /\ client[c] = "select"
  /\ IF size = 0
     THEN fault' = "no queue" /\ UNCHANGED cq
     ELSE /\ \E q \in 1..size : cq' = [cq EXCEPT ![c] = q]
          /\ UNCHANGED fault
  /\ client' = [client EXCEPT ![c] = "ready"]
  /\ inside' = [inside EXCEPT ![c] = NoQueue]
  /\ UNCHANGED <<poolVars, callback, tag, handling, messages, finals, destroyed,
                 careful>>

WriteAsync(c) ==
  /\ fault = "none"
  /\ client[c] = "ready"
  /\ c \notin destroyed
  /\ client' = [client EXCEPT ![c] = "called"]
  /\ StartOp(c, IF Kind[c] = "NORMAL_RPC" THEN "FINISH" ELSE "WRITE")
  /\ careful' = (careful /\ UsesThePool(c))
  /\ UNCHANGED <<poolVars, cq, inside, callback, handling, messages, finals,
                 destroyed>>

Destroy(c) ==
  /\ fault = "none"
  /\ client[c] \in {"ready", "called"}
  /\ c \notin destroyed
  /\ destroyed' = destroyed \cup {c}
  /\ careful' = (careful /\ ~InFlight(c))
  /\ UNCHANGED <<poolVars, fault, client, cq, inside, callback, tag, handling,
                 messages, finals>>

-----------------------------------------------------------------------------
(* gRPC returns a tag.  A read fails at the end of the stream.             *)

Complete(c, e, ok) ==
  /\ fault = "none"
  /\ tag[c][e] = "out"
  /\ (e = "READ" /\ ok) => messages[c] < MaxMessages
  /\ tag' = [tag EXCEPT ![c][e] = IF ok THEN "ok" ELSE "failed"]
  /\ UNCHANGED <<poolVars, fault, client, cq, inside, callback, handling,
                 messages, finals, destroyed, careful>>

-----------------------------------------------------------------------------
(* The threads of the pool.  'ok' of a unary call's FINISH stands for      *)
(* status_.ok(), since its handler looks at nothing else.                  *)

IsMessage(c, e, ok) == Kind[c] = "SERVER_STREAMING" /\ e = "READ" /\ ok

CallsBack(c, e, ok) ==
  /\ callback[c]
  /\ \/ e = "FINISH"
     \/ e = "READ" /\ ok
     \/ e = "WRITE" /\ ~ok

\* Mutant: the handler of a message reads ahead, into the same response_.
HandleEventReadsAhead(q, c, e) ==
  LET ok == tag[c][e] = "ok" IN
  /\ fault = "none"
  /\ thread[q] \in {"running", "shut_down"}
  /\ handling[q] = Idle
  /\ <<c, e>> \in OfQueue(q, {"ok", "failed"})
  /\ c \notin destroyed
  /\ tag' = [tag EXCEPT ![c][e] = IF e = "READ" /\ ok THEN "out" ELSE "idle"]
  /\ handling' = [handling EXCEPT ![q] =
       [client |-> c, event |-> e, ok |-> ok, calls_back |-> CallsBack(c, e, ok)]]
  /\ messages' = [messages EXCEPT ![c] =
       IF CallsBack(c, e, ok) /\ IsMessage(c, e, ok) THEN @ + 1 ELSE @]
  /\ finals' = [finals EXCEPT ![c] =
       IF CallsBack(c, e, ok) /\ ~IsMessage(c, e, ok) THEN @ + 1 ELSE @]
  /\ UNCHANGED <<poolVars, fault, client, cq, inside, callback, destroyed, careful>>

\* HandleEvent begins: it invokes the callback, if it has to.
HandleEvent(q, c, e) ==
  LET ok == tag[c][e] = "ok" IN
  /\ fault = "none"
  /\ thread[q] \in {"running", "shut_down"}
  /\ handling[q] = Idle
  /\ <<c, e>> \in OfQueue(q, {"ok", "failed"})
  /\ c \notin destroyed
  /\ tag' = [tag EXCEPT ![c][e] = "idle"]
  /\ handling' = [handling EXCEPT ![q] =
       [client |-> c, event |-> e, ok |-> ok, calls_back |-> CallsBack(c, e, ok)]]
  /\ messages' = [messages EXCEPT ![c] =
       IF CallsBack(c, e, ok) /\ IsMessage(c, e, ok) THEN @ + 1 ELSE @]
  /\ finals' = [finals EXCEPT ![c] =
       IF CallsBack(c, e, ok) /\ ~IsMessage(c, e, ok) THEN @ + 1 ELSE @]
  /\ UNCHANGED <<poolVars, fault, client, cq, inside, callback, destroyed, careful>>

\* The same with a client that has been destroyed.
HandleEventOfDestroyedClient(q, c, e) ==
  /\ fault = "none"
  /\ thread[q] \in {"running", "shut_down"}
  /\ handling[q] = Idle
  /\ <<c, e>> \in OfQueue(q, {"ok", "failed"})
  /\ c \in destroyed
  /\ fault' = "use of a destroyed client"
  /\ UNCHANGED <<poolVars, clientVars, careful>>

RunCompletionQueue(q, c, e) ==
  HandleEvent(q, c, e) \/ HandleEventOfDestroyedClient(q, c, e)

\* Mutant: a stream that ends is not finished.
NextOpNeverFinishes(c, e, ok) ==
  IF Kind[c] = "SERVER_STREAMING" /\ ok /\ e # "FINISH" THEN {"READ"} ELSE {}

\* The operation that a handler starts when its callback has returned.
NextOp(c, e, ok) ==
  IF Kind[c] = "NORMAL_RPC" \/ e = "FINISH" THEN {}
  ELSE {IF ok THEN "READ" ELSE "FINISH"}

\* Mutant: only the FINISH handler sets callback_ to null.
ClearsCallbackAtFinish(c, e, ok) == Kind[c] = "SERVER_STREAMING" /\ e = "FINISH"

\* The handlers that set callback_ to null.
ClearsCallback(c, e, ok) ==
  Kind[c] = "SERVER_STREAMING" /\ (e = "FINISH" \/ (e = "WRITE" /\ ~ok))

\* Mutant: a unary client clears callback_, too.
AnyHandlerUsesClientLast(h) == h.event = "FINISH" => h.calls_back

\* What is left of the handler when the callback has returned uses the client.
UsesClientLast(h) ==
  Kind[h.client] = "SERVER_STREAMING" /\ (h.event = "FINISH" => h.calls_back)

\* The callback has returned.  A unary client's handler is at its end then; a
\* stream's handler goes on to use the client.
HandlerReturns(q) ==
  /\ fault = "none"
  /\ handling[q] # Idle
  /\ \A d \in Clients : inside[d] # q
  /\ LET c == handling[q].client
         e == handling[q].event
         ok == handling[q].ok
     IN /\ handling' = [handling EXCEPT ![q] = Idle]
        /\ callback' = [callback EXCEPT ![c] = @ /\ ~ClearsCallback(c, e, ok)]
        /\ IF c \in destroyed /\ UsesClientLast(handling[q])
           THEN fault' = "use of a destroyed client" /\ UNCHANGED tag
           ELSE \/ \E op \in NextOp(c, e, ok) : StartOp(c, op)
                \/ NextOp(c, e, ok) = {} /\ UNCHANGED <<fault, tag>>
  /\ UNCHANGED <<poolVars, client, cq, inside, messages, finals, destroyed,
                 careful>>

-----------------------------------------------------------------------------
(* The pool with its clients *)

QueueThreadExits(q) ==
  /\ handling[q] = Idle
  /\ OfQueue(q, {"out", "ok", "failed"}) = {}
  /\ ThreadExits(q)
  /\ UNCHANGED <<clientVars, careful>>

\* Shutdown clears the vector: pointers to its queues dangle.
PoolIsCleared ==
  /\ ShutdownClears
  /\ cq' = [c \in Clients |-> IF cq[c] = NoQueue THEN NoQueue ELSE Dangling]
  /\ UNCHANGED <<client, inside, callback, tag, handling, messages, finals,
                 destroyed, careful>>

Administer ==
  \/ /\ \/ Start
        \/ \E n \in Queues : SetNumberCompletionQueues(n)
     /\ UNCHANGED <<clientVars, careful>>
  \/ \E n \in 0..MaxQueues :
       /\ CheckNotInitialized(n)
       /\ careful' = (careful /\ ~initialized /\ n > 0)
       /\ UNCHANGED clientVars
  \/ ShutdownLocks /\ careful' = (careful /\ MayShutDown) /\ UNCHANGED clientVars

ShutdownGoesOn ==
  \/ \E q \in Queues : ShutDownQueue(q) /\ UNCHANGED <<clientVars, careful>>
  \/ PoolIsCleared

ConstructorGoesOn(c) == ConstructorInitializes(c) \/ ConstructorSelects(c)

Next ==
  \/ Administer
  \/ ShutdownGoesOn
  \/ \E c \in Clients : \/ Construct(c)
                        \/ \E q \in Queues : ConstructInside(c, q)
                        \/ ConstructorGoesOn(c)
                        \/ WriteAsync(c)
                        \/ Destroy(c)
                        \/ \E e \in Event, ok \in BOOLEAN : Complete(c, e, ok)
  \/ \E q \in Queues : \/ \E c \in Clients, e \in Event : RunCompletionQueue(q, c, e)
                       \/ HandlerReturns(q)
                       \/ QueueThreadExits(q)

Spec == Init /\ [][Next]_vars

\* The pool's threads run, gRPC returns its tags, constructors and callbacks
\* come to an end.  Users need not do anything.
Fairness ==
  /\ WF_vars(ShutdownGoesOn)
  /\ \A c \in Clients : /\ WF_vars(ConstructorGoesOn(c))
                        /\ \A e \in Event :
                             WF_vars(\E ok \in BOOLEAN : Complete(c, e, ok))
  /\ \A q \in Queues :
       /\ WF_vars(\E c \in Clients, e \in Event : RunCompletionQueue(q, c, e))
       /\ WF_vars(HandlerReturns(q))
       /\ WF_vars(QueueThreadExits(q))

FairSpec == Spec /\ Fairness

-----------------------------------------------------------------------------
(* Properties *)

\* Each client keeps the promise of AsyncCall, whatever else goes on: the
\* callback is never invoked before WriteAsync, nor after the invocation with
\* the status of the call, of which there is one even if a stream's write fails
\* and its Finish event follows (HandleWriteEvent, HandleFinishEvent).
Calls == INSTANCE AsyncCall WITH open <- {c \in Clients : client[c] = "called"}
ImplementsAsyncCall == Calls!CallSpec

\* A callback that waits in Initialize for the mutex of a Shutdown, which waits
\* for the thread of the callback.
CallbackWaitsForShutdown ==
  /\ ~MutexIsFree
  /\ \E c \in Clients : client[c] = "initialize" /\ inside[c] # NoQueue

\* Users that keep the rules meet neither a failed CHECK nor a queue or a client
\* that is gone nor a deadlock: Shutdown may run while unary calls are in flight,
\* the pool may be used again after it, and a client may be destroyed as soon as
\* the handler that invoked its callback last has returned.
CarefulUseIsSafe ==
  careful => fault = "none" /\ ~CallbackWaitsForShutdown

\* A client has one operation or one handler at a time.  So a message that a
\* callback reads in response_ is not overwritten meanwhile, and a tag is not
\* given to gRPC again before it has come back (HandleReadEvent).
OneOperationAtATime ==
  fault = "none" =>
    \A c \in Clients :
      Cardinality({e \in Event : tag[c][e] # "idle"})
        + Cardinality({q \in Queues : handling[q] # Idle /\ handling[q].client = c}) <= 1

\* Shutdown leaves no call behind: what is in flight has a queue in the pool and
\* a thread that will take it, also while the pool shuts down and when it is
\* used again (CompletionQueue::Shutdown joins before the vector is cleared).
NoCallOutlivesItsQueue ==
  fault = "none" =>
    \A c \in Clients : InFlight(c) =>
      cq[c] \in 1..size /\ thread[cq[c]] \in {"running", "shut_down"}

\* The vector of queues, which clients point into, changes its size only from
\* and to nothing, also if a late SetNumberCompletionQueues has changed the
\* number since (its CHECK and its assignment do not hold the mutex).
QueuesStay == [][size' # size => size = 0 \/ size' = 0]_vars

\* A call that has started invokes its callback for the last time, unless the
\* users have broken a rule.
CallsEnd ==
  \A c \in Clients :
    client[c] = "called" ~>
      finals[c] = 1 \/ fault # "none" \/ CallbackWaitsForShutdown

\* Shutdown returns: calls that are in flight end, and so do the threads.
PoolShutdownReturns ==
  administrator = "shutdown" ~>
    administrator # "shutdown" \/ fault # "none" \/ CallbackWaitsForShutdown

\* A unary client may be destroyed as soon as its callback has been invoked, as
\* server_test.cc does: what uses a destroyed client is a call that has not had
\* its status yet, or the handler of a stream, which clears callback_ when the
\* callback has returned.
UnaryMayDieInItsCallback ==
  fault = "use of a destroyed client" =>
    \E c \in destroyed : finals[c] = 0 \/ Kind[c] = "SERVER_STREAMING"
=============================================================================
