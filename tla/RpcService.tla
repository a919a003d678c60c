----------------------------- MODULE RpcService -----------------------------
(***************************************************************************)
(* The server side of one gRPC service: Rpc objects (rpc.cc), the table    *)
(* ActiveRpcs that owns them, the event handlers of Service (service.cc),  *)
(* the event queues that serialise them, the Writer objects that other     *)
(* threads use (rpc_handler.h), and the part of gRPC they talk to.         *)
(*                                                                         *)
(* An Rpc object is a number, its place in the order of construction.  A   *)
(* listener is one iteration of the loops of StartServing: a method on a   *)
(* completion queue.  A clone keeps the listener of the Rpc it is cloned   *)
(* from.                                                                   *)
(*                                                                         *)
(* 'fault' names the first thing that ends the process or leaves it        *)
(* undefined: a failed CHECK, an operation gRPC aborts on, or the use of a *)
(* destroyed Rpc.  Nothing is modelled after a fault.                      *)
(***************************************************************************)
EXTENDS Integers, Sequences, FiniteSets

CONSTANTS
  NumMethods,        \* methods registered with the service
  NumCqs,            \* Options::num_grpc_threads
  NumEventQueues,    \* Options::num_event_threads
  MethodType,        \* the RpcType of each method
  RequestScripts,    \* what a handler may send in OnRequest, by RpcType
  ReadsDoneScripts,  \* what a handler may send in OnReadsDone, by RpcType
  Writers,           \* threads that own a Writer
  WriterItems,       \* what these threads send
  MaxCalls,          \* bound: calls the clients make
  MaxRequests,       \* bound: requests a client streams on one call
  MaxWrites          \* bound: items sent through Writers

RpcType == {"NORMAL_RPC", "CLIENT_STREAMING", "SERVER_STREAMING",
            "BIDI_STREAMING"}

\* The events with a CompletionQueueRpcEvent in the Rpc; WRITE_NEEDED has none.
CqEvent == {"NEW_CONNECTION", "READ", "WRITE", "FINISH", "DONE"}

Event == CqEvent \cup {"WRITE_NEEDED"}

\* A SendItem has a message, or no message and an OK or an error status.
SendItem == {"MSG", "OK", "ERROR"}

ASSUME SizeAssumption ==
  /\ NumMethods \in Nat \ {0}
  /\ NumCqs \in Nat \ {0}
  /\ NumEventQueues \in Nat \ {0}
  /\ MaxCalls \in Nat
  /\ MaxRequests \in Nat
  /\ MaxWrites \in Nat

ASSUME HandlerAssumption ==
  /\ MethodType \in [1..NumMethods -> RpcType]
  /\ \A t \in RpcType : /\ \A s \in RequestScripts[t] : s \in Seq(SendItem)
                        /\ \A s \in ReadsDoneScripts[t] : s \in Seq(SendItem)
  /\ WriterItems \subseteq SendItem

Items(s) == {s[i] : i \in 1..Len(s)}

\* A handler that does not finish the call before OnReadsDone when requests are
\* streamed, and never responds with status OK alone where a message is due.
HandlersFinishLast ==
  /\ \A s \in RequestScripts["CLIENT_STREAMING"] : Items(s) = {}
  /\ \A s \in RequestScripts["BIDI_STREAMING"] : Items(s) \subseteq {"MSG"}
  /\ \A t \in {"NORMAL_RPC", "CLIENT_STREAMING"} :
       /\ \A s \in RequestScripts[t] : "OK" \notin Items(s)
       /\ \A s \in ReadsDoneScripts[t] : "OK" \notin Items(s)

NumListeners == NumMethods * NumCqs
Listeners == 1..NumListeners
MethodOf(l) == ((l - 1) \div NumCqs) + 1
CqOf(l) == ((l - 1) % NumCqs) + 1
Cqs == 1..NumCqs

EventQueues == 0..(NumEventQueues - 1)

\* One Rpc per listener, and one more for every accepted call.
MaxRpcs == NumListeners + MaxCalls
Rpcs == 1..MaxRpcs
NoRpc == 0

\* Where the tag of an event is: nowhere, registered with gRPC, completed and
\* in the completion queue (with its 'ok'), or in an event queue.
TagState == {"idle", "started", "ok", "failed", "queued"}

QueuedEvent == [rpc : Rpcs, event : Event, ok : BOOLEAN]

Fault == {"none", "weak_ptr_check", "use_after_free", "op_in_flight",
          "op_after_finish", "op_on_drained_cq", "finish_with_ok_error",
          "rpcs_in_flight"}

VARIABLES
  created,       \* number of Rpc objects constructed so far
  active,        \* ActiveRpcs::rpcs_
  listener,      \* the listener of each Rpc
  queue,         \* Rpc::event_queue_
  handler,       \* Rpc::handler_, and whether OnReadsDone has run on it
  pending,       \* the events of each Rpc whose 'pending' flag is set
  send_queue,    \* Rpc::send_queue_
  event_queue,   \* the contents of the event queues
  relisten,      \* the Rpc an event thread must clone before its next event
  current_event_queue_id,
  service_shutting_down,
  tag,           \* gRPC: the tags of each Rpc
  call,          \* gRPC: the call of each Rpc
  finishing,     \* gRPC: the Rpcs on whose call Finish was started
  requests,      \* gRPC: requests streamed so far on each call
  calls,         \* gRPC: calls made so far
  grpc_shutdown, \* gRPC: grpc::Server::Shutdown was called
  cq_drained,    \* gRPC: completion queues that are shut down and empty
  writer_pc,     \* what each Writer thread is doing
  writer_rpc,    \* the Rpc it holds a shared_ptr to
  writes,        \* items sent through Writers so far
  fault

rpcVars == <<created, active, listener, queue, handler, pending, send_queue>>
threadVars == <<event_queue, relisten, current_event_queue_id>>
grpcVars == <<tag, call, finishing, requests, calls, grpc_shutdown,
              cq_drained>>
writerVars == <<writer_pc, writer_rpc, writes>>
vars == <<rpcVars, threadVars, service_shutting_down, grpcVars, writerVars,
          fault>>

TypeOK ==
  /\ created \in 0..MaxRpcs
  /\ active \subseteq 1..created
  /\ listener \in [Rpcs -> Listeners]
  /\ queue \in [Rpcs -> EventQueues]
  /\ handler \in [Rpcs -> {"null", "reading", "reads_done"}]
  /\ pending \in [Rpcs -> SUBSET CqEvent]
  /\ send_queue \in [Rpcs -> Seq(SendItem)]
  /\ event_queue \in [EventQueues -> Seq(QueuedEvent)]
  /\ relisten \in [EventQueues -> Rpcs \cup {NoRpc}]
  /\ current_event_queue_id \in EventQueues
  /\ service_shutting_down \in BOOLEAN
  /\ tag \in [Rpcs -> [CqEvent -> TagState]]
  /\ call \in [Rpcs -> {"none", "open", "over"}]
  /\ finishing \subseteq Rpcs
  /\ requests \in [Rpcs -> 0..MaxRequests]
  /\ calls \in 0..MaxCalls
  /\ grpc_shutdown \in BOOLEAN
  /\ cq_drained \subseteq Cqs
  /\ writer_pc \in [Writers -> {"idle", "enqueued", "notified"}]
  /\ writer_rpc \in [Writers -> Rpcs \cup {NoRpc}]
  /\ writes \in 0..MaxWrites
  /\ fault \in Fault

Init ==
  /\ created = 0
  /\ active = {}
  /\ listener = [r \in Rpcs |-> 1]
  /\ queue = [r \in Rpcs |-> 0]
  /\ handler = [r \in Rpcs |-> "null"]
  /\ pending = [r \in Rpcs |-> {}]
  /\ send_queue = [r \in Rpcs |-> <<>>]
  /\ event_queue = [q \in EventQueues |-> <<>>]
  /\ relisten = [q \in EventQueues |-> NoRpc]
  /\ current_event_queue_id = 0
  /\ service_shutting_down = FALSE
  /\ tag = [r \in Rpcs |-> [e \in CqEvent |-> "idle"]]
  /\ call = [r \in Rpcs |-> "none"]
  /\ finishing = {}
  /\ requests = [r \in Rpcs |-> 0]
  /\ calls = 0
  /\ grpc_shutdown = FALSE
  /\ cq_drained = {}
  /\ writer_pc = [w \in Writers |-> "idle"]
  /\ writer_rpc = [w \in Writers |-> NoRpc]
  /\ writes = 0
  /\ fault = "none"

-----------------------------------------------------------------------------
(* Helpers *)

Type(r) == MethodType[MethodOf(listener[r])]
CqOfRpc(r) == CqOf(listener[r])

UnaryResponse(r) == Type(r) \in {"NORMAL_RPC", "CLIENT_STREAMING"}
StreamsRequests(r) == Type(r) \in {"BIDI_STREAMING", "CLIENT_STREAMING"}

\* Some shared_ptr to the Rpc exists: in ActiveRpcs, or in a running Writer.
Alive(r) == r \in active \/ \E w \in Writers : writer_rpc[w] = r

\* Mutant: READ is forgotten.
AnyEventButReadPending(p) == p \cap {"DONE", "WRITE", "FINISH"} # {}

\* Mutant: DONE is forgotten.
AnyEventButDonePending(p) == p \cap {"READ", "WRITE", "FINISH"} # {}

IsAnyEventPending(p) == p \cap {"DONE", "READ", "WRITE", "FINISH"} # {}

\* Mutant: 'pending' is reset only after the event is handled.
RemoveIfNotPendingBefore(r) ==
  active' = IF IsAnyEventPending(pending[r]) THEN active ELSE active \ {r}

RemoveIfNotPending(r) ==
  active' = IF IsAnyEventPending(pending'[r]) THEN active ELSE active \ {r}

\* Mutant: no wrap-around.
SelectNextEventQueueUnwrapped(id) == id + 1

SelectNextEventQueueRoundRobin(id) == (id + 1) % NumEventQueues

\* The events pushed by Rpc::Write or Rpc::Finish, one for each item of s.
WriteNeeded(r, s) ==
  [i \in 1..Len(s) |-> [rpc |-> r, event |-> "WRITE_NEEDED", ok |-> TRUE]]

\* The event queues once the head of q has been popped.
Popped(q) == [event_queue EXCEPT ![q] = Tail(@)]

\* The tags of the Rpc of an event once that event has been popped.
TagsAfter(ev) ==
  [e \in CqEvent |-> IF e = ev.event THEN "idle" ELSE tag[ev.rpc][e]]

\* What gRPC aborts on when operation e is started on the call of r, whose tags
\* are t: it accepts one operation of a kind at a time, nothing to send after
\* Finish, and nothing on a completion queue that has been drained.
OpFault(r, t, e) ==
  CASE CqOfRpc(r) \in cq_drained -> "op_on_drained_cq"
    [] CqOfRpc(r) \notin cq_drained /\ t[e] # "idle" -> "op_in_flight"
    [] /\ CqOfRpc(r) \notin cq_drained
       /\ t[e] = "idle"
       /\ e \in {"WRITE", "FINISH"}
       /\ r \in finishing -> "op_after_finish"
    [] OTHER -> "none"

\* SetRpcEventState(e, true) and the gRPC operation with the tag of e, on an
\* Rpc with pending flags p and tags t.
StartOp(r, p, t, e) ==
  /\ pending' = [pending EXCEPT ![r] = p \cup {e}]
  /\ tag' = [tag EXCEPT ![r] = [t EXCEPT ![e] = "started"]]

-----------------------------------------------------------------------------
(* Rpc *)

\* The calls of Rpc::Write and Rpc::Finish that a callback makes on the thread
\* of event queue q, which has just popped an event.
Send(q, r, s) ==
  /\ send_queue' = [send_queue EXCEPT ![r] = @ \o s]
  /\ event_queue' = [Popped(q) EXCEPT ![queue[r]] = @ \o WriteNeeded(r, s)]

PerformWrite(r, p, t) ==
  /\ StartOp(r, p, t, "WRITE")
  /\ fault' = OpFault(r, t, "WRITE")
  /\ UNCHANGED finishing

\* SendUnaryFinish calls FinishWithError, which gRPC refuses for status OK.
PerformFinish(r, p, t, item) ==
  /\ StartOp(r, p, t, "FINISH")
  /\ fault' = IF UnaryResponse(r) /\ item = "OK"
              THEN "finish_with_ok_error"
              ELSE OpFault(r, t, "FINISH")
  /\ finishing' = finishing \cup {r}

\* Mutant: 'pending' is reset only after the event is handled.
CanSendBeforeReset(r, p) ==
  send_queue[r] # <<>> /\ {"WRITE", "FINISH"} \cap pending[r] = {}

\* Mutant: a pending write is not waited for.
CanSendWhileWriting(r, p) == send_queue[r] # <<>> /\ "FINISH" \notin p

\* Mutant: a pending finish is not waited for.
CanSendWhileFinishing(r, p) == send_queue[r] # <<>> /\ "WRITE" \notin p

\* HandleSendQueue takes the next item.
CanSend(r, p) == send_queue[r] # <<>> /\ {"WRITE", "FINISH"} \cap p = {}

HandleSendQueue(r, p, t) ==
  \/ /\ ~CanSend(r, p)
     /\ pending' = [pending EXCEPT ![r] = p]
     /\ tag' = [tag EXCEPT ![r] = t]
     /\ UNCHANGED <<send_queue, finishing, fault>>
  \/ /\ CanSend(r, p)
     /\ send_queue' = [send_queue EXCEPT ![r] = Tail(@)]
     /\ LET item == Head(send_queue[r]) IN
        \/ /\ item # "MSG" \/ UnaryResponse(r)
           /\ PerformFinish(r, p, t, item)
        \/ /\ item = "MSG" /\ ~UnaryResponse(r)
           /\ PerformWrite(r, p, t)

\* Mutant: the connection is not marked as pending.
RequestWithoutPending(r) ==
  /\ pending' = [pending EXCEPT ![r] = {"DONE"}]
  /\ tag' = [tag EXCEPT ![r] =
               [e \in CqEvent |-> IF e \in {"DONE", "NEW_CONNECTION"}
                                  THEN "started" ELSE "idle"]]

\* The tags and flags of an Rpc that waits for a connection.
RequestNextMethodInvocation(r) ==
  /\ pending' = [pending EXCEPT ![r] = {"DONE", "NEW_CONNECTION"}]
  /\ tag' = [tag EXCEPT ![r] =
               [e \in CqEvent |-> IF e \in {"DONE", "NEW_CONNECTION"}
                                  THEN "started" ELSE "idle"]]

\* OnConnection creates the handler.  Requests that are streamed are read one
\* by one; any other request is there already, and handled at once.
OnConnection(q, r, p, t) ==
  \/ /\ StreamsRequests(r)
     /\ handler' = [handler EXCEPT ![r] = "reading"]
     /\ StartOp(r, p, t, "READ")
     /\ fault' = OpFault(r, t, "READ")
     /\ event_queue' = Popped(q)
     /\ UNCHANGED send_queue
  \/ /\ ~StreamsRequests(r)
     /\ handler' = [handler EXCEPT ![r] = "reads_done"]
     /\ pending' = [pending EXCEPT ![r] = p]
     /\ tag' = [tag EXCEPT ![r] = t]
     /\ \E s1 \in RequestScripts[Type(r)], s2 \in ReadsDoneScripts[Type(r)] :
          Send(q, r, s1 \o s2)
     /\ UNCHANGED fault

-----------------------------------------------------------------------------
(* Service *)

\* The loops of StartServing.  No thread runs before they end.
StartServing ==
  /\ fault = "none"
  /\ created = 0
  /\ created' = NumListeners
  /\ active' = Listeners
  /\ listener' = [r \in Rpcs |-> IF r \in Listeners THEN r ELSE listener[r]]
  /\ queue' = [r \in Rpcs |-> IF r \in Listeners
                              THEN (current_event_queue_id + r) % NumEventQueues
                              ELSE queue[r]]
  /\ current_event_queue_id' =
       (current_event_queue_id + NumListeners) % NumEventQueues
  /\ pending' = [r \in Rpcs |-> IF r \in Listeners
                                THEN {"DONE", "NEW_CONNECTION"}
                                ELSE pending[r]]
  /\ tag' = [r \in Rpcs |->
               [e \in CqEvent |->
                  IF r \in Listeners /\ e \in {"DONE", "NEW_CONNECTION"}
                  THEN "started" ELSE tag[r][e]]]
  /\ UNCHANGED <<handler, send_queue, event_queue, relisten,
                 service_shutting_down, call, finishing, requests, calls,
                 grpc_shutdown, cq_drained, writerVars, fault>>

StopServing ==
  /\ fault = "none"
  /\ service_shutting_down' = TRUE
  /\ UNCHANGED <<rpcVars, threadVars, grpcVars, writerVars, fault>>

\* ~ActiveRpcs, when the service is destroyed.
DestroyService ==
  /\ fault = "none"
  /\ fault' = IF active = {} THEN "none" ELSE "rpcs_in_flight"
  /\ UNCHANGED <<rpcVars, threadVars, service_shutting_down, grpcVars,
                 writerVars>>

\* The thread of q is free, and the next event it pops is one of es.
NextEventIn(q, es) ==
  /\ fault = "none"
  /\ relisten[q] = NoRpc
  /\ event_queue[q] # <<>>
  /\ Head(event_queue[q]).event \in es

\* The Rpc that a connection was offered to is given up: the server is shutting
\* down.  Destroying it cancels the call, if there is one.
RefuseConnection(q) ==
  LET ev == Head(event_queue[q]) r == ev.rpc IN
  /\ NextEventIn(q, {"NEW_CONNECTION"})
  /\ Alive(r)
  /\ service_shutting_down
  /\ active' = active \ {r}
  /\ event_queue' = Popped(q)
  /\ pending' = [pending EXCEPT ![r] = @ \ {ev.event}]
  /\ tag' = [tag EXCEPT ![r] = TagsAfter(ev)]
  /\ call' = [call EXCEPT ![r] = IF ev.ok THEN "over" ELSE @]
  /\ UNCHANGED <<created, listener, queue, handler, send_queue, relisten,
                 current_event_queue_id, service_shutting_down, finishing,
                 requests, calls, grpc_shutdown, cq_drained, writerVars, fault>>

\* HandleNewConnection up to the user's callbacks.  When the connection failed
\* although the service is not shutting down the Rpc is removed, and used.
AcceptConnection(q) ==
  LET ev == Head(event_queue[q]) r == ev.rpc IN
  /\ NextEventIn(q, {"NEW_CONNECTION"})
  /\ Alive(r)
  /\ ~service_shutting_down
  /\ IF ev.ok
     THEN /\ OnConnection(q, r, pending[r] \ {ev.event}, TagsAfter(ev))
          /\ UNCHANGED active
     ELSE /\ active' = active \ {r}
          /\ event_queue' = Popped(q)
          /\ pending' = [pending EXCEPT ![r] = @ \ {ev.event}]
          /\ tag' = [tag EXCEPT ![r] = TagsAfter(ev)]
          /\ fault' = "use_after_free"
          /\ UNCHANGED <<handler, send_queue>>
  /\ relisten' = [relisten EXCEPT ![q] = r]
  /\ UNCHANGED <<created, listener, queue, current_event_queue_id,
                 service_shutting_down, call, finishing, requests, calls,
                 grpc_shutdown, cq_drained, writerVars>>

\* Mutant: the event queue is set on the Rpc that is cloned.
SetEventQueueOfOld(r, new, id) == queue' = [queue EXCEPT ![r] = id]

SetEventQueue(r, new, id) == queue' = [queue EXCEPT ![new] = id]

\* The end of HandleNewConnection, on the same thread: Clone, SetEventQueue,
\* Add and RequestNextMethodInvocation.  The callbacks in between take any time,
\* so other threads may run.  MaxRpcs never stops this step: at most MaxCalls
\* connections succeed.
ListenAgain(q) ==
  LET r == relisten[q] new == created + 1 IN
  /\ fault = "none"
  /\ r # NoRpc
  /\ created < MaxRpcs
  /\ created' = new
  /\ active' = active \cup {new}
  /\ listener' = [listener EXCEPT ![new] = listener[r]]
  /\ current_event_queue_id' =
       SelectNextEventQueueRoundRobin(current_event_queue_id)
  /\ SetEventQueue(r, new, current_event_queue_id')
  /\ RequestNextMethodInvocation(new)
  /\ relisten' = [relisten EXCEPT ![q] = NoRpc]
  /\ fault' = IF CqOfRpc(r) \in cq_drained THEN "op_on_drained_cq" ELSE "none"
  /\ UNCHANGED <<handler, send_queue, event_queue, service_shutting_down, call,
                 finishing, requests, calls, grpc_shutdown, cq_drained,
                 writerVars>>

\* Mutant: HandleRead goes on to OnReadsDone after a request.
HandleRequestAndReadsDone(q) ==
  LET ev == Head(event_queue[q]) r == ev.rpc IN
  /\ NextEventIn(q, {"READ"})
  /\ Alive(r)
  /\ ev.ok
  /\ \E s \in RequestScripts[Type(r)] : Send(q, r, s)
  /\ StartOp(r, pending[r] \ {ev.event}, TagsAfter(ev), "READ")
  /\ fault' = OpFault(r, TagsAfter(ev), "READ")
  /\ handler' = [handler EXCEPT ![r] = "reads_done"]
  /\ UNCHANGED <<created, active, listener, queue, relisten,
                 current_event_queue_id, service_shutting_down, call, finishing,
                 requests, calls, grpc_shutdown, cq_drained, writerVars>>

\* A streamed request: OnRequest, then the next Read.
HandleRequest(q) ==
  LET ev == Head(event_queue[q]) r == ev.rpc IN
  /\ NextEventIn(q, {"READ"})
  /\ Alive(r)
  /\ ev.ok
  /\ \E s \in RequestScripts[Type(r)] : Send(q, r, s)
  /\ StartOp(r, pending[r] \ {ev.event}, TagsAfter(ev), "READ")
  /\ fault' = OpFault(r, TagsAfter(ev), "READ")
  /\ UNCHANGED <<created, active, listener, queue, handler, relisten,
                 current_event_queue_id, service_shutting_down, call, finishing,
                 requests, calls, grpc_shutdown, cq_drained, writerVars>>

\* The end of the streamed requests.
HandleReadsDone(q) ==
  LET ev == Head(event_queue[q]) r == ev.rpc IN
  /\ NextEventIn(q, {"READ"})
  /\ Alive(r)
  /\ ~ev.ok
  /\ \E s \in ReadsDoneScripts[Type(r)] : Send(q, r, s)
  /\ handler' = [handler EXCEPT ![r] = "reads_done"]
  /\ pending' = [pending EXCEPT ![r] = @ \ {ev.event}]
  /\ tag' = [tag EXCEPT ![r] = TagsAfter(ev)]
  /\ RemoveIfNotPending(r)
  /\ UNCHANGED <<created, listener, queue, relisten, current_event_queue_id,
                 service_shutting_down, call, finishing, requests, calls,
                 grpc_shutdown, cq_drained, writerVars, fault>>

HandleWrite(q) ==
  LET ev == Head(event_queue[q]) r == ev.rpc IN
  /\ NextEventIn(q, {"WRITE", "WRITE_NEEDED"})
  /\ Alive(r)
  /\ event_queue' = Popped(q)
  /\ HandleSendQueue(r, pending[r] \ {ev.event}, TagsAfter(ev))
  /\ RemoveIfNotPending(r)
  /\ UNCHANGED <<created, listener, queue, handler, relisten,
                 current_event_queue_id, service_shutting_down, call, requests,
                 calls, grpc_shutdown, cq_drained, writerVars>>

\* HandleFinish (with OnFinish, which changes nothing here) and HandleDone.
HandleFinishOrDone(q) ==
  LET ev == Head(event_queue[q]) r == ev.rpc IN
  /\ NextEventIn(q, {"FINISH", "DONE"})
  /\ Alive(r)
  /\ event_queue' = Popped(q)
  /\ pending' = [pending EXCEPT ![r] = @ \ {ev.event}]
  /\ tag' = [tag EXCEPT ![r] = TagsAfter(ev)]
  /\ RemoveIfNotPending(r)
  /\ UNCHANGED <<created, listener, queue, handler, send_queue, relisten,
                 current_event_queue_id, service_shutting_down, call, finishing,
                 requests, calls, grpc_shutdown, cq_drained, writerVars, fault>>

\* InternalRpcEvent::Handle when the weak_ptr has expired.
IgnoreStaleEvent(q) ==
  /\ NextEventIn(q, {"WRITE_NEEDED"})
  /\ ~Alive(Head(event_queue[q]).rpc)
  /\ event_queue' = Popped(q)
  /\ UNCHANGED <<rpcVars, relisten, current_event_queue_id,
                 service_shutting_down, grpcVars, writerVars, fault>>

\* CompletionQueueRpcEvent::Handle after the Rpc that contains it is destroyed.
HandleEventOfDestroyedRpc(q) ==
  /\ NextEventIn(q, CqEvent)
  /\ ~Alive(Head(event_queue[q]).rpc)
  /\ fault' = "use_after_free"
  /\ UNCHANGED <<rpcVars, threadVars, service_shutting_down, grpcVars,
                 writerVars>>

\* One round of the loops of Server::RunEventQueue.
RunEventQueue(q) ==
  \/ RefuseConnection(q)
  \/ AcceptConnection(q)
  \/ ListenAgain(q)
  \/ HandleRequest(q)
  \/ HandleReadsDone(q)
  \/ HandleWrite(q)
  \/ HandleFinishOrDone(q)
  \/ IgnoreStaleEvent(q)
  \/ HandleEventOfDestroyedRpc(q)

\* One round of Server::RunCompletionQueue: the thread of the completion queue
\* takes a tag and pushes the event to the event queue of its Rpc.
RunCompletionQueue(r, e) ==
  /\ fault = "none"
  /\ tag[r][e] \in {"ok", "failed"}
  /\ \/ /\ Alive(r)
        /\ tag' = [tag EXCEPT ![r][e] = "queued"]
        /\ event_queue' =
             [event_queue EXCEPT ![queue[r]] =
                Append(@, [rpc |-> r, event |-> e, ok |-> tag[r][e] = "ok"])]
        /\ UNCHANGED fault
     \/ /\ ~Alive(r)
        /\ fault' = "use_after_free"
        /\ UNCHANGED <<tag, event_queue>>
  /\ UNCHANGED <<rpcVars, relisten, current_event_queue_id,
                 service_shutting_down, call, finishing, requests, calls,
                 grpc_shutdown, cq_drained, writerVars>>

-----------------------------------------------------------------------------
(* Writer.  lock() on a Rpc that is destroyed fails, and Write returns false: *)
(* a step that changes nothing.                                               *)

\* lock() and Rpc::EnqueueMessage.
WriterEnqueue(w, r, item) ==
  /\ fault = "none"
  /\ writer_pc[w] = "idle"
  /\ writes < MaxWrites
  /\ handler[r] # "null"
  /\ Alive(r)
  /\ writes' = writes + 1
  /\ writer_pc' = [writer_pc EXCEPT ![w] = "enqueued"]
  /\ writer_rpc' = [writer_rpc EXCEPT ![w] = r]
  /\ send_queue' = [send_queue EXCEPT ![r] = Append(@, item)]
  /\ UNCHANGED <<created, active, listener, queue, handler, pending, threadVars,
                 service_shutting_down, grpcVars, fault>>

\* ActiveRpcs::GetWeakPtr, whose CHECK fails when the Rpc has been removed, and
\* the push of WRITE_NEEDED.
WriterNotify(w) ==
  LET r == writer_rpc[w] IN
  /\ fault = "none"
  /\ writer_pc[w] = "enqueued"
  /\ \/ /\ r \in active
        /\ event_queue' = [event_queue EXCEPT ![queue[r]] =
                             @ \o WriteNeeded(r, <<"MSG">>)]
        /\ writer_pc' = [writer_pc EXCEPT ![w] = "notified"]
        /\ UNCHANGED fault
     \/ /\ r \notin active
        /\ fault' = "weak_ptr_check"
        /\ UNCHANGED <<event_queue, writer_pc>>
  /\ UNCHANGED <<rpcVars, relisten, current_event_queue_id,
                 service_shutting_down, grpcVars, writer_rpc, writes>>

\* The shared_ptr goes out of scope.
WriterReturn(w) ==
  /\ fault = "none"
  /\ writer_pc[w] = "notified"
  /\ writer_pc' = [writer_pc EXCEPT ![w] = "idle"]
  /\ writer_rpc' = [writer_rpc EXCEPT ![w] = NoRpc]
  /\ UNCHANGED <<rpcVars, threadVars, service_shutting_down, grpcVars, writes,
                 fault>>

WriterStep(w) ==
  \/ \E r \in Rpcs, item \in WriterItems : WriterEnqueue(w, r, item)
  \/ WriterNotify(w)
  \/ WriterReturn(w)

-----------------------------------------------------------------------------
(* gRPC and its clients, as the code uses them.  A tag completes with 'ok' or *)
(* not; the DONE tag completes only on a call that began, after the tag of    *)
(* its connection has been returned.                                          *)

Complete(r, e, result) ==
  /\ fault = "none"
  /\ tag[r][e] = "started"
  /\ tag' = [tag EXCEPT ![r][e] = result]
  /\ UNCHANGED <<rpcVars, threadVars, service_shutting_down, finishing,
                 grpc_shutdown, cq_drained, writerVars, fault>>

IncomingCall(r) ==
  /\ ~grpc_shutdown
  /\ calls < MaxCalls
  /\ Complete(r, "NEW_CONNECTION", "ok")
  /\ calls' = calls + 1
  /\ call' = [call EXCEPT ![r] = "open"]
  /\ UNCHANGED requests

\* After Shutdown every request for a call fails.
RequestFails(r) ==
  /\ grpc_shutdown
  /\ Complete(r, "NEW_CONNECTION", "failed")
  /\ UNCHANGED <<call, requests, calls>>

ClientSends(r) ==
  /\ call[r] = "open"
  /\ requests[r] < MaxRequests
  /\ Complete(r, "READ", "ok")
  /\ requests' = [requests EXCEPT ![r] = @ + 1]
  /\ UNCHANGED <<call, calls>>

ClientWritesDone(r) ==
  /\ call[r] = "open"
  /\ Complete(r, "READ", "failed")
  /\ UNCHANGED <<call, requests, calls>>

ReadFails(r) ==
  /\ call[r] = "over" \/ r \in finishing
  /\ Complete(r, "READ", "failed")
  /\ UNCHANGED <<call, requests, calls>>

WriteCompletes(r) ==
  /\ \/ Complete(r, "WRITE", "ok")
     \/ call[r] = "over" /\ Complete(r, "WRITE", "failed")
  /\ UNCHANGED <<call, requests, calls>>

FinishCompletes(r) ==
  /\ \/ Complete(r, "FINISH", "ok")
     \/ call[r] = "over" /\ Complete(r, "FINISH", "failed")
  /\ call' = [call EXCEPT ![r] = "over"]
  /\ UNCHANGED <<requests, calls>>

CallIsDone(r) ==
  /\ call[r] = "over"
  /\ tag[r]["NEW_CONNECTION"] \in {"queued", "idle"}
  /\ Complete(r, "DONE", "ok")
  /\ UNCHANGED <<call, requests, calls>>

ClientCancels(r) ==
  /\ fault = "none"
  /\ call[r] = "open"
  /\ call' = [call EXCEPT ![r] = "over"]
  /\ UNCHANGED <<rpcVars, threadVars, service_shutting_down, tag, finishing,
                 requests, calls, grpc_shutdown, cq_drained, writerVars, fault>>

\* grpc::Server::Shutdown is called.
GrpcShutdown ==
  /\ fault = "none"
  /\ grpc_shutdown' = TRUE
  /\ UNCHANGED <<rpcVars, threadVars, service_shutting_down, tag, call,
                 finishing, requests, calls, cq_drained, writerVars, fault>>

\* The tag will still be returned by the completion queue.
Expected(r, e) ==
  \/ tag[r][e] \in {"ok", "failed"}
  \/ tag[r][e] = "started" /\ (e = "DONE" => call[r] # "none")

\* A completion queue that was shut down has returned its last tag.
CqDrained(c) ==
  /\ fault = "none"
  /\ grpc_shutdown
  /\ c \notin cq_drained
  /\ \A r \in Rpcs, e \in CqEvent : CqOfRpc(r) = c => ~Expected(r, e)
  /\ cq_drained' = cq_drained \cup {c}
  /\ UNCHANGED <<rpcVars, threadVars, service_shutting_down, tag, call,
                 finishing, requests, calls, grpc_shutdown, writerVars, fault>>

ClientStep(r) ==
  IncomingCall(r) \/ ClientSends(r) \/ ClientWritesDone(r) \/ ClientCancels(r)

GrpcStep(r) ==
  \/ RequestFails(r)
  \/ ReadFails(r)
  \/ WriteCompletes(r)
  \/ FinishCompletes(r)
  \/ CallIsDone(r)
  \/ \E e \in CqEvent : RunCompletionQueue(r, e)

-----------------------------------------------------------------------------
(* The service while it serves, and with its shutdown. *)

Serve ==
  \/ StartServing
  \/ \E q \in EventQueues : RunEventQueue(q)
  \/ \E w \in Writers : WriterStep(w)
  \/ \E r \in Rpcs : ClientStep(r) \/ GrpcStep(r)

\* The service is stopped before gRPC is shut down, and destroyed when its
\* completion queues are gone.  RpcServer shows that Server does it so.
Stop ==
  \/ created > 0 /\ StopServing
  \/ service_shutting_down /\ GrpcShutdown
  \/ \E c \in Cqs : CqDrained(c)
  \/ cq_drained = Cqs /\ DestroyService

Next == Serve \/ Stop

Spec == Init /\ [][Next]_vars

\* The threads of the library and gRPC keep running.  Clients and the users of
\* Writers need not do anything.
Fairness ==
  /\ WF_vars(StartServing)
  /\ \A q \in EventQueues : WF_vars(RunEventQueue(q))
  /\ \A r \in Rpcs : /\ WF_vars(RequestFails(r))
                     /\ WF_vars(ReadFails(r))
                     /\ WF_vars(WriteCompletes(r))
                     /\ WF_vars(FinishCompletes(r))
                     /\ WF_vars(CallIsDone(r))
  /\ \A r \in Rpcs, e \in CqEvent : WF_vars(RunCompletionQueue(r, e))

ServeSpec == Init /\ [][Serve]_vars
FairServeSpec == ServeSpec /\ Fairness

-----------------------------------------------------------------------------
(* Properties *)

\* The Rpcs of listener l that wait for a connection, have just been offered
\* one, or are about to be cloned.
Waiting(l) ==
  {r \in 1..created : /\ listener[r] = l
                      /\ \/ "NEW_CONNECTION" \in pending[r]
                         \/ \E q \in EventQueues : relisten[q] = r}

\* Until the service is stopped, exactly one Rpc of every method on every
\* completion queue waits for the next client: HandleNewConnection replaces
\* each Rpc that got a connection, once.
OneRpcWaitsPerListener ==
  (fault = "none" /\ created > 0 /\ ~service_shutting_down)
    => \A l \in Listeners : \E r \in Rpcs : Waiting(l) = {r}

\* Until its Finish is started, an Rpc with items to send is never forgotten: an
\* event that makes the service look at its send queue is in its event queue or
\* will be, although HandleSendQueue drops WRITE_NEEDED while a write is
\* pending.  Of an Rpc whose Finish has been started nothing is said: its event
\* FINISH does not look at the send queue, and an item left in it is lost or,
\* if a later WRITE_NEEDED is handled, sent after Finish.
NoLostWakeup ==
  fault = "none" =>
    \A r \in active :
      send_queue[r] # <<>> =>
        \/ {"WRITE", "FINISH"} \cap pending[r] # {}
        \/ r \in finishing
        \/ \E i \in 1..Len(event_queue[queue[r]]) :
             /\ event_queue[queue[r]][i].rpc = r
             /\ event_queue[queue[r]][i].event = "WRITE_NEEDED"
        \/ \E w \in Writers : writer_rpc[w] = r /\ writer_pc[w] = "enqueued"

\* All events of an Rpc are in one event queue, and a thread that runs between
\* a callback and Clone is the thread of the Rpc's queue, so that an Rpc is used
\* by one event thread only.
OneThreadPerRpc ==
  \A q \in EventQueues :
    /\ \A i \in 1..Len(event_queue[q]) : queue[event_queue[q][i].rpc] = q
    /\ relisten[q] # NoRpc => queue[relisten[q]] = q

\* An event object is in at most one place: it is never pushed to an event
\* queue, where its 'ok' would be overwritten, while it is still in one, and no
\* operation is started with a tag that gRPC still holds.
EventObjectsAreNotShared ==
  /\ fault # "op_in_flight"
  /\ \A q1, q2 \in EventQueues :
       \A i \in 1..Len(event_queue[q1]), j \in 1..Len(event_queue[q2]) :
         LET a == event_queue[q1][i] b == event_queue[q2][j] IN
         (a.rpc = b.rpc /\ a.event = b.event /\ a.event # "WRITE_NEEDED")
           => q1 = q2 /\ i = j

\* Once an Rpc that served a call is destroyed, none of its tags is anywhere:
\* RemoveIfNotPending waits for all operations of the call.  (A Writer that
\* holds the Rpc when it is removed may still have a WRITE started on it.)
ServedRpcOutlivesItsTags ==
  \A r \in 1..created :
    (handler[r] # "null" /\ ~Alive(r)) => \A e \in CqEvent : tag[r][e] = "idle"

\* After OnReadsDone no READ is in flight, so that neither OnRequest nor
\* OnReadsDone is called again.
ReadsDoneIsFinal ==
  \A r \in Rpcs : handler[r] = "reads_done" => tag[r]["READ"] = "idle"

\* An Rpc is not destroyed before the last of its tags has been handled.
NoTagOutlivesItsRpc ==
  \A r \in 1..created :
    ~Alive(r) => \A e \in CqEvent : ~Expected(r, e) /\ tag[r][e] # "queued"

\* gRPC has at most one of the sends of a call at a time, whatever handlers and
\* Writers add to the send queue and whoever else keeps the Rpc: HandleSendQueue
\* starts the next one only when neither a WRITE nor a FINISH is in flight.
SendsDoNotOverlap ==
  \A r \in Rpcs : tag[r]["WRITE"] = "idle" \/ tag[r]["FINISH"] = "idle"

\* A Writer may be used while its Rpc is removed: GetWeakPtr does not fail.
WriterSurvivesRemoval == fault # "weak_ptr_check"

\* As long as the call goes on a Writer can be used safely.  Its Rpc is not
\* removed, so that a Writer does not become the last to hold it with an
\* operation in flight (InternalRpcEvent::Handle), and GetWeakPtr fails only for
\* an Rpc whose call is over.  Something is sent after Finish only if a Writer
\* has sent an item, too; the handler on its own does not.
WriterIsSafeDuringTheCall ==
  /\ \A r \in 1..created :
       (handler[r] # "null" /\ r \notin active) => call[r] = "over"
  /\ fault = "weak_ptr_check" =>
       \E w \in Writers : /\ writer_pc[w] = "enqueued"
                          /\ writer_rpc[w] \notin active
                          /\ call[writer_rpc[w]] = "over"
  /\ fault = "op_after_finish" => writes > 0

\* No CHECK fails, gRPC is never misused and no destroyed Rpc is used.
NoFault == fault = "none"

\* When a call is over its Rpc is destroyed: RemoveIfNotPending eventually finds
\* nothing pending.
RpcsAreReclaimed ==
  \A r \in Rpcs : call[r] = "over" ~> ~Alive(r)

\* What a handler sends is passed on to gRPC, unless the call ends or has been
\* finished before.
SendQueueIsDrained ==
  \A r \in Rpcs :
    (r \in active /\ send_queue[r] # <<>>)
      ~> (r \notin active \/ send_queue[r] = <<>> \/ r \in finishing)
=============================================================================
