# A TLA+ model of async_grpc

async_grpc wraps gRPC's asynchronous C++ API so that a user writes one handler
class per method. This directory models its server (how events are dispatched to
handlers, and how it shuts down), the queue that carries the events, its
synchronous and asynchronous clients with the retry strategies, and the fixture
that tests handlers. TLC checks the models on small instances; TLAPS proves the
central invariants for every value of the constants.

## 1. The system and its parts

| Part | Source | State | Operations | Module |
|---|---|---|---|---|
| Rpc | `rpc.{h,cc}` | a `pending` flag per event, send queue, handler, event queue | OnConnection, OnRequest, OnReadsDone, Write, Finish, HandleSendQueue, Clone | `RpcService` |
| ActiveRpcs | `rpc.{h,cc}` | the owned Rpcs | Add, Remove, GetWeakPtr, destructor | `RpcService` |
| Service | `service.{h,cc}` | `shutting_down_` | StartServing, StopServing, HandleEvent | `RpcService` |
| RpcHandler, Writer | `rpc_handler.h` | weak pointer to the Rpc | Send, Finish, Writer::Write, Writer::WritesDone | `RpcService` |
| Server | `server.{h,cc}` | `shutting_down_`, round robin counter, threads | Start, Shutdown, the two thread loops | `RpcServer` |
| Event and completion queue threads | `event_queue_thread.*`, `completion_queue_thread.*` | the thread | Start, Shutdown | `RpcServer` |
| BlockingQueue, Mutex | `common/blocking_queue.h`, `common/mutex.h` | deque, mutex, condition variable | Push, Pop, their timed forms, Peek, Size, WaitUntilEmpty | `BlockingQueue`, `BoundedFifo` |
| CompletionQueuePool | `completion_queue_pool.*` | a vector of queues with threads, a mutex | Start, SetNumberCompletionQueues, GetCompletionQueue, Shutdown | `CompletionQueuePool` |
| AsyncClient | `async_client.h` | callback, three event objects, a queue of the pool | WriteAsync, the event handlers, destructor | `AsyncClient`, `AsyncCall` |
| Client | `client.h` | context, stream object, timeout, strategy | Write, StreamWritesDone, StreamRead, StreamFinish | `Client` |
| Retry | `retry.*` | none | the strategies, RetryWithStrategy | `Retry`, `Client` |
| RpcHandlerTestServer | `testing/` | a server, a client, a queue of handler events | SendWrite, SendWritesDone, SendFinish | `TestServer` |
| Server::Builder, ExecutionContext, tracing, traits | see section 5 | | | not modelled |

How they interact. On the server, a thread per completion queue waits for gRPC
to return a *tag*. The tag is an event object inside an Rpc. The thread pushes it
to the event queue of that Rpc. A thread per event queue pops events and handles
them: it runs the user's callbacks, starts the next gRPC operations, and removes
the Rpc when no operation is pending. When a connection arrives, the Rpc that got
it is cloned, and the clone waits for the next one on an event queue chosen in
turn. Other threads may send through a Writer. It appends to the send queue and
pushes the internal event WRITE_NEEDED.

On the client's side, an AsyncClient takes a completion queue of a pool that is
created on first use. The queue's thread handles the client's events and invokes
the user's callback. A Client blocks its thread in gRPC, and sleeps between the
attempts of a unary call. The fixture joins both sides: a test thread drives a
Client and waits until the server's handler has seen what was sent.

What is hard: tags that come back in any order while the client cancels; an Rpc
that must live exactly until its last tag is handled; WRITE_NEEDED that is
dropped while a write is pending; Writers that race with the end of the call; a
shutdown that crosses three kinds of threads; clients that are destroyed, and a
pool that is shut down, while calls are in flight; callbacks that use the pool;
and retries that share a deadline.

## 2. Modules

**`BlockingQueue`** is the monitor: a thread is idle, locking, in the critical
section, waiting, timed out, ready to run, unlocking or notifying. To find the
condition true (`Check`) and to push, pop or read (`Run`) are two steps, so that
it takes the mutex to keep the deque as it was between them. `~Locker` unlocks
*before* it notifies, so these are two steps as well. Spurious wakeups and
timeouts are steps.
**`BoundedFifo`** is the specification it implements, with `fifo <- deque`.

**`RpcService`** is one service. An Rpc is the number of its construction. The
variables follow the fields: `pending`, `send_queue`, `queue`, `handler`,
`active` (the map in ActiveRpcs), `event_queue`, `current_event_queue_id`,
`service_shutting_down`. `tag[r][e]` says where an event object is: idle, held
by gRPC, completed, or in an event queue. `call`, `requests`, `calls`,
`finishing`, `grpc_shutdown` and `cq_drained` are gRPC's view of the call.
`fault` names the first CHECK failure, misuse of gRPC or use of a destroyed Rpc;
nothing happens after it. What a handler sends is chosen from scripts
(`RequestScripts`, `ReadsDoneScripts`). A message is one value; an item to send
is a message, status OK or an error.

Steps: a handler of `Service` is one step, since one thread owns all events of an
Rpc. `HandleNewConnection` is two (`AcceptConnection`, `ListenAgain`): the
user's callback runs between, and StopServing can happen there. A Writer's call
is three: lock the weak pointer and enqueue (`WriterEnqueue`), look the Rpc up in
ActiveRpcs and push the event (`WriterNotify`), release (`WriterReturn`). The
event queue is a FIFO here. `BlockingQueue` shows that it is one.

**`RpcServer`** extends `RpcService` with threads that start and end, and the
steps of `Server::Shutdown` in order. It implements `RpcService` (the property
`ServerImplementsService`).

**`CompletionQueuePool`** is the pool. One thread, the administrator, starts it,
sets its number of queues and shuts it down. `SetNumberCompletionQueues` is two
steps, since its CHECKs (the pool is not initialized, the number is not 0) and its
assignment do not hold the mutex; `Shutdown` locks,
shuts down and joins one queue after the other, and clears the vector.

**`AsyncClient`** extends the pool with clients. `client` says how far the user
has come with each; `tag` and `handling` say where its event objects are and which
event a thread handles; `cq` may dangle after a Shutdown. The constructor is two
steps: `Initialize` with the mutex, and the choice of a queue without it. A
handler is two: it invokes the callback (`HandleEvent`), and does the rest when
the callback has returned (`HandlerReturns`). Meanwhile the user may destroy the
client, and the callback may construct another (`Nested`). Users may do anything
at any time; `careful` records if they have kept these rules: the pool's number
is set before it is used, and not to 0; no client is constructed, and WriteAsync not called,
during Shutdown; WriteAsync is not called on a client from before a Shutdown;
Shutdown waits for constructors and open streams, but not for unary calls; a
client is destroyed only when nothing of it is in flight. **`AsyncCall`** is what
a client promises its callback; it has no queues, threads or tags.

**`Retry`** has the strategies as functions from the number of failures and the
status code to an optional delay. **`Client`** is one client of any of the four
types with a clock. A unary Write is an action up to its first call of gRPC, then
one for each return of a call (`CallReturns`) and each end of a sleep (`WakeUp`).
`log` remembers the attempts of the current Write. A stream's operations are one
action each: what is modelled of them is the context and the stream object, which
is created by the first operation. Optional values are sets of at most one
element.

**`TestServer`** composes `RpcService` with the fixture: the test thread with its
calls of Send..., the wrapper that reports each callback of the handler, and the
queue between them. The fixture makes one call, of a method with one response
(`FixtureAssumption`).

**`MC...`** modules hold the instances. **`RpcInvariant`** defines the inductive
invariants of `RpcService`; the **`...Proofs`** modules hold the theorems.
Definitions marked "Mutant" are faulty variants, one per property, with which TLC
has to find that property violated. They are not part of the model.

### Assumptions about gRPC

gRPC is not part of this repository. The model assumes, from how the code uses it:

- every operation's tag comes back once, with `ok` or not, in any order;
- the DONE tag comes back only for a call that began, after the tag of its
  connection, on the same completion queue;
- `FinishWithError` asserts that its status is not OK;
- starting an operation on a drained completion queue aborts;
- after `Shutdown()` requests for calls fail. `Shutdown()` without a deadline
  returns when all calls have ended;
- a completion queue that is shut down still returns the tags that are out, and
  `Next` returns false after them. Operations may be started on it while one is
  out;
- a ClientContext serves for one call;
- a blocking call with a deadline returns when the deadline is over, at the
  latest, and may return any status before. A call without one may take any time.

## 3. Runs

All instances are small, and each bound is named where its constant is declared.
`CHECK_DEADLOCK FALSE` is set because users may stop calling, which is a legal
end; that library threads do not wait for each other for ever is stated by the
liveness properties.

| Run | Instance | Shows |
|---|---|---|
| `serve` | 4 methods, one of each kind, 2 event queues, 2 calls | exactly one Rpc listens per method and queue; no wakeup is lost; one thread per Rpc; no event object in two places; an Rpc outlives its tags; nothing after OnReadsDone; no fault |
| `serve_live` | the same with 1 call and 2 requests | Rpcs are reclaimed, send queues drained |
| `writers` | 1 bidirectional method, 2 Writers, the service stopped and destroyed at any time | until Finish is started no wakeup is lost, also with messages from other threads; an Rpc has one write or finish out at a time; no Rpc is removed while its call is open, so that a Writer does not meet the CHECK of `GetWeakPtr` then |
| `shutdown` | 2 methods, 1 call, Shutdown at any time, patient timeouts | Shutdown returns and leaves no Rpc; what goes wrong does so in shutdown; refinement of `RpcService` |
| `bounded_queue` | 2 producers, 2 consumers, size 2, 2 calls each | the monitor is a bounded FIFO, also at its limits, where one thread may act between what another has checked and does; no notification is lost; no thread sleeps for ever while its condition holds |
| `async_clients` | a stream and a unary client that is constructed in its callback, 2 queues, 2 messages, 2 Shutdowns | callbacks follow `AsyncCall`; one operation or handler at a time; no call outlives its queue; the vector of queues does not change in use; careful users meet no fault; a unary client may be destroyed by its callback; calls end and Shutdown returns |
| `clients` | every type of client and every strategy, without a timeout and with one of 3 ticks, 3 status codes, up to 5 failures, 2 Writes | no context serves twice; one deadline for all attempts; delays 1, 2, 4, 8 and then the end, as in the README's example; no retry after success or an unrecoverable code; bounded time; Write returns |
| `test_server` | a unary and a client-streaming method, 2 requests, handlers that finish the call, some of them early | the fixture pops the events in order; a streaming handler is in step with the test; Send... returns |

Why the bounds are enough. One call is enough for the life of an Rpc; `serve` has
two, so that a clone serves as well. Two event queues are needed for Rpcs on
different threads. One completion queue is used; with more the listeners are
independent of each other. Two Writers race with each other and with the end of
the call; they are interchangeable, so `writers` uses symmetry. Two pool queues
and two Shutdowns make Shutdown wait for one thread while the other runs, and
make the pool used again after it. Five failures are `max_attempts` of the
README's example, and a timeout of 3 ends between two of its retries.

Fairness: weak fairness of every library thread and of gRPC's completions. An
operating system schedules threads that can run, and gRPC returns the tags of
operations it accepted. Nothing is assumed of the users of the server and of
Writers, except in `shutdown`, where clients end their calls. In `async_clients`
user callbacks and constructors come to an end, but users need not start
anything, and Shutdown need not be called. In `clients` time passes and a call
returns when its deadline is over; nothing else of gRPC is assumed. In
`test_server` the threads and gRPC go on, and the test may stop between two calls.
Every handler of that run finishes its call, the unary one in OnRequest and the
streaming one at the latest in OnReadsDone. Without that SendFinish does not
return, and `SendsReturn` says nothing of it.

*Patient timeouts* (`PatientServerSpec`): no event thread gives up
(`kPopEventTimeout`, 100 ms) while an event is still to come. Without it
Shutdown may leave Rpcs, as the next section says.

### Where the code differs from what it says

Four runs are expected to be violated. Each states what a comment or document
says, and TLC shows a behaviour of the code that differs.

- `writer_vs_removal`: README.md says that a Writer is always safe. It can hit the
  CHECK in `ActiveRpcs::GetWeakPtr` when the Rpc is removed between the lock of
  the weak pointer and the lookup.
- `refused_connection`: an Rpc refused in shutdown is destroyed with its DONE tag
  out, although it has asked gRPC "to notify us when the connection terminates"
  (`rpc.cc:106`).
- `early_timeout`: an event thread leaves after one empty pop. TLC's shortest
  trace has a pause of more than 100 ms between two steps of Shutdown. A likely
  one is a call that stays open for longer than that while gRPC's Shutdown waits.
- `no_deadline`: the comment names a hard deadline; the call has none.

### What else the models show

These are consequences of the code that a reader of the properties should know.
They appear as the exceptions that the properties make.

- Items that a Writer enqueues once Finish has been started are not covered by
  `NoLostWakeup`. As long as FINISH is out they are held back
  (`SendsDoNotOverlap`). An event handled after it makes the event thread start an
  operation on a finished call (`rpc.cc:177`), the fault "op_after_finish". All
  that `WriterIsSafeDuringTheCall` says of it is that it takes a Writer.
- A Writer that holds its Rpc while it is removed, after the call, may have a
  WRITE started on it, whose tag comes back when the Rpc is gone (`rpc.cc:49`).
  `WriterIsSafeDuringTheCall` says that this cannot happen while the call is open.
- A unary handler that finishes with OK and without a message passes OK to
  `FinishWithError` (`rpc.cc:36`); the handlers of the instances do not, so that
  `NoFault` in `serve` does not speak of it. Nor does it speak of connections that
  fail on a service that is not stopped (`service.cc:90`): there are none in
  `ServeSpec`, and `FaultsOnlyInShutdown` shows that a server has none either.
- Events handled after the completion queues are drained start operations on them
  (`server.cc:164`, `server.cc:230`); only in shutdown, as `FaultsOnlyInShutdown`
  says.
- A stream's client must outlive the return of its last callback, since the
  handler clears `callback_` then (`async_client.h:200`). A unary client need not.
  The test at `server_test.cc:334` destroys a stream's client as soon as the
  callback has signalled.
- A callback that constructs a client while the pool shuts down waits for the
  mutex of Shutdown, which waits for the callback's thread
  (`completion_queue_pool.cc:83`). Careful users do not meet it.
- The stream callback's last status says if gRPC's operations have succeeded. The
  status that the server has sent is dropped (`async_client.h:196`).
- The unlimited strategy goes on after the deadline (`retry.cc:102`): each further
  attempt fails at once. `WriteReturns` excludes it, and no other property
  forbids it.
- The fixture's promise that all invocations have completed does not cover a unary
  SendWrite, which OnReadsDone and OnFinish follow, nor OnFinish between
  SendWritesDone and SendFinish. A handler that ends the call early may fail the
  CHECK_EQ of `WaitForHandlerCompletion`.

`WaitForShutdown` changes no state and is not in the model. It waits for gRPC
only, so it may return while Shutdown is still joining threads.

## 4. Proofs

- `BlockingQueueProofs`, for any threads, values and size, the unlimited queue
  included: types, no lost notification, and that the monitor implements
  `BoundedFifo`. What a thread has found in the deque must still be true when it
  acts. `QueueInv` says so, and that the thread holds the mutex from then on;
  without the second part another thread's push or pop would break the first.
- `RpcServiceProofs`, for any numbers of methods, queues, threads, Writers and
  calls: the type invariant, by one lemma per group of actions, and the lemma
  `EventIsHandled`, that every event handler does what `EventEffects` says: pop
  one event, push WRITE_NEEDED events of the same Rpc, start some operations. The
  later proofs treat the handlers through it. Then `OneThreadPerRpc`,
  `EventObjectsAreNotShared` and `ReadsDoneIsFinal`. None is inductive alone.
  `TagInv` (in `RpcInvariant`) adds that only created Rpcs are used, that an event
  in a queue has its tag "queued", that a tag in use is pending, that nothing is
  read while the connection is pending, and that a pending FINISH is known to gRPC.
- `RpcLifeProofs`: what an Rpc waits for. `LifeInv` is the converse of `TagInv`:
  what is pending has its tag in use, and a tag known to be in an event queue is
  there, so that an Rpc in `ActiveRpcs` waits for something that is on its way. It
  follows an Rpc from its construction (no handler, only NEW_CONNECTION and DONE
  pending) to its removal (the call is over), and orders NEW_CONNECTION before
  DONE in gRPC and in the event queue. `RemovalInv` says that gRPC is shut down
  only after the service is stopped, that connections fail only then, and that an
  Rpc that served a call is removed when nothing is pending.
  `ServedRpcOutlivesItsTags` follows.
- `RpcFaultProofs`: `NoLostWakeup` and `OneRpcWaitsPerListener`, which follow from
  these invariants; `WriterIsSafeDuringTheCall`, whose first part is the end of
  an Rpc's life in `LifeInv`; and, for a service that is not stopped, `NoFault`. `FinishInv` says that nothing finishes a call before its
  requests are done, that Finish waits for the last write, and that the
  WRITE_NEEDED events of an Rpc are all queued before the completion of its
  Finish. `FaultInv` lists what cannot go wrong then. `SendsDoNotOverlap` needs
  none of these hypotheses: WRITE and FINISH are not both pending, whatever
  handlers and Writers do, and by `TagInv` a tag that is out is pending.
- `RpcServerProofs`: the server implements the service (`ServerInv` relates the
  progress of Shutdown to the flags and threads of the service), so that all of
  the above holds of it; `FaultsOnlyInShutdown`; and `NoRpcOutlivesShutdown` under
  the timing assumption of `PatientServerSpec`. For the last one, `Quiet` says
  that once an event thread has timed out no Rpc is left and no event is to come.
  By `LifeInv` an Rpc that is left waits for an event, which an event thread with
  a patient timeout would have waited for.
- `ClientProofs`: `OneDeadlinePerWrite`, `ContextsAreUsedOnce` and
  `ResultIsJustified`, for any timeouts, strategy parameters and numbers of
  attempts. `ClientInv` adds what the loop of RetryWithStrategy carries from one
  step to the next: the local deadline is the one of this Write; the context is
  unused exactly while there is no stream; the log has as many attempts as the
  loop has counted, all of them failed with a status that the strategy goes on
  after, and fewer than `max_attempts`.
- The second part of `ClientProofs` is about time: the types, `BackoffIsExponential`
  and `WriteTakesBoundedTime`. `TimeInv` says that the attempts in the log are the
  strategy's delays apart, that the thread sleeps no longer than that, and that a
  Write is behind its deadline by the delays so far at the most. The delays are
  powers of the backoff factor and their sums, both recursive functions. That these
  functions are what their equations say, and that the sums grow, is proved from
  the existence of functions that satisfy the equations up to n, by induction on
  the set of such n (`PowIsPower`, `TotalDelayIsSum`).
- `TestServerProofs`, for any queues, threads, requests and handlers: first, that
  the fixture's server implements `RpcService`, so that `TagInv`, `LifeInv` and
  `RemovalInv` hold in every test; then `EventsComeInOrder` and `HandlerIsInStep`.
  Neither is inductive, since what the test thread pops next is still on its way
  through gRPC, the event queue and the wrapper. `TestInv` says where: `CallInv`
  that there is one call, of the method under test, which only the handler ends;
  `UnaryInv` and `StreamInv`, for each thing that the test thread may be waiting
  for, which result of the handler is out, and what is in the fixture's queue.
- `AsyncClientProofs`: `OneOperationAtATime`, and that `AsyncClient` implements
  `AsyncCall`, for any clients, queues and messages. `CallInv` says of each client
  that it waits for one tag or is in one handler or neither; that nothing happens
  before WriteAsync; and that after the final invocation `callback_` is null, or
  the handler is about to clear it, or has no next operation. The last part
  is why a stream whose write fails calls back once, although its FINISH event
  follows. `CallInv` does not mention the pool: the protocol holds whatever
  users do to it.
- The second part of `AsyncClientProofs` is about the pool: its types,
  `QueuesStay`, `NoCallOutlivesItsQueue`, `UnaryMayDieInItsCallback` and
  `CarefulUseIsSafe`. `PoolInv` says that exactly the queues of the vector have
  threads, that these end only while a Shutdown holds the mutex, and that a client
  points into the vector from its constructor on. `CarefulInv` says what the
  rules give: during Shutdown no client is being constructed and no stream is
  open, a constructor finds a queue, and nothing of a destroyed client is in
  flight.

Two hypotheses of the theorems about faults are about the user's code.

- `writes = 0`: until a Writer is used. With Writers the statements are false, and
  for two reasons the code has. The CHECK of `GetWeakPtr` races the removal of the
  Rpc (run `writer_vs_removal`). And a Writer that has got its weak pointer keeps
  the Rpc alive while it is removed; its WRITE_NEEDED then starts a WRITE on an
  Rpc that is destroyed when the Writer returns. `TagInv`, `LifeInv` and what
  follows from them, `SendsDoNotOverlap`, `WriterIsSafeDuringTheCall` and
  `NoRpcOutlivesShutdown` hold with Writers.
- `HandlersFinishLast`: handlers of streamed requests finish the call in
  OnReadsDone and not before, and no handler finishes with status OK where a
  message is due. A handler that does otherwise sends after Finish, or makes
  `SendUnaryFinish` call `FinishWithError` with OK. The handlers of
  `server_test.cc` satisfy it; `MCRpcService` states that as an assumption, which
  TLC evaluates.

Assumptions: `SizeAssumption` and `HandlerAssumption` (positive sizes, scripts
made of items), `QueueAssumption`, `RetryAssumption` and `ClientAssumption`
(OK is not an error code, delays and `max_attempts` are positive, timeouts are
natural numbers), `PoolAssumption` and `ClientsAssumption` (at least one queue;
clients are unary or server-streaming, as the specialisations of the template
are), and `FixtureAssumption` (one call, methods with one response).
`Server::Builder::Build` does not check the positive number of event threads that
`SizeAssumption` asks for.

Only model-checked: the liveness properties, which the prover does not do. Every
invariant, action property and refinement that a run checks is also proved.

## 5. Not modelled

- `Server::Builder`: sequential setup before any thread exists. It fills maps and
  checks types at registration; the split of a method name is string work.
- `ExecutionContext`: one mutex that a handler holds while it keeps the object
  that `GetContext` returns. What it protects is the user's.
- Tracing (`span.h`, `opencensus_span.*`): reports only; no control flow depends
  on it.
- Type traits and utilities (`type_traits.h`, `rpc_service_method_traits.h`,
  `make_unique.h`, `optional.h`, `time.*`, `port.h`): compile-time computations and
  value types without shared state. Time is counted in ticks.
- Message contents, logging, credentials and channels. One service is modelled;
  services share only the event queues.
- Shutdown called twice or before Start, and Start called twice, on a Server: the
  class is not written for it (Shutdown uses `server_` without a check).
- In the fixture, methods that respond with a stream, and the overload of
  `SendWrite` for a serialized message, which calls a function `Write` that does
  not exist, so that it cannot be instantiated. The destructor is `Server::Shutdown`.
- Streams of the synchronous client: the order and contents of messages are
  gRPC's. Their Write ignores gRPC's result and returns true (`client.h:142`).
