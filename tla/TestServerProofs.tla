-------------------------- MODULE TestServerProofs --------------------------
(***************************************************************************)
(* The server of the test fixture is a server of RpcService, so that all   *)
(* that is proved of RpcService holds for it, and the events that a test   *)
(* waits for come in the order in which it waits for them.  The inductive  *)
(* invariant TestInv says where the one call of the test is: which results *)
(* of the handler are on their way, for each thing that the test thread    *)
(* may be doing.                                                           *)
(***************************************************************************)
EXTENDS TestServer, RpcLifeProofs

ServiceInv == TagInv /\ LifeInv /\ RemovalInv

\* The Rpcs that have got a call.
Called == {r \in Rpcs : call[r] # "none"}

\* No result of a Read is on its way to the handler of r.
Quiet(r) == tag[r]["READ"] \in {"idle", "started"}

\* The result on its way, if any, is b: whether there is another request.
QueuedResult(r, b) ==
  \A q \in EventQueues : \A i \in 1..Len(event_queue[q]) :
    (event_queue[q][i].rpc = r /\ event_queue[q][i].event = "READ")
      => event_queue[q][i].ok = b

ReadResult(r, b) ==
  /\ tag[r]["READ"] # IF b THEN "failed" ELSE "ok"
  /\ QueuedResult(r, b)

\* OnFinish has been called on the handler of r.
Finished(r) == r \in finishing /\ "FINISH" \notin pending[r]

\* There is at most one call, of the method under test, and it is over only when
\* the handler has finished it.  Nothing is shut down.
CallInv ==
  /\ under_test \in 1..NumMethods
  /\ driver \in {"ready", "Write", "StreamFinish"} \cup RpcHandlerEvent
  /\ sent \in Nat
  /\ progress \in {"writing", "writes_done", "finished"}
  /\ handler_events \in Seq(RpcHandlerEvent)
  /\ ~service_shutting_down /\ ~grpc_shutdown /\ writes = 0
  /\ calls = 0 => Called = {}
  /\ \A r, s \in Called : r = s
  /\ \A r \in Called : r \in 1..created /\ MethodOf(listener[r]) = under_test
  /\ \A r \in Rpcs \ Called : requests[r] = 0
  /\ \A r \in Rpcs : call[r] = "over" => r \in finishing
  /\ \A r \in finishing : early \/ handler[r] = "reads_done"

\* A unary method: the first event of the wrapper is ON_REQUEST.
UnaryInv ==
  /\ driver \in {"ready", "Write", "ON_REQUEST"}
  /\ progress = "writing"
  /\ ~mismatch
  /\ sent = 0 => driver = "ready" /\ Called = {}
  /\ driver = "ready" => sent \in {0, 1}
  /\ driver # "ready" => sent = 1
  /\ driver # "ready" \/ sent = 0 =>
       \/ handler_events = <<>> /\ \A r \in Rpcs : handler[r] = "null"
       \/ handler_events # <<>> /\ Head(handler_events) = "ON_REQUEST"

\* A method that streams requests, before gRPC has delivered the call.
NoCallYet ==
  /\ handler_events = <<>>
  /\ \/ driver = "ready" /\ progress = "writing" /\ sent = 0
     \/ driver = "ON_REQUEST" /\ sent = 1
     \/ driver = "ON_READS_DONE" /\ sent = 0

\* Until OnReadsDone: the test thread waits for the result that is on its way to
\* the handler or to the queue of the wrapper, or for one not delivered yet.
Reading(r) ==
  \/ /\ Quiet(r)
     /\ \/ /\ driver = "ready" /\ progress = "writing"
           /\ requests[r] = sent /\ handler_events = <<>>
        \/ /\ driver = "ON_REQUEST"
           /\ requests[r] = sent - 1 /\ handler_events = <<>>
        \/ /\ driver = "ON_REQUEST"
           /\ requests[r] = sent /\ handler_events = <<"ON_REQUEST">>
        \/ /\ driver = "ON_READS_DONE"
           /\ requests[r] = sent /\ handler_events = <<>>
  \/ /\ ~Quiet(r) /\ handler_events = <<>>
     /\ \/ driver = "ON_REQUEST" /\ requests[r] = sent /\ ReadResult(r, TRUE)
        \/ driver = "ON_READS_DONE" /\ ReadResult(r, FALSE)

\* After OnReadsDone.
ReadsDone ==
  \/ /\ driver = "ON_READS_DONE"
     /\ handler_events \in {<<"ON_READS_DONE">>, <<"ON_READS_DONE", "ON_FINISH">>}
  \/ /\ driver = "ready" /\ progress = "writes_done"
     /\ handler_events \in {<<>>, <<"ON_FINISH">>}
  \/ /\ driver \in {"StreamFinish", "ON_FINISH"}
     /\ handler_events \in {<<>>, <<"ON_FINISH">>}
  \/ driver = "ready" /\ progress = "finished" /\ handler_events = <<>>

\* The wrapper has told the test that the call is finished.
FinishIsTold ==
  \/ handler_events \in {<<"ON_FINISH">>, <<"ON_READS_DONE", "ON_FINISH">>}
  \/ driver = "ready" /\ progress = "finished"

StreamInv ==
  /\ ~mismatch
  /\ driver # "Write"
  /\ driver = "ON_REQUEST" => progress = "writing"
  /\ driver = "ON_READS_DONE" => progress = "writes_done"
  /\ driver \in {"StreamFinish", "ON_FINISH"} => progress = "finished"
  /\ Called = {} => NoCallYet
  /\ \A r \in Called :
       /\ handler[r] # "reads_done" => Reading(r)
       /\ handler[r] = "reads_done" => ReadsDone
       /\ FinishIsTold /\ fault = "none" => Finished(r)

TestInv ==
  /\ CallInv
  /\ ~Streaming => UnaryInv
  /\ Streaming /\ ~early => StreamInv

-----------------------------------------------------------------------------
(* The server of the fixture is a server of RpcService *)

\* The steps of the fixture: those of the test thread leave the server alone,
\* the others are steps of the server.
LEMMA TestCases ==
  ASSUME [TestNext]_testVars, NEW ACTION P,
         TestThread => P,
         UNCHANGED testVars => P,
         StartServing /\ UNCHANGED fixtureVars => P,
         \A q \in EventQueues : EventThread(q) /\ EventStep(q) => P,
         \A q \in EventQueues : EventThread(q) /\ ListenAgain(q) => P,
         \A q \in EventQueues : EventThread(q) /\ HandleEventOfDestroyedRpc(q) => P,
         \A r \in Rpcs : Deliver(r) => P,
         \A r \in Rpcs :
           (/\ \/ RequestFails(r) \/ ReadFails(r) \/ WriteCompletes(r)
               \/ FinishCompletes(r) \/ CallIsDone(r)
            /\ UNCHANGED fixtureVars) => P,
         \A r \in Rpcs : \A e \in CqEvent :
           RunCompletionQueue(r, e) /\ UNCHANGED fixtureVars => P
  PROVE P
BY Zenon DEF TestNext, EventThread, RunEventQueue, EventStep, StartServer, Grpc,
             GrpcStep

LEMMA TestThreadIsOutside ==
  TestThread => UNCHANGED vars /\ under_test' = under_test /\ early' = early
BY Zenon DEF TestThread, SendWrite, SendWritesDone, SendFinish, ClientReturns,
             WaitForHandlerCompletion, Driver

LEMMA TestStepIsServiceStep == [TestNext]_testVars => [Next]_vars
<1>1. UNCHANGED testVars => UNCHANGED vars
  BY Zenon DEF testVars
<1>2. TestThread => UNCHANGED vars
  BY TestThreadIsOutside, Zenon
<1>3. TestNext => Next \/ UNCHANGED vars
  BY <1>2, Zenon DEF TestNext, StartServer, EventThread, Grpc, Deliver,
                     ClientStep, Next, Serve
<1>4. QED
  BY <1>1, <1>3, Zenon

\* A test sees the behaviour of a server of RpcService: the fixture's server
\* implements the specification, and so do its wrapped handlers.
THEOREM FixtureRunsTheService == TestSpec => Spec
<1>1. FixtureInit => Init
  BY Zenon DEF FixtureInit
<1>2. QED
  BY <1>1, TestStepIsServiceStep, PTL DEF TestSpec, Spec

-----------------------------------------------------------------------------
(* The steps of the server while it is not shut down *)

\* An event step leaves alone what belongs to gRPC's side of the calls.
LEMMA ServingFrame ==
  ASSUME NEW q \in EventQueues, EventStep(q), ~service_shutting_down
  PROVE /\ call' = call /\ requests' = requests /\ calls' = calls
        /\ created' = created /\ listener' = listener
BY Zenon DEF EventStep, RefuseConnection, AcceptConnection, HandleRequest,
             HandleReadsDone, HandleWrite, HandleFinishOrDone, IgnoreStaleEvent,
             rpcVars, grpcVars

\* No event comes too late for its Rpc.
LEMMA NoEventIsMissed ==
  ASSUME ServiceInv, NEW q \in EventQueues, HandleEventOfDestroyedRpc(q),
         ~service_shutting_down, writes = 0
  PROVE FALSE
<1> DEFINE ev == Head(event_queue[q])
<1>1. /\ event_queue[q] # <<>> /\ fault = "none" /\ ev.event \in CqEvent
      /\ ~Alive(ev.rpc)
  BY Zenon DEF HandleEventOfDestroyedRpc, NextEventIn
<1>2. ev.rpc \in 1..created /\ tag[ev.rpc][ev.event] = "queued"
  BY <1>1, HeadOfQueue, Zenon DEF ServiceInv
<1>3. tag[ev.rpc][ev.event] # "idle"
  BY <1>2
<1>4. QED
  BY <1>1, <1>2, <1>3, OnlyRefusedRpcsAreMissed, Zenon DEF ServiceInv

\* Only items to send finish a call, and only once without a fault.
LEMMA FinishStep ==
  ASSUME TypeOK, NEW q \in EventQueues, EventStep(q)
  PROVE LET r == Head(event_queue[q]).rpc IN
        \/ /\ finishing' = finishing
           /\ \A r2 \in Rpcs : "FINISH" \notin pending[r2] => "FINISH" \notin pending'[r2]
        \/ /\ finishing' = finishing \cup {r}
           /\ handler' = handler
           /\ send_queue[r] # <<>>
           /\ \A r2 \in Rpcs \ {r} : pending'[r2] = pending[r2]
           /\ fault' = "none" => r \notin finishing
<1> DEFINE ev == Head(event_queue[q])
           r == ev.rpc
           p == pending[r] \ {ev.event}
           Kept == \A r2 \in Rpcs :
                     "FINISH" \notin pending[r2] => "FINISH" \notin pending'[r2]
<1>1. event_queue[q] # <<>>
  BY Zenon DEF EventStep, RefuseConnection, AcceptConnection, HandleRequest,
         HandleReadsDone, HandleWrite, HandleFinishOrDone, IgnoreStaleEvent,
         NextEventIn
<1>2. r \in Rpcs /\ pending \in [Rpcs -> SUBSET CqEvent]
  BY <1>1, HeadType, Zenon DEF TypeOK
<1>3. ASSUME NEW S, pending' = [pending EXCEPT ![r] = S]
      PROVE /\ pending'[r] = S
            /\ \A r2 \in Rpcs \ {r} : pending'[r2] = pending[r2]
            /\ (S = p \/ S = p \cup {"READ"} \/ S = p \cup {"WRITE"}) => Kept
  <2>1. /\ pending'[r] = S
        /\ \A r2 \in Rpcs \ {r} : pending'[r2] = pending[r2]
    BY <1>2, <1>3, Zenon
  <2>2. "FINISH" \notin {"READ"} /\ "FINISH" \notin {"WRITE"}
    OBVIOUS
  <2>3. QED
    BY <2>1, <2>2, Zenon
<1>4. CASE \/ RefuseConnection(q) \/ HandleReadsDone(q) \/ HandleFinishOrDone(q)
  <2>1. finishing' = finishing /\ pending' = [pending EXCEPT ![r] = p]
    BY <1>4, <1>2, Zenon DEF RefuseConnection, HandleReadsDone, HandleFinishOrDone
  <2>2. QED
    BY <1>3, <2>1, Zenon
<1>5. CASE IgnoreStaleEvent(q)
  BY <1>5, Zenon DEF IgnoreStaleEvent, rpcVars, grpcVars
<1>6. CASE HandleRequest(q)
  <2>1. finishing' = finishing /\ pending' = [pending EXCEPT ![r] = p \cup {"READ"}]
    BY <1>6, Zenon DEF HandleRequest, StartOp
  <2>2. QED
    BY <1>3, <2>1, Zenon
<1>7. CASE AcceptConnection(q)
  <2>1. /\ finishing' = finishing
        /\ \/ pending' = [pending EXCEPT ![r] = p]
           \/ pending' = [pending EXCEPT ![r] = p \cup {"READ"}]
    BY <1>7, Zenon DEF AcceptConnection, OnConnection, StartOp
  <2>2. QED
    BY <1>3, <2>1, Zenon
<1>8. CASE HandleWrite(q)
  <2>1. handler' = handler /\ HandleSendQueue(r, p, TagsAfter(ev))
    BY <1>8, Zenon DEF HandleWrite
  <2>2. CASE ~CanSend(r, p)
    <3>1. finishing' = finishing /\ pending' = [pending EXCEPT ![r] = p]
      BY <2>1, <2>2, Zenon DEF HandleSendQueue
    <3>2. QED
      BY <1>3, <3>1, Zenon
  <2>3. CASE CanSend(r, p) /\ PerformWrite(r, p, TagsAfter(ev))
    <3>1. finishing' = finishing /\ pending' = [pending EXCEPT ![r] = p \cup {"WRITE"}]
      BY <2>3, Zenon DEF PerformWrite, StartOp
    <3>2. QED
      BY <1>3, <3>1, Zenon
  <2>4. CASE CanSend(r, p) /\ PerformFinish(r, p, TagsAfter(ev), Head(send_queue[r]))
    <3>1. /\ finishing' = finishing \cup {r}
          /\ pending' = [pending EXCEPT ![r] = p \cup {"FINISH"}]
          /\ send_queue[r] # <<>>
          /\ fault' = "finish_with_ok_error"
               \/ fault' = OpFault(r, TagsAfter(ev), "FINISH")
      BY <2>4, Zenon DEF PerformFinish, StartOp, CanSend
    <3>2. (fault' = "none" /\ r \in finishing) => FALSE
      <4>1. SUFFICES ASSUME OpFault(r, TagsAfter(ev), "FINISH") = "none",
                            r \in finishing
                     PROVE FALSE
        BY <3>1
      <4>2. QED
        BY <4>1 DEF OpFault
    <3>3. QED
      BY <1>3, <2>1, <3>1, <3>2, Zenon
  <2>5. QED
    BY <2>1, <2>2, <2>3, <2>4, Zenon DEF HandleSendQueue
<1>9. QED
  BY <1>4, <1>5, <1>6, <1>7, <1>8, Zenon DEF EventStep

\* An event step gives its Rpc a handler, or ends the requests.
LEMMA HandlerStep ==
  ASSUME ServiceInv, NEW q \in EventQueues, EventStep(q)
  PROVE LET ev == Head(event_queue[q]) r == ev.rpc IN
        /\ event_queue[q] # <<>>
        /\ relisten[q] = NoRpc
        /\ ev \in QueuedEvent
        /\ r \in Rpcs
        /\ \A r2 \in Rpcs \ {r} : handler'[r2] = handler[r2]
        /\ \/ handler'[r] = handler[r]
           \/ ev.event = "NEW_CONNECTION" /\ handler[r] = "null"
           \/ ev.event = "READ" /\ handler[r] = "reading"
<1> DEFINE ev == Head(event_queue[q])
<1>1. EventEffects(q) /\ TypeOK
  BY EventIsHandled, Zenon DEF ServiceInv, TagInv
<1>2. event_queue[q] # <<>> /\ relisten[q] = NoRpc
  BY <1>1, Zenon DEF EventEffects
<1>3. ev \in QueuedEvent /\ ev.rpc \in Rpcs
  BY <1>1, <1>2, HeadType, Zenon
<1>4. PICK ops \in SUBSET CqEvent : Handled(q, ops)
  BY <1>1, Zenon DEF EventEffects
<1>5. /\ \A r2 \in Rpcs \ {ev.rpc} : handler'[r2] = handler[r2]
      /\ handler'[ev.rpc] # handler[ev.rpc]
           => ev.event \in {"NEW_CONNECTION", "READ"}
  BY <1>4, Zenon DEF Handled
<1>6. /\ ev.event = "NEW_CONNECTION" => handler[ev.rpc] = "null"
      /\ ev.event = "READ" => handler[ev.rpc] = "reading"
  BY <1>2, HeadLife, Zenon DEF ServiceInv
<1>7. QED
  BY <1>2, <1>3, <1>5, <1>6, Zenon

-----------------------------------------------------------------------------
(* The call *)

\* A step that makes no call preserves CallInv, if it finishes the call only
\* after the last request.
LEMMA SameCall ==
  ASSUME CallInv,
         under_test' = under_test, driver' = driver, sent' = sent,
         progress' = progress,
         handler_events' \in Seq(RpcHandlerEvent),
         service_shutting_down' = service_shutting_down,
         grpc_shutdown' = grpc_shutdown, writes' = writes,
         Called' = Called, calls' = calls,
         \A r \in Rpcs \ Called : requests'[r] = requests[r],
         1..created \subseteq 1..created',
         \A r \in Called : listener'[r] = listener[r],
         \A r \in Rpcs : call'[r] = "over" => r \in finishing',
         \A r \in finishing' : early' \/ handler'[r] = "reads_done"
  PROVE CallInv'
BY Zenon DEF CallInv

LEMMA OnlyServerOfVars ==
  ASSUME UNCHANGED vars
  PROVE /\ created' = created /\ listener' = listener /\ handler' = handler
        /\ pending' = pending /\ send_queue' = send_queue
        /\ event_queue' = event_queue
        /\ service_shutting_down' = service_shutting_down /\ tag' = tag
        /\ call' = call /\ finishing' = finishing /\ requests' = requests
        /\ calls' = calls /\ grpc_shutdown' = grpc_shutdown
        /\ writes' = writes /\ fault' = fault
        /\ Called' = Called
<1>1. /\ created' = created /\ listener' = listener /\ handler' = handler
      /\ pending' = pending /\ send_queue' = send_queue
      /\ event_queue' = event_queue
      /\ service_shutting_down' = service_shutting_down /\ tag' = tag
      /\ call' = call /\ finishing' = finishing /\ requests' = requests
      /\ calls' = calls /\ grpc_shutdown' = grpc_shutdown
      /\ writes' = writes /\ fault' = fault
  BY Zenon DEF vars, rpcVars, threadVars, grpcVars, writerVars
<1>2. QED
  BY <1>1, Zenon DEF Called

LEMMA FixtureFrame ==
  ASSUME UNCHANGED fixtureVars
  PROVE /\ under_test' = under_test /\ driver' = driver /\ sent' = sent
        /\ progress' = progress /\ mismatch' = mismatch
        /\ handler_events' = handler_events /\ early' = early
BY Zenon DEF fixtureVars, driverVars

LEMMA CallbacksOf ==
  ASSUME NEW ev
  PROVE /\ ev.event = "NEW_CONNECTION" =>
             Callbacks(ev) = IF StreamsRequests(ev.rpc) THEN <<>>
                             ELSE <<"ON_REQUEST", "ON_READS_DONE">>
        /\ ev.event = "READ" =>
             Callbacks(ev) = IF ev.ok THEN <<"ON_REQUEST">> ELSE <<"ON_READS_DONE">>
        /\ ev.event = "FINISH" => Callbacks(ev) = <<"ON_FINISH">>
        /\ ev.event \notin {"NEW_CONNECTION", "READ", "FINISH"} => Callbacks(ev) = <<>>
        /\ Callbacks(ev) \in Seq(RpcHandlerEvent)
<1>1. ev.event = "NEW_CONNECTION" =>
        Callbacks(ev) = IF StreamsRequests(ev.rpc) THEN <<>>
                        ELSE <<"ON_REQUEST", "ON_READS_DONE">>
  BY Zenon DEF Callbacks
<1>2. ev.event = "READ" =>
        Callbacks(ev) = IF ev.ok THEN <<"ON_REQUEST">> ELSE <<"ON_READS_DONE">>
  BY Zenon DEF Callbacks
<1>3. ev.event = "FINISH" => Callbacks(ev) = <<"ON_FINISH">>
  BY Zenon DEF Callbacks
<1>4. ev.event \notin {"NEW_CONNECTION", "READ", "FINISH"} => Callbacks(ev) = <<>>
  BY Zenon DEF Callbacks
<1>5. \/ Callbacks(ev) = <<>>
      \/ Callbacks(ev) = <<"ON_REQUEST">>
      \/ Callbacks(ev) = <<"ON_READS_DONE">>
      \/ Callbacks(ev) = <<"ON_FINISH">>
      \/ Callbacks(ev) = <<"ON_REQUEST", "ON_READS_DONE">>
  BY <1>1, <1>2, <1>3, <1>4, Zenon
<1>6. Callbacks(ev) \in Seq(RpcHandlerEvent)
  <2>1. /\ <<>> \in Seq(RpcHandlerEvent)
        /\ <<"ON_REQUEST">> \in Seq(RpcHandlerEvent)
        /\ <<"ON_READS_DONE">> \in Seq(RpcHandlerEvent)
        /\ <<"ON_FINISH">> \in Seq(RpcHandlerEvent)
        /\ <<"ON_REQUEST", "ON_READS_DONE">> \in Seq(RpcHandlerEvent)
    BY DEF RpcHandlerEvent
  <2>2. QED
    BY <1>5, <2>1, Zenon
<1>7. QED
  BY <1>1, <1>2, <1>3, <1>4, <1>6, Zenon

LEMMA CallInvTestThread ==
  ASSUME CallInv, TestThread
  PROVE CallInv'
<1>1. UNCHANGED vars /\ under_test' = under_test /\ early' = early
  BY TestThreadIsOutside, Zenon
<1>2. sent' \in Nat
  <2>1. sent' = sent \/ sent' = sent + 1
    BY Zenon DEF TestThread, SendWrite, SendWritesDone, SendFinish, ClientReturns,
                 WaitForHandlerCompletion
  <2>2. QED
    BY <2>1 DEF CallInv
<1>3. progress' \in {"writing", "writes_done", "finished"}
  <2>1. progress' = progress \/ progress' = "writes_done" \/ progress' = "finished"
    BY Zenon DEF TestThread, SendWrite, SendWritesDone, SendFinish, ClientReturns,
                 WaitForHandlerCompletion
  <2>2. QED
    BY <2>1, Zenon DEF CallInv
<1>4. driver' \in {"ready", "Write", "StreamFinish"} \cup RpcHandlerEvent
  BY Zenon DEF TestThread, SendWrite, SendWritesDone, SendFinish, ClientReturns,
               WaitForHandlerCompletion, Driver, RpcHandlerEvent
<1>5. handler_events' \in Seq(RpcHandlerEvent)
  <2>1. \/ handler_events' = handler_events
        \/ handler_events # <<>> /\ handler_events' = Tail(handler_events)
    BY Zenon DEF TestThread, SendWrite, SendWritesDone, SendFinish, ClientReturns,
                 WaitForHandlerCompletion
  <2>2. QED
    BY <2>1 DEF CallInv
<1>6. /\ created' = created /\ listener' = listener /\ handler' = handler
      /\ service_shutting_down' = service_shutting_down
      /\ call' = call /\ finishing' = finishing /\ requests' = requests
      /\ calls' = calls /\ grpc_shutdown' = grpc_shutdown /\ writes' = writes
      /\ Called' = Called
  BY <1>1, OnlyServerOfVars, Zenon
<1>7. QED
  BY <1>1, <1>2, <1>3, <1>4, <1>5, <1>6, Zenon DEF CallInv

\* What the fixture adds to a step of an event thread.
LEMMA EventThreadFrame ==
  ASSUME CallInv, NEW q \in EventQueues, EventThread(q)
  PROVE /\ under_test' = under_test /\ driver' = driver /\ sent' = sent
        /\ progress' = progress /\ mismatch' = mismatch
        /\ early => early'
        /\ handler_events' =
             IF relisten[q] # NoRpc THEN handler_events
             ELSE handler_events \o Callbacks(Head(event_queue[q]))
        /\ handler_events' \in Seq(RpcHandlerEvent)
        /\ fault = "none"
        /\ service_shutting_down' = service_shutting_down
        /\ grpc_shutdown' = grpc_shutdown /\ writes' = writes
<1>1. /\ under_test' = under_test /\ driver' = driver /\ sent' = sent
      /\ progress' = progress /\ mismatch' = mismatch
      /\ handler_events' =
           IF relisten[q] # NoRpc THEN handler_events
           ELSE handler_events \o Callbacks(Head(event_queue[q]))
      /\ early => early'
      /\ RunEventQueue(q)
  BY Zenon DEF EventThread, driverVars
<1>2. handler_events \in Seq(RpcHandlerEvent)
  BY Zenon DEF CallInv
<1>3. Callbacks(Head(event_queue[q])) \in Seq(RpcHandlerEvent)
  BY CallbacksOf, Zenon
<1>4. handler_events \o Callbacks(Head(event_queue[q])) \in Seq(RpcHandlerEvent)
  BY <1>2, <1>3, Concat, Zenon
<1>5. QED
  BY <1>1, <1>2, <1>4, EventFrame, Zenon

LEMMA CallInvEvent ==
  ASSUME ServiceInv, CallInv, NEW q \in EventQueues, EventThread(q), EventStep(q)
  PROVE CallInv'
<1> DEFINE r == Head(event_queue[q]).rpc
<1>1. /\ under_test' = under_test /\ driver' = driver /\ sent' = sent
      /\ progress' = progress
      /\ early => early'
      /\ handler_events' \in Seq(RpcHandlerEvent)
      /\ service_shutting_down' = service_shutting_down
      /\ grpc_shutdown' = grpc_shutdown /\ writes' = writes
  BY EventThreadFrame, Zenon
<1>2. /\ call' = call /\ requests' = requests /\ calls' = calls
      /\ created' = created /\ listener' = listener
  BY ServingFrame, Zenon DEF CallInv
<1>3. Called' = Called
  BY <1>2, Zenon DEF Called
<1>4. /\ r \in Rpcs
      /\ \A r2 \in Rpcs : handler[r2] = "reads_done" => handler'[r2] = "reads_done"
  BY HandlerStep, Zenon
<1>5. \/ finishing' = finishing
      \/ /\ finishing' = finishing \cup {r} /\ handler' = handler
         /\ send_queue[r] # <<>>
  BY FinishStep, Zenon DEF ServiceInv, TagInv
<1>6. \A r2 \in Rpcs : call'[r2] = "over" => r2 \in finishing'
  BY <1>2, <1>5, Zenon DEF CallInv
<1>7. ASSUME NEW r2 \in finishing'
      PROVE early' \/ handler'[r2] = "reads_done"
  <2>1. CASE r2 \in finishing
    <3>1. r2 \in Rpcs
      BY <2>1, Zenon DEF ServiceInv, TagInv, TypeOK
    <3>2. QED
      BY <1>1, <1>4, <2>1, <3>1, Zenon DEF CallInv
  <2>2. CASE r2 \notin finishing
    <3>1. r2 = r /\ handler' = handler /\ send_queue[r] # <<>>
      BY <1>5, <1>7, <2>2, Zenon
    <3>2. handler[r] # "null"
      BY <1>4, <3>1, Zenon DEF ServiceInv, LifeInv, RpcLife
    <3>3. handler[r] \in {"null", "reading", "reads_done"}
      BY <1>4, Zenon DEF ServiceInv, TagInv, TypeOK
    <3>4. handler[r] = "reading" => early'
      BY <1>7, <2>2, <3>1, Zenon DEF EventThread
    <3>5. QED
      BY <3>1, <3>2, <3>3, <3>4, Zenon
  <2>3. QED
    BY <2>1, <2>2, Zenon
<1>8. QED
  BY <1>1, <1>2, <1>3, <1>6, <1>7, SameCall, Zenon

LEMMA CallInvListenAgain ==
  ASSUME ServiceInv, CallInv, NEW q \in EventQueues, EventThread(q),
         ListenAgain(q)
  PROVE CallInv'
<1>1. /\ under_test' = under_test /\ driver' = driver /\ sent' = sent
      /\ progress' = progress
      /\ early => early'
      /\ handler_events' \in Seq(RpcHandlerEvent)
      /\ service_shutting_down' = service_shutting_down
      /\ grpc_shutdown' = grpc_shutdown /\ writes' = writes
  BY EventThreadFrame, Zenon
<1>2. /\ created' = created + 1 /\ handler' = handler
      /\ call' = call /\ finishing' = finishing /\ requests' = requests
      /\ calls' = calls
      /\ listener' = [listener EXCEPT ![created + 1] = listener[relisten[q]]]
  BY Zenon DEF ListenAgain
<1>3. Called' = Called
  BY <1>2, Zenon DEF Called
<1>4. created \in Nat /\ listener \in [Rpcs -> Listeners]
  BY DEF ServiceInv, TagInv, TypeOK
<1>5. 1..created \subseteq 1..created' /\ created + 1 \notin 1..created
  BY <1>2, <1>4
<1>6. \A r \in Called : listener'[r] = listener[r]
  <2>1. \A r \in Called : r \in Rpcs /\ r # created + 1
    BY <1>5, Zenon DEF Called, CallInv
  <2>2. QED
    BY <1>2, <1>4, <2>1, Zenon
<1>7. /\ \A r \in Rpcs : call'[r] = "over" => r \in finishing'
      /\ \A r \in finishing' : early' \/ handler'[r] = "reads_done"
  BY <1>1, <1>2, Zenon DEF CallInv
<1>8. QED
  BY <1>1, <1>2, <1>3, <1>5, <1>6, <1>7, SameCall, Zenon

LEMMA CallInvStart ==
  ASSUME ServiceInv, CallInv, StartServing, UNCHANGED fixtureVars
  PROVE CallInv'
<1>1. /\ under_test' = under_test /\ driver' = driver /\ sent' = sent
      /\ progress' = progress /\ early' = early
      /\ handler_events' = handler_events
  BY FixtureFrame, Zenon
<1>2. /\ created = 0 /\ handler' = handler
      /\ call' = call /\ finishing' = finishing /\ requests' = requests
      /\ calls' = calls
      /\ service_shutting_down' = service_shutting_down
      /\ grpc_shutdown' = grpc_shutdown /\ writes' = writes
  BY Zenon DEF StartServing, writerVars
<1>3. Called' = Called
  BY <1>2, Zenon DEF Called
<1>4. 1..created = {}
  BY <1>2
<1>5. Called = {}
  BY <1>4, Zenon DEF CallInv
<1>6. /\ \A r \in Rpcs : call'[r] = "over" => r \in finishing'
      /\ \A r \in finishing' : early' \/ handler'[r] = "reads_done"
      /\ handler_events' \in Seq(RpcHandlerEvent)
  BY <1>1, <1>2, Zenon DEF CallInv
<1>7. QED
  BY <1>1, <1>2, <1>3, <1>4, <1>5, <1>6, SameCall, Zenon

\* A call whose Finish has been started belongs to a handler.
LEMMA FinishHasCall ==
  ASSUME ServiceInv, NEW r \in Rpcs, "FINISH" \in pending[r]
  PROVE r \in finishing /\ handler[r] # "null" /\ r \in Called
<1>1. r \in finishing
  BY Zenon DEF ServiceInv, TagInv, PendingFinish
<1>2. "FINISH" \notin {"NEW_CONNECTION", "DONE"}
  OBVIOUS
<1>3. handler[r] # "null"
  BY <1>2, Zenon DEF ServiceInv, LifeInv, RpcLife
<1>4. r \in Called
  BY <1>3, Zenon DEF ServiceInv, LifeInv, RpcLife, Called
<1>5. QED
  BY <1>1, <1>3, <1>4, Zenon

\* The operations of gRPC that complete do not change which Rpcs have calls, and
\* end only calls that are finished.
LEMMA GrpcCalls ==
  ASSUME ServiceInv, CallInv, NEW r \in Rpcs,
         \/ RequestFails(r) \/ ReadFails(r) \/ WriteCompletes(r)
         \/ FinishCompletes(r) \/ CallIsDone(r)
  PROVE /\ Called' = Called
        /\ requests' = requests /\ calls' = calls
        /\ \A r2 \in Rpcs : call'[r2] = "over" => r2 \in finishing
<1>1. requests' = requests /\ calls' = calls
  BY Zenon DEF RequestFails, ReadFails, WriteCompletes, FinishCompletes, CallIsDone
<1>2. CASE call' = call
  BY <1>1, <1>2, Zenon DEF Called, CallInv
<1>3. CASE FinishCompletes(r)
  <2>1. tag[r]["FINISH"] = "started" /\ call' = [call EXCEPT ![r] = "over"]
    BY <1>3, Zenon DEF FinishCompletes, Complete
  <2>2. tag[r]["FINISH"] # "idle" /\ "FINISH" \in CqEvent
    BY <2>1 DEF CqEvent
  <2>3. "FINISH" \in pending[r]
    BY <2>2, Zenon DEF ServiceInv, TagInv, UsedTagsArePending
  <2>4. r \in finishing /\ r \in Called
    BY <2>3, FinishHasCall, Zenon
  <2>5. call \in [Rpcs -> {"none", "open", "over"}]
    BY Zenon DEF ServiceInv, TagInv, TypeOK
  <2>6. call'[r] = "over" /\ \A r2 \in Rpcs \ {r} : call'[r2] = call[r2]
    BY <2>1, <2>5, Zenon
  <2>7. Called' = Called
    <3>1. \A r2 \in Rpcs : call'[r2] # "none" <=> call[r2] # "none"
      BY <2>4, <2>6 DEF Called
    <3>2. QED
      BY <3>1, Zenon DEF Called
  <2>8. QED
    BY <1>1, <2>4, <2>6, <2>7, Zenon DEF CallInv
<1>4. QED
  BY <1>2, <1>3, Zenon DEF RequestFails, ReadFails, WriteCompletes, CallIsDone

LEMMA CallInvGrpc ==
  ASSUME ServiceInv, CallInv, NEW r \in Rpcs,
         \/ RequestFails(r) \/ ReadFails(r) \/ WriteCompletes(r)
         \/ FinishCompletes(r) \/ CallIsDone(r),
         UNCHANGED fixtureVars
  PROVE CallInv'
<1>1. /\ under_test' = under_test /\ driver' = driver /\ sent' = sent
      /\ progress' = progress /\ early' = early
      /\ handler_events' = handler_events
  BY FixtureFrame, Zenon
<1>2. /\ created' = created /\ listener' = listener /\ handler' = handler
      /\ service_shutting_down' = service_shutting_down
      /\ finishing' = finishing /\ grpc_shutdown' = grpc_shutdown
      /\ writes' = writes
  BY GrpcFrame, Zenon
<1>3. /\ Called' = Called
      /\ requests' = requests /\ calls' = calls
      /\ \A r2 \in Rpcs : call'[r2] = "over" => r2 \in finishing
  BY GrpcCalls, Zenon
<1>4. /\ handler_events' \in Seq(RpcHandlerEvent)
      /\ \A r2 \in finishing' : early' \/ handler'[r2] = "reads_done"
  BY <1>1, <1>2, Zenon DEF CallInv
<1>5. QED
  BY <1>1, <1>2, <1>3, <1>4, SameCall, Zenon

LEMMA CallInvCompletion ==
  ASSUME ServiceInv, CallInv, NEW r \in Rpcs, NEW e \in CqEvent,
         RunCompletionQueue(r, e), UNCHANGED fixtureVars
  PROVE CallInv' /\ Called' = Called
<1>1. /\ under_test' = under_test /\ driver' = driver /\ sent' = sent
      /\ progress' = progress /\ early' = early
      /\ handler_events' = handler_events
  BY FixtureFrame, Zenon
<1>2. /\ created' = created /\ listener' = listener /\ handler' = handler
      /\ service_shutting_down' = service_shutting_down
      /\ finishing' = finishing /\ grpc_shutdown' = grpc_shutdown
      /\ writes' = writes
  BY CompletionFrame, Zenon
<1>3. call' = call /\ requests' = requests /\ calls' = calls
  BY Zenon DEF RunCompletionQueue
<1>4. Called' = Called
  BY <1>3, Zenon DEF Called
<1>5. /\ handler_events' \in Seq(RpcHandlerEvent)
      /\ \A r2 \in Rpcs : call'[r2] = "over" => r2 \in finishing'
      /\ \A r2 \in finishing' : early' \/ handler'[r2] = "reads_done"
  BY <1>1, <1>2, <1>3, Zenon DEF CallInv
<1>6. QED
  BY <1>1, <1>2, <1>3, <1>4, <1>5, SameCall, Zenon

\* The call that comes in is the first, and its Rpc is as it was constructed.
LEMMA FirstCall ==
  ASSUME ServiceInv, CallInv, NEW r \in Rpcs, IncomingCall(r)
  PROVE /\ Called = {} /\ Called' = {r} /\ r \in 1..created
        /\ requests' = requests /\ requests[r] = 0
        /\ calls' # 0
        /\ call'[r] = "open" /\ \A r2 \in Rpcs \ {r} : call'[r2] = "none"
        /\ handler[r] = "null"
        /\ tag'[r]["READ"] = "idle"
<1>1. /\ calls < MaxCalls /\ calls' = calls + 1 /\ requests' = requests
      /\ call' = [call EXCEPT ![r] = "open"]
      /\ tag[r]["NEW_CONNECTION"] = "started"
      /\ tag' = [tag EXCEPT ![r]["NEW_CONNECTION"] = "ok"]
  BY Zenon DEF IncomingCall, Complete
<1>2. calls = 0 /\ calls' # 0
  BY <1>1, FixtureAssumption DEF ServiceInv, TagInv, TypeOK
<1>3. Called = {}
  BY <1>2, Zenon DEF CallInv
<1>4. /\ call \in [Rpcs -> {"none", "open", "over"}]
      /\ tag \in [Rpcs -> [CqEvent -> TagState]]
  BY Zenon DEF ServiceInv, TagInv, TypeOK
<1>5. call'[r] = "open" /\ \A r2 \in Rpcs \ {r} : call'[r2] = "none"
  BY <1>1, <1>3, <1>4, Zenon DEF Called
<1>6. Called' = {r}
  BY <1>5 DEF Called
<1>7. tag[r]["NEW_CONNECTION"] # "idle" /\ "NEW_CONNECTION" \in CqEvent
  BY <1>1 DEF CqEvent
<1>8. "NEW_CONNECTION" \in pending[r]
  BY <1>7, Zenon DEF ServiceInv, TagInv, UsedTagsArePending
<1>9. r \in 1..created
  BY <1>8, Zenon DEF ServiceInv, TagInv, OnlyCreatedRpcs
<1>10. handler[r] = "null"
  BY <1>8, Zenon DEF ServiceInv, LifeInv, RpcLife
<1>11. tag[r]["READ"] = "idle"
  BY <1>8, Zenon DEF ServiceInv, TagInv, ConnectionComesFirst
<1>12. tag'[r]["READ"] = "idle"
  BY <1>1, <1>4, <1>11 DEF CqEvent
<1>13. requests[r] = 0
  BY <1>3, Zenon DEF CallInv
<1>14. QED
  BY <1>1, <1>2, <1>3, <1>5, <1>6, <1>9, <1>10, <1>12, <1>13, Zenon

LEMMA CallInvDeliver ==
  ASSUME ServiceInv, CallInv, NEW r \in Rpcs, Deliver(r)
  PROVE CallInv'
<1>1. UNCHANGED fixtureVars
  BY Zenon DEF Deliver
<1>2. /\ under_test' = under_test /\ driver' = driver /\ sent' = sent
      /\ progress' = progress /\ early' = early
      /\ handler_events' = handler_events
  BY <1>1, FixtureFrame, Zenon
<1>3. IncomingCall(r) \/ ClientSends(r) \/ ClientWritesDone(r)
  BY Zenon DEF Deliver
<1>4. /\ created' = created /\ listener' = listener /\ handler' = handler
      /\ service_shutting_down' = service_shutting_down
      /\ finishing' = finishing /\ grpc_shutdown' = grpc_shutdown
      /\ writes' = writes
  BY <1>3, GrpcFrame, Zenon
<1>5. /\ handler_events' \in Seq(RpcHandlerEvent)
      /\ \A r2 \in finishing' : early' \/ handler'[r2] = "reads_done"
  BY <1>2, <1>4, Zenon DEF CallInv
<1>6. CASE IncomingCall(r)
  <2>1. /\ Called = {} /\ Called' = {r} /\ r \in 1..created
        /\ requests' = requests /\ requests[r] = 0
        /\ calls' # 0
        /\ call'[r] = "open" /\ \A r2 \in Rpcs \ {r} : call'[r2] = "none"
    BY <1>6, FirstCall, Zenon
  <2>2. \A r2 \in Rpcs : call'[r2] # "over"
    BY <2>1
  <2>3. MethodOf(listener[r]) = under_test
    <3>1. ~ClientSends(r) /\ ~ClientWritesDone(r)
      BY <2>1, Zenon DEF ClientSends, ClientWritesDone, Called
    <3>2. QED
      BY <3>1, Zenon DEF Deliver
  <2>4. QED
    BY <1>2, <1>4, <1>5, <2>1, <2>2, <2>3, Zenon DEF CallInv
<1>7. CASE ClientSends(r) \/ ClientWritesDone(r)
  <2>1. /\ call[r] = "open" /\ call' = call /\ calls' = calls
        /\ requests' = requests \/ requests' = [requests EXCEPT ![r] = @ + 1]
    BY <1>7, Zenon DEF ClientSends, ClientWritesDone
  <2>2. Called' = Called /\ r \in Called
    BY <2>1 DEF Called
  <2>3. \A r2 \in Rpcs \ Called : requests'[r2] = requests[r2]
    <3>1. requests \in [Rpcs -> 0..MaxRequests]
      BY Zenon DEF ServiceInv, TagInv, TypeOK
    <3>2. QED
      BY <2>1, <2>2, <3>1, Zenon
  <2>4. \A r2 \in Rpcs : call'[r2] = "over" => r2 \in finishing'
    BY <1>4, <2>1, Zenon DEF CallInv
  <2>5. QED
    BY <1>2, <1>4, <1>5, <2>1, <2>2, <2>3, <2>4, SameCall, Zenon
<1>8. QED
  BY <1>3, <1>6, <1>7, Zenon

-----------------------------------------------------------------------------
(* A unary method *)

LEMMA UnaryTestThread ==
  ASSUME CallInv, UnaryInv, ~Streaming, TestThread
  PROVE UnaryInv'
<1>1. handler' = handler /\ Called' = Called
  BY TestThreadIsOutside, OnlyServerOfVars, Zenon
<1>2. CASE SendWrite
  <2>1. /\ driver = "ready" /\ driver' = "Write" /\ progress' = progress
        /\ sent < 1 /\ sent' = sent + 1 /\ mismatch' = mismatch
        /\ handler_events' = handler_events
    BY <1>2, Zenon DEF SendWrite, Driver
  <2>2. sent = 0 /\ sent' = 1
    BY <2>1 DEF CallInv
  <2>3. driver' # "ready" /\ sent' # 0
    BY <2>1, <2>2
  <2>4. QED
    BY <1>1, <2>1, <2>2, <2>3, Zenon DEF UnaryInv
<1>3. CASE SendWritesDone
  BY <1>3, Zenon DEF SendWritesDone
<1>4. CASE SendFinish
  BY <1>4 DEF SendFinish, UnaryInv
<1>5. CASE ClientReturns
  <2>1. /\ \/ driver = "Write" /\ driver' = "ON_REQUEST"
           \/ driver = "StreamFinish" /\ driver' = "ON_FINISH"
        /\ progress' = progress /\ sent' = sent /\ mismatch' = mismatch
        /\ handler_events' = handler_events
    BY <1>5, Zenon DEF ClientReturns, Driver
  <2>2. driver = "Write" /\ driver' = "ON_REQUEST"
    BY <2>1 DEF UnaryInv
  <2>3. driver # "ready" /\ driver' # "ready" /\ sent = 1 /\ sent # 0
    BY <2>2 DEF UnaryInv
  <2>4. QED
    BY <1>1, <2>1, <2>2, <2>3, Zenon DEF UnaryInv
<1>6. CASE WaitForHandlerCompletion
  <2>1. PICK event \in RpcHandlerEvent :
          /\ driver = event /\ driver' = "ready"
          /\ mismatch' = (event # Head(handler_events))
    BY <1>6, Zenon DEF WaitForHandlerCompletion, Driver
  <2>2. /\ handler_events # <<>> /\ sent' = sent /\ progress' = progress
    BY <1>6, Zenon DEF WaitForHandlerCompletion
  <2>3. event = "ON_REQUEST" /\ driver # "ready"
    BY <2>1 DEF UnaryInv, RpcHandlerEvent
  <2>4. sent = 1 /\ sent # 0
    BY <2>3 DEF UnaryInv
  <2>5. Head(handler_events) = "ON_REQUEST"
    BY <2>2, <2>3, Zenon DEF UnaryInv
  <2>6. ~mismatch'
    BY <2>1, <2>3, <2>5, Zenon
  <2>7. QED
    BY <2>1, <2>2, <2>4, <2>6, Zenon DEF UnaryInv
<1>7. QED
  BY <1>2, <1>3, <1>4, <1>5, <1>6, Zenon DEF TestThread

\* A step of the server that creates no handler before the first event.
LEMMA UnaryServer ==
  ASSUME UnaryInv, driver' = driver, sent' = sent, progress' = progress,
         mismatch' = mismatch,
         sent = 0 => Called' = Called,
         \/ /\ handler_events' = handler_events
            /\ \A r \in Rpcs : handler[r] = "null" => handler'[r] = "null"
         \/ /\ handler_events' # <<>>
            /\ Head(handler_events') = IF handler_events = <<>> THEN "ON_REQUEST"
                                       ELSE Head(handler_events)
  PROVE UnaryInv'
BY Zenon DEF UnaryInv

\* The events of an Rpc with a handler, or with a call of the method under test.
LEMMA EventOfCall ==
  ASSUME ServiceInv, CallInv, NEW q \in EventQueues, event_queue[q] # <<>>
  PROVE LET ev == Head(event_queue[q]) IN
        /\ ev.event = "NEW_CONNECTION" =>
             ev.ok /\ ev.rpc \in Called /\ (StreamsRequests(ev.rpc) <=> Streaming)
        /\ ev.event = "READ" => handler[ev.rpc] = "reading" /\ ev.rpc \in Called
        /\ ev.event = "FINISH" => /\ "FINISH" \in pending[ev.rpc]
                                  /\ ev.rpc \in finishing
                                  /\ handler[ev.rpc] # "null" /\ ev.rpc \in Called
<1> DEFINE ev == Head(event_queue[q])
           r == ev.rpc
<1>1. r \in Rpcs /\ ev = event_queue[q][1] /\ 1 \in 1..Len(event_queue[q])
  BY HeadOfQueue, Zenon DEF ServiceInv
<1>2. /\ ev.event \in CqEvent => ev.event \in pending[r]
      /\ ev.event = "NEW_CONNECTION" => (ev.ok => call[r] # "none")
      /\ ev.event = "READ" => handler[r] = "reading"
  BY HeadLife, Zenon DEF ServiceInv
<1>3. handler[r] # "null" => r \in Called
  BY <1>1, Zenon DEF ServiceInv, LifeInv, RpcLife, Called
<1>4. ASSUME ev.event = "NEW_CONNECTION"
      PROVE ev.ok /\ r \in Called /\ (StreamsRequests(r) <=> Streaming)
  <2>1. ev.ok
    BY <1>1, <1>4, Zenon DEF ServiceInv, RemovalInv, ShutdownOrder, CallInv
  <2>2. r \in Called
    BY <1>1, <1>2, <1>4, <2>1, Zenon DEF Called
  <2>3. MethodOf(listener[r]) = under_test
    BY <2>2, Zenon DEF CallInv
  <2>4. MethodType[under_test] \in {"NORMAL_RPC", "CLIENT_STREAMING"}
    BY FixtureAssumption, Zenon DEF CallInv
  <2>5. StreamsRequests(r) <=> Streaming
    BY <2>3, <2>4 DEF StreamsRequests, Type, Streaming
  <2>6. QED
    BY <2>1, <2>2, <2>5, Zenon
<1>5. ASSUME ev.event = "FINISH"
      PROVE /\ "FINISH" \in pending[r] /\ r \in finishing
            /\ handler[r] # "null" /\ r \in Called
  <2>1. "FINISH" \in pending[r]
    BY <1>2, <1>5, Zenon DEF CqEvent
  <2>2. QED
    BY <1>1, <2>1, FinishHasCall, Zenon
<1>6. ev.event = "READ" => handler[r] = "reading" /\ r \in Called
  BY <1>2, <1>3
<1>7. QED
  BY <1>4, <1>5, <1>6, Zenon

LEMMA UnaryEvent ==
  ASSUME ServiceInv, CallInv, UnaryInv, ~Streaming, NEW q \in EventQueues,
         EventThread(q), EventStep(q)
  PROVE UnaryInv'
<1> DEFINE ev == Head(event_queue[q])
<1>1. /\ driver' = driver /\ sent' = sent /\ progress' = progress
      /\ mismatch' = mismatch
      /\ handler_events' = IF relisten[q] # NoRpc THEN handler_events
                           ELSE handler_events \o Callbacks(ev)
  BY EventThreadFrame, Zenon
<1>2. call' = call
  BY ServingFrame, Zenon DEF CallInv
<1>3. Called' = Called
  BY <1>2, Zenon DEF Called
<1>4. /\ event_queue[q] # <<>> /\ relisten[q] = NoRpc /\ ev.rpc \in Rpcs
      /\ \A r2 \in Rpcs \ {ev.rpc} : handler'[r2] = handler[r2]
      /\ \/ handler'[ev.rpc] = handler[ev.rpc]
         \/ ev.event = "NEW_CONNECTION" /\ handler[ev.rpc] = "null"
         \/ ev.event = "READ" /\ handler[ev.rpc] = "reading"
  BY HandlerStep, Zenon
<1>5. handler_events' = handler_events \o Callbacks(ev)
  BY <1>1, <1>4, Zenon
<1>6. handler_events \in Seq(RpcHandlerEvent) /\ Callbacks(ev) \in Seq(RpcHandlerEvent)
  BY CallbacksOf, Zenon DEF CallInv
<1>7. CASE handler_events # <<>>
  <2>1. handler_events' # <<>> /\ Head(handler_events') = Head(handler_events)
    BY <1>5, <1>6, <1>7
  <2>2. QED
    BY <1>1, <1>3, <1>7, <2>1, UnaryServer, Zenon
<1>8. CASE handler_events = <<>> /\ ev.event = "NEW_CONNECTION"
  <2>1. Callbacks(ev) = <<"ON_REQUEST", "ON_READS_DONE">>
    BY <1>4, <1>8, CallbacksOf, EventOfCall, Zenon
  <2>2. handler_events' # <<>> /\ Head(handler_events') = "ON_REQUEST"
    BY <1>5, <1>8, <2>1
  <2>3. QED
    BY <1>1, <1>3, <1>8, <2>2, UnaryServer, Zenon
<1>9. CASE handler_events = <<>> /\ ev.event \in {"READ", "FINISH"}
  <2>1. handler[ev.rpc] # "null"
    <3>1. ev.event = "READ" => handler[ev.rpc] = "reading"
      BY <1>4, EventOfCall, Zenon
    <3>2. ev.event = "FINISH" => handler[ev.rpc] # "null"
      BY <1>4, EventOfCall, Zenon
    <3>3. QED
      BY <1>9, <3>1, <3>2
  <2>2. driver = "ready" /\ sent # 0
    BY <1>4, <1>9, <2>1, Zenon DEF UnaryInv
  <2>3. driver' = "ready" /\ sent' # 0 /\ sent' \in {0, 1}
    BY <1>1, <2>2, Zenon DEF UnaryInv
  <2>4. progress' = "writing" /\ ~mismatch'
    BY <1>1, Zenon DEF UnaryInv
  <2>5. QED
    BY <2>3, <2>4, Zenon DEF UnaryInv
<1>10. CASE handler_events = <<>> /\ ev.event \notin {"NEW_CONNECTION", "READ", "FINISH"}
  <2>1. Callbacks(ev) = <<>>
    BY <1>10, CallbacksOf, Zenon
  <2>2. handler_events' = handler_events
    BY <1>5, <1>10, <2>1
  <2>3. \A r \in Rpcs : handler'[r] = handler[r]
    BY <1>4, <1>10, Zenon
  <2>4. QED
    BY <1>1, <1>3, <2>2, <2>3, UnaryServer, Zenon
<1>11. QED
  BY <1>7, <1>8, <1>9, <1>10, Zenon

\* The other steps of the server do not touch the handlers.
LEMMA UnaryOthers ==
  ASSUME ServiceInv, CallInv, UnaryInv,
         \/ StartServing /\ UNCHANGED fixtureVars
         \/ \E q \in EventQueues : EventThread(q) /\ ListenAgain(q)
         \/ \E r \in Rpcs : Deliver(r)
         \/ \E r \in Rpcs :
              /\ \/ RequestFails(r) \/ ReadFails(r) \/ WriteCompletes(r)
                 \/ FinishCompletes(r) \/ CallIsDone(r)
              /\ UNCHANGED fixtureVars
         \/ \E r \in Rpcs : \E e \in CqEvent :
              RunCompletionQueue(r, e) /\ UNCHANGED fixtureVars
  PROVE UnaryInv'
<1>1. ASSUME UNCHANGED fixtureVars, handler' = handler, sent = 0 => Called' = Called
      PROVE UnaryInv'
  <2>1. /\ driver' = driver /\ sent' = sent /\ progress' = progress
        /\ mismatch' = mismatch /\ handler_events' = handler_events
    BY <1>1, FixtureFrame, Zenon
  <2>2. QED
    BY <1>1, <2>1, UnaryServer, Zenon
<1>2. CASE StartServing /\ UNCHANGED fixtureVars
  <2>1. handler' = handler /\ call' = call
    BY <1>2, Zenon DEF StartServing
  <2>2. Called' = Called
    BY <2>1, Zenon DEF Called
  <2>3. QED
    BY <1>1, <1>2, <2>1, <2>2, Zenon
<1>3. ASSUME NEW q \in EventQueues, EventThread(q), ListenAgain(q)
      PROVE UnaryInv'
  <2>1. handler' = handler /\ call' = call /\ relisten[q] # NoRpc
    BY <1>3, Zenon DEF ListenAgain
  <2>2. Called' = Called
    BY <2>1, Zenon DEF Called
  <2>3. /\ driver' = driver /\ sent' = sent /\ progress' = progress
        /\ mismatch' = mismatch /\ handler_events' = handler_events
    BY <1>3, <2>1, EventThreadFrame, Zenon
  <2>4. QED
    BY <2>1, <2>2, <2>3, UnaryServer, Zenon
<1>4. ASSUME NEW r \in Rpcs, Deliver(r)
      PROVE UnaryInv'
  <2>1. handler' = handler
    <3>1. IncomingCall(r) \/ ClientSends(r) \/ ClientWritesDone(r)
      BY <1>4, Zenon DEF Deliver
    <3>2. QED
      BY <3>1, GrpcFrame, Zenon
  <2>2. UNCHANGED fixtureVars
    BY <1>4, Zenon DEF Deliver
  <2>3. ASSUME sent = 0 PROVE Called' = Called
    <3>1. ~(sent > 0) /\ progress = "writing"
      BY <2>3 DEF UnaryInv
    <3>2. call' = call
      BY <1>4, <3>1, Zenon DEF Deliver, ClientSends, ClientWritesDone
    <3>3. QED
      BY <3>2, Zenon DEF Called
  <2>4. QED
    BY <1>1, <2>1, <2>2, <2>3, Zenon
<1>5. ASSUME NEW r \in Rpcs,
             \/ RequestFails(r) \/ ReadFails(r) \/ WriteCompletes(r)
             \/ FinishCompletes(r) \/ CallIsDone(r),
             UNCHANGED fixtureVars
      PROVE UnaryInv'
  <2>1. handler' = handler
    BY <1>5, GrpcFrame, Zenon
  <2>2. Called' = Called
    BY <1>5, GrpcCalls, Zenon
  <2>3. QED
    BY <1>1, <1>5, <2>1, <2>2, Zenon
<1>6. ASSUME NEW r \in Rpcs, NEW e \in CqEvent, RunCompletionQueue(r, e),
             UNCHANGED fixtureVars
      PROVE UnaryInv'
  <2>1. handler' = handler
    BY <1>6, CompletionFrame, Zenon
  <2>2. Called' = Called
    BY <1>6, CallInvCompletion, Zenon
  <2>3. QED
    BY <1>1, <1>6, <2>1, <2>2, Zenon
<1>7. QED
  BY <1>2, <1>3, <1>4, <1>5, <1>6, Zenon

-----------------------------------------------------------------------------
(* A method that streams requests: the test thread *)

\* Where the call is while the test thread has nothing to wait for, or waits.
LEMMA Places ==
  ASSUME StreamInv
  PROVE /\ driver = "ready" /\ progress = "writing" =>
             /\ handler_events = <<>>
             /\ Called = {} => sent = 0
             /\ \A r \in Called : /\ handler[r] # "reads_done"
                                  /\ Quiet(r) /\ requests[r] = sent
        /\ driver = "ready" /\ progress = "writes_done" =>
             /\ Called # {}
             /\ handler_events \in {<<>>, <<"ON_FINISH">>}
             /\ \A r \in Called : handler[r] = "reads_done"
        /\ driver \in {"StreamFinish", "ON_FINISH"} =>
             /\ Called # {}
             /\ handler_events \in {<<>>, <<"ON_FINISH">>}
             /\ \A r \in Called : handler[r] = "reads_done"
        /\ driver = "ON_REQUEST" /\ handler_events # <<>> =>
             /\ Called # {}
             /\ handler_events = <<"ON_REQUEST">>
             /\ \A r \in Called : /\ handler[r] # "reads_done"
                                  /\ Quiet(r) /\ requests[r] = sent
        /\ driver = "ON_READS_DONE" /\ handler_events # <<>> =>
             /\ Called # {}
             /\ handler_events \in {<<"ON_READS_DONE">>, <<"ON_READS_DONE", "ON_FINISH">>}
             /\ \A r \in Called : handler[r] = "reads_done"
<1>1. CASE Called = {}
  <2>1. NoCallYet
    BY <1>1, Zenon DEF StreamInv
  <2>2. QED
    BY <1>1, <2>1 DEF NoCallYet
<1>2. ASSUME NEW r \in Called
      PROVE /\ handler[r] # "reads_done" =>
                 /\ driver = "ready" => progress = "writing"
                 /\ driver \notin {"StreamFinish", "ON_FINISH"}
                 /\ driver = "ready" \/ (driver = "ON_REQUEST" /\ handler_events # <<>>)
                      => Quiet(r) /\ requests[r] = sent
                 /\ driver = "ready" => handler_events = <<>>
                 /\ driver = "ON_REQUEST" => handler_events \in {<<>>, <<"ON_REQUEST">>}
                 /\ driver = "ON_READS_DONE" => handler_events = <<>>
            /\ handler[r] = "reads_done" =>
                 /\ driver = "ready" => progress # "writing"
                 /\ driver # "ON_REQUEST"
                 /\ driver = "ON_READS_DONE" =>
                      handler_events \in {<<"ON_READS_DONE">>,
                                          <<"ON_READS_DONE", "ON_FINISH">>}
                 /\ driver \in {"StreamFinish", "ON_FINISH"} =>
                      handler_events \in {<<>>, <<"ON_FINISH">>}
                 /\ driver = "ready" /\ progress = "writes_done" =>
                      handler_events \in {<<>>, <<"ON_FINISH">>}
  <2>1. CASE handler[r] # "reads_done"
    <3>1. Reading(r)
      BY <1>2, <2>1, Zenon DEF StreamInv
    <3>2. QED
      BY <2>1, <3>1, Zenon DEF Reading
  <2>2. CASE handler[r] = "reads_done"
    <3>1. ReadsDone
      BY <1>2, <2>2, Zenon DEF StreamInv
    <3>2. QED
      BY <2>2, <3>1, Zenon DEF ReadsDone
  <2>3. QED
    BY <2>1, <2>2, Zenon
<1>3. ASSUME Called # {}
      PROVE /\ driver = "ready" /\ progress = "writing" =>
                 /\ handler_events = <<>>
                 /\ \A r \in Called : /\ handler[r] # "reads_done"
                                      /\ Quiet(r) /\ requests[r] = sent
            /\ driver = "ready" /\ progress = "writes_done" =>
                 /\ handler_events \in {<<>>, <<"ON_FINISH">>}
                 /\ \A r \in Called : handler[r] = "reads_done"
            /\ driver \in {"StreamFinish", "ON_FINISH"} =>
                 /\ handler_events \in {<<>>, <<"ON_FINISH">>}
                 /\ \A r \in Called : handler[r] = "reads_done"
            /\ driver = "ON_REQUEST" /\ handler_events # <<>> =>
                 /\ handler_events = <<"ON_REQUEST">>
                 /\ \A r \in Called : /\ handler[r] # "reads_done"
                                      /\ Quiet(r) /\ requests[r] = sent
            /\ driver = "ON_READS_DONE" /\ handler_events # <<>> =>
                 /\ handler_events \in {<<"ON_READS_DONE">>,
                                        <<"ON_READS_DONE", "ON_FINISH">>}
                 /\ \A r \in Called : handler[r] = "reads_done"
  <2>1. PICK s \in Called : TRUE
    BY <1>3, Zenon
  <2>2. ASSUME driver = "ready", progress = "writing"
        PROVE /\ handler_events = <<>>
              /\ \A r \in Called : /\ handler[r] # "reads_done"
                                   /\ Quiet(r) /\ requests[r] = sent
    BY <1>2, <2>1, <2>2, Zenon
  <2>3. ASSUME driver = "ready", progress = "writes_done"
        PROVE /\ handler_events \in {<<>>, <<"ON_FINISH">>}
              /\ \A r \in Called : handler[r] = "reads_done"
    <3>1. \A r \in Called : handler[r] = "reads_done"
      BY <1>2, <2>3, Zenon
    <3>2. QED
      BY <1>2, <2>1, <2>3, <3>1, Zenon
  <2>4. ASSUME driver \in {"StreamFinish", "ON_FINISH"}
        PROVE /\ handler_events \in {<<>>, <<"ON_FINISH">>}
              /\ \A r \in Called : handler[r] = "reads_done"
    <3>1. \A r \in Called : handler[r] = "reads_done"
      BY <1>2, <2>4, Zenon
    <3>2. QED
      BY <1>2, <2>1, <2>4, <3>1, Zenon
  <2>5. ASSUME driver = "ON_REQUEST", handler_events # <<>>
        PROVE /\ handler_events = <<"ON_REQUEST">>
              /\ \A r \in Called : /\ handler[r] # "reads_done"
                                   /\ Quiet(r) /\ requests[r] = sent
    BY <1>2, <2>1, <2>5, Zenon
  <2>6. ASSUME driver = "ON_READS_DONE", handler_events # <<>>
        PROVE /\ handler_events \in {<<"ON_READS_DONE">>,
                                     <<"ON_READS_DONE", "ON_FINISH">>}
              /\ \A r \in Called : handler[r] = "reads_done"
    BY <1>2, <2>1, <2>6, Zenon
  <2>7. QED
    BY <2>2, <2>3, <2>4, <2>5, <2>6, Zenon
<1>4. QED
  BY <1>1, <1>3, Zenon

\* Two sequences of one element, one after the other.
LEMMA TwoElements ==
  ASSUME NEW a, NEW b
  PROVE <<a>> \o <<b>> = <<a, b>>
<1> DEFINE s == <<a>> \o <<b>>
<1>1. <<a>> \in Seq({a, b}) /\ <<b>> \in Seq({a, b})
  OBVIOUS
<1>2. s \in Seq({a, b}) /\ Len(s) = 2 /\ s[1] = a /\ s[2] = b
  BY <1>1
<1> HIDE DEF s
<1>3. s = <<a, b>>
  BY <1>2
<1>4. QED
  BY <1>3, Zenon DEF s

LEMMA HeadsAndTails ==
  /\ \A e \in RpcHandlerEvent : Head(<<e>>) = e /\ Tail(<<e>>) = <<>>
  /\ Head(<<"ON_READS_DONE", "ON_FINISH">>) = "ON_READS_DONE"
  /\ Tail(<<"ON_READS_DONE", "ON_FINISH">>) = <<"ON_FINISH">>
  /\ <<"ON_READS_DONE">> \o <<"ON_FINISH">> = <<"ON_READS_DONE", "ON_FINISH">>
<1>1. \A e \in RpcHandlerEvent : Head(<<e>>) = e /\ Tail(<<e>>) = <<>>
  OBVIOUS
<1>2. Head(<<"ON_READS_DONE", "ON_FINISH">>) = "ON_READS_DONE"
  OBVIOUS
<1>3. Tail(<<"ON_READS_DONE", "ON_FINISH">>) = <<"ON_FINISH">>
  OBVIOUS
<1>4. <<"ON_READS_DONE">> \o <<"ON_FINISH">> = <<"ON_READS_DONE", "ON_FINISH">>
  BY TwoElements, Zenon
<1>5. QED
  BY <1>1, <1>2, <1>3, <1>4, Zenon

LEMMA StreamTestThread ==
  ASSUME CallInv, StreamInv, Streaming, TestThread
  PROVE StreamInv'
<1>1. /\ handler' = handler /\ requests' = requests /\ tag' = tag
      /\ event_queue' = event_queue /\ finishing' = finishing
      /\ pending' = pending /\ fault' = fault /\ Called' = Called
  BY TestThreadIsOutside, OnlyServerOfVars, Zenon
<1>2. \A r : /\ Quiet(r)' <=> Quiet(r)
             /\ Finished(r)' <=> Finished(r)
  BY <1>1, Zenon DEF Quiet, Finished
<1>3. \A r \in Called : FinishIsTold /\ fault = "none" => Finished(r)
  BY Zenon DEF StreamInv
<1>4. CASE SendWrite
  <2>1. /\ driver = "ready" /\ driver' = "ON_REQUEST"
        /\ progress = "writing" /\ progress' = progress
        /\ sent' = sent + 1 /\ mismatch' = mismatch
        /\ handler_events' = handler_events
    BY <1>4, Zenon DEF SendWrite, Driver
  <2>2. /\ handler_events = <<>>
        /\ Called = {} => sent = 0
        /\ \A r \in Called : /\ handler[r] # "reads_done"
                             /\ Quiet(r) /\ requests[r] = sent
    BY <2>1, Places, Zenon
  <2>3. sent' - 1 = sent /\ (sent = 0 => sent' = 1)
    BY <2>1 DEF CallInv
  <2>4. (Called = {})' => NoCallYet'
    BY <1>1, <2>1, <2>2, <2>3, Zenon DEF NoCallYet
  <2>5. \A r \in Called : Reading(r)'
    BY <1>1, <1>2, <2>1, <2>2, <2>3, Zenon DEF Reading
  <2>6. ~FinishIsTold'
    BY <2>1, <2>2 DEF FinishIsTold
  <2>7. QED
    BY <1>1, <2>1, <2>2, <2>4, <2>5, <2>6, Zenon DEF StreamInv
<1>5. CASE SendWritesDone
  <2>1. /\ driver = "ready" /\ driver' = "ON_READS_DONE"
        /\ progress = "writing" /\ progress' = "writes_done"
        /\ sent' = sent /\ mismatch' = mismatch
        /\ handler_events' = handler_events
    BY <1>5, Zenon DEF SendWritesDone, Driver
  <2>2. /\ handler_events = <<>>
        /\ Called = {} => sent = 0
        /\ \A r \in Called : /\ handler[r] # "reads_done"
                             /\ Quiet(r) /\ requests[r] = sent
    BY <2>1, Places, Zenon
  <2>3. (Called = {})' => NoCallYet'
    BY <1>1, <2>1, <2>2, Zenon DEF NoCallYet
  <2>4. \A r \in Called : Reading(r)'
    BY <1>1, <1>2, <2>1, <2>2, Zenon DEF Reading
  <2>5. ~FinishIsTold'
    BY <2>1, <2>2 DEF FinishIsTold
  <2>6. QED
    BY <1>1, <2>1, <2>2, <2>3, <2>4, <2>5, Zenon DEF StreamInv
<1>6. CASE SendFinish
  <2>1. /\ driver = "ready" /\ driver' = "StreamFinish"
        /\ progress = "writes_done" /\ progress' = "finished"
        /\ mismatch' = mismatch /\ handler_events' = handler_events
    BY <1>6, Zenon DEF SendFinish, Driver
  <2>2. /\ Called # {}
        /\ handler_events \in {<<>>, <<"ON_FINISH">>}
        /\ \A r \in Called : handler[r] = "reads_done"
    BY <2>1, Places, Zenon
  <2>3. ReadsDone'
    BY <2>1, <2>2, Zenon DEF ReadsDone
  <2>4. FinishIsTold' => FinishIsTold
    BY <2>1, Zenon DEF FinishIsTold
  <2>5. QED
    BY <1>1, <1>2, <1>3, <2>1, <2>2, <2>3, <2>4, Zenon DEF StreamInv
<1>7. CASE ClientReturns
  <2>1. /\ \/ driver = "Write" /\ driver' = "ON_REQUEST"
           \/ driver = "StreamFinish" /\ driver' = "ON_FINISH"
        /\ progress' = progress /\ sent' = sent /\ mismatch' = mismatch
        /\ handler_events' = handler_events
    BY <1>7, Zenon DEF ClientReturns, Driver
  <2>2. driver = "StreamFinish" /\ driver' = "ON_FINISH" /\ progress = "finished"
    BY <2>1, Zenon DEF StreamInv
  <2>3. /\ Called # {}
        /\ handler_events \in {<<>>, <<"ON_FINISH">>}
        /\ \A r \in Called : handler[r] = "reads_done"
    BY <2>2, Places, Zenon
  <2>4. ReadsDone'
    BY <2>1, <2>2, <2>3, Zenon DEF ReadsDone
  <2>5. FinishIsTold' => FinishIsTold
    BY <2>1, <2>2, Zenon DEF FinishIsTold
  <2>6. QED
    BY <1>1, <1>2, <1>3, <2>1, <2>2, <2>3, <2>4, <2>5, Zenon DEF StreamInv
<1>8. CASE WaitForHandlerCompletion
  <2>1. PICK event \in RpcHandlerEvent :
          /\ driver = event /\ driver' = "ready"
          /\ mismatch' = (event # Head(handler_events))
    BY <1>8, Zenon DEF WaitForHandlerCompletion, Driver
  <2>2. /\ handler_events # <<>> /\ handler_events' = Tail(handler_events)
        /\ sent' = sent /\ progress' = progress
    BY <1>8, Zenon DEF WaitForHandlerCompletion
  <2>3. CASE event = "ON_REQUEST"
    <3>1. /\ Called # {}
          /\ handler_events = <<"ON_REQUEST">>
          /\ \A r \in Called : /\ handler[r] # "reads_done"
                               /\ Quiet(r) /\ requests[r] = sent
      BY <2>1, <2>2, <2>3, Places, Zenon
    <3>2. Head(handler_events) = "ON_REQUEST" /\ handler_events' = <<>>
      BY <2>2, <3>1, HeadsAndTails, Zenon DEF RpcHandlerEvent
    <3>3. progress = "writing" /\ ~mismatch'
      BY <2>1, <2>3, <3>2, Zenon DEF StreamInv
    <3>4. \A r \in Called : Reading(r)'
      BY <1>1, <1>2, <2>1, <2>2, <3>1, <3>2, <3>3, Zenon DEF Reading
    <3>5. ~FinishIsTold'
      BY <2>1, <2>2, <3>2, <3>3 DEF FinishIsTold
    <3>6. QED
      BY <1>1, <2>1, <2>2, <3>1, <3>3, <3>4, <3>5, Zenon DEF StreamInv
  <2>4. CASE event = "ON_READS_DONE"
    <3>1. /\ Called # {}
          /\ handler_events \in {<<"ON_READS_DONE">>, <<"ON_READS_DONE", "ON_FINISH">>}
          /\ \A r \in Called : handler[r] = "reads_done"
      BY <2>1, <2>2, <2>4, Places, Zenon
    <3>2. /\ Head(handler_events) = "ON_READS_DONE"
          /\ \/ handler_events' = <<>>
             \/ /\ handler_events' = <<"ON_FINISH">>
                /\ handler_events = <<"ON_READS_DONE", "ON_FINISH">>
      BY <2>2, <3>1, HeadsAndTails, Zenon DEF RpcHandlerEvent
    <3>3. progress = "writes_done" /\ ~mismatch'
      BY <2>1, <2>4, <3>2, Zenon DEF StreamInv
    <3>4. ReadsDone'
      BY <2>1, <2>2, <3>2, <3>3, Zenon DEF ReadsDone
    <3>5. FinishIsTold' => FinishIsTold
      <4>1. handler_events' = <<>> => ~FinishIsTold'
        BY <2>2, <3>3 DEF FinishIsTold
      <4>2. QED
        BY <3>2, <4>1, Zenon DEF FinishIsTold
    <3>6. QED
      BY <1>1, <1>2, <1>3, <2>1, <2>2, <3>1, <3>3, <3>4, <3>5, Zenon DEF StreamInv
  <2>5. CASE event = "ON_FINISH"
    <3>1. /\ Called # {}
          /\ handler_events \in {<<>>, <<"ON_FINISH">>}
          /\ \A r \in Called : handler[r] = "reads_done"
      BY <2>1, <2>5, Places, Zenon
    <3>2. /\ handler_events = <<"ON_FINISH">>
          /\ Head(handler_events) = "ON_FINISH" /\ handler_events' = <<>>
      BY <2>2, <3>1, HeadsAndTails, Zenon DEF RpcHandlerEvent
    <3>3. progress = "finished" /\ ~mismatch'
      BY <2>1, <2>5, <3>2, Zenon DEF StreamInv
    <3>4. ReadsDone'
      BY <2>1, <2>2, <3>2, <3>3, Zenon DEF ReadsDone
    <3>5. FinishIsTold
      BY <3>2, Zenon DEF FinishIsTold
    <3>6. QED
      BY <1>1, <1>2, <1>3, <2>1, <2>2, <3>1, <3>3, <3>4, <3>5, Zenon DEF StreamInv
  <2>6. QED
    BY <2>1, <2>3, <2>4, <2>5, Zenon DEF RpcHandlerEvent
<1>9. QED
  BY <1>4, <1>5, <1>6, <1>7, <1>8, Zenon DEF TestThread

-----------------------------------------------------------------------------
(* A method that streams requests: the steps the test does not notice *)

Calm ==
  /\ driver' = driver /\ sent' = sent /\ progress' = progress
  /\ mismatch' = mismatch /\ handler_events' = handler_events
  /\ Called' = Called
  /\ \A r \in Called :
       /\ requests'[r] = requests[r]
       /\ handler'[r] = "reads_done" <=> handler[r] = "reads_done"
       /\ Quiet(r)' <=> Quiet(r)
       /\ ReadResult(r, TRUE) => ReadResult(r, TRUE)'
       /\ ReadResult(r, FALSE) => ReadResult(r, FALSE)'
       /\ Finished(r) /\ fault' = "none" => Finished(r)'
  /\ fault' = "none" => fault = "none"

LEMMA CalmStream ==
  ASSUME StreamInv, Calm
  PROVE StreamInv'
<1>1. /\ driver' = driver /\ sent' = sent /\ progress' = progress
      /\ mismatch' = mismatch /\ handler_events' = handler_events
      /\ Called' = Called
      /\ fault' = "none" => fault = "none"
  BY Zenon DEF Calm
<1>2. ASSUME NEW r \in Called, handler'[r] # "reads_done"
      PROVE Reading(r)'
  <2>1. /\ requests'[r] = requests[r]
        /\ Quiet(r)' <=> Quiet(r)
        /\ ReadResult(r, TRUE) => ReadResult(r, TRUE)'
        /\ ReadResult(r, FALSE) => ReadResult(r, FALSE)'
        /\ handler[r] # "reads_done"
    BY <1>2, Zenon DEF Calm
  <2>2. Reading(r)
    BY <1>2, <2>1, Zenon DEF StreamInv
  <2>3. QED
    BY <1>1, <2>1, <2>2, Zenon DEF Reading
<1>3. ASSUME NEW r \in Called, handler'[r] = "reads_done"
      PROVE ReadsDone'
  <2>1. handler[r] = "reads_done"
    BY <1>3, Zenon DEF Calm
  <2>2. ReadsDone
    BY <1>3, <2>1, Zenon DEF StreamInv
  <2>3. QED
    BY <1>1, <2>2, Zenon DEF ReadsDone
<1>4. ASSUME NEW r \in Called, FinishIsTold', fault' = "none"
      PROVE Finished(r)'
  <2>1. FinishIsTold /\ fault = "none"
    BY <1>1, <1>4, Zenon DEF FinishIsTold
  <2>2. QED
    BY <1>4, <2>1, Zenon DEF StreamInv, Calm
<1>5. (Called = {})' => NoCallYet'
  BY <1>1, Zenon DEF StreamInv, NoCallYet
<1>6. QED
  BY <1>1, <1>2, <1>3, <1>4, <1>5, Zenon DEF StreamInv

\* The Rpcs with a call are left alone.
LEMMA CalmFrame ==
  ASSUME driver' = driver, sent' = sent, progress' = progress,
         mismatch' = mismatch, handler_events' = handler_events,
         Called' = Called, requests' = requests, handler' = handler,
         finishing' = finishing, event_queue' = event_queue,
         \A r \in Called : tag'[r]["READ"] = tag[r]["READ"],
         \A r \in Called : pending'[r] = pending[r],
         fault' = "none" => fault = "none"
  PROVE Calm
<1>1. ASSUME NEW r \in Called
      PROVE /\ Quiet(r)' <=> Quiet(r)
            /\ ReadResult(r, TRUE) => ReadResult(r, TRUE)'
            /\ ReadResult(r, FALSE) => ReadResult(r, FALSE)'
            /\ Finished(r) => Finished(r)'
  BY <1>1, Zenon DEF Quiet, ReadResult, QueuedResult, Finished
<1>2. QED
  BY <1>1, Zenon DEF Calm

LEMMA CalmStart ==
  ASSUME ServiceInv, CallInv, StartServing, UNCHANGED fixtureVars
  PROVE Calm
<1>1. /\ driver' = driver /\ sent' = sent /\ progress' = progress
      /\ mismatch' = mismatch /\ handler_events' = handler_events
  BY FixtureFrame, Zenon
<1>2. created = 0 /\ call' = call /\ fault = "none"
  BY Zenon DEF StartServing
<1>3. Called' = Called
  BY <1>2, Zenon DEF Called
<1>4. 1..created = {}
  BY <1>2
<1>5. Called = {}
  BY <1>4, Zenon DEF CallInv
<1>6. QED
  BY <1>1, <1>2, <1>3, <1>5, Zenon DEF Calm

LEMMA CalmListenAgain ==
  ASSUME ServiceInv, CallInv, NEW q \in EventQueues, EventThread(q),
         ListenAgain(q)
  PROVE Calm
<1> DEFINE new == created + 1
<1>1. /\ relisten[q] # NoRpc /\ handler' = handler /\ call' = call
      /\ finishing' = finishing /\ requests' = requests
      /\ event_queue' = event_queue /\ fault = "none"
      /\ pending' = [pending EXCEPT ![new] = {"DONE", "NEW_CONNECTION"}]
      /\ tag' = [tag EXCEPT ![new] =
                   [e \in CqEvent |-> IF e \in {"DONE", "NEW_CONNECTION"}
                                      THEN "started" ELSE "idle"]]
  BY Zenon DEF ListenAgain, RequestNextMethodInvocation
<1>2. /\ driver' = driver /\ sent' = sent /\ progress' = progress
      /\ mismatch' = mismatch /\ handler_events' = handler_events
  BY <1>1, EventThreadFrame, Zenon
<1>3. Called' = Called
  BY <1>1, Zenon DEF Called
<1>4. created \in Nat
  BY DEF ServiceInv, TagInv, TypeOK
<1>5. new \notin 1..created
  BY <1>4
<1>6. \A r \in Called : r \in Rpcs /\ r # new
  BY <1>5, Zenon DEF Called, CallInv
<1>7. /\ pending \in [Rpcs -> SUBSET CqEvent]
      /\ tag \in [Rpcs -> [CqEvent -> TagState]]
  BY Zenon DEF ServiceInv, TagInv, TypeOK
<1> HIDE DEF new
<1>8. \A r \in Called : tag'[r] = tag[r] /\ pending'[r] = pending[r]
  BY <1>1, <1>6, <1>7, Zenon
<1>9. QED
  BY <1>1, <1>2, <1>3, <1>8, CalmFrame, Zenon

\* While nothing is shut down and the handler does not finish too early, gRPC
\* does not fail a Read.
LEMMA NothingFails ==
  ASSUME ServiceInv, CallInv, ~early, NEW r \in Rpcs
  PROVE ~RequestFails(r) /\ ~ReadFails(r)
<1>1. ~RequestFails(r)
  BY Zenon DEF RequestFails, CallInv
<1>2. ASSUME ReadFails(r) PROVE FALSE
  <2>1. (call[r] = "over" \/ r \in finishing) /\ tag[r]["READ"] = "started"
    BY <1>2, Zenon DEF ReadFails, Complete
  <2>2. handler[r] = "reads_done"
    BY <2>1, Zenon DEF CallInv
  <2>3. tag[r]["READ"] = "idle"
    BY <2>2, Zenon DEF ServiceInv, TagInv, ReadsDoneIsFinal
  <2>4. QED
    BY <2>1, <2>3
<1>3. QED
  BY <1>1, <1>2, Zenon

LEMMA CalmGrpc ==
  ASSUME ServiceInv, CallInv, ~early, NEW r \in Rpcs,
         \/ RequestFails(r) \/ ReadFails(r) \/ WriteCompletes(r)
         \/ FinishCompletes(r) \/ CallIsDone(r),
         UNCHANGED fixtureVars
  PROVE Calm
<1>1. /\ driver' = driver /\ sent' = sent /\ progress' = progress
      /\ mismatch' = mismatch /\ handler_events' = handler_events
  BY FixtureFrame, Zenon
<1>2. /\ handler' = handler /\ finishing' = finishing /\ pending' = pending
      /\ event_queue' = event_queue /\ fault' = fault
  BY GrpcFrame, Zenon
<1>3. Called' = Called /\ requests' = requests
  BY GrpcCalls, Zenon
<1>4. WriteCompletes(r) \/ FinishCompletes(r) \/ CallIsDone(r)
  BY NothingFails, Zenon
<1>5. PICK e \in {"WRITE", "FINISH", "DONE"} : \E result \in TagState :
        tag' = [tag EXCEPT ![r][e] = result]
  BY <1>4, Zenon DEF WriteCompletes, FinishCompletes, CallIsDone, Complete, TagState
<1>6. tag \in [Rpcs -> [CqEvent -> TagState]]
  BY Zenon DEF ServiceInv, TagInv, TypeOK
<1>7. \A r2 \in Rpcs : tag'[r2]["READ"] = tag[r2]["READ"]
  BY <1>5, <1>6 DEF CqEvent
<1>8. \A r2 \in Called : tag'[r2]["READ"] = tag[r2]["READ"]
  BY <1>7, Zenon DEF Called
<1>9. QED
  BY <1>1, <1>2, <1>3, <1>8, CalmFrame, Zenon

LEMMA CalmCompletion ==
  ASSUME ServiceInv, CallInv, NEW r \in Rpcs, NEW e \in CqEvent,
         RunCompletionQueue(r, e), UNCHANGED fixtureVars
  PROVE Calm
<1>1. /\ driver' = driver /\ sent' = sent /\ progress' = progress
      /\ mismatch' = mismatch /\ handler_events' = handler_events
  BY FixtureFrame, Zenon
<1>2. /\ handler' = handler /\ finishing' = finishing /\ pending' = pending
      /\ fault = "none"
  BY CompletionFrame, Zenon
<1>3. Called' = Called
  BY CallInvCompletion, Zenon
<1>4. requests' = requests /\ tag[r][e] \in {"ok", "failed"}
  BY Zenon DEF RunCompletionQueue
<1>5. CASE ~Alive(r)
  <2>1. tag' = tag /\ event_queue' = event_queue
    BY <1>5, Zenon DEF RunCompletionQueue
  <2>2. QED
    BY <1>1, <1>2, <1>3, <1>4, <2>1, CalmFrame, Zenon
<1>6. CASE Alive(r)
  <2> DEFINE ev == [rpc |-> r, event |-> e, ok |-> tag[r][e] = "ok"]
  <2>1. /\ event_queue' = [event_queue EXCEPT ![queue[r]] = Append(@, ev)]
        /\ tag' = [tag EXCEPT ![r][e] = "queued"]
    BY <1>6, Zenon DEF RunCompletionQueue
  <2>2. ev \in QueuedEvent /\ ev.rpc = r
    BY DEF QueuedEvent, Event
  <2>3. ev.event = e /\ (ev.ok <=> tag[r][e] = "ok")
    BY Zenon
  <2> HIDE DEF ev
  <2>4. TypeOK
    BY Zenon DEF ServiceInv, TagInv
  <2>5. \A q \in EventQueues : \A i \in 1..Len(event_queue'[q]) :
          \/ i \in 1..Len(event_queue[q]) /\ event_queue'[q][i] = event_queue[q][i]
          \/ event_queue'[q][i] = ev
    <3>0. event_queue' = [event_queue EXCEPT ![queue[r]] = Append(@, ev)]
      BY <2>1, Zenon
    <3>1. Pushed(r, ev.event)
      BY <3>0, <2>2, <2>4, AppendPushes, Zenon
    <3>2. \A q \in EventQueues : \A i \in 1..Len(event_queue'[q]) :
            i \notin 1..Len(event_queue[q]) => event_queue'[q][i] = ev
      BY <3>0, <2>2, <2>4, AppendPushes, ZenonT(40)
    <3>3. \A q \in EventQueues : \A i \in 1..Len(event_queue[q]) :
            event_queue'[q][i] = event_queue[q][i]
      BY <3>1, Zenon DEF Pushed
    <3>4. QED
      BY <3>2, <3>3, Zenon
  <2>6. tag \in [Rpcs -> [CqEvent -> TagState]]
    BY <2>4, Zenon DEF TypeOK
  <2>7. ASSUME NEW s \in Rpcs
        PROVE /\ (s = r /\ e = "READ") => tag'[s]["READ"] = "queued"
              /\ ~(s = r /\ e = "READ") => tag'[s]["READ"] = tag[s]["READ"]
    BY <2>1, <2>6, <2>7 DEF CqEvent
  <2>8. ASSUME NEW s \in Rpcs PROVE Quiet(s)' <=> Quiet(s)
    <3>1. CASE s = r /\ e = "READ"
      BY <1>4, <2>7, <3>1 DEF Quiet
    <3>2. CASE ~(s = r /\ e = "READ")
      BY <2>7, <3>2, Zenon DEF Quiet
    <3>3. QED
      BY <3>1, <3>2, Zenon
  <2>9. ASSUME NEW s \in Rpcs, NEW b \in BOOLEAN, ReadResult(s, b)
        PROVE ReadResult(s, b)'
    <3>1. (s = r /\ e = "READ") => ev.ok = b
      BY <1>4, <2>2, <2>3, <2>9 DEF ReadResult, QueuedEvent
    <3>2. ASSUME NEW q \in EventQueues, NEW i \in 1..Len(event_queue'[q]),
                 event_queue'[q][i].rpc = s, event_queue'[q][i].event = "READ"
          PROVE event_queue'[q][i].ok = b
      <4>1. CASE event_queue'[q][i] = ev
        BY <2>2, <2>3, <3>1, <3>2, <4>1, Zenon
      <4>2. CASE i \in 1..Len(event_queue[q]) /\ event_queue'[q][i] = event_queue[q][i]
        BY <2>9, <3>2, <4>2, Zenon DEF ReadResult, QueuedResult
      <4>3. QED
        BY <2>5, <3>2, <4>1, <4>2, Zenon
    <3>3. tag'[s]["READ"] # IF b THEN "failed" ELSE "ok"
      BY <2>7, <2>9, Zenon DEF ReadResult
    <3>4. QED
      BY <3>2, <3>3, Zenon DEF ReadResult, QueuedResult
  <2>10. \A s \in Called : s \in Rpcs
    BY Zenon DEF Called
  <2>11. \A s : Finished(s)' <=> Finished(s)
    BY <1>2, Zenon DEF Finished
  <2>12. QED
    BY <1>1, <1>2, <1>3, <1>4, <2>8, <2>9, <2>10, <2>11, Zenon DEF Calm
<1>7. QED
  BY <1>5, <1>6, Zenon

\* What an event step does to the tag of READ and to the Reads in the queues.
LEMMA ReadStep ==
  ASSUME ServiceInv, NEW q \in EventQueues, EventStep(q)
  PROVE LET ev == Head(event_queue[q]) r == ev.rpc IN
        /\ \A s \in Rpcs \ {r} : tag'[s] = tag[s]
        /\ \/ /\ tag'[r]["READ"] = "started"
              /\ ev.event = "READ" \/ tag[r]["READ"] = "idle"
           \/ tag'[r]["READ"] = "idle" /\ ev.event = "READ"
           \/ tag'[r]["READ"] = tag[r]["READ"] /\ ev.event # "READ"
        /\ pending'[r]
             \subseteq (pending[r] \ {ev.event}) \cup {"READ", "WRITE", "FINISH"}
        /\ \A s, b : QueuedResult(s, b) => QueuedResult(s, b)'
<1> DEFINE ev == Head(event_queue[q])
           r == ev.rpc
<1>1. EventEffects(q) /\ TypeOK
  BY EventIsHandled, Zenon DEF ServiceInv, TagInv
<1>2. event_queue[q] # <<>> /\ ev \in QueuedEvent /\ r \in Rpcs
  BY HandlerStep, Zenon
<1>3. PICK ops \in SUBSET CqEvent : Handled(q, ops)
  BY <1>1, Zenon DEF EventEffects
<1>4. /\ \A e \in CqEvent :
           /\ e \in ops => tag'[r][e] = "started"
           /\ e \notin ops /\ e = ev.event => tag'[r][e] = "idle"
           /\ e \notin ops /\ e # ev.event => tag'[r][e] = tag[r][e]
      /\ pending'[r] = (pending[r] \ {ev.event}) \cup ops
      /\ \A s \in Rpcs \ {r} : tag'[s] = tag[s]
  <2>1. FlagsAfter(r, ev, ops)
    BY <1>1, <1>2, <1>3, HandledFlags, Zenon
  <2>2. QED
    BY <2>1, Zenon DEF FlagsAfter
<1>5. /\ PopAndPush(q, r)
      /\ ops \subseteq {"READ", "WRITE", "FINISH"}
      /\ "READ" \in ops => ev.event = "READ" \/ ev.event = "NEW_CONNECTION"
  <2>1. PopAndPush(q, r)
    BY <1>3, Zenon DEF Handled
  <2>2. ops \subseteq {"READ", "WRITE", "FINISH"}
    BY <1>3, Zenon DEF Handled
  <2>3. "READ" \in ops => ev.event = "READ" \/ ev.event = "NEW_CONNECTION"
    BY <1>3, Zenon DEF Handled
  <2>4. QED
    BY <2>1, <2>2, <2>3, Zenon
<1>6. ev.event = "NEW_CONNECTION" => tag[r]["READ"] = "idle"
  <2>1. ev.event = "NEW_CONNECTION" => "NEW_CONNECTION" \in pending[r]
    BY <1>2, HeadLife, Zenon DEF ServiceInv, CqEvent
  <2>2. QED
    BY <1>2, <2>1, Zenon DEF ServiceInv, TagInv, ConnectionComesFirst
<1>7. "READ" \in CqEvent
  BY DEF CqEvent
<1>8. ASSUME NEW s, NEW b, QueuedResult(s, b)
      PROVE QueuedResult(s, b)'
  <2>1. ASSUME NEW q2 \in EventQueues, NEW i \in 1..Len(event_queue'[q2]),
               event_queue'[q2][i].rpc = s, event_queue'[q2][i].event = "READ"
        PROVE event_queue'[q2][i].ok = b
    <3>1. /\ i + Shift(q2, q) \in 1..Len(event_queue[q2])
          /\ event_queue'[q2][i] = event_queue[q2][i + Shift(q2, q)]
      BY <1>2, <1>5, <1>7, <2>1, OldEvents, Zenon
    <3>2. QED
      BY <1>8, <2>1, <3>1, Zenon DEF QueuedResult
  <2>2. QED
    BY <2>1, Zenon DEF QueuedResult
<1>9. QED
  BY <1>4, <1>5, <1>6, <1>7, <1>8, Zenon

\* A call is finished once, until there is a fault.
LEMMA FinishedStays ==
  ASSUME TypeOK, NEW q \in EventQueues, EventStep(q), fault' = "none",
         NEW s \in Rpcs, Finished(s)
  PROVE Finished(s)'
<1> DEFINE r == Head(event_queue[q]).rpc
<1>1. CASE /\ finishing' = finishing
           /\ \A r2 \in Rpcs : "FINISH" \notin pending[r2] => "FINISH" \notin pending'[r2]
  BY <1>1, Zenon DEF Finished
<1>2. CASE /\ finishing' = finishing \cup {r}
           /\ \A r2 \in Rpcs \ {r} : pending'[r2] = pending[r2]
           /\ r \notin finishing
  <2>1. s # r
    BY <1>2, Zenon DEF Finished
  <2>2. QED
    BY <1>2, <2>1, Zenon DEF Finished
<1>3. QED
  BY <1>1, <1>2, FinishStep, Zenon

\* An event that is neither the result of a Read nor of Finish.
LEMMA CalmEvent ==
  ASSUME ServiceInv, CallInv, Streaming, NEW q \in EventQueues, EventThread(q),
         EventStep(q), Head(event_queue[q]).event \notin {"READ", "FINISH"}
  PROVE Calm
<1> DEFINE ev == Head(event_queue[q])
           r == ev.rpc
<1>1. /\ driver' = driver /\ sent' = sent /\ progress' = progress
      /\ mismatch' = mismatch /\ fault = "none"
      /\ handler_events' = IF relisten[q] # NoRpc THEN handler_events
                           ELSE handler_events \o Callbacks(ev)
  BY EventThreadFrame, Zenon
<1>2. call' = call /\ requests' = requests
  BY ServingFrame, Zenon DEF CallInv
<1>3. Called' = Called
  BY <1>2, Zenon DEF Called
<1>4. /\ event_queue[q] # <<>> /\ relisten[q] = NoRpc /\ r \in Rpcs
      /\ \A s \in Rpcs \ {r} : handler'[s] = handler[s]
      /\ \/ handler'[r] = handler[r]
         \/ ev.event = "NEW_CONNECTION" /\ handler[r] = "null"
         \/ ev.event = "READ" /\ handler[r] = "reading"
  BY HandlerStep, Zenon
<1>5. ev.event = "NEW_CONNECTION" => ev.ok /\ StreamsRequests(r)
  BY <1>4, EventOfCall, Zenon
<1>6. handler_events' = handler_events
  <2>1. Callbacks(ev) = <<>>
    <3>1. CASE ev.event = "NEW_CONNECTION"
      BY <1>5, <3>1, CallbacksOf, Zenon
    <3>2. CASE ev.event # "NEW_CONNECTION"
      <4>1. ev.event \notin {"NEW_CONNECTION", "READ", "FINISH"}
        BY <3>2, Zenon
      <4>2. QED
        BY <4>1, CallbacksOf, Zenon
    <3>3. QED
      BY <3>1, <3>2, Zenon
  <2>2. handler_events' = handler_events \o <<>>
    BY <1>1, <1>4, <2>1, Zenon
  <2>3. QED
    BY <2>2 DEF CallInv
<1>7. \A s \in Rpcs : handler'[s] = "reads_done" <=> handler[s] = "reads_done"
  <2>1. CASE ev.event = "NEW_CONNECTION"
    <3>1. AcceptConnection(q)
      BY <2>1, Zenon DEF EventStep, RefuseConnection, HandleRequest,
                         HandleReadsDone, HandleWrite, HandleFinishOrDone,
                         IgnoreStaleEvent, NextEventIn, CallInv
    <3>2. OnConnection(q, r, pending[r] \ {ev.event}, TagsAfter(ev))
      BY <1>5, <2>1, <3>1, Zenon DEF AcceptConnection
    <3>3. handler' = [handler EXCEPT ![r] = "reading"]
      BY <1>5, <2>1, <3>2, Zenon DEF OnConnection
    <3>4. handler \in [Rpcs -> {"null", "reading", "reads_done"}]
      BY Zenon DEF ServiceInv, TagInv, TypeOK
    <3>5. handler'[r] = "reading" /\ handler[r] = "null"
      <4>1. handler'[r] = "reading"
        BY <1>4, <3>3, <3>4, Zenon
      <4>2. handler[r] = "null"
        BY <1>4, <2>1, HeadLife, Zenon DEF ServiceInv
      <4>3. QED
        BY <4>1, <4>2, Zenon
    <3>6. QED
      BY <1>4, <3>5, Zenon
  <2>2. CASE ev.event # "NEW_CONNECTION"
    BY <1>4, <2>2, Zenon
  <2>3. QED
    BY <2>1, <2>2, Zenon
<1>8. /\ \A s \in Rpcs \ {r} : tag'[s] = tag[s]
      /\ \/ tag'[r]["READ"] = "started" /\ tag[r]["READ"] = "idle"
         \/ tag'[r]["READ"] = tag[r]["READ"]
      /\ \A s, b : QueuedResult(s, b) => QueuedResult(s, b)'
  BY ReadStep, Zenon
<1>9. ASSUME NEW s \in Rpcs
      PROVE /\ Quiet(s)' <=> Quiet(s)
            /\ ReadResult(s, TRUE) => ReadResult(s, TRUE)'
            /\ ReadResult(s, FALSE) => ReadResult(s, FALSE)'
  <2>1. \/ tag'[s]["READ"] = "started" /\ tag[s]["READ"] = "idle"
        \/ tag'[s]["READ"] = tag[s]["READ"]
    BY <1>8, <1>9, Zenon
  <2>2. Quiet(s)' <=> Quiet(s)
    BY <2>1, Zenon DEF Quiet
  <2>3. ASSUME NEW b, ReadResult(s, b)
        PROVE ReadResult(s, b)'
    <3>1. tag'[s]["READ"] # IF b THEN "failed" ELSE "ok"
      BY <2>1, <2>3, Zenon DEF ReadResult
    <3>2. QED
      BY <1>8, <2>3, <3>1, Zenon DEF ReadResult
  <2>4. QED
    BY <2>2, <2>3, Zenon
<1>10. ASSUME NEW s \in Rpcs, Finished(s), fault' = "none"
       PROVE Finished(s)'
  BY <1>10, FinishedStays, Zenon DEF ServiceInv, TagInv
<1>11. \A s \in Called : s \in Rpcs
  BY Zenon DEF Called
<1>12. QED
  BY <1>1, <1>2, <1>3, <1>6, <1>7, <1>9, <1>10, <1>11, Zenon DEF Calm

-----------------------------------------------------------------------------
(* A method that streams requests: the callbacks and what gRPC delivers *)

\* HandleRead: the test thread waits for the callback that it leads to.
LEMMA StreamRead ==
  ASSUME ServiceInv, CallInv, StreamInv, NEW q \in EventQueues, EventThread(q),
         EventStep(q), NEW ev, ev = Head(event_queue[q]), ev.event = "READ",
         NEW r, r = ev.rpc
  PROVE StreamInv'
<1>1. /\ driver' = driver /\ sent' = sent /\ progress' = progress
      /\ mismatch' = mismatch
      /\ handler_events' = IF relisten[q] # NoRpc THEN handler_events
                           ELSE handler_events \o Callbacks(ev)
  BY EventThreadFrame, Zenon
<1>2. call' = call /\ requests' = requests
  BY ServingFrame, Zenon DEF CallInv
<1>3. Called' = Called
  BY <1>2, Zenon DEF Called
<1>4. event_queue[q] # <<>> /\ relisten[q] = NoRpc /\ r \in Rpcs
  BY HandlerStep, Zenon
<1>5. handler[r] = "reading" /\ r \in Called
  BY <1>4, EventOfCall, Zenon
<1>6. \A s \in Called : s = r
  BY <1>5, Zenon DEF CallInv
<1>7. tag[r]["READ"] = "queued" /\ ev = event_queue[q][1] /\ 1 \in 1..Len(event_queue[q])
  BY <1>4, HeadOfQueue, ZenonT(30) DEF ServiceInv, CqEvent
<1>8. ~Quiet(r)
  BY <1>7 DEF Quiet
<1>9. handler[r] # "reads_done"
  BY <1>5
<1>10. Reading(r)
  BY <1>5, <1>9, Zenon DEF StreamInv
<1>11. /\ handler_events = <<>>
       /\ \/ driver = "ON_REQUEST" /\ requests[r] = sent /\ ReadResult(r, TRUE)
          \/ driver = "ON_READS_DONE" /\ ReadResult(r, FALSE)
  BY <1>8, <1>10, Zenon DEF Reading
<1>12. \A b : ReadResult(r, b) => ev.ok = b
  BY <1>7, Zenon DEF ReadResult, QueuedResult
<1>13. /\ handler \in [Rpcs -> {"null", "reading", "reads_done"}]
       /\ tag \in [Rpcs -> [CqEvent -> TagState]]
  BY Zenon DEF ServiceInv, TagInv, TypeOK
<1>14. CASE driver = "ON_REQUEST"
  <2>1. ev.ok = TRUE /\ requests[r] = sent
    BY <1>11, <1>12, <1>14, Zenon
  <2>2. HandleRequest(q)
    BY <2>1, Zenon DEF EventStep, RefuseConnection, AcceptConnection,
                       HandleReadsDone, HandleWrite, HandleFinishOrDone,
                       IgnoreStaleEvent, NextEventIn
  <2>3. handler' = handler /\ StartOp(r, pending[r] \ {ev.event}, TagsAfter(ev), "READ")
    BY <2>2, Zenon DEF HandleRequest
  <2>4. tag' = [tag EXCEPT ![r] = [TagsAfter(ev) EXCEPT !["READ"] = "started"]]
    BY <2>3, Zenon DEF StartOp
  <2>5. tag'[r]["READ"] = "started"
    BY <1>4, <1>13, <2>4 DEF TagsAfter, CqEvent
  <2>6. Quiet(r)'
    BY <2>5 DEF Quiet
  <2>7. handler_events' = <<>> \o <<"ON_REQUEST">>
    BY <1>1, <1>4, <1>11, <2>1, CallbacksOf, Zenon
  <2>8. handler_events' = <<"ON_REQUEST">>
    BY <2>7
  <2>9. Reading(r)'
    BY <1>1, <1>2, <1>14, <2>1, <2>6, <2>8, Zenon DEF Reading
  <2>10. ~FinishIsTold'
    <3>1. <<"ON_REQUEST">> \notin {<<"ON_FINISH">>, <<"ON_READS_DONE", "ON_FINISH">>}
      OBVIOUS
    <3>2. QED
      BY <1>1, <1>14, <2>8, <3>1, Zenon DEF FinishIsTold
  <2>11. QED
    BY <1>1, <1>3, <1>5, <1>6, <1>9, <2>3, <2>9, <2>10, Zenon DEF StreamInv
<1>15. CASE driver = "ON_READS_DONE"
  <2>1. ev.ok = FALSE
    BY <1>11, <1>12, <1>15, Zenon
  <2>2. HandleReadsDone(q)
    BY <2>1, Zenon DEF EventStep, RefuseConnection, AcceptConnection,
                       HandleRequest, HandleWrite, HandleFinishOrDone,
                       IgnoreStaleEvent, NextEventIn
  <2>3. handler' = [handler EXCEPT ![r] = "reads_done"]
    BY <2>2, Zenon DEF HandleReadsDone
  <2>4. handler'[r] = "reads_done"
    BY <1>4, <1>13, <2>3, Zenon
  <2>5. handler_events' = <<>> \o <<"ON_READS_DONE">>
    BY <1>1, <1>4, <1>11, <2>1, CallbacksOf, Zenon
  <2>6. handler_events' = <<"ON_READS_DONE">>
    BY <2>5
  <2>7. ReadsDone'
    BY <1>1, <1>15, <2>6, Zenon DEF ReadsDone
  <2>8. ~FinishIsTold'
    <3>1. <<"ON_READS_DONE">> \notin {<<"ON_FINISH">>, <<"ON_READS_DONE", "ON_FINISH">>}
      OBVIOUS
    <3>2. QED
      BY <1>1, <1>15, <2>6, <3>1, Zenon DEF FinishIsTold
  <2>9. QED
    BY <1>1, <1>3, <1>5, <1>6, <2>4, <2>7, <2>8, Zenon DEF StreamInv
<1>16. QED
  BY <1>11, <1>14, <1>15, Zenon

\* HandleFinish: OnFinish has not been called before.
LEMMA StreamFinish ==
  ASSUME ServiceInv, CallInv, StreamInv, ~early, NEW q \in EventQueues,
         EventThread(q), EventStep(q), NEW ev, ev = Head(event_queue[q]),
         ev.event = "FINISH", NEW r, r = ev.rpc
  PROVE StreamInv'
<1>1. /\ driver' = driver /\ sent' = sent /\ progress' = progress
      /\ mismatch' = mismatch /\ fault = "none"
      /\ handler_events' = IF relisten[q] # NoRpc THEN handler_events
                           ELSE handler_events \o Callbacks(ev)
  BY EventThreadFrame, Zenon
<1>2. call' = call
  BY ServingFrame, Zenon DEF CallInv
<1>3. Called' = Called
  BY <1>2, Zenon DEF Called
<1>4. event_queue[q] # <<>> /\ relisten[q] = NoRpc /\ r \in Rpcs
  BY HandlerStep, Zenon
<1>5. "FINISH" \in pending[r] /\ r \in finishing /\ r \in Called
  BY <1>4, EventOfCall, Zenon
<1>6. \A s \in Called : s = r
  BY <1>5, Zenon DEF CallInv
<1>7. handler[r] = "reads_done"
  BY <1>5, Zenon DEF CallInv
<1>8. ReadsDone /\ ~FinishIsTold
  BY <1>1, <1>5, <1>7, Zenon DEF StreamInv, Finished
<1>9. HandleFinishOrDone(q)
  BY Zenon DEF EventStep, RefuseConnection, AcceptConnection, HandleRequest,
               HandleReadsDone, HandleWrite, IgnoreStaleEvent, NextEventIn
<1>10. /\ handler' = handler /\ finishing' = finishing
       /\ pending' = [pending EXCEPT ![r] = @ \ {ev.event}]
  BY <1>9, Zenon DEF HandleFinishOrDone
<1>11. Finished(r)'
  <2>1. pending \in [Rpcs -> SUBSET CqEvent]
    BY Zenon DEF ServiceInv, TagInv, TypeOK
  <2>2. pending'[r] = pending[r] \ {"FINISH"}
    BY <1>4, <1>10, <2>1, Zenon
  <2>3. QED
    BY <1>5, <1>10, <2>2, Zenon DEF Finished
<1>12. handler_events' = handler_events \o <<"ON_FINISH">>
  BY <1>1, <1>4, CallbacksOf, Zenon
<1>13. \/ handler_events = <<"ON_READS_DONE">> /\ driver = "ON_READS_DONE"
       \/ /\ handler_events = <<>>
          /\ \/ driver = "ready" /\ progress = "writes_done"
             \/ driver \in {"StreamFinish", "ON_FINISH"}
  BY <1>8, Zenon DEF ReadsDone, FinishIsTold
<1>14. ReadsDone'
  <2>1. CASE handler_events = <<"ON_READS_DONE">> /\ driver = "ON_READS_DONE"
    <3>1. <<"ON_READS_DONE">> \o <<"ON_FINISH">> = <<"ON_READS_DONE", "ON_FINISH">>
      BY HeadsAndTails, Zenon
    <3>2. QED
      BY <1>1, <1>12, <2>1, <3>1, Zenon DEF ReadsDone
  <2>2. CASE /\ handler_events = <<>>
             /\ \/ driver = "ready" /\ progress = "writes_done"
                \/ driver \in {"StreamFinish", "ON_FINISH"}
    <3>1. handler_events' = <<"ON_FINISH">>
      BY <1>12, <2>2
    <3>2. QED
      BY <1>1, <2>2, <3>1, Zenon DEF ReadsDone
  <2>3. QED
    BY <1>13, <2>1, <2>2, Zenon
<1>15. QED
  BY <1>1, <1>3, <1>5, <1>6, <1>7, <1>10, <1>11, <1>14, Zenon DEF StreamInv

-----------------------------------------------------------------------------
(* A method that streams requests: gRPC delivers what the test has sent *)

\* A Read of the handler completes with result b.
LEMMA StreamResult ==
  ASSUME ServiceInv, CallInv, StreamInv, NEW r \in Rpcs, NEW b \in BOOLEAN,
         call[r] = "open", call' = call,
         Complete(r, "READ", IF b THEN "ok" ELSE "failed"),
         UNCHANGED fixtureVars,
         IF b THEN requests[r] < sent /\ requests' = [requests EXCEPT ![r] = @ + 1]
              ELSE /\ requests[r] = sent /\ progress # "writing"
                   /\ requests' = requests,
         handler' = handler, event_queue' = event_queue
  PROVE StreamInv'
<1>1. /\ driver' = driver /\ sent' = sent /\ progress' = progress
      /\ mismatch' = mismatch /\ handler_events' = handler_events
  BY FixtureFrame, Zenon
<1>2. /\ tag[r]["READ"] = "started"
      /\ tag' = [tag EXCEPT ![r]["READ"] = IF b THEN "ok" ELSE "failed"]
  BY Zenon DEF Complete
<1>3. Called' = Called
  BY Zenon DEF Called
<1>4. r \in Called
  BY DEF Called
<1>5. \A s \in Called : s = r
  BY <1>4, Zenon DEF CallInv
<1>6. /\ tag \in [Rpcs -> [CqEvent -> TagState]]
      /\ requests \in [Rpcs -> 0..MaxRequests]
  BY Zenon DEF ServiceInv, TagInv, TypeOK
<1>7. Quiet(r) /\ tag[r]["READ"] # "idle" /\ tag[r]["READ"] # "queued"
  BY <1>2 DEF Quiet
<1>8. handler[r] # "reads_done"
  BY <1>7, Zenon DEF ServiceInv, TagInv, ReadsDoneIsFinal
<1>9. Reading(r)
  BY <1>4, <1>8, Zenon DEF StreamInv
<1>10. tag'[r]["READ"] = IF b THEN "ok" ELSE "failed"
  BY <1>2, <1>6 DEF CqEvent
<1>11. ~Quiet(r)'
  BY <1>10 DEF Quiet
<1>12. QueuedResult(r, b)'
  <2>1. "READ" \in CqEvent
    BY DEF CqEvent
  <2>2. \A q \in EventQueues : \A i \in 1..Len(event_queue[q]) :
          ~(event_queue[q][i].rpc = r /\ event_queue[q][i].event = "READ")
    BY <1>7, <2>1, Zenon DEF ServiceInv, TagInv, QueuedTags
  <2>3. QED
    BY <2>2, Zenon DEF QueuedResult
<1>13. ReadResult(r, b)'
  <2>1. tag'[r]["READ"] # IF b THEN "failed" ELSE "ok"
    BY <1>10
  <2>2. QED
    BY <1>12, <2>1, Zenon DEF ReadResult
<1>14. CASE b = TRUE
  <2>1. requests[r] < sent /\ requests' = [requests EXCEPT ![r] = @ + 1]
    BY <1>14, Zenon
  <2>2. requests[r] # sent /\ sent \in Nat /\ requests[r] \in Nat
    BY <1>6, <2>1 DEF CallInv
  <2>3. driver = "ON_REQUEST" /\ requests[r] = sent - 1 /\ handler_events = <<>>
    BY <1>7, <1>9, <2>2, Zenon DEF Reading
  <2>4. requests'[r] = sent
    BY <1>6, <2>1, <2>2, <2>3
  <2>5. ReadResult(r, TRUE)'
    BY <1>13, <1>14, Zenon
  <2>6. Reading(r)'
    BY <1>1, <1>11, <2>3, <2>4, <2>5, Zenon DEF Reading
  <2>7. ~FinishIsTold'
    <3>1. <<>> \notin {<<"ON_FINISH">>, <<"ON_READS_DONE", "ON_FINISH">>}
      OBVIOUS
    <3>2. QED
      BY <1>1, <2>3, <3>1, Zenon DEF FinishIsTold
  <2>8. QED
    BY <1>1, <1>3, <1>4, <1>5, <1>8, <2>6, <2>7, Zenon DEF StreamInv
<1>15. CASE b = FALSE
  <2>1. requests[r] = sent /\ progress # "writing"
    BY <1>15, Zenon
  <2>2. requests[r] # sent - 1
    BY <2>1 DEF CallInv
  <2>3. driver = "ON_READS_DONE" /\ handler_events = <<>>
    BY <1>7, <1>9, <2>1, <2>2, Zenon DEF Reading, StreamInv
  <2>4. ReadResult(r, FALSE)'
    BY <1>13, <1>15, Zenon
  <2>5. Reading(r)'
    BY <1>1, <1>11, <2>3, <2>4, Zenon DEF Reading
  <2>6. ~FinishIsTold'
    <3>1. <<>> \notin {<<"ON_FINISH">>, <<"ON_READS_DONE", "ON_FINISH">>}
      OBVIOUS
    <3>2. QED
      BY <1>1, <2>3, <3>1, Zenon DEF FinishIsTold
  <2>7. QED
    BY <1>1, <1>3, <1>4, <1>5, <1>8, <2>5, <2>6, Zenon DEF StreamInv
<1>16. QED
  BY <1>14, <1>15, Zenon

LEMMA StreamDeliver ==
  ASSUME ServiceInv, CallInv, StreamInv, NEW r \in Rpcs, Deliver(r)
  PROVE StreamInv'
<1>1. UNCHANGED fixtureVars
  BY Zenon DEF Deliver
<1>2. /\ driver' = driver /\ sent' = sent /\ progress' = progress
      /\ mismatch' = mismatch /\ handler_events' = handler_events
  BY <1>1, FixtureFrame, Zenon
<1>3. IncomingCall(r) \/ ClientSends(r) \/ ClientWritesDone(r)
  BY Zenon DEF Deliver
<1>4. handler' = handler /\ event_queue' = event_queue
  BY <1>3, GrpcFrame, Zenon
<1>5. CASE (sent > 0 \/ progress # "writing") /\ IncomingCall(r)
  <2>1. /\ Called = {} /\ Called' = {r}
        /\ requests' = requests /\ requests[r] = 0
        /\ handler[r] = "null" /\ tag'[r]["READ"] = "idle"
    BY <1>5, FirstCall, Zenon
  <2>2. NoCallYet
    BY <2>1, Zenon DEF StreamInv
  <2>3. sent = 0 => progress # "writing"
    BY <1>5
  <2>4. /\ handler_events = <<>>
        /\ \/ driver = "ON_REQUEST" /\ sent = 1
           \/ driver = "ON_READS_DONE" /\ sent = 0
    BY <2>2, <2>3, Zenon DEF NoCallYet
  <2>5. Quiet(r)' /\ 1 - 1 = 0
    BY <2>1 DEF Quiet
  <2>6. Reading(r)'
    BY <1>2, <2>1, <2>4, <2>5, Zenon DEF Reading
  <2>7. ~FinishIsTold'
    <3>1. <<>> \notin {<<"ON_FINISH">>, <<"ON_READS_DONE", "ON_FINISH">>}
      OBVIOUS
    <3>2. QED
      BY <1>2, <2>4, <3>1, Zenon DEF FinishIsTold
  <2>8. handler'[r] # "reads_done" /\ r \in Called'
    BY <1>4, <2>1
  <2>9. QED
    BY <1>2, <2>1, <2>6, <2>7, <2>8, Zenon DEF StreamInv
<1>6. CASE requests[r] < sent /\ ClientSends(r)
  <2>1. /\ call[r] = "open" /\ call' = call /\ Complete(r, "READ", "ok")
        /\ requests' = [requests EXCEPT ![r] = @ + 1]
    BY <1>6, Zenon DEF ClientSends
  <2>2. QED
    BY <1>1, <1>4, <1>6, <2>1, StreamResult, Zenon
<1>7. CASE requests[r] = sent /\ progress # "writing" /\ ClientWritesDone(r)
  <2>1. /\ call[r] = "open" /\ call' = call /\ Complete(r, "READ", "failed")
        /\ requests' = requests
    BY <1>7, Zenon DEF ClientWritesDone
  <2>2. QED
    BY <1>1, <1>4, <1>7, <2>1, StreamResult, Zenon
<1>8. QED
  BY <1>5, <1>6, <1>7, Zenon DEF Deliver

-----------------------------------------------------------------------------
(* The invariant *)

LEMMA StutterOfTest ==
  ASSUME CallInv, UNCHANGED testVars
  PROVE CallInv' /\ Calm /\ (UnaryInv => UnaryInv')
<1>1. UNCHANGED vars /\ UNCHANGED fixtureVars
  BY Zenon DEF testVars
<1>2. /\ under_test' = under_test /\ driver' = driver /\ sent' = sent
      /\ progress' = progress /\ mismatch' = mismatch
      /\ handler_events' = handler_events /\ early' = early
  BY <1>1, FixtureFrame, Zenon
<1>3. /\ created' = created /\ listener' = listener /\ handler' = handler
      /\ pending' = pending /\ event_queue' = event_queue
      /\ service_shutting_down' = service_shutting_down /\ tag' = tag
      /\ call' = call /\ finishing' = finishing /\ requests' = requests
      /\ calls' = calls /\ grpc_shutdown' = grpc_shutdown
      /\ writes' = writes /\ fault' = fault
      /\ Called' = Called
  BY <1>1, OnlyServerOfVars, Zenon
<1>4. CallInv'
  BY <1>2, <1>3, Zenon DEF CallInv
<1>5. Calm
  BY <1>2, <1>3, CalmFrame, Zenon
<1>6. UnaryInv => UnaryInv'
  BY <1>2, <1>3, Zenon DEF UnaryInv
<1>7. QED
  BY <1>4, <1>5, <1>6, Zenon

LEMMA CallInvNext ==
  ASSUME ServiceInv, CallInv, [TestNext]_testVars
  PROVE CallInv'
<1>1. ~service_shutting_down /\ writes = 0
  BY Zenon DEF CallInv
<1>2. \A q \in EventQueues : ~HandleEventOfDestroyedRpc(q)
  BY <1>1, NoEventIsMissed, Zenon
<1>3. QED
  BY <1>2, TestCases, StutterOfTest, CallInvTestThread, CallInvStart, CallInvEvent,
     CallInvListenAgain, CallInvDeliver, CallInvGrpc, CallInvCompletion, Zenon

LEMMA UnaryNext ==
  ASSUME ServiceInv, CallInv, UnaryInv, ~Streaming, [TestNext]_testVars
  PROVE UnaryInv'
<1>1. ~service_shutting_down /\ writes = 0
  BY Zenon DEF CallInv
<1>2. \A q \in EventQueues : ~HandleEventOfDestroyedRpc(q)
  BY <1>1, NoEventIsMissed, Zenon
<1>3. QED
  BY <1>2, TestCases, StutterOfTest, UnaryTestThread, UnaryEvent, UnaryOthers, Zenon

LEMMA StreamNext ==
  ASSUME ServiceInv, CallInv, StreamInv, Streaming, ~early, [TestNext]_testVars
  PROVE StreamInv'
<1>1. ~service_shutting_down /\ writes = 0
  BY Zenon DEF CallInv
<1>2. \A q \in EventQueues : ~HandleEventOfDestroyedRpc(q)
  BY <1>1, NoEventIsMissed, Zenon
<1>3. ASSUME NEW q \in EventQueues, EventThread(q), EventStep(q)
      PROVE StreamInv'
  <2>1. CASE Head(event_queue[q]).event = "READ"
    BY <1>3, <2>1, StreamRead, Zenon
  <2>2. CASE Head(event_queue[q]).event = "FINISH"
    BY <1>3, <2>2, StreamFinish, Zenon
  <2>3. CASE Head(event_queue[q]).event \notin {"READ", "FINISH"}
    BY <1>3, <2>3, CalmEvent, CalmStream, Zenon
  <2>4. QED
    BY <2>1, <2>2, <2>3, Zenon
<1>4. Calm => StreamInv'
  BY CalmStream, Zenon
<1>5. QED
  BY <1>2, <1>3, <1>4, TestCases, StutterOfTest, StreamTestThread, CalmStart,
     CalmListenAgain, StreamDeliver, CalmGrpc, CalmCompletion, Zenon

\* The method under test stays the same, and a call finished too early stays so.
LEMMA FixtureStays ==
  ASSUME CallInv, [TestNext]_testVars
  PROVE under_test' = under_test /\ (early => early')
<1>1. UNCHANGED fixtureVars => under_test' = under_test /\ (early => early')
  BY FixtureFrame, Zenon
<1>2. UNCHANGED testVars => UNCHANGED fixtureVars
  BY Zenon DEF testVars
<1>3. \A q \in EventQueues :
        EventThread(q) => under_test' = under_test /\ (early => early')
  BY EventThreadFrame, Zenon
<1>4. TestThread => under_test' = under_test /\ (early => early')
  BY TestThreadIsOutside, Zenon
<1>5. QED
  BY <1>1, <1>2, <1>3, <1>4, Zenon DEF TestNext, StartServer, Grpc, Deliver

LEMMA TestInvNext ==
  ASSUME ServiceInv, TestInv, [TestNext]_testVars
  PROVE TestInv'
<1>1. CallInv /\ CallInv'
  BY CallInvNext, Zenon DEF TestInv
<1>2. under_test' = under_test /\ (early => early')
  BY <1>1, FixtureStays, Zenon
<1>3. Streaming' <=> Streaming
  BY <1>2, Zenon DEF Streaming
<1>4. (~Streaming)' => UnaryInv'
  BY <1>1, <1>3, UnaryNext, Zenon DEF TestInv
<1>5. (Streaming /\ ~early)' => StreamInv'
  BY <1>1, <1>2, <1>3, StreamNext, Zenon DEF TestInv
<1>6. QED
  BY <1>1, <1>4, <1>5, Zenon DEF TestInv

LEMMA TestInvInit == FixtureInit => TestInv
<1> SUFFICES ASSUME FixtureInit
             PROVE TestInv
  OBVIOUS
<1>1. /\ call = [r \in Rpcs |-> "none"] /\ finishing = {}
      /\ requests = [r \in Rpcs |-> 0] /\ calls = 0 /\ writes = 0
      /\ service_shutting_down = FALSE /\ grpc_shutdown = FALSE
      /\ handler = [r \in Rpcs |-> "null"]
  BY Zenon DEF FixtureInit, Init
<1>2. /\ under_test \in 1..NumMethods /\ driver = "ready" /\ sent = 0
      /\ progress = "writing" /\ handler_events = <<>> /\ mismatch = FALSE
  BY Zenon DEF FixtureInit
<1>3. Called = {} /\ \A r \in Rpcs : call[r] # "over"
  BY <1>1 DEF Called
<1>4. sent \in Nat /\ handler_events \in Seq(RpcHandlerEvent)
  BY <1>2
<1>5. /\ \A r \in Rpcs : requests[r] = 0 /\ handler[r] = "null"
      /\ \A r \in finishing : FALSE
  BY <1>1, Zenon
<1>6. CallInv
  BY <1>1, <1>2, <1>3, <1>4, <1>5, Zenon DEF CallInv
<1>7. UnaryInv
  BY <1>2, <1>3, <1>5, Zenon DEF UnaryInv
<1>8. NoCallYet
  BY <1>2, Zenon DEF NoCallYet
<1>9. StreamInv
  BY <1>2, <1>3, <1>8, Zenon DEF StreamInv
<1>10. QED
  BY <1>6, <1>7, <1>9, Zenon DEF TestInv

\* The one call of a test is always where TestInv says, for every number of
\* requests, of methods and of threads of the server.
THEOREM TestInvariant == TestSpec => []TestInv
<1>1. TestSpec => []ServiceInv
  BY FixtureRunsTheService, TagInvariant, LifeInvariant, RemovalInvariant, PTL
     DEF ServiceInv
<1>2. ServiceInv /\ TestInv /\ [TestNext]_testVars => TestInv'
  BY TestInvNext, Zenon
<1>3. QED
  BY <1>1, <1>2, TestInvInit, PTL DEF TestSpec

\* WaitForHandlerCompletion pops the event that the test waits for, so that its
\* CHECK_EQ holds, unless the handler has finished a call that was being read.
THEOREM WaitsAreMatched == TestSpec => []EventsComeInOrder
<1>1. TestInv => EventsComeInOrder
  BY Zenon DEF TestInv, UnaryInv, StreamInv, EventsComeInOrder
<1>2. QED
  BY <1>1, TestInvariant, PTL

\* Between two calls of Send... the wrapper's queue is empty, but for OnFinish.
InStep ==
  (Streaming /\ ~early /\ driver = "ready")
    => handler_events \in IF progress = "writes_done" THEN {<<>>, <<"ON_FINISH">>}
                          ELSE {<<>>}

LEMMA ReadyMeansInStep == TestInv => InStep
<1> SUFFICES ASSUME TestInv, Streaming, ~early, driver = "ready"
             PROVE handler_events \in IF progress = "writes_done"
                                      THEN {<<>>, <<"ON_FINISH">>} ELSE {<<>>}
  BY Zenon DEF InStep
<1>1. StreamInv
  BY Zenon DEF TestInv
<1>2. CASE Called = {}
  <2>1. NoCallYet
    BY <1>1, <1>2, Zenon DEF StreamInv
  <2>2. QED
    BY <2>1, Zenon DEF NoCallYet
<1>3. ASSUME NEW r \in Called
      PROVE handler_events \in IF progress = "writes_done"
                               THEN {<<>>, <<"ON_FINISH">>} ELSE {<<>>}
  <2>1. CASE handler[r] # "reads_done"
    <3>1. Reading(r)
      BY <1>1, <1>3, <2>1, Zenon DEF StreamInv
    <3>2. QED
      BY <3>1, Zenon DEF Reading
  <2>2. CASE handler[r] = "reads_done"
    <3>1. ReadsDone
      BY <1>1, <1>3, <2>2, Zenon DEF StreamInv
    <3>2. QED
      BY <3>1, Zenon DEF ReadsDone
  <2>3. QED
    BY <2>1, <2>2, Zenon
<1>4. QED
  BY <1>2, <1>3, Zenon

\* A step of the test thread begins or ends a call of Send...
LEMMA ReadyStep ==
  ASSUME CallInv, [TestNext]_testVars, driver = "ready", driver' = "ready"
  PROVE progress' = progress
<1>1. ~TestThread
  <2>1. SUFFICES ASSUME TestThread
                 PROVE FALSE
    OBVIOUS
  <2>2. driver # "ready" \/ driver' # "ready"
    BY <2>1 DEF TestThread, SendWrite, SendWritesDone, SendFinish, ClientReturns,
                WaitForHandlerCompletion, Driver, RpcHandlerEvent
  <2>3. QED
    BY <2>2, Zenon
<1>2. UNCHANGED fixtureVars => progress' = progress
  BY FixtureFrame, Zenon
<1>3. UNCHANGED testVars => UNCHANGED fixtureVars
  BY Zenon DEF testVars
<1>4. \A q \in EventQueues : EventThread(q) => progress' = progress
  BY EventThreadFrame, Zenon
<1>5. QED
  BY <1>1, <1>2, <1>3, <1>4, Zenon DEF TestNext, StartServer, Grpc, Deliver

\* When SendWrite, SendWritesDone or SendFinish has returned, no callback of a
\* streaming method is invoked until the next one, OnFinish excepted.
THEOREM HandlerStaysInStep == TestSpec => HandlerIsInStep
<1>1. ASSUME TestInv, InStep', [TestNext]_testVars,
             Streaming, ~early', driver = "ready", driver' = "ready"
      PROVE handler_events' \in IF progress = "writes_done"
                                THEN {<<>>, <<"ON_FINISH">>} ELSE {<<>>}
  <2>1. under_test' = under_test /\ progress' = progress
    BY <1>1, FixtureStays, ReadyStep, Zenon DEF TestInv
  <2>2. Streaming'
    BY <1>1, <2>1, Zenon DEF Streaming
  <2>3. QED
    BY <1>1, <2>1, <2>2, Zenon DEF InStep
<1>2. TestInv /\ InStep' /\ [TestNext]_testVars
        => [(Streaming /\ ~early' /\ driver = "ready" /\ driver' = "ready")
              => handler_events' \in IF progress = "writes_done"
                                     THEN {<<>>, <<"ON_FINISH">>}
                                     ELSE {<<>>}]_testVars
  BY <1>1, Zenon
<1>3. QED
  BY <1>2, TestInvariant, ReadyMeansInStep, PTL DEF TestSpec, HandlerIsInStep

=============================================================================
