----------------------------- MODULE TestServer -----------------------------
(***************************************************************************)
(* RpcHandlerTestServer: a server with the handler under test in a         *)
(* RpcHandlerWrapper, a synchronous Client, and the queue through which    *)
(* the wrapper tells the test that a callback has returned.  The test      *)
(* thread calls SendWrite, SendWritesDone and SendFinish in the order of a *)
(* call's lifetime; a unary method takes one SendWrite.  Methods that      *)
(* respond with a stream are left out.                                     *)
(*                                                                         *)
(* The server is RpcService, with one completion queue and one event queue *)
(* as the fixture's Options have it.  Of its methods only the one under    *)
(* test is called; the others stand for other instances of the fixture.    *)
(***************************************************************************)
EXTENDS RpcService

VARIABLES
  under_test,      \* the method that the fixture is instantiated for
  driver,          \* what the test thread does: nothing ("ready"), a call of the
                   \* Client ("Write", "StreamFinish"), or
                   \* WaitForHandlerCompletion for an event
  sent,            \* calls of SendWrite
  progress,        \* how far the test is: writing, writes_done or finished
  handler_events,  \* rpc_handler_event_queue_
  mismatch,        \* the CHECK_EQ of WaitForHandlerCompletion has failed
  early            \* the handler has finished a call that was still being read

\* One call of the method under test.
ASSUME FixtureAssumption ==
  /\ MaxCalls = 1
  /\ \A m \in 1..NumMethods : MethodType[m] \in {"NORMAL_RPC", "CLIENT_STREAMING"}

driverVars == <<under_test, driver, sent, progress, mismatch>>
fixtureVars == <<driverVars, handler_events, early>>
testVars == <<vars, fixtureVars>>

RpcHandlerEvent == {"ON_REQUEST", "ON_READS_DONE", "ON_FINISH"}

FixtureInit ==
  /\ Init
  /\ under_test \in 1..NumMethods
  /\ driver = "ready"
  /\ sent = 0
  /\ progress = "writing"
  /\ handler_events = <<>>
  /\ mismatch = FALSE
  /\ early = FALSE

Streaming == MethodType[under_test] = "CLIENT_STREAMING"

-----------------------------------------------------------------------------
(* The test thread *)

Driver(from, to) ==
  /\ created > 0
  /\ ~mismatch
  /\ driver = from
  /\ driver' = to
  /\ UNCHANGED <<vars, under_test, early>>

\* Write returns at once on a stream.
SendWrite ==
  /\ progress = "writing"
  /\ sent < IF Streaming THEN MaxRequests ELSE 1
  /\ sent' = sent + 1
  /\ Driver("ready", IF Streaming THEN "ON_REQUEST" ELSE "Write")
  /\ UNCHANGED <<progress, handler_events, mismatch>>

SendWritesDone ==
  /\ Streaming
  /\ progress = "writing"
  /\ progress' = "writes_done"
  /\ Driver("ready", "ON_READS_DONE")
  /\ UNCHANGED <<sent, handler_events, mismatch>>

\* Mutant: SendFinish does not wait for the handler.
SendFinishOnly ==
  /\ progress = "writes_done"
  /\ progress' = "finished"
  /\ Driver("ready", "ready")
  /\ UNCHANGED <<sent, handler_events, mismatch>>

SendFinish ==
  /\ progress = "writes_done"
  /\ progress' = "finished"
  /\ Driver("ready", "StreamFinish")
  /\ UNCHANGED <<sent, handler_events, mismatch>>

\* A blocking operation of the Client returns: the call is over.
ClientReturns ==
  /\ \E r \in Rpcs : call[r] = "over"
  /\ \/ Driver("Write", "ON_REQUEST")
     \/ Driver("StreamFinish", "ON_FINISH")
  /\ UNCHANGED <<sent, progress, handler_events, mismatch>>

WaitForHandlerCompletion ==
  /\ handler_events # <<>>
  /\ handler_events' = Tail(handler_events)
  /\ \E event \in RpcHandlerEvent : /\ Driver(event, "ready")
                                    /\ mismatch' = (event # Head(handler_events))
  /\ UNCHANGED <<sent, progress>>

-----------------------------------------------------------------------------
(* The server with the wrapper *)

\* Mutant: OnFinish is not overridden.
CallbacksWithoutFinish(ev) ==
  CASE ev.event = "NEW_CONNECTION" ->
         IF StreamsRequests(ev.rpc) THEN <<>> ELSE <<"ON_REQUEST", "ON_READS_DONE">>
    [] ev.event = "READ" -> IF ev.ok THEN <<"ON_REQUEST">> ELSE <<"ON_READS_DONE">>
    [] OTHER -> <<>>

\* Mutant: OnReadsDone tells the test twice.
CallbacksTwice(ev) ==
  CASE ev.event = "NEW_CONNECTION" ->
         IF StreamsRequests(ev.rpc) THEN <<>> ELSE <<"ON_REQUEST", "ON_READS_DONE">>
    [] ev.event = "READ" ->
         IF ev.ok THEN <<"ON_REQUEST">> ELSE <<"ON_READS_DONE", "ON_READS_DONE">>
    [] ev.event = "FINISH" -> <<"ON_FINISH">>
    [] OTHER -> <<>>

\* The callbacks of the wrapper that an event leads to.
Callbacks(ev) ==
  CASE ev.event = "NEW_CONNECTION" ->
         IF StreamsRequests(ev.rpc) THEN <<>> ELSE <<"ON_REQUEST", "ON_READS_DONE">>
    [] ev.event = "READ" -> IF ev.ok THEN <<"ON_REQUEST">> ELSE <<"ON_READS_DONE">>
    [] ev.event = "FINISH" -> <<"ON_FINISH">>
    [] OTHER -> <<>>

EventThread(q) ==
  /\ RunEventQueue(q)
  /\ handler_events' =
       IF relisten[q] # NoRpc THEN handler_events
       ELSE handler_events \o Callbacks(Head(event_queue[q]))
  /\ early' = (early \/ \E r \in finishing' \ finishing : handler[r] = "reading")
  /\ UNCHANGED driverVars

StartServer == StartServing /\ UNCHANGED fixtureVars

Grpc(r) == GrpcStep(r) /\ UNCHANGED fixtureVars

\* gRPC delivers what the Client has sent.
Deliver(r) ==
  /\ \/ /\ MethodOf(listener[r]) = under_test
        /\ sent > 0 \/ progress # "writing"
        /\ IncomingCall(r)
     \/ requests[r] < sent /\ ClientSends(r)
     \/ requests[r] = sent /\ progress # "writing" /\ ClientWritesDone(r)
  /\ UNCHANGED fixtureVars

TestThread ==
  \/ SendWrite
  \/ SendWritesDone
  \/ SendFinish
  \/ ClientReturns
  \/ WaitForHandlerCompletion

TestNext ==
  \/ StartServer
  \/ TestThread
  \/ \E q \in EventQueues : EventThread(q)
  \/ \E r \in Rpcs : Grpc(r) \/ Deliver(r)

\* The server's threads, gRPC and a test thread that waits go on.
TestFairness ==
  /\ WF_testVars(StartServer)
  /\ WF_testVars(ClientReturns)
  /\ WF_testVars(WaitForHandlerCompletion)
  /\ \A q \in EventQueues : WF_testVars(EventThread(q))
  /\ \A r \in Rpcs : WF_testVars(Grpc(r)) /\ WF_testVars(Deliver(r))

TestSpec == FixtureInit /\ [][TestNext]_testVars /\ TestFairness

-----------------------------------------------------------------------------
(* Properties *)

\* The test thread pops the event that it waits for, unless the handler finishes
\* the call before it has read all requests: then ON_FINISH or ON_READS_DONE may
\* be in the place of another event, and the CHECK_EQ fails.
EventsComeInOrder == mismatch => early

\* "When these methods return, all invocations on the RpcHandler side are
\* guaranteed to have completed" (README): while the test thread is between two
\* calls of Send..., and after the last one, no callback of a streaming method is
\* invoked and none is left in the queue.  The exception is OnFinish, which need
\* not wait for SendFinish.  It is not so for a unary method: SendWrite returns
\* when OnRequest has, and OnReadsDone and OnFinish follow.
HandlerIsInStep ==
  [][(Streaming /\ ~early' /\ driver = "ready" /\ driver' = "ready")
       => handler_events' \in IF progress = "writes_done"
                              THEN {<<>>, <<"ON_FINISH">>}
                              ELSE {<<>>}]_testVars

\* SendWrite, SendWritesDone and SendFinish return, unless the handler finishes
\* the call too early.  It takes a handler that does finish the call, as those of
\* the run always do, the unary one in OnRequest and the streaming one at the
\* latest in OnReadsDone: SendFinish and a unary SendWrite wait for the status,
\* and a handler that never finishes keeps them waiting.
SendsReturn == driver # "ready" ~> driver = "ready" \/ early
=============================================================================
