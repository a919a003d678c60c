----------------------------- MODULE RpcServer ------------------------------
(***************************************************************************)
(* Server (server.cc) with its event queue threads and completion queue    *)
(* threads: Start, Shutdown and destruction.  It runs the handlers of      *)
(* RpcService on threads that start and end.                               *)
(***************************************************************************)
EXTENDS RpcService

VARIABLES
  shutting_down,  \* Server::shutting_down_
  shutdown_pc,    \* what the thread that calls Server::Shutdown has done: none,
                  \* flag_set, services_stopped, grpc_shutting_down,
                  \* grpc_shut_down, done or destroyed
  event_thread,   \* the EventQueueThreads: new, serving, draining or exited
  cq_thread       \* the CompletionQueueThreads: new, running, shut_down or exited

serverVars == <<shutting_down, shutdown_pc, event_thread, cq_thread>>
allVars == <<vars, serverVars>>

ServerInit ==
  /\ Init
  /\ shutting_down = FALSE
  /\ shutdown_pc = "none"
  /\ event_thread = [q \in EventQueues |-> "new"]
  /\ cq_thread = [c \in Cqs |-> "new"]

-----------------------------------------------------------------------------
(* Start *)

Start ==
  /\ StartServing
  /\ event_thread' = [q \in EventQueues |-> "serving"]
  /\ cq_thread' = [c \in Cqs |-> "running"]
  /\ UNCHANGED <<shutting_down, shutdown_pc>>

-----------------------------------------------------------------------------
(* RunEventQueue: handle events until shutting_down_ is seen, then until a *)
(* PopWithTimeout finds nothing.                                           *)

EventThreadHandles(q) ==
  /\ event_thread[q] \in {"serving", "draining"}
  /\ RunEventQueue(q)
  /\ UNCHANGED serverVars

EventThreadSeesShutdown(q) ==
  /\ fault = "none"
  /\ event_thread[q] = "serving"
  /\ relisten[q] = NoRpc
  /\ shutting_down
  /\ event_thread' = [event_thread EXCEPT ![q] = "draining"]
  /\ UNCHANGED <<vars, shutting_down, shutdown_pc, cq_thread>>

EventThreadTimesOut(q) ==
  /\ fault = "none"
  /\ event_thread[q] = "draining"
  /\ relisten[q] = NoRpc
  /\ event_queue[q] = <<>>
  /\ event_thread' = [event_thread EXCEPT ![q] = "exited"]
  /\ UNCHANGED <<vars, shutting_down, shutdown_pc, cq_thread>>

CqThreadAdvances(r, e) ==
  /\ cq_thread[CqOfRpc(r)] \in {"running", "shut_down"}
  /\ RunCompletionQueue(r, e)
  /\ UNCHANGED serverVars

\* Next returns false: the queue is shut down and has returned its last tag.
CqThreadExits(c) ==
  /\ cq_thread[c] = "shut_down"
  /\ CqDrained(c)
  /\ cq_thread' = [cq_thread EXCEPT ![c] = "exited"]
  /\ UNCHANGED <<shutting_down, shutdown_pc, event_thread>>

-----------------------------------------------------------------------------
(* Shutdown *)

ShutdownAt(from, to) ==
  /\ fault = "none"
  /\ shutdown_pc = from
  /\ shutdown_pc' = to

\* Mutant: the flag is not set.
ForgetShuttingDown ==
  /\ created > 0
  /\ ShutdownAt("none", "flag_set")
  /\ UNCHANGED <<vars, shutting_down, event_thread, cq_thread>>

SetShuttingDown ==
  /\ created > 0
  /\ ShutdownAt("none", "flag_set")
  /\ shutting_down' = TRUE
  /\ UNCHANGED <<vars, event_thread, cq_thread>>

StopServices ==
  /\ ShutdownAt("flag_set", "services_stopped")
  /\ StopServing
  /\ UNCHANGED <<shutting_down, event_thread, cq_thread>>

\* Mutant: gRPC is shut down before the services are stopped.
CallGrpcShutdownFirst ==
  /\ ShutdownAt("flag_set", "grpc_shutting_down")
  /\ GrpcShutdown
  /\ UNCHANGED <<shutting_down, event_thread, cq_thread>>

CallGrpcShutdown ==
  /\ ShutdownAt("services_stopped", "grpc_shutting_down")
  /\ GrpcShutdown
  /\ UNCHANGED <<shutting_down, event_thread, cq_thread>>

\* grpc::Server::Shutdown() without a deadline returns when every call is over.
GrpcShutdownReturns ==
  /\ ShutdownAt("grpc_shutting_down", "grpc_shut_down")
  /\ \A r \in Rpcs : call[r] # "open"
  /\ UNCHANGED <<vars, shutting_down, event_thread, cq_thread>>

\* CompletionQueueThread::Shutdown, for one queue after the other: the queue is
\* shut down, and its thread joined before the next one is.
ShutDownCq(c) ==
  /\ fault = "none"
  /\ shutdown_pc = "grpc_shut_down"
  /\ cq_thread[c] = "running"
  /\ \A d \in 1..(c - 1) : cq_thread[d] = "exited"
  /\ cq_thread' = [cq_thread EXCEPT ![c] = "shut_down"]
  /\ UNCHANGED <<vars, shutting_down, shutdown_pc, event_thread>>

\* EventQueueThread::Shutdown for all event queues.
JoinEventThreads ==
  /\ \A c \in Cqs : cq_thread[c] = "exited"
  /\ \A q \in EventQueues : event_thread[q] = "exited"
  /\ ShutdownAt("grpc_shut_down", "done")
  /\ UNCHANGED <<vars, shutting_down, event_thread, cq_thread>>

DestroyServer ==
  /\ ShutdownAt("done", "destroyed")
  /\ DestroyService
  /\ UNCHANGED <<shutting_down, event_thread, cq_thread>>

-----------------------------------------------------------------------------

ShutdownThread ==
  \/ StopServices
  \/ CallGrpcShutdown
  \/ GrpcShutdownReturns
  \/ \E c \in Cqs : ShutDownCq(c)
  \/ JoinEventThreads

Environment ==
  /\ \/ \E w \in Writers : WriterStep(w)
     \/ \E r \in Rpcs : \/ ClientStep(r)
                        \/ RequestFails(r)
                        \/ ReadFails(r)
                        \/ WriteCompletes(r)
                        \/ FinishCompletes(r)
                        \/ CallIsDone(r)
  /\ UNCHANGED serverVars

\* Everything but the timeout of a PopWithTimeout.
ServerStep ==
  \/ Start
  \/ \E q \in EventQueues : EventThreadHandles(q) \/ EventThreadSeesShutdown(q)
  \/ \E r \in Rpcs, e \in CqEvent : CqThreadAdvances(r, e)
  \/ \E c \in Cqs : CqThreadExits(c)
  \/ SetShuttingDown
  \/ ShutdownThread
  \/ DestroyServer
  \/ Environment

ServerNext == ServerStep \/ \E q \in EventQueues : EventThreadTimesOut(q)

ServerSpec == ServerInit /\ [][ServerNext]_allVars

\* An event is queued, or may still be.
EventExpected ==
  \/ \E q \in EventQueues : event_queue[q] # <<>> \/ relisten[q] # NoRpc
  \/ \E r \in 1..created, e \in CqEvent : Expected(r, e)

\* Timing assumption: kPopEventTimeout is longer than any pause between two
\* events during shutdown, so that no event thread times out too early.
PatientTimeout(q) == ~EventExpected /\ EventThreadTimesOut(q)

PatientServerNext == ServerStep \/ \E q \in EventQueues : PatientTimeout(q)

PatientServerSpec == ServerInit /\ [][PatientServerNext]_allVars

\* The library's threads and gRPC keep running.
ServerFairness ==
  /\ WF_allVars(Start)
  /\ \A q \in EventQueues : /\ WF_allVars(EventThreadHandles(q))
                            /\ WF_allVars(EventThreadSeesShutdown(q))
                            /\ WF_allVars(PatientTimeout(q))
  /\ \A r \in Rpcs, e \in CqEvent : WF_allVars(CqThreadAdvances(r, e))
  /\ \A c \in Cqs : WF_allVars(CqThreadExits(c))
  /\ WF_allVars(ShutdownThread)
  /\ \A r \in Rpcs :
       /\ WF_allVars(RequestFails(r) /\ UNCHANGED serverVars)
       /\ WF_allVars(ReadFails(r) /\ UNCHANGED serverVars)
       /\ WF_allVars(WriteCompletes(r) /\ UNCHANGED serverVars)
       /\ WF_allVars(FinishCompletes(r) /\ UNCHANGED serverVars)
       /\ WF_allVars(CallIsDone(r) /\ UNCHANGED serverVars)

\* Every client ends its call at some time.
ClientsEndCalls ==
  \A r \in Rpcs : WF_allVars(ClientCancels(r) /\ UNCHANGED serverVars)

FairServerSpec == PatientServerSpec /\ ServerFairness
FairServerAndClientsSpec == FairServerSpec /\ ClientsEndCalls

-----------------------------------------------------------------------------
(* Properties *)

\* The server uses the service as RpcService assumes: it stops the service
\* before it shuts gRPC down, and destroys it after its completion queues.
ServerImplementsService == Spec

\* When Shutdown has returned all Rpcs have been removed, so that ~ActiveRpcs
\* finds none.
NoRpcOutlivesShutdown ==
  (fault = "none" /\ shutdown_pc \in {"done", "destroyed"}) => active = {}

\* A server that is not being shut down never fails a CHECK, misuses gRPC or uses
\* a destroyed Rpc, however its threads interleave.  During shutdown it may: by
\* refusing a connection, and by handling the rest of the events, which may start
\* operations on completion queues that have been drained (RunEventQueue).
FaultsOnlyInShutdown == fault # "none" => service_shutting_down

\* Shutdown, once called, returns.
ShutdownReturns ==
  (shutdown_pc = "flag_set") ~> (shutdown_pc = "done" \/ fault # "none")
=============================================================================
