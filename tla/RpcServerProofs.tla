--------------------------- MODULE RpcServerProofs --------------------------
(***************************************************************************)
(* RpcServer: the server starts, stops and destroys its service as         *)
(* RpcService says, and shuts down without leaving an Rpc behind.          *)
(***************************************************************************)
EXTENDS RpcServer, RpcFaultProofs

\* The types of the server's own variables.
ServerTypeOK ==
  /\ shutting_down \in BOOLEAN
  /\ shutdown_pc \in {"none", "flag_set", "services_stopped",
                      "grpc_shutting_down", "grpc_shut_down", "done",
                      "destroyed"}
  /\ event_thread \in
       [EventQueues -> {"new", "serving", "draining", "exited"}]
  /\ cq_thread \in [Cqs -> {"new", "running", "shut_down", "exited"}]

\* How far Shutdown is, and what it has done to the service and the threads.
ServerInv ==
  /\ ServerTypeOK
  /\ created = 0 => shutdown_pc = "none"
  /\ shutdown_pc \notin {"none", "flag_set"} => service_shutting_down
  /\ \A q \in EventQueues : event_thread[q] # "new" => created > 0
  /\ \A c \in Cqs : cq_thread[c] = "exited" => c \in cq_drained
  /\ shutdown_pc \in {"done", "destroyed"} =>
       /\ \A q \in EventQueues : event_thread[q] = "exited"
       /\ \A c \in Cqs : cq_thread[c] = "exited"

\* Once an event thread has timed out, all Rpcs are gone and nothing more comes.
Quiet ==
  (\E q \in EventQueues : event_thread[q] = "exited")
    => active = {} /\ ~EventExpected

-----------------------------------------------------------------------------
(* The steps of the server are steps of its service *)

LEMMA ServerStepsAreServiceSteps ==
  ASSUME TypeOK, ServerInv, [ServerNext]_allVars
  PROVE [Next]_vars
<1>1. CASE UNCHANGED allVars
  BY <1>1, Zenon DEF allVars
<1>2. CASE Start
  BY <1>2, Zenon DEF Start, Next, Serve
<1>3. CASE \E q \in EventQueues : EventThreadHandles(q)
  BY <1>3, Zenon DEF EventThreadHandles, Next, Serve
<1>4. CASE \E q \in EventQueues : \/ EventThreadSeesShutdown(q)
                                  \/ EventThreadTimesOut(q)
  BY <1>4, Zenon DEF EventThreadSeesShutdown, EventThreadTimesOut
<1>5. CASE \E r \in Rpcs, e \in CqEvent : CqThreadAdvances(r, e)
  BY <1>5, Zenon DEF CqThreadAdvances, Next, Serve, GrpcStep
<1>6. CASE \E c \in Cqs : CqThreadExits(c)
  BY <1>6, Zenon DEF CqThreadExits, Next, Stop
<1>7. CASE SetShuttingDown
  BY <1>7, Zenon DEF SetShuttingDown
<1>8. CASE ShutdownThread
  <2>1. CASE StopServices
    <3>1. StopServing /\ shutdown_pc = "flag_set"
      BY <2>1, Zenon DEF StopServices, ShutdownAt
    <3>2. created # 0
      BY <3>1 DEF ServerInv
    <3>3. created > 0
      BY <3>2, Sizes DEF TypeOK
    <3>4. QED
      BY <3>1, <3>3, Zenon DEF Next, Stop
  <2>2. CASE CallGrpcShutdown
    <3>1. GrpcShutdown /\ shutdown_pc = "services_stopped"
      BY <2>2, Zenon DEF CallGrpcShutdown, ShutdownAt
    <3>2. service_shutting_down
      BY <3>1 DEF ServerInv
    <3>3. QED
      BY <3>1, <3>2, Zenon DEF Next, Stop
  <2>3. CASE \/ GrpcShutdownReturns \/ JoinEventThreads
             \/ \E c \in Cqs : ShutDownCq(c)
    BY <2>3, Zenon DEF GrpcShutdownReturns, JoinEventThreads, ShutDownCq
  <2>4. QED
    BY <1>8, <2>1, <2>2, <2>3, Zenon DEF ShutdownThread
<1>9. CASE DestroyServer
  <2>1. DestroyService /\ shutdown_pc = "done"
    BY <1>9, Zenon DEF DestroyServer, ShutdownAt
  <2>2. \A c \in Cqs : c \in cq_drained
    BY <2>1 DEF ServerInv
  <2>3. cq_drained = Cqs
    BY <2>2, Zenon DEF TypeOK
  <2>4. QED
    BY <2>1, <2>3, Zenon DEF Next, Stop
<1>10. CASE Environment
  BY <1>10, Zenon DEF Environment, Next, Serve, GrpcStep
<1>11. QED
  BY <1>1, <1>2, <1>3, <1>4, <1>5, <1>6, <1>7, <1>8, <1>9, <1>10, Zenon
     DEF ServerNext, ServerStep

LEMMA ServerInvInit ==
  ASSUME ServerInit
  PROVE ServerInv
BY Zenon DEF ServerInit, Init, ServerInv, ServerTypeOK

\* What no step takes back.
GoesOn ==
  /\ created > 0 => created' > 0
  /\ created' = 0 => created = 0
  /\ service_shutting_down => service_shutting_down'
  /\ cq_drained \subseteq cq_drained'

LEMMA ServiceGoesOn ==
  ASSUME TypeOK, [Next]_vars
  PROVE GoesOn
<1>0. created \in Nat
  BY Sizes DEF TypeOK
<1>1. ASSUME created' = created, cq_drained' = cq_drained,
             service_shutting_down' = service_shutting_down
      PROVE GoesOn
  BY <1>1 DEF GoesOn
<1>2. ASSUME NEW q \in EventQueues, EventStep(q) PROVE GoesOn
  <2>1. EventEffects(q) /\ RunEventQueue(q)
    BY <1>2, EventIsHandled, Zenon DEF EventStep, RunEventQueue
  <2>2. created' = created
    BY <2>1, Zenon DEF EventEffects
  <2>3. QED
    BY <1>1, <2>1, <2>2, EventFrame, Zenon
<1>3. ASSUME NEW q \in EventQueues, ListenAgain(q) PROVE GoesOn
  <2>1. /\ created' = created + 1 /\ cq_drained' = cq_drained
        /\ service_shutting_down' = service_shutting_down
    BY <1>3, Zenon DEF ListenAgain
  <2>2. QED
    BY <1>0, <2>1 DEF GoesOn
<1>4. ASSUME NEW q \in EventQueues, HandleEventOfDestroyedRpc(q)
      PROVE GoesOn
  BY <1>1, <1>4, Zenon DEF HandleEventOfDestroyedRpc, rpcVars, grpcVars
<1>5. ASSUME Stop PROVE GoesOn
  <2>1. /\ created' = created
        /\ service_shutting_down => service_shutting_down'
    BY <1>5, StopFrame, Zenon
  <2>2. cq_drained \subseteq cq_drained'
    BY <1>5, Zenon DEF Stop, StopServing, GrpcShutdown, CqDrained,
       DestroyService, grpcVars
  <2>3. QED
    BY <2>1, <2>2, Zenon DEF GoesOn
<1>6. ASSUME StartServing PROVE GoesOn
  <2>1. /\ created' = NumListeners /\ created = 0 /\ cq_drained' = cq_drained
        /\ service_shutting_down' = service_shutting_down
    BY <1>6, Zenon DEF StartServing
  <2>2. QED
    BY <2>1 DEF GoesOn
<1>7. ASSUME UNCHANGED vars PROVE GoesOn
  BY <1>1, <1>7, Zenon DEF vars, rpcVars, grpcVars
<1>8. /\ \A w \in Writers : WriterStep(w) => GoesOn
      /\ \A r \in Rpcs : \A e \in CqEvent :
           RunCompletionQueue(r, e) => GoesOn
      /\ \A r \in Rpcs :
           (\/ IncomingCall(r) \/ RequestFails(r) \/ ClientSends(r)
            \/ ClientWritesDone(r) \/ ReadFails(r) \/ WriteCompletes(r)
            \/ FinishCompletes(r) \/ CallIsDone(r) \/ ClientCancels(r))
             => GoesOn
  BY <1>1, GrpcFrame, CompletionFrame, WriterFrame, Zenon
<1>9. QED
  BY <1>2, <1>3, <1>4, <1>5, <1>6, <1>7, <1>8, NextCases, Zenon

LEMMA ServerInvNext ==
  ASSUME TypeOK, ServerInv, [ServerNext]_allVars
  PROVE ServerInv'
<1>1. /\ created > 0 => created' > 0
      /\ created' = 0 => created = 0
      /\ service_shutting_down => service_shutting_down'
      /\ cq_drained \subseteq cq_drained'
  BY ServerStepsAreServiceSteps, ServiceGoesOn, Zenon DEF GoesOn
<1>2. /\ event_thread \in
           [EventQueues -> {"new", "serving", "draining", "exited"}]
      /\ cq_thread \in [Cqs -> {"new", "running", "shut_down", "exited"}]
  BY Zenon DEF ServerInv, ServerTypeOK
<1>3. CASE UNCHANGED serverVars
  <2>1. /\ shutting_down' = shutting_down /\ shutdown_pc' = shutdown_pc
        /\ event_thread' = event_thread /\ cq_thread' = cq_thread
    BY <1>3, Zenon DEF serverVars
  <2>2. ServerTypeOK'
    BY <2>1 DEF ServerInv, ServerTypeOK
  <2>3. QED
    BY <1>1, <2>1, <2>2, Zenon DEF ServerInv
<1>4. CASE Start
  <2>1. /\ event_thread' = [q \in EventQueues |-> "serving"]
        /\ cq_thread' = [c \in Cqs |-> "running"]
        /\ shutting_down' = shutting_down /\ shutdown_pc' = shutdown_pc
        /\ created = 0 /\ created' = NumListeners
    BY <1>4, Zenon DEF Start, StartServing
  <2>2. shutdown_pc = "none" /\ created' > 0
    BY <2>1, Sizes DEF ServerInv
  <2>3. ServerTypeOK'
    BY <2>1 DEF ServerInv, ServerTypeOK
  <2>4. QED
    BY <2>1, <2>2, <2>3 DEF ServerInv
<1>5. CASE \E q \in EventQueues : \/ EventThreadSeesShutdown(q)
                                  \/ EventThreadTimesOut(q)
  <2>1. PICK q \in EventQueues : \/ EventThreadSeesShutdown(q)
                                 \/ EventThreadTimesOut(q)
    BY <1>5, Zenon
  <2>2. /\ event_thread[q] \in {"serving", "draining"}
        /\ \/ event_thread' = [event_thread EXCEPT ![q] = "draining"]
           \/ event_thread' = [event_thread EXCEPT ![q] = "exited"]
        /\ shutting_down' = shutting_down /\ shutdown_pc' = shutdown_pc
        /\ cq_thread' = cq_thread
    BY <2>1, Zenon DEF EventThreadSeesShutdown, EventThreadTimesOut
  <2>3. ServerTypeOK'
    BY <2>2 DEF ServerInv, ServerTypeOK
  <2>4. event_thread[q] # "exited" /\ event_thread[q] # "new"
    BY <2>2
  <2>5. shutdown_pc \notin {"done", "destroyed"}
    BY <2>4, Zenon DEF ServerInv
  <2>6. \A q2 \in EventQueues : q2 # q => event_thread'[q2] = event_thread[q2]
    BY <1>2, <2>2, Zenon
  <2>7. \A q2 \in EventQueues : event_thread'[q2] # "new" => created' > 0
    BY <1>1, <2>4, <2>6, Zenon DEF ServerInv
  <2>8. QED
    BY <1>1, <2>2, <2>3, <2>5, <2>7, Zenon DEF ServerInv
<1>6. CASE \E c \in Cqs : CqThreadExits(c) \/ ShutDownCq(c)
  <2>1. PICK c \in Cqs : CqThreadExits(c) \/ ShutDownCq(c)
    BY <1>6, Zenon
  <2>2. /\ cq_thread[c] # "exited"
        /\ \/ /\ cq_thread' = [cq_thread EXCEPT ![c] = "exited"]
              /\ c \in cq_drained'
           \/ cq_thread' = [cq_thread EXCEPT ![c] = "shut_down"]
        /\ shutting_down' = shutting_down /\ shutdown_pc' = shutdown_pc
        /\ event_thread' = event_thread
    BY <2>1 DEF CqThreadExits, ShutDownCq, CqDrained
  <2>3. ServerTypeOK'
    BY <2>2 DEF ServerInv, ServerTypeOK
  <2>4. shutdown_pc \notin {"done", "destroyed"}
    BY <2>2, Zenon DEF ServerInv
  <2>5. \A d \in Cqs : d # c => cq_thread'[d] = cq_thread[d]
    BY <1>2, <2>2, Zenon
  <2>6. cq_thread'[c] = "exited" => c \in cq_drained'
    BY <1>2, <2>2
  <2>7. \A d \in Cqs : cq_thread'[d] = "exited" => d \in cq_drained'
    BY <1>1, <2>5, <2>6, Zenon DEF ServerInv
  <2>8. QED
    BY <1>1, <2>2, <2>3, <2>4, <2>7, Zenon DEF ServerInv
<1>7. CASE \/ SetShuttingDown \/ StopServices \/ CallGrpcShutdown
           \/ GrpcShutdownReturns \/ JoinEventThreads \/ DestroyServer
  <2>1. /\ event_thread' = event_thread /\ cq_thread' = cq_thread
        /\ shutting_down' \in {shutting_down, TRUE}
        /\ \/ /\ shutdown_pc = "none" /\ shutdown_pc' = "flag_set"
              /\ created > 0
           \/ /\ shutdown_pc = "flag_set" /\ shutdown_pc' = "services_stopped"
              /\ service_shutting_down'
           \/ /\ shutdown_pc = "services_stopped"
              /\ shutdown_pc' = "grpc_shutting_down"
           \/ /\ shutdown_pc = "grpc_shutting_down"
              /\ shutdown_pc' = "grpc_shut_down"
           \/ /\ shutdown_pc = "grpc_shut_down" /\ shutdown_pc' = "done"
              /\ \A c \in Cqs : cq_thread[c] = "exited"
              /\ \A q \in EventQueues : event_thread[q] = "exited"
           \/ shutdown_pc = "done" /\ shutdown_pc' = "destroyed"
    BY <1>7, Zenon DEF SetShuttingDown, StopServices, StopServing, CallGrpcShutdown,
       GrpcShutdownReturns, JoinEventThreads, DestroyServer, ShutdownAt
  <2>2. ServerTypeOK'
    BY <2>1, Zenon DEF ServerInv, ServerTypeOK
  <2>3. created' = 0 => shutdown_pc' = "none"
    BY <1>1, <2>1 DEF ServerInv
  <2>4. shutdown_pc' \notin {"none", "flag_set"} => service_shutting_down'
    BY <1>1, <2>1 DEF ServerInv
  <2>5. shutdown_pc' \in {"done", "destroyed"} =>
          /\ \A q \in EventQueues : event_thread[q] = "exited"
          /\ \A c \in Cqs : cq_thread[c] = "exited"
    BY <2>1 DEF ServerInv
  <2>6. QED
    BY <1>1, <2>1, <2>2, <2>3, <2>4, <2>5, Zenon DEF ServerInv
<1>8. QED
  BY <1>3, <1>4, <1>5, <1>6, <1>7, Zenon DEF ServerNext, ServerStep,
     ShutdownThread, EventThreadHandles, CqThreadAdvances, Environment, allVars

\* Server stops its service before it shuts gRPC down, and destroys it after its
\* completion queues: ServerSpec implements Spec, whose invariants it inherits.
THEOREM ServerRefinesService == ServerSpec => ServerImplementsService
<1>1. ServerInit => Init /\ TypeOK /\ ServerInv
  BY ServerInvInit, TypeInit, Zenon DEF ServerInit
<1>2. TypeOK /\ ServerInv /\ [ServerNext]_allVars
        => [Next]_vars /\ TypeOK' /\ ServerInv'
  BY ServerStepsAreServiceSteps, ServerInvNext, TypeNext, Zenon
<1>3. QED
  BY <1>1, <1>2, PTL DEF ServerSpec, ServerImplementsService, Spec

-----------------------------------------------------------------------------
(* The end of a shutdown *)

\* An Rpc in ActiveRpcs waits for an event that will come.
LEMMA ActiveRpcsExpectEvents ==
  ASSUME TagInv, LifeInv, ~EventExpected
  PROVE active = {}
<1>1. SUFFICES ASSUME NEW r \in active PROVE FALSE
  BY Zenon
<1>2. r \in Rpcs /\ r \in 1..created
  <2>1. TypeOK
    BY Zenon DEF TagInv
  <2>2. QED
    BY <2>1, ActiveRpcs, Zenon DEF TypeOK
<1>3. RpcLife(r)
  BY <1>2, Zenon DEF LifeInv
<1>4. ASSUME NEW e \in CqEvent, e \in pending[r]
      PROVE tag[r][e] = "started" /\ e = "DONE" /\ call[r] = "none"
  <2>1. tag[r][e] # "idle"
    BY <1>3, <1>4, Zenon DEF RpcLife
  <2>2. ~InQueue(r, e)
    <3>1. queue[r] \in EventQueues
      BY <1>2 DEF TagInv, TypeOK
    <3>2. event_queue[queue[r]] = <<>>
      BY <3>1, Zenon DEF EventExpected
    <3>3. 1..Len(event_queue[queue[r]]) = {}
      BY <3>2
    <3>4. QED
      BY <3>3, Zenon DEF InQueue
  <2>3. tag[r][e] # "queued"
    BY <1>3, <1>4, <2>2, Zenon DEF RpcLife
  <2>4. tag[r][e] \in TagState
    BY <1>2, <1>4 DEF TagInv, TypeOK
  <2>5. ~Expected(r, e)
    BY <1>2, <1>4, Zenon DEF EventExpected
  <2>6. QED
    BY <2>1, <2>3, <2>4, <2>5 DEF TagState, Expected
<1>5. handler[r] # "null" => call[r] # "none"
  BY <1>3, Zenon DEF RpcLife
<1>6. handler[r] = "null" => "NEW_CONNECTION" \in pending[r]
  BY <1>3, Zenon DEF RpcLife
<1>7. IsAnyEventPending(pending[r])
  BY <1>3, Zenon DEF RpcLife
<1>8. QED
  BY <1>4, <1>5, <1>6, <1>7 DEF IsAnyEventPending, CqEvent

\* When no event is expected and all Rpcs are gone, no step of the service
\* brings one back.
LEMMA QuietStays ==
  ASSUME TagInv, [Next]_vars, active = {}, ~EventExpected, created > 0
  PROVE active' = {} /\ ~EventExpected'
<1> DEFINE Q == active' = {} /\ ~EventExpected'
<1>1. TypeOK
  BY Zenon DEF TagInv
<1>2. /\ \A q \in EventQueues : event_queue[q] = <<>> /\ relisten[q] = NoRpc
      /\ \A r \in 1..created : \A e \in CqEvent : ~Expected(r, e)
  BY Zenon DEF EventExpected
<1>3. ASSUME active' = active, event_queue' = event_queue,
             relisten' = relisten, created' = created, tag' = tag, call' = call
      PROVE Q
  BY <1>3, Zenon DEF EventExpected, Expected
<1>4. \A q \in EventQueues : ~RunEventQueue(q)
  BY <1>2, ZenonT(40) DEF RunEventQueue, RefuseConnection, AcceptConnection,
     ListenAgain, HandleRequest, HandleReadsDone, HandleWrite,
     HandleFinishOrDone, IgnoreStaleEvent, HandleEventOfDestroyedRpc,
     NextEventIn
<1>5. ASSUME NEW r \in Rpcs, NEW e \in CqEvent, tag[r][e] # "idle"
      PROVE /\ tag[r][e] \notin {"ok", "failed"}
            /\ tag[r][e] = "started" => e = "DONE" /\ call[r] = "none"
  <2>1. e \in pending[r]
    BY <1>5, Zenon DEF TagInv, UsedTagsArePending
  <2>2. r \in 1..created
    BY <2>1, Zenon DEF TagInv, OnlyCreatedRpcs
  <2>3. QED
    BY <1>2, <2>2, Zenon DEF Expected
<1>6. ASSUME NEW r \in Rpcs, NEW e \in CqEvent, RunCompletionQueue(r, e)
      PROVE FALSE
  <2>1. tag[r][e] \in {"ok", "failed"}
    BY <1>6, Zenon DEF RunCompletionQueue
  <2>2. tag[r][e] # "idle"
    BY <2>1
  <2>3. QED
    BY <1>5, <2>1, <2>2, Zenon
<1>7. ASSUME NEW r \in Rpcs,
             \/ IncomingCall(r) \/ RequestFails(r) \/ ClientSends(r)
             \/ ClientWritesDone(r) \/ ReadFails(r) \/ WriteCompletes(r)
             \/ FinishCompletes(r) \/ CallIsDone(r) \/ ClientCancels(r)
      PROVE Q
  <2>1. \A e \in CqEvent : \A v : e # "DONE" => ~Complete(r, e, v)
    <3>1. ASSUME NEW e \in CqEvent, NEW v, e # "DONE", Complete(r, e, v)
          PROVE FALSE
      <4>1. tag[r][e] = "started"
        BY <3>1, Zenon DEF Complete
      <4>2. tag[r][e] # "idle"
        BY <4>1
      <4>3. QED
        BY <1>5, <3>1, <4>1, <4>2, Zenon
    <3>2. QED
      BY <3>1, Zenon
  <2>2. ~CallIsDone(r)
    <3>1. SUFFICES ASSUME CallIsDone(r) PROVE FALSE
      BY Zenon
    <3>2. tag[r]["DONE"] = "started" /\ call[r] = "over" /\ "DONE" \in CqEvent
      BY <3>1 DEF CallIsDone, Complete, CqEvent
    <3>3. tag[r]["DONE"] # "idle" /\ call[r] # "none"
      BY <3>2
    <3>4. QED
      BY <1>5, <3>2, <3>3, Zenon
  <2>3. \A e \in {"NEW_CONNECTION", "READ", "WRITE", "FINISH"} :
          e \in CqEvent /\ e # "DONE"
    BY DEF CqEvent
  <2>4. ClientCancels(r)
    BY <1>7, <2>1, <2>2, <2>3, Zenon DEF IncomingCall, RequestFails,
       ClientSends, ClientWritesDone, ReadFails, WriteCompletes,
       FinishCompletes
  <2>5. /\ active' = active /\ event_queue' = event_queue
        /\ relisten' = relisten /\ created' = created /\ tag' = tag
        /\ call' = [call EXCEPT ![r] = "over"] /\ call[r] = "open"
    BY <2>4, Zenon DEF ClientCancels, rpcVars, threadVars
  <2>6. ASSUME NEW r2 \in 1..created, NEW e \in CqEvent, Expected(r2, e)'
        PROVE Expected(r2, e)
    <3>1. r2 \in Rpcs
      BY <1>1, ActiveRpcs, Zenon
    <3>2. call'[r2] # "none" => call[r2] # "none"
      <4>1. call \in [Rpcs -> {"none", "open", "over"}]
        BY <1>1, Zenon DEF TypeOK
      <4>2. QED
        BY <2>5, <3>1, <4>1
    <3>3. QED
      BY <2>5, <2>6, <3>2, Zenon DEF Expected
  <2>7. QED
    BY <1>2, <2>5, <2>6, Zenon DEF EventExpected
<1>8. ASSUME NEW w \in Writers, WriterStep(w) PROVE Q
  <2>1. /\ active' = active /\ relisten' = relisten /\ created' = created
        /\ tag' = tag
    BY <1>8, WriterFrame, Zenon
  <2>2. event_queue' = event_queue /\ call' = call
    BY <1>8, Zenon DEF WriterStep, WriterEnqueue, WriterNotify, WriterReturn,
       threadVars, grpcVars
  <2>3. QED
    BY <1>3, <2>1, <2>2, Zenon
<1>9. ASSUME Stop PROVE Q
  <2>1. call' = call
    BY <1>9, Zenon DEF Stop, StopServing, GrpcShutdown, CqDrained,
       DestroyService, grpcVars
  <2>2. QED
    BY <1>3, <1>9, <2>1, StopFrame, Zenon
<1>10. ~StartServing
  BY DEF StartServing
<1>11. CASE UNCHANGED vars
  BY <1>3, <1>11, Zenon DEF vars, rpcVars, threadVars, grpcVars
<1>12. CASE Next
  BY <1>4, <1>6, <1>7, <1>8, <1>9, <1>10, <1>12, Zenon
     DEF Next, Serve, ClientStep, GrpcStep
<1>13. QED
  BY <1>11, <1>12, Zenon

LEMMA QuietNext ==
  ASSUME TagInv, LifeInv, ServerInv, Quiet, [PatientServerNext]_allVars,
         [Next]_vars
  PROVE Quiet'
<1>1. CASE \E q \in EventQueues : event_thread[q] = "exited"
  <2>1. created > 0
    <3>1. PICK q \in EventQueues : event_thread[q] = "exited"
      BY <1>1, Zenon
    <3>2. event_thread[q] # "new"
      BY <3>1
    <3>3. QED
      BY <3>2, Zenon DEF ServerInv
  <2>2. QED
    BY <1>1, <2>1, QuietStays, Zenon DEF Quiet
<1>2. CASE ~\E q \in EventQueues : event_thread[q] = "exited"
  <2>1. CASE \E q \in EventQueues : PatientTimeout(q)
    <3>1. /\ ~EventExpected /\ event_queue' = event_queue
          /\ relisten' = relisten /\ active' = active /\ created' = created
          /\ tag' = tag /\ call' = call
      BY <2>1, Zenon DEF PatientTimeout, EventThreadTimesOut, vars, rpcVars,
         threadVars, grpcVars
    <3>2. active = {}
      BY <3>1, ActiveRpcsExpectEvents, Zenon
    <3>3. QED
      BY <3>1, <3>2, ZenonT(40) DEF Quiet, EventExpected, Expected
  <2>2. CASE ~\E q \in EventQueues : PatientTimeout(q)
    <3>1. ASSUME NEW q \in EventQueues PROVE event_thread'[q] # "exited"
      <4>1. CASE event_thread' = event_thread
        BY <1>2, <4>1, Zenon
      <4>2. CASE Start
        <5>1. event_thread'[q] = "serving"
          BY <4>2, Zenon DEF Start
        <5>2. QED
          BY <5>1
      <4>3. CASE \E q2 \in EventQueues : EventThreadSeesShutdown(q2)
        <5>1. PICK q2 \in EventQueues : EventThreadSeesShutdown(q2)
          BY <4>3, Zenon
        <5>2. event_thread' = [event_thread EXCEPT ![q2] = "draining"]
          BY <5>1, Zenon DEF EventThreadSeesShutdown
        <5>3. event_thread'[q] \in {event_thread[q], "draining"}
          BY <5>2 DEF ServerInv, ServerTypeOK
        <5>4. QED
          BY <1>2, <5>3
      <4>4. QED
        BY <2>2, <4>1, <4>2, <4>3, Zenon DEF PatientServerNext, ServerStep,
           ShutdownThread, EventThreadHandles, CqThreadAdvances, CqThreadExits,
           SetShuttingDown, StopServices, CallGrpcShutdown,
           GrpcShutdownReturns, ShutDownCq, JoinEventThreads, DestroyServer,
           Environment, serverVars, allVars
    <3>2. QED
      BY <3>1, Zenon DEF Quiet
  <2>3. QED
    BY <2>1, <2>2, Zenon
<1>3. QED
  BY <1>1, <1>2, Zenon

\* With kPopEventTimeout longer than any pause between two events, ~Server finds
\* no Rpc left in ActiveRpcs: an event thread exits only when no event is to
\* come, and an Rpc that is left would be waiting for one.
THEOREM ShutdownLeavesNoRpc == PatientServerSpec => []NoRpcOutlivesShutdown
<1>1. [PatientServerNext]_allVars => [ServerNext]_allVars
  BY Zenon DEF PatientServerNext, PatientTimeout, ServerNext
<1>2. PatientServerSpec => ServerSpec
  BY <1>1, PTL DEF PatientServerSpec, ServerSpec
<1>3. ServerInit => Init /\ ServerInv /\ Quiet
  <2>1. ServerInit => ~\E q \in EventQueues : event_thread[q] = "exited"
    BY DEF ServerInit
  <2>2. QED
    BY <2>1, ServerInvInit, Zenon DEF Quiet, ServerInit
<1>4. TypeOK /\ ServerInv /\ [ServerNext]_allVars => [Next]_vars /\ ServerInv'
  BY ServerStepsAreServiceSteps, ServerInvNext, Zenon
<1>5. TagInv /\ LifeInv /\ ServerInv /\ Quiet /\ [PatientServerNext]_allVars
        /\ [Next]_vars => Quiet'
  BY QuietNext, Zenon
<1>6. ServerInv /\ Quiet => NoRpcOutlivesShutdown
  <2>1. 0 \in EventQueues
    BY Sizes DEF EventQueues
  <2>2. QED
    BY <2>1, Zenon DEF ServerInv, Quiet, NoRpcOutlivesShutdown
<1>7. TagInv => TypeOK
  BY Zenon DEF TagInv
<1>8. QED
  BY <1>1, <1>2, <1>3, <1>4, <1>5, <1>6, <1>7, ServerRefinesService,
     TagInvariant, LifeInvariant, PTL
     DEF PatientServerSpec, ServerSpec, ServerImplementsService, Spec

\* Until a Writer is used, a server whose handlers finish last fails no CHECK,
\* does not misuse gRPC and uses no destroyed Rpc before StopServing.
THEOREM ServerFaultsOnlyInShutdown ==
  ASSUME HandlersFinishLast
  PROVE ServerSpec => [](writes = 0 => FaultsOnlyInShutdown)
<1>1. FinishInv /\ FaultInv => (writes = 0 => FaultsOnlyInShutdown)
  BY Zenon DEF FaultInv, FaultsOnlyInShutdown
<1>2. QED
  BY <1>1, FinishInvariant, ServerRefinesService, PTL
     DEF ServerImplementsService
=============================================================================
