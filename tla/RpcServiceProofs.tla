-------------------------- MODULE RpcServiceProofs --------------------------
(***************************************************************************)
(* Facts about the operators of RpcService that several proofs use, the    *)
(* types of its variables, for any number of methods, completion queues,   *)
(* event queues, Writers and calls, and what a step of an event thread has *)
(* in common whatever the event is: EventIsHandled reduces the handlers to *)
(* EventEffects.  Then TagInv is an invariant, and with it the safety      *)
(* properties that hold whatever the handlers, the Writers and the clients *)
(* do, also during shutdown.                                               *)
(***************************************************************************)
EXTENDS RpcInvariant, TLAPS

\* There is an Rpc for every listener, and an event queue.
LEMMA Sizes ==
  /\ NumListeners \in Nat \ {0}
  /\ MaxRpcs \in Nat
  /\ NumListeners <= MaxRpcs
  /\ 1 \in Listeners
  /\ Listeners \subseteq Rpcs
  /\ 0 \in EventQueues
  /\ NoRpc \notin Rpcs
<1>1. NumListeners \in Nat \ {0}
  BY SizeAssumption DEF NumListeners
<1>2. QED
  BY <1>1, SizeAssumption
     DEF MaxRpcs, Listeners, Rpcs, EventQueues, NoRpc

\* Two places of event queues that hold the same event object are one.
LEMMA OnePlacePerEvent ==
  ASSUME EventObjectsAreNotShared,
         NEW q1 \in EventQueues, NEW q2 \in EventQueues,
         NEW i \in 1..Len(event_queue[q1]), NEW j \in 1..Len(event_queue[q2]),
         event_queue[q1][i].rpc = event_queue[q2][j].rpc,
         event_queue[q1][i].event = event_queue[q2][j].event,
         event_queue[q1][i].event # "WRITE_NEEDED"
  PROVE q1 = q2 /\ i = j
BY DEF EventObjectsAreNotShared

LEMMA EventsInOnePlace ==
  ASSUME fault' # "op_in_flight",
         \A q1, q2 \in EventQueues :
           \A i \in 1..Len(event_queue'[q1]), j \in 1..Len(event_queue'[q2]) :
             (/\ event_queue'[q1][i].rpc = event_queue'[q2][j].rpc
              /\ event_queue'[q1][i].event = event_queue'[q2][j].event
              /\ event_queue'[q1][i].event # "WRITE_NEEDED")
               => q1 = q2 /\ i = j
  PROVE EventObjectsAreNotShared'
BY DEF EventObjectsAreNotShared

\* A remainder modulo the number of event queues is an event queue.
LEMMA RoundRobin ==
  ASSUME NEW n \in Nat
  PROVE n % NumEventQueues \in EventQueues
BY SizeAssumption DEF EventQueues

\* Every listener is for a registered method.
LEMMA MethodOfListener ==
  ASSUME NEW l \in Listeners
  PROVE MethodOf(l) \in 1..NumMethods
<1> DEFINE d == (l - 1) \div NumCqs
<1>1. l - 1 \in Nat /\ l - 1 < NumMethods * NumCqs
  BY SizeAssumption, Sizes DEF Listeners, NumListeners
<1>2. d \in Nat /\ NumCqs * d <= l - 1
  BY <1>1, SizeAssumption
<1>3. d < NumMethods
  <2>1. SUFFICES ASSUME d >= NumMethods PROVE FALSE
    BY <1>2, SizeAssumption
  <2>2. NumCqs * d >= NumCqs * NumMethods
    BY <1>2, <2>1, SizeAssumption
  <2>3. QED
    BY <1>1, <1>2, <2>2, SizeAssumption
<1>4. QED
  BY <1>2, <1>3, SizeAssumption DEF MethodOf

\* The scripts of the handler of an Rpc are sequences of SendItems.
LEMMA ScriptsOfRpc ==
  ASSUME TypeOK, NEW r \in Rpcs
  PROVE /\ \A s \in RequestScripts[Type(r)] : s \in Seq(SendItem)
        /\ \A s \in ReadsDoneScripts[Type(r)] : s \in Seq(SendItem)
<1>1. Type(r) \in RpcType
  BY MethodOfListener, HandlerAssumption DEF Type, TypeOK
<1>2. QED
  BY <1>1, HandlerAssumption

LEMMA ActiveRpcs ==
  ASSUME TypeOK
  PROVE 1..created \subseteq Rpcs /\ active \subseteq Rpcs
<1>1. created \in Nat /\ created <= MaxRpcs /\ active \subseteq 1..created
  BY Sizes DEF TypeOK
<1>2. QED
  BY <1>1, Sizes DEF Rpcs

LEMMA WriteNeededType ==
  ASSUME NEW r \in Rpcs, NEW s \in Seq(SendItem)
  PROVE WriteNeeded(r, s) \in Seq(QueuedEvent)
BY DEF WriteNeeded, QueuedEvent, Event

\* The event that a thread handles next, its Rpc and the queues without it.
LEMMA HeadType ==
  ASSUME TypeOK, NEW q \in EventQueues, event_queue[q] # <<>>
  PROVE /\ Head(event_queue[q]) \in QueuedEvent
        /\ Head(event_queue[q]).rpc \in Rpcs
        /\ Head(event_queue[q]).event \in Event
        /\ Popped(q) \in [EventQueues -> Seq(QueuedEvent)]
        /\ TagsAfter(Head(event_queue[q])) \in [CqEvent -> TagState]
<1>1. event_queue[q] \in Seq(QueuedEvent)
  BY DEF TypeOK
<1>2. Head(event_queue[q]) \in QueuedEvent
  BY <1>1
<1>3. Popped(q) \in [EventQueues -> Seq(QueuedEvent)]
  BY <1>1 DEF Popped, TypeOK
<1>4. Head(event_queue[q]).rpc \in Rpcs
  BY <1>2 DEF QueuedEvent
<1>5. Head(event_queue[q]).event \in Event
  BY <1>2 DEF QueuedEvent
<1>6. tag[Head(event_queue[q]).rpc] \in [CqEvent -> TagState]
  BY <1>4 DEF TypeOK
<1>7. TagsAfter(Head(event_queue[q])) \in [CqEvent -> TagState]
  BY <1>6 DEF TagsAfter, TagState
<1>8. QED
  BY <1>2, <1>3, <1>4, <1>5, <1>7

\* Concatenation, index by index.
LEMMA Concat ==
  ASSUME NEW S, NEW a \in Seq(S), NEW b \in Seq(S)
  PROVE /\ a \o b \in Seq(S)
        /\ Len(a \o b) = Len(a) + Len(b)
        /\ Len(a) \in Nat /\ Len(b) \in Nat
        /\ \A i \in 1..Len(a) : (a \o b)[i] = a[i]
        /\ \A i \in (Len(a) + 1)..(Len(a) + Len(b)) :
             (a \o b)[i] = b[i - Len(a)]
<1>1. Len(a) \in Nat /\ Len(b) \in Nat /\ Len(a \o b) = Len(a) + Len(b)
  OBVIOUS
<1>2. ASSUME NEW i \in 1..Len(a) PROVE (a \o b)[i] = a[i]
  BY <1>1
<1>3. ASSUME NEW i \in (Len(a) + 1)..(Len(a) + Len(b))
      PROVE (a \o b)[i] = b[i - Len(a)]
  BY <1>1
<1>4. QED
  BY <1>1, <1>2, <1>3

\* Event objects are not shared as long as nothing is pushed and no operation
\* is started.
LEMMA NothingPushed ==
  ASSUME EventObjectsAreNotShared, UNCHANGED event_queue,
         fault' # "op_in_flight"
  PROVE EventObjectsAreNotShared'
BY DEF EventObjectsAreNotShared

\* The tags of queued events stay known to be queued as long as nothing is
\* pushed and no queued tag is changed.
LEMMA QueuedTagsKept ==
  ASSUME TagInv, UNCHANGED event_queue,
         \A r \in 1..created : \A e \in CqEvent :
           tag[r][e] = "queued" => tag'[r][e] = "queued"
  PROVE QueuedTags'
<1> SUFFICES ASSUME NEW q \in EventQueues, NEW i \in 1..Len(event_queue[q]),
                    event_queue[q][i].event \in CqEvent
             PROVE tag'[event_queue[q][i].rpc][event_queue[q][i].event]
                     = "queued"
  BY DEF QueuedTags
<1>1. event_queue[q][i].rpc \in 1..created
  BY DEF TagInv, OnlyCreatedRpcs
<1>2. tag[event_queue[q][i].rpc][event_queue[q][i].event] = "queued"
  BY DEF TagInv, QueuedTags
<1>3. QED
  BY <1>1, <1>2, Zenon

LEMMA AliveIsCreated ==
  ASSUME TagInv, NEW r \in Rpcs, Alive(r)
  PROVE r \in 1..created
<1>1. CASE r \in active
  BY <1>1 DEF TagInv, TypeOK
<1>2. ASSUME NEW w \in Writers, writer_rpc[w] = r PROVE r \in 1..created
  BY <1>2, Sizes DEF TagInv, OnlyCreatedRpcs
<1>3. QED
  BY <1>1, <1>2 DEF Alive

-----------------------------------------------------------------------------
(* Operators that start operations and fill queues *)

LEMMA OpFaultType ==
  ASSUME NEW r, NEW t, NEW e
  PROVE OpFault(r, t, e) \in Fault
BY DEF OpFault, Fault

\* What a callback sends keeps the types of both kinds of queues.
LEMMA SendType ==
  ASSUME TypeOK, NEW q \in EventQueues, event_queue[q] # <<>>,
         NEW r \in Rpcs, NEW s \in Seq(SendItem), Send(q, r, s)
  PROVE /\ send_queue' \in [Rpcs -> Seq(SendItem)]
        /\ event_queue' \in [EventQueues -> Seq(QueuedEvent)]
<1>1. send_queue' \in [Rpcs -> Seq(SendItem)]
  BY DEF Send, TypeOK
<1>2. /\ Popped(q) \in [EventQueues -> Seq(QueuedEvent)]
      /\ WriteNeeded(r, s) \in Seq(QueuedEvent)
      /\ queue[r] \in EventQueues
  BY HeadType, WriteNeededType, Zenon DEF TypeOK
<1>3. event_queue' \in [EventQueues -> Seq(QueuedEvent)]
  BY <1>2 DEF Send
<1>4. QED
  BY <1>1, <1>3

LEMMA StartOpType ==
  ASSUME TypeOK, NEW r \in Rpcs, NEW p \in SUBSET CqEvent,
         NEW t \in [CqEvent -> TagState], NEW e \in CqEvent,
         StartOp(r, p, t, e)
  PROVE /\ pending' \in [Rpcs -> SUBSET CqEvent]
        /\ tag' \in [Rpcs -> [CqEvent -> TagState]]
BY DEF StartOp, TypeOK, TagState

LEMMA HandleSendQueueType ==
  ASSUME TypeOK, NEW r \in Rpcs, NEW p \in SUBSET CqEvent,
         NEW t \in [CqEvent -> TagState], HandleSendQueue(r, p, t)
  PROVE /\ pending' \in [Rpcs -> SUBSET CqEvent]
        /\ tag' \in [Rpcs -> [CqEvent -> TagState]]
        /\ send_queue' \in [Rpcs -> Seq(SendItem)]
        /\ finishing' \in SUBSET Rpcs
        /\ fault' \in Fault
<1>1. CASE ~CanSend(r, p)
  <2>1. /\ pending' = [pending EXCEPT ![r] = p]
        /\ tag' = [tag EXCEPT ![r] = t]
        /\ UNCHANGED <<send_queue, finishing, fault>>
    BY <1>1, Zenon DEF HandleSendQueue
  <2>2. /\ pending' \in [Rpcs -> SUBSET CqEvent]
        /\ tag' \in [Rpcs -> [CqEvent -> TagState]]
    BY <2>1 DEF TypeOK
  <2>3. QED
    BY <2>1, <2>2 DEF TypeOK
<1>2. CASE CanSend(r, p)
  <2>1. send_queue' \in [Rpcs -> Seq(SendItem)]
    <3>1. send_queue[r] \in Seq(SendItem) /\ send_queue[r] # <<>>
      BY <1>2 DEF CanSend, TypeOK
    <3>2. Tail(send_queue[r]) \in Seq(SendItem)
      BY <3>1
    <3>3. send_queue' = [send_queue EXCEPT ![r] = Tail(send_queue[r])]
      BY <1>2 DEF HandleSendQueue
    <3>4. QED
      BY <3>2, <3>3 DEF TypeOK
  <2>2. CASE PerformFinish(r, p, t, Head(send_queue[r]))
    <3>1. StartOp(r, p, t, "FINISH") /\ "FINISH" \in CqEvent
      BY <2>2 DEF PerformFinish, CqEvent
    <3>2. finishing' \in SUBSET Rpcs
      BY <2>2 DEF PerformFinish, TypeOK
    <3>3. fault' \in Fault
      BY <2>2, OpFaultType DEF PerformFinish, Fault
    <3>4. QED
      BY <2>1, <3>1, <3>2, <3>3, StartOpType, Zenon
  <2>3. CASE PerformWrite(r, p, t)
    <3>1. StartOp(r, p, t, "WRITE") /\ "WRITE" \in CqEvent
      BY <2>3 DEF PerformWrite, CqEvent
    <3>2. finishing' \in SUBSET Rpcs /\ fault' \in Fault
      BY <2>3, OpFaultType DEF PerformWrite, TypeOK
    <3>3. QED
      BY <2>1, <3>1, <3>2, StartOpType, Zenon
  <2>4. QED
    BY <1>2, <2>2, <2>3 DEF HandleSendQueue
<1>3. QED
  BY <1>1, <1>2

-----------------------------------------------------------------------------
(* Type correctness *)

LEMMA TypeInit == Init => TypeOK
<1> SUFFICES ASSUME Init PROVE TypeOK
  OBVIOUS
<1>1. /\ created \in 0..MaxRpcs
      /\ active \subseteq 1..created
      /\ listener \in [Rpcs -> Listeners]
      /\ queue \in [Rpcs -> EventQueues]
      /\ handler \in [Rpcs -> {"null", "reading", "reads_done"}]
      /\ pending \in [Rpcs -> SUBSET CqEvent]
  BY Sizes DEF Init
<1>2. /\ send_queue \in [Rpcs -> Seq(SendItem)]
      /\ event_queue \in [EventQueues -> Seq(QueuedEvent)]
      /\ relisten \in [EventQueues -> Rpcs \cup {NoRpc}]
  BY DEF Init
<1>3. /\ current_event_queue_id \in EventQueues
      /\ service_shutting_down \in BOOLEAN
      /\ tag \in [Rpcs -> [CqEvent -> TagState]]
      /\ call \in [Rpcs -> {"none", "open", "over"}]
      /\ finishing \subseteq Rpcs
  BY Sizes, Zenon DEF Init, TagState
<1>4. /\ requests \in [Rpcs -> 0..MaxRequests]
      /\ calls \in 0..MaxCalls
      /\ writes \in 0..MaxWrites
  BY SizeAssumption DEF Init
<1>5. /\ grpc_shutdown \in BOOLEAN
      /\ cq_drained \subseteq Cqs
      /\ fault \in Fault
      /\ writer_pc \in [Writers -> {"idle", "enqueued", "notified"}]
      /\ writer_rpc \in [Writers -> Rpcs \cup {NoRpc}]
  BY Zenon DEF Init, Fault
<1>6. QED
  BY <1>1, <1>2, <1>3, <1>4, <1>5 DEF TypeOK

LEMMA TypeStartServing == TypeOK /\ StartServing => TypeOK'
<1> SUFFICES ASSUME TypeOK, StartServing PROVE TypeOK'
  OBVIOUS
<1>1. created' \in 0..MaxRpcs /\ active' \subseteq 1..created'
  BY Sizes DEF StartServing, Listeners
<1>2. listener' \in [Rpcs -> Listeners]
  BY DEF StartServing, TypeOK
<1>3. queue' \in [Rpcs -> EventQueues]
  <2>1. \A r \in Listeners : (current_event_queue_id + r) \in Nat
    BY SizeAssumption DEF TypeOK, Listeners, EventQueues
  <2>2. QED
    BY <2>1, RoundRobin DEF StartServing, TypeOK
<1>4. current_event_queue_id' \in EventQueues
  <2>1. current_event_queue_id + NumListeners \in Nat
    <3>1. current_event_queue_id \in EventQueues /\ NumListeners \in Nat
      BY Sizes, Zenon DEF TypeOK
    <3>2. QED
      BY <3>1, SizeAssumption DEF EventQueues
  <2>2. QED
    BY <2>1, RoundRobin DEF StartServing
<1>5. pending' \in [Rpcs -> SUBSET CqEvent]
  BY DEF StartServing, TypeOK, CqEvent
<1>6. tag' \in [Rpcs -> [CqEvent -> TagState]]
  BY DEF StartServing, TypeOK, TagState
<1>7. QED
  BY <1>1, <1>2, <1>3, <1>4, <1>5, <1>6, Zenon
     DEF StartServing, TypeOK, writerVars

LEMMA TypeStop == TypeOK /\ Stop => TypeOK'
<1> SUFFICES ASSUME TypeOK, Stop PROVE TypeOK'
  OBVIOUS
<1> USE DEF TypeOK, rpcVars, threadVars, grpcVars, writerVars
<1>1. CASE StopServing
  BY <1>1 DEF StopServing
<1>2. CASE GrpcShutdown
  BY <1>2 DEF GrpcShutdown
<1>3. ASSUME NEW c \in Cqs, CqDrained(c) PROVE TypeOK'
  BY <1>3 DEF CqDrained
<1>4. CASE DestroyService
  BY <1>4 DEF DestroyService, Fault
<1>5. QED
  BY <1>1, <1>2, <1>3, <1>4, Zenon DEF Stop

LEMMA TypeEventQueue ==
  ASSUME TypeOK, NEW q \in EventQueues, RunEventQueue(q)
  PROVE TypeOK'
<1> DEFINE ev == Head(event_queue[q])
           r == ev.rpc
<1>1. ASSUME NEW es, NextEventIn(q, es)
      PROVE /\ r \in Rpcs
            /\ ev.event \in es
            /\ event_queue[q] # <<>>
            /\ Popped(q) \in [EventQueues -> Seq(QueuedEvent)]
            /\ TagsAfter(ev) \in [CqEvent -> TagState]
            /\ pending[r] \ {ev.event} \in SUBSET CqEvent
  <2>1. event_queue[q] # <<>>
    BY <1>1 DEF NextEventIn
  <2>2. r \in Rpcs
    BY <2>1, HeadType, Zenon
  <2>3. pending[r] \ {ev.event} \in SUBSET CqEvent
    BY <2>2, Zenon DEF TypeOK
  <2>4. QED
    BY <1>1, <2>1, <2>2, <2>3, HeadType DEF NextEventIn
<1>2. CASE RefuseConnection(q)
  <2>1. NextEventIn(q, {"NEW_CONNECTION"})
    BY <1>2, Zenon DEF RefuseConnection
  <2>2. QED
    BY <1>1, <1>2, <2>1, Zenon DEF RefuseConnection, TypeOK, writerVars
<1>3. CASE AcceptConnection(q)
  <2>1. NextEventIn(q, {"NEW_CONNECTION"})
    BY <1>3 DEF AcceptConnection
  <2>2. CASE ev.ok
    <3> DEFINE p == pending[r] \ {ev.event}
               t == TagsAfter(ev)
    <3>1. OnConnection(q, r, p, t) /\ active' = active
      BY <1>3, <2>2, Zenon DEF AcceptConnection
    <3>2. /\ handler' \in [Rpcs -> {"null", "reading", "reads_done"}]
          /\ pending' \in [Rpcs -> SUBSET CqEvent]
          /\ tag' \in [Rpcs -> [CqEvent -> TagState]]
          /\ send_queue' \in [Rpcs -> Seq(SendItem)]
          /\ event_queue' \in [EventQueues -> Seq(QueuedEvent)]
          /\ fault' \in Fault
      <4>1. CASE StreamsRequests(r)
        <5>1. StartOp(r, p, t, "READ") /\ "READ" \in CqEvent
          BY <3>1, <4>1, Zenon DEF OnConnection, CqEvent
        <5>2. fault' \in Fault
          <6>1. fault' = OpFault(r, t, "READ")
            BY <3>1, <4>1, Zenon DEF OnConnection
          <6>2. QED
            BY <6>1, OpFaultType, Zenon
        <5>3. /\ pending' \in [Rpcs -> SUBSET CqEvent]
              /\ tag' \in [Rpcs -> [CqEvent -> TagState]]
          BY <1>1, <2>1, <5>1, StartOpType, Zenon
        <5>4. /\ handler' = [handler EXCEPT ![r] = "reading"]
              /\ send_queue' = send_queue
              /\ event_queue' = Popped(q)
          BY <3>1, <4>1, Zenon DEF OnConnection
        <5>5. QED
          BY <1>1, <2>1, <5>2, <5>3, <5>4, Zenon DEF TypeOK
      <4>2. CASE ~StreamsRequests(r)
        <5>1. PICK s1 \in RequestScripts[Type(r)],
                   s2 \in ReadsDoneScripts[Type(r)] : Send(q, r, s1 \o s2)
          BY <3>1, <4>2, Zenon DEF OnConnection
        <5>2. s1 \o s2 \in Seq(SendItem)
          BY <1>1, <2>1, ScriptsOfRpc
        <5>3. /\ send_queue' \in [Rpcs -> Seq(SendItem)]
              /\ event_queue' \in [EventQueues -> Seq(QueuedEvent)]
          BY <1>1, <2>1, <5>1, <5>2, SendType, Zenon
        <5>4. /\ handler' = [handler EXCEPT ![r] = "reads_done"]
              /\ pending' = [pending EXCEPT ![r] = p]
              /\ tag' = [tag EXCEPT ![r] = t]
              /\ fault' = fault
          BY <3>1, <4>2, Zenon DEF OnConnection
        <5>5. QED
          BY <1>1, <2>1, <5>3, <5>4, Zenon DEF TypeOK
      <4>3. QED
        BY <4>1, <4>2, Zenon
    <3>3. relisten' \in [EventQueues -> Rpcs \cup {NoRpc}]
      BY <1>1, <1>3, <2>1, Zenon DEF AcceptConnection, TypeOK
    <3>4. UNCHANGED <<created, active, listener, queue, current_event_queue_id,
                      service_shutting_down, call, finishing, requests, calls,
                      grpc_shutdown, cq_drained, writer_pc, writer_rpc, writes>>
      BY <1>3, <3>1, Zenon DEF AcceptConnection, writerVars
    <3>5. QED
      BY <3>2, <3>3, <3>4, Zenon DEF TypeOK
  <2>3. CASE ~ev.ok
    BY <1>1, <1>3, <2>1, <2>3, ZenonT(30)
       DEF AcceptConnection, TypeOK, Fault, writerVars
  <2>4. QED
    BY <2>2, <2>3, Zenon
<1>4. CASE ListenAgain(q)
  <2> DEFINE new == created + 1
  <2>1. new \in Rpcs /\ new \in 0..MaxRpcs
    BY <1>4, Sizes DEF ListenAgain, TypeOK, Rpcs
  <2>2. relisten[q] \in Rpcs
    BY <1>4, Zenon DEF ListenAgain, TypeOK
  <2>3. created' \in 0..MaxRpcs /\ active' \subseteq 1..created'
    <3>1. created \in Nat /\ active \subseteq 1..created
      BY DEF TypeOK
    <3>2. created' = created + 1 /\ active' = active \cup {created + 1}
      BY <1>4, Zenon DEF ListenAgain
    <3>3. QED
      BY <2>1, <3>1, <3>2
  <2>4. current_event_queue_id' \in EventQueues
    <3>1. current_event_queue_id + 1 \in Nat
      BY SizeAssumption DEF TypeOK, EventQueues
    <3>2. QED
      BY <1>4, <3>1, RoundRobin, Zenon
         DEF ListenAgain, SelectNextEventQueueRoundRobin
  <2>5. /\ listener' \in [Rpcs -> Listeners]
        /\ queue' \in [Rpcs -> EventQueues]
    BY <1>4, <2>1, <2>2, <2>4, Zenon DEF ListenAgain, SetEventQueue, TypeOK
  <2>6. /\ pending' \in [Rpcs -> SUBSET CqEvent]
        /\ tag' \in [Rpcs -> [CqEvent -> TagState]]
    BY <1>4, <2>1, Zenon
       DEF ListenAgain, RequestNextMethodInvocation, TypeOK, CqEvent, TagState
  <2>7. relisten' \in [EventQueues -> Rpcs \cup {NoRpc}] /\ fault' \in Fault
    BY <1>4, Zenon DEF ListenAgain, TypeOK, Fault
  <2>8. QED
    BY <1>4, <2>3, <2>4, <2>5, <2>6, <2>7, Zenon
       DEF ListenAgain, TypeOK, writerVars
<1>5. CASE HandleRequest(q)
  <2>1. NextEventIn(q, {"READ"})
    BY <1>5, Zenon DEF HandleRequest
  <2>2. PICK s \in RequestScripts[Type(r)] : Send(q, r, s)
    BY <1>5, Zenon DEF HandleRequest
  <2>3. s \in Seq(SendItem)
    BY <1>1, <2>1, ScriptsOfRpc, Zenon
  <2>4. /\ send_queue' \in [Rpcs -> Seq(SendItem)]
        /\ event_queue' \in [EventQueues -> Seq(QueuedEvent)]
    BY <1>1, <2>1, <2>2, <2>3, SendType, Zenon
  <2>5. StartOp(r, pending[r] \ {ev.event}, TagsAfter(ev), "READ")
    BY <1>5, Zenon DEF HandleRequest
  <2>6. /\ pending' \in [Rpcs -> SUBSET CqEvent]
        /\ tag' \in [Rpcs -> [CqEvent -> TagState]]
    BY <1>1, <2>1, <2>5, StartOpType, ZenonT(30) DEF CqEvent
  <2>7. fault' \in Fault
    BY <1>5, OpFaultType, Zenon DEF HandleRequest
  <2>8. QED
    BY <1>5, <2>4, <2>6, <2>7, Zenon DEF HandleRequest, TypeOK, writerVars
<1>6. CASE HandleReadsDone(q)
  <2>1. NextEventIn(q, {"READ"})
    BY <1>6, Zenon DEF HandleReadsDone
  <2>2. PICK s \in ReadsDoneScripts[Type(r)] : Send(q, r, s)
    BY <1>6, Zenon DEF HandleReadsDone
  <2>3. s \in Seq(SendItem)
    BY <1>1, <2>1, ScriptsOfRpc, Zenon
  <2>4. /\ send_queue' \in [Rpcs -> Seq(SendItem)]
        /\ event_queue' \in [EventQueues -> Seq(QueuedEvent)]
    BY <1>1, <2>1, <2>2, <2>3, SendType, Zenon
  <2>5. active' \subseteq 1..created'
    BY <1>6, Zenon DEF HandleReadsDone, RemoveIfNotPending, TypeOK
  <2>6. QED
    BY <1>1, <1>6, <2>1, <2>4, <2>5, Zenon
       DEF HandleReadsDone, TypeOK, writerVars
<1>7. CASE HandleWrite(q)
  <2>1. NextEventIn(q, {"WRITE", "WRITE_NEEDED"})
    BY <1>7, Zenon DEF HandleWrite
  <2>2. HandleSendQueue(r, pending[r] \ {ev.event}, TagsAfter(ev))
    BY <1>7, Zenon DEF HandleWrite
  <2>3. active' \subseteq 1..created'
    BY <1>7, Zenon DEF HandleWrite, RemoveIfNotPending, TypeOK
  <2>4. /\ pending' \in [Rpcs -> SUBSET CqEvent]
        /\ tag' \in [Rpcs -> [CqEvent -> TagState]]
        /\ send_queue' \in [Rpcs -> Seq(SendItem)]
        /\ finishing' \in SUBSET Rpcs
        /\ fault' \in Fault
    BY <1>1, <2>1, <2>2, HandleSendQueueType, Zenon
  <2>5. QED
    BY <1>1, <1>7, <2>1, <2>3, <2>4, Zenon
       DEF HandleWrite, TypeOK, writerVars
<1>8. CASE HandleFinishOrDone(q)
  <2>1. NextEventIn(q, {"FINISH", "DONE"})
    BY <1>8, Zenon DEF HandleFinishOrDone
  <2>2. active' \subseteq 1..created'
    BY <1>8, Zenon DEF HandleFinishOrDone, RemoveIfNotPending, TypeOK
  <2>3. QED
    BY <1>1, <1>8, <2>1, <2>2, Zenon
       DEF HandleFinishOrDone, TypeOK, writerVars
<1>9. CASE IgnoreStaleEvent(q)
  <2>1. NextEventIn(q, {"WRITE_NEEDED"})
    BY <1>9, Zenon DEF IgnoreStaleEvent
  <2>2. QED
    BY <1>1, <1>9, <2>1, Zenon
       DEF IgnoreStaleEvent, TypeOK, rpcVars, grpcVars, writerVars
<1>10. CASE HandleEventOfDestroyedRpc(q)
  BY <1>10, Zenon
     DEF HandleEventOfDestroyedRpc, TypeOK, rpcVars, threadVars, grpcVars,
         writerVars, Fault
<1>11. QED
  BY <1>2, <1>3, <1>4, <1>5, <1>6, <1>7, <1>8, <1>9, <1>10, Zenon
     DEF RunEventQueue

LEMMA TypeCompletionQueue ==
  ASSUME TypeOK, NEW r \in Rpcs, NEW e \in CqEvent, RunCompletionQueue(r, e)
  PROVE TypeOK'
<1>1. CASE Alive(r)
  <2> DEFINE ev == [rpc |-> r, event |-> e, ok |-> tag[r][e] = "ok"]
  <2>1. ev \in QueuedEvent
    BY Zenon DEF QueuedEvent, Event
  <2>2. /\ tag' = [tag EXCEPT ![r][e] = "queued"]
        /\ event_queue' = [event_queue EXCEPT ![queue[r]] = Append(@, ev)]
        /\ fault' = fault
    BY <1>1, Zenon DEF RunCompletionQueue
  <2>3. tag' \in [Rpcs -> [CqEvent -> TagState]]
    BY <2>2, Zenon DEF TypeOK, TagState
  <2>4. event_queue' \in [EventQueues -> Seq(QueuedEvent)]
    BY <2>1, <2>2 DEF TypeOK
  <2>5. QED
    BY <2>2, <2>3, <2>4, Zenon
       DEF RunCompletionQueue, TypeOK, rpcVars, writerVars
<1>2. CASE ~Alive(r)
  BY <1>2, Zenon DEF RunCompletionQueue, TypeOK, rpcVars, writerVars, Fault
<1>3. QED
  BY <1>1, <1>2, Zenon

LEMMA TypeWriter ==
  ASSUME TypeOK, NEW w \in Writers, WriterStep(w)
  PROVE TypeOK'
<1>1. ASSUME NEW r \in Rpcs, NEW item \in WriterItems,
             WriterEnqueue(w, r, item)
      PROVE TypeOK'
  <2>1. item \in SendItem
    BY HandlerAssumption, Zenon
  <2>2. send_queue' \in [Rpcs -> Seq(SendItem)]
    BY <1>1, <2>1 DEF WriterEnqueue, TypeOK
  <2>3. writes' \in 0..MaxWrites
    BY <1>1, SizeAssumption DEF WriterEnqueue, TypeOK
  <2>4. QED
    BY <1>1, <2>2, <2>3, Zenon
       DEF WriterEnqueue, TypeOK, threadVars, grpcVars
<1>2. CASE WriterNotify(w)
  <2> DEFINE r == writer_rpc[w]
  <2>1. CASE r \in active
    <3>1. r \in Rpcs
      BY <2>1, ActiveRpcs, Zenon
    <3>2. WriteNeeded(r, <<"MSG">>) \in Seq(QueuedEvent)
      <4>1. <<"MSG">> \in Seq(SendItem)
        BY DEF SendItem
      <4>2. QED
        BY <3>1, <4>1, WriteNeededType, Zenon
    <3>3. event_queue' = [event_queue EXCEPT ![queue[r]] =
                            @ \o WriteNeeded(r, <<"MSG">>)]
      BY <1>2, <2>1, Zenon DEF WriterNotify
    <3>4. event_queue' \in [EventQueues -> Seq(QueuedEvent)]
      BY <3>1, <3>2, <3>3 DEF TypeOK
    <3>5. QED
      BY <1>2, <2>1, <3>4, Zenon DEF WriterNotify, TypeOK, rpcVars, grpcVars
  <2>2. CASE r \notin active
    BY <1>2, <2>2, Zenon DEF WriterNotify, TypeOK, rpcVars, grpcVars, Fault
  <2>3. QED
    BY <2>1, <2>2, Zenon
<1>3. CASE WriterReturn(w)
  BY <1>3, Zenon DEF WriterReturn, TypeOK, rpcVars, threadVars, grpcVars
<1>4. QED
  BY <1>1, <1>2, <1>3, Zenon DEF WriterStep

\* The steps of gRPC and the clients other than RunCompletionQueue: a tag or a
\* call changes, and nothing in the library does.
LEMMA TypeGrpc ==
  ASSUME TypeOK, NEW r \in Rpcs,
         \/ ClientStep(r)
         \/ RequestFails(r)
         \/ ReadFails(r)
         \/ WriteCompletes(r)
         \/ FinishCompletes(r)
         \/ CallIsDone(r)
  PROVE TypeOK'
<1>1. ASSUME NEW e \in CqEvent, NEW result \in {"ok", "failed"},
             Complete(r, e, result),
             call' \in [Rpcs -> {"none", "open", "over"}],
             requests' \in [Rpcs -> 0..MaxRequests],
             calls' \in 0..MaxCalls
      PROVE TypeOK'
  <2>1. tag' \in [Rpcs -> [CqEvent -> TagState]]
    BY <1>1, Zenon DEF Complete, TypeOK, TagState
  <2>2. QED
    BY <1>1, <2>1, Zenon
       DEF Complete, TypeOK, rpcVars, threadVars, writerVars
<1>2. /\ call \in [Rpcs -> {"none", "open", "over"}]
      /\ requests \in [Rpcs -> 0..MaxRequests]
      /\ calls \in 0..MaxCalls
  BY Zenon DEF TypeOK
<1> USE DEF CqEvent
<1>3. CASE IncomingCall(r)
  <2>1. calls' \in 0..MaxCalls
    BY <1>2, <1>3, SizeAssumption DEF IncomingCall
  <2>2. QED
    BY <1>1, <1>2, <1>3, <2>1, Zenon DEF IncomingCall
<1>4. CASE ClientSends(r)
  <2>1. requests' \in [Rpcs -> 0..MaxRequests]
    BY <1>2, <1>4, SizeAssumption DEF ClientSends
  <2>2. QED
    BY <1>1, <1>2, <1>4, <2>1, Zenon DEF ClientSends
<1>5. CASE ClientWritesDone(r)
  BY <1>1, <1>2, <1>5, Zenon DEF ClientWritesDone
<1>6. CASE ClientCancels(r)
  BY <1>2, <1>6, Zenon
     DEF ClientCancels, TypeOK, rpcVars, threadVars, writerVars
<1>7. CASE RequestFails(r)
  BY <1>1, <1>2, <1>7, Zenon DEF RequestFails
<1>8. CASE ReadFails(r)
  BY <1>1, <1>2, <1>8, Zenon DEF ReadFails
<1>9. CASE WriteCompletes(r)
  BY <1>1, <1>2, <1>9, Zenon DEF WriteCompletes
<1>10. CASE FinishCompletes(r)
  BY <1>1, <1>2, <1>10, Zenon DEF FinishCompletes
<1>11. CASE CallIsDone(r)
  BY <1>1, <1>2, <1>11, Zenon DEF CallIsDone
<1>12. QED
  BY <1>3, <1>4, <1>5, <1>6, <1>7, <1>8, <1>9, <1>10, <1>11, Zenon
     DEF ClientStep

LEMMA TypeNext == TypeOK /\ [Next]_vars => TypeOK'
<1> SUFFICES ASSUME TypeOK, [Next]_vars PROVE TypeOK'
  OBVIOUS
<1>1. CASE Stop
  BY <1>1, TypeStop, Zenon
<1>2. CASE Serve
  BY Zenon, <1>2, TypeStartServing, TypeEventQueue, TypeCompletionQueue,
     TypeWriter,
     TypeGrpc DEF Serve, GrpcStep
<1>3. CASE UNCHANGED vars
  BY <1>3, Zenon DEF vars, rpcVars, threadVars, grpcVars, writerVars, TypeOK
<1>4. QED
  BY <1>1, <1>2, <1>3, Zenon DEF Next

\* The variables of the service always have the types that TypeOK gives them; in
\* particular the round robin of event queues stays in its range.
THEOREM TypeCorrect == Spec => []TypeOK
BY TypeInit, TypeNext, PTL DEF Spec

-----------------------------------------------------------------------------
(* What event threads and Writers do to the event queues *)

LEMMA PoppedIsPopAndPush ==
  ASSUME TypeOK, NEW q \in EventQueues, NEW r, event_queue[q] # <<>>,
         event_queue' = Popped(q)
  PROVE PopAndPush(q, r)
<1> SUFFICES ASSUME NEW q2 \in EventQueues
             PROVE PopAndPush(q, r)!(q2)
  BY Zenon DEF PopAndPush
<1>1. event_queue[q2] \in Seq(QueuedEvent)
  BY Zenon DEF TypeOK
<1>2. CASE q2 = q
  <2>1. event_queue'[q2] = Tail(event_queue[q2])
    BY <1>2, Zenon DEF Popped, TypeOK
  <2>2. QED
    BY <1>1, <1>2, <2>1 DEF Shift
<1>3. CASE q2 # q
  <2>1. event_queue'[q2] = event_queue[q2]
    BY <1>3, Zenon DEF Popped, TypeOK
  <2>2. QED
    BY <1>1, <1>3, <2>1 DEF Shift
<1>4. QED
  BY <1>2, <1>3, Zenon

\* Rpc::Write and Rpc::Finish push WRITE_NEEDED for their Rpc.
LEMMA WriteNeededEvents ==
  ASSUME NEW r \in Rpcs, NEW s \in Seq(SendItem)
  PROVE /\ WriteNeeded(r, s) \in Seq(QueuedEvent)
        /\ Len(WriteNeeded(r, s)) = Len(s)
        /\ \A i \in 1..Len(WriteNeeded(r, s)) :
             /\ WriteNeeded(r, s)[i].rpc = r
             /\ WriteNeeded(r, s)[i].event = "WRITE_NEEDED"
BY WriteNeededType DEF WriteNeeded

LEMMA SendIsPopAndPush ==
  ASSUME TypeOK, NEW q \in EventQueues, NEW r \in Rpcs, event_queue[q] # <<>>,
         NEW s \in Seq(SendItem), Send(q, r, s)
  PROVE PopAndPush(q, r)
<1> SUFFICES ASSUME NEW q2 \in EventQueues
             PROVE PopAndPush(q, r)!(q2)
  BY Zenon DEF PopAndPush
<1> DEFINE new == WriteNeeded(r, s)
           old == Popped(q)[q2]
<1>1. event_queue[q2] \in Seq(QueuedEvent)
  BY Zenon DEF TypeOK
<1>2. /\ new \in Seq(QueuedEvent)
      /\ Len(new) = Len(s)
      /\ \A i \in 1..Len(new) : /\ new[i].rpc = r
                                /\ new[i].event = "WRITE_NEEDED"
  BY WriteNeededEvents, Zenon
<1>3. /\ old \in Seq(QueuedEvent)
      /\ Len(old) = Len(event_queue[q2]) - Shift(q2, q)
      /\ \A i \in 1..Len(old) : old[i] = event_queue[q2][i + Shift(q2, q)]
  <2>1. CASE q2 = q
    <3>1. old = Tail(event_queue[q2])
      BY <2>1, Zenon DEF Popped, TypeOK
    <3>2. QED
      BY <1>1, <2>1, <3>1 DEF Shift
  <2>2. CASE q2 # q
    <3>1. old = event_queue[q2]
      BY <2>2, Zenon DEF Popped, TypeOK
    <3>2. QED
      BY <1>1, <2>2, <3>1 DEF Shift
  <2>3. QED
    BY <2>1, <2>2, Zenon
<1>4. Popped(q) \in [EventQueues -> Seq(QueuedEvent)]
  BY HeadType, Zenon
<1>5. CASE q2 = queue[r]
  <2>1. event_queue'[q2] = old \o new
    BY <1>4, <1>5, Zenon DEF Send
  <2> HIDE DEF new, old
  <2>2. /\ Len(old \o new) = Len(old) + Len(new)
        /\ Len(old) \in Nat /\ Len(new) \in Nat
        /\ \A i \in 1..Len(old) : (old \o new)[i] = old[i]
        /\ \A i \in (Len(old) + 1)..(Len(old) + Len(new)) :
             (old \o new)[i] = new[i - Len(old)]
    <3>1. old \in Seq(QueuedEvent) /\ new \in Seq(QueuedEvent)
      BY <1>2, <1>3, Zenon
    <3>2. QED
      BY <3>1, Concat, Zenon
  <2>3. Len(event_queue[q2]) \in Nat /\ Shift(q2, q) \in {0, 1}
    BY <1>1 DEF Shift
  <2>4. ASSUME NEW i \in 1..Len(event_queue'[q2])
        PROVE PopAndPush(q, r)!(q2)!1!(i)
    <3>1. CASE i \in 1..Len(old)
      <4>1. event_queue'[q2][i] = event_queue[q2][i + Shift(q2, q)]
        BY <1>3, <2>1, <2>2, <3>1, Zenon
      <4>2. i + Shift(q2, q) \in 1..Len(event_queue[q2])
        BY <1>3, <2>3, <3>1
      <4>3. QED
        BY <4>1, <4>2, Zenon
    <3>2. CASE i > Len(old)
      <4>1. i - Len(old) \in 1..Len(new)
        BY <2>1, <2>2, <2>3, <3>2
      <4>2. QED
        BY <1>2, <1>5, <2>1, <2>2, <3>2, <4>1
    <3>3. QED
      BY <2>1, <2>2, <2>3, <3>1, <3>2
  <2>5. ASSUME NEW i \in 1..Len(event_queue[q2]), i > Shift(q2, q)
        PROVE /\ i - Shift(q2, q) \in 1..Len(event_queue'[q2])
              /\ event_queue'[q2][i - Shift(q2, q)] = event_queue[q2][i]
    <3>1. i - Shift(q2, q) \in 1..Len(old)
      <4>1. Len(old) = Len(event_queue[q2]) - Shift(q2, q)
        BY <1>3, Zenon
      <4>2. QED
        BY <2>3, <2>5, <4>1
    <3>2. i - Shift(q2, q) \in 1..Len(event_queue'[q2])
      BY <2>1, <2>2, <3>1
    <3>3. (old \o new)[i - Shift(q2, q)] = old[i - Shift(q2, q)]
      BY <2>2, <3>1, Zenon
    <3>4. old[i - Shift(q2, q)]
            = event_queue[q2][(i - Shift(q2, q)) + Shift(q2, q)]
      BY <1>3, <3>1, Zenon
    <3>5. (i - Shift(q2, q)) + Shift(q2, q) = i
      BY <2>3
    <3>6. QED
      BY <2>1, <3>2, <3>3, <3>4, <3>5, Zenon
  <2>6. QED
    BY <2>4, <2>5, Zenon
<1>6. CASE q2 # queue[r]
  <2>1. event_queue'[q2] = old
    BY <1>4, <1>6, Zenon DEF Send
  <2> HIDE DEF new, old
  <2>2. ASSUME NEW i \in 1..Len(event_queue'[q2])
        PROVE /\ i + Shift(q2, q) \in 1..Len(event_queue[q2])
              /\ event_queue'[q2][i] = event_queue[q2][i + Shift(q2, q)]
    <3>1. Len(event_queue[q2]) \in Nat /\ Shift(q2, q) \in {0, 1}
      BY <1>1 DEF Shift
    <3>2. i \in 1..(Len(event_queue[q2]) - Shift(q2, q))
      BY <1>3, <2>1, Zenon
    <3>3. i + Shift(q2, q) \in 1..Len(event_queue[q2])
      BY <3>1, <3>2
    <3>4. QED
      BY <1>3, <2>1, <3>3, Zenon
  <2>3. ASSUME NEW i \in 1..Len(event_queue[q2]), i > Shift(q2, q)
        PROVE /\ i - Shift(q2, q) \in 1..Len(event_queue'[q2])
              /\ event_queue'[q2][i - Shift(q2, q)] = event_queue[q2][i]
    <3>1. Len(event_queue[q2]) \in Nat /\ Shift(q2, q) \in {0, 1}
      BY <1>1 DEF Shift
    <3>2. i - Shift(q2, q) \in 1..Len(old)
      BY <1>3, <2>3, <3>1
    <3>3. (i - Shift(q2, q)) + Shift(q2, q) = i
      BY <2>3, <3>1
    <3>4. QED
      BY <1>3, <2>1, <3>2, <3>3, Zenon
  <2>4. QED
    BY <2>2, <2>3, Zenon
<1>7. QED
  BY <1>5, <1>6, Zenon

\* A Writer's push leaves all other events where they are.
LEMMA NotifyPushes ==
  ASSUME TypeOK, NEW r \in Rpcs,
         event_queue' = [event_queue EXCEPT ![queue[r]] =
                           @ \o WriteNeeded(r, <<"MSG">>)]
  PROVE \A q \in EventQueues :
          /\ \A i \in 1..Len(event_queue'[q]) :
               \/ /\ q = queue[r]
                  /\ event_queue'[q][i].rpc = r
                  /\ event_queue'[q][i].event = "WRITE_NEEDED"
               \/ /\ i \in 1..Len(event_queue[q])
                  /\ event_queue'[q][i] = event_queue[q][i]
          /\ \A i \in 1..Len(event_queue[q]) :
               /\ i \in 1..Len(event_queue'[q])
               /\ event_queue'[q][i] = event_queue[q][i]
<1> TAKE q \in EventQueues
<1> DEFINE new == WriteNeeded(r, <<"MSG">>)
           old == event_queue[q]
<1>1. <<"MSG">> \in Seq(SendItem)
  BY DEF SendItem
<1>2. /\ new \in Seq(QueuedEvent)
      /\ \A i \in 1..Len(new) : /\ new[i].rpc = r
                                /\ new[i].event = "WRITE_NEEDED"
  BY <1>1, WriteNeededEvents, Zenon
<1>3. old \in Seq(QueuedEvent)
  BY Zenon DEF TypeOK
<1>4. CASE q = queue[r]
  <2>1. event_queue'[q] = old \o new
    BY <1>4, Zenon DEF TypeOK
  <2> HIDE DEF new, old
  <2>2. /\ Len(old \o new) = Len(old) + Len(new)
        /\ Len(old) \in Nat /\ Len(new) \in Nat
        /\ \A i \in 1..Len(old) : (old \o new)[i] = old[i]
        /\ \A i \in (Len(old) + 1)..(Len(old) + Len(new)) :
             (old \o new)[i] = new[i - Len(old)]
    BY <1>2, <1>3, Concat, Zenon
  <2>3. ASSUME NEW i \in 1..Len(event_queue'[q])
        PROVE \/ /\ event_queue'[q][i].rpc = r
                 /\ event_queue'[q][i].event = "WRITE_NEEDED"
              \/ i \in 1..Len(old) /\ event_queue'[q][i] = old[i]
    <3>1. CASE i \in 1..Len(old)
      BY <2>1, <2>2, <3>1, Zenon
    <3>2. CASE i \in (Len(old) + 1)..(Len(old) + Len(new))
      <4>1. i - Len(old) \in 1..Len(new)
        BY <2>2, <3>2
      <4>2. QED
        BY <1>2, <2>1, <2>2, <3>2, <4>1, Zenon
    <3>3. i \in 1..Len(old) \/ i \in (Len(old) + 1)..(Len(old) + Len(new))
      <4>1. Len(event_queue'[q]) = Len(old) + Len(new)
        BY <2>1, <2>2, Zenon
      <4>2. QED
        BY <2>2, <4>1
    <3>4. QED
      BY <3>1, <3>2, <3>3, Zenon
  <2>4. ASSUME NEW i \in 1..Len(old)
        PROVE i \in 1..Len(event_queue'[q]) /\ event_queue'[q][i] = old[i]
    <3>1. Len(event_queue'[q]) = Len(old) + Len(new)
      BY <2>1, <2>2, Zenon
    <3>2. i \in 1..Len(event_queue'[q])
      BY <2>2, <3>1
    <3>3. event_queue'[q][i] = (old \o new)[i]
      BY <2>1, Zenon
    <3>4. QED
      BY <2>2, <3>2, <3>3, Zenon
  <2>5. QED
    BY <1>4, <2>3, <2>4, Zenon DEF old
<1>5. CASE q # queue[r]
  <2>1. event_queue'[q] = event_queue[q]
    BY <1>5, Zenon DEF TypeOK
  <2>2. QED
    BY <2>1, Zenon
<1>6. QED
  BY <1>4, <1>5, Zenon

\* Both ways to write what happens to the flags and tags of an Rpc.
LEMMA HandledNoOp ==
  ASSUME TypeOK, NEW q \in EventQueues, event_queue[q] # <<>>,
         LET ev == Head(event_queue[q]) r == ev.rpc IN
           /\ pending' = [pending EXCEPT ![r] = @ \ {ev.event}]
           /\ tag' = [tag EXCEPT ![r] = TagsAfter(ev)]
           /\ PopAndPush(q, r)
           /\ \A r2 \in Rpcs \ {r} : handler'[r2] = handler[r2]
           /\ handler'[r] # handler[r]
                => ev.event \in {"NEW_CONNECTION", "READ"}
           /\ finishing' = finishing,
         fault' # "op_in_flight"
  PROVE Handled(q, {})
<1> DEFINE ev == Head(event_queue[q])
           r == ev.rpc
<1>1. TagsAfter(ev) = [e \in CqEvent |-> IF e \in {} THEN "started"
                                         ELSE TagsAfter(ev)[e]]
  BY Zenon DEF TagsAfter
<1>2. pending[r] \ {ev.event} = (pending[r] \ {ev.event}) \cup {}
  BY Zenon
<1>3. QED
  BY <1>1, <1>2, Zenon DEF Handled

LEMMA HandledOp ==
  ASSUME TypeOK, NEW q \in EventQueues, event_queue[q] # <<>>,
         NEW e \in {"READ", "WRITE", "FINISH"},
         LET ev == Head(event_queue[q]) r == ev.rpc IN
           /\ StartOp(r, pending[r] \ {ev.event}, TagsAfter(ev), e)
           /\ PopAndPush(q, r)
           /\ \A r2 \in Rpcs \ {r} : handler'[r2] = handler[r2]
           /\ handler'[r] # handler[r]
                => ev.event \in {"NEW_CONNECTION", "READ"}
           /\ e = "READ"
                => \/ ev.event = "READ" /\ handler'[r] = handler[r]
                   \/ ev.event = "NEW_CONNECTION" /\ handler'[r] = "reading"
           /\ e \in {"WRITE", "FINISH"}
                => {"WRITE", "FINISH"} \cap (pending[r] \ {ev.event}) = {}
           /\ finishing \subseteq finishing'
           /\ e = "FINISH" => r \in finishing'
           /\ fault' = "op_in_flight" => TagsAfter(ev)[e] # "idle"
  PROVE Handled(q, {e})
<1> DEFINE ev == Head(event_queue[q])
           r == ev.rpc
<1>0. e \in CqEvent /\ {e} \subseteq {"READ", "WRITE", "FINISH"}
  BY Zenon DEF CqEvent
<1>1. [TagsAfter(ev) EXCEPT ![e] = "started"]
        = [e2 \in CqEvent |-> IF e2 \in {e} THEN "started"
                              ELSE TagsAfter(ev)[e2]]
  BY <1>0, Zenon DEF TagsAfter
<1>2. pending' = [pending EXCEPT ![r] = (@ \ {ev.event}) \cup {e}]
  BY Zenon DEF StartOp
<1>3. tag' = [tag EXCEPT ![r] = [e2 \in CqEvent |->
                                   IF e2 \in {e} THEN "started"
                                   ELSE TagsAfter(ev)[e2]]]
  BY <1>1, Zenon DEF StartOp
<1>4. "READ" \in {e} => e = "READ"
  OBVIOUS
<1>5. "FINISH" \in {e} => e = "FINISH"
  OBVIOUS
<1>6. {e} \cap {"WRITE", "FINISH"} # {} => e \in {"WRITE", "FINISH"}
  OBVIOUS
<1> HIDE DEF ev
<1>7. QED
  BY <1>0, <1>2, <1>3, <1>4, <1>5, <1>6, Zenon DEF Handled, ev

LEMMA OpInFlight ==
  ASSUME NEW r, NEW t, NEW e, OpFault(r, t, e) = "op_in_flight"
  PROVE t[e] # "idle"
BY Zenon DEF OpFault

LEMMA EventIsHandled ==
  ASSUME TypeOK, NEW q \in EventQueues, EventStep(q)
  PROVE EventEffects(q)
<1> DEFINE ev == Head(event_queue[q])
           r == ev.rpc
<1>1. /\ event_queue[q] # <<>>
      /\ relisten[q] = NoRpc
      /\ fault = "none"
  BY Zenon DEF EventStep, RefuseConnection, AcceptConnection, HandleRequest,
         HandleReadsDone, HandleWrite, HandleFinishOrDone, IgnoreStaleEvent,
         NextEventIn
<1>2. /\ UNCHANGED <<created, listener, queue, writerVars>>
      /\ \A r2 \in Rpcs \ {r} : send_queue'[r2] = send_queue[r2]
      /\ \/ relisten' = relisten
         \/ relisten' = [relisten EXCEPT ![q] = r]
  <2>1. UNCHANGED <<created, listener, queue, writerVars>>
    BY Zenon DEF EventStep, RefuseConnection, AcceptConnection, HandleRequest,
           HandleReadsDone, HandleWrite, HandleFinishOrDone, IgnoreStaleEvent,
           rpcVars
  <2>2. \/ relisten' = relisten
        \/ relisten' = [relisten EXCEPT ![q] = r]
    BY Zenon DEF EventStep, RefuseConnection, AcceptConnection, HandleRequest,
           HandleReadsDone, HandleWrite, HandleFinishOrDone, IgnoreStaleEvent
  <2>3. \/ send_queue' = send_queue
        \/ \E s : send_queue' = [send_queue EXCEPT ![r] = s]
    BY Zenon DEF EventStep, RefuseConnection, AcceptConnection, OnConnection,
           HandleRequest, HandleReadsDone, HandleWrite, HandleSendQueue, Send,
           HandleFinishOrDone, IgnoreStaleEvent, rpcVars
  <2>4. QED
    BY <2>1, <2>2, <2>3, Zenon DEF TypeOK
<1>3. /\ r \in Rpcs
      /\ handler \in [Rpcs -> {"null", "reading", "reads_done"}]
      /\ \A s \in RequestScripts[Type(r)] : s \in Seq(SendItem)
      /\ \A s \in ReadsDoneScripts[Type(r)] : s \in Seq(SendItem)
  BY <1>1, HeadType, ScriptsOfRpc, Zenon DEF TypeOK
<1>4. event_queue' = Popped(q) => PopAndPush(q, r)
  BY <1>1, PoppedIsPopAndPush, Zenon
<1>5. \A s \in Seq(SendItem) : Send(q, r, s) => PopAndPush(q, r)
  BY <1>1, <1>3, SendIsPopAndPush, Zenon
<1>6. /\ Handled(q, {}) => EventEffects(q)
      /\ \A e \in CqEvent : Handled(q, {e}) => EventEffects(q)
  <2>1. {} \in SUBSET CqEvent /\ \A e \in CqEvent : {e} \in SUBSET CqEvent
    OBVIOUS
  <2>2. QED
    BY <1>1, <1>2, <2>1, Zenon DEF EventEffects
<1>7. CASE RefuseConnection(q)
  <2>1. Handled(q, {})
    BY <1>1, <1>3, <1>4, <1>7, HandledNoOp, Zenon DEF RefuseConnection
  <2>2. QED
    BY <1>6, <2>1, Zenon
<1>8. CASE AcceptConnection(q)
  <2>1. ev.event = "NEW_CONNECTION"
    BY <1>8, Zenon DEF AcceptConnection, NextEventIn
  <2>2. finishing' = finishing
    BY <1>8, Zenon DEF AcceptConnection
  <2>3. CASE ev.ok /\ StreamsRequests(r)
    <3>1. OnConnection(q, r, pending[r] \ {ev.event}, TagsAfter(ev))
      BY <1>8, <2>3, Zenon DEF AcceptConnection
    <3>2. /\ handler' = [handler EXCEPT ![r] = "reading"]
          /\ StartOp(r, pending[r] \ {ev.event}, TagsAfter(ev), "READ")
          /\ fault' = OpFault(r, TagsAfter(ev), "READ")
          /\ event_queue' = Popped(q)
      BY <2>3, <3>1, Zenon DEF OnConnection
    <3>3. /\ handler'[r] = "reading"
          /\ \A r2 \in Rpcs \ {r} : handler'[r2] = handler[r2]
      BY <1>3, <3>2, Zenon
    <3>4. "READ" \in CqEvent
      BY Zenon DEF CqEvent
    <3>5. fault' = "op_in_flight" => TagsAfter(ev)["READ"] # "idle"
      BY <3>2, OpInFlight, Zenon
    <3>6. PopAndPush(q, r)
      BY <1>4, <3>2, Zenon
    <3>7. Handled(q, {"READ"})
      BY <1>1, <2>1, <2>2, <3>2, <3>3, <3>4, <3>5, <3>6, HandledOp, Zenon
    <3>8. QED
      BY <1>6, <3>4, <3>7, Zenon
  <2>4. CASE ev.ok /\ ~StreamsRequests(r)
    <3>1. OnConnection(q, r, pending[r] \ {ev.event}, TagsAfter(ev))
      BY <1>8, <2>4, Zenon DEF AcceptConnection
    <3>2. PICK s1 \in RequestScripts[Type(r)],
               s2 \in ReadsDoneScripts[Type(r)] : Send(q, r, s1 \o s2)
      BY <2>4, <3>1, Zenon DEF OnConnection
    <3>3. s1 \o s2 \in Seq(SendItem)
      BY <1>3
    <3>4. PopAndPush(q, r)
      BY <1>5, <3>2, <3>3, Zenon
    <3>5. /\ handler' = [handler EXCEPT ![r] = "reads_done"]
          /\ pending' = [pending EXCEPT ![r] = @ \ {ev.event}]
          /\ tag' = [tag EXCEPT ![r] = TagsAfter(ev)]
          /\ fault' # "op_in_flight"
      BY <1>1, <2>4, <3>1, Zenon DEF OnConnection
    <3>6. \A r2 \in Rpcs \ {r} : handler'[r2] = handler[r2]
      BY <1>3, <3>5, Zenon
    <3>7. Handled(q, {})
      BY <1>1, <2>1, <2>2, <3>4, <3>5, <3>6, HandledNoOp, ZenonT(40)
    <3>8. QED
      BY <1>6, <3>7, Zenon
  <2>5. CASE ~ev.ok
    <3>1. /\ event_queue' = Popped(q)
          /\ pending' = [pending EXCEPT ![r] = @ \ {ev.event}]
          /\ tag' = [tag EXCEPT ![r] = TagsAfter(ev)]
          /\ fault' # "op_in_flight"
          /\ handler' = handler
      BY <1>8, <2>5, Zenon DEF AcceptConnection
    <3>2. Handled(q, {})
      BY <1>1, <1>4, <2>2, <3>1, HandledNoOp, ZenonT(40)
    <3>3. QED
      BY <1>6, <3>2, Zenon
  <2>6. QED
    BY <2>3, <2>4, <2>5, Zenon
<1>9. CASE HandleRequest(q)
  <2>1. ev.event = "READ"
    BY <1>9, Zenon DEF HandleRequest, NextEventIn
  <2>2. PopAndPush(q, r)
    BY <1>3, <1>5, <1>9, Zenon DEF HandleRequest
  <2>3. "READ" \in CqEvent
    BY Zenon DEF CqEvent
  <2>4. /\ StartOp(r, pending[r] \ {ev.event}, TagsAfter(ev), "READ")
        /\ fault' = OpFault(r, TagsAfter(ev), "READ")
        /\ handler' = handler
        /\ finishing' = finishing
    BY <1>9, Zenon DEF HandleRequest
  <2>5. Handled(q, {"READ"})
    BY <1>1, <2>1, <2>2, <2>3, <2>4, HandledOp, OpInFlight, Zenon
  <2>6. QED
    BY <1>6, <2>3, <2>5, Zenon
<1>10. CASE HandleReadsDone(q)
  <2>1. ev.event = "READ"
    BY <1>10, Zenon DEF HandleReadsDone, NextEventIn
  <2>2. PopAndPush(q, r)
    BY <1>3, <1>5, <1>10, Zenon DEF HandleReadsDone
  <2>3. \A r2 \in Rpcs \ {r} : handler'[r2] = handler[r2]
    BY <1>3, <1>10, Zenon DEF HandleReadsDone
  <2>4. Handled(q, {})
    BY <1>1, <1>10, <2>1, <2>2, <2>3, HandledNoOp, Zenon DEF HandleReadsDone
  <2>5. QED
    BY <1>6, <2>4, Zenon
<1>11. CASE HandleWrite(q)
  <2> DEFINE p == pending[r] \ {ev.event}
             t == TagsAfter(ev)
  <2>1. HandleSendQueue(r, p, t) /\ handler' = handler /\ PopAndPush(q, r)
    BY <1>4, <1>11, Zenon DEF HandleWrite
  <2>2. CASE ~CanSend(r, p)
    <3>1. /\ pending' = [pending EXCEPT ![r] = p]
          /\ tag' = [tag EXCEPT ![r] = t]
          /\ UNCHANGED <<finishing, fault>>
      BY <2>1, <2>2, Zenon DEF HandleSendQueue
    <3>2. Handled(q, {})
      BY <1>1, <2>1, <3>1, HandledNoOp, Zenon
    <3>3. QED
      BY <1>6, <3>2, Zenon
  <2>3. CASE CanSend(r, p) /\ PerformFinish(r, p, t, Head(send_queue[r]))
    <3>1. {"WRITE", "FINISH"} \cap p = {} /\ "FINISH" \in CqEvent
      BY <2>3, Zenon DEF CanSend, CqEvent
    <3>2. /\ StartOp(r, p, t, "FINISH")
          /\ finishing' = finishing \cup {r}
          /\ fault' = "op_in_flight" => t["FINISH"] # "idle"
      BY <2>3, OpInFlight, ZenonT(30) DEF PerformFinish
    <3>3. Handled(q, {"FINISH"})
      BY <1>1, <2>1, <3>1, <3>2, HandledOp, Zenon
    <3>4. QED
      BY <1>6, <3>1, <3>3, Zenon
  <2>4. CASE CanSend(r, p) /\ PerformWrite(r, p, t)
    <3>1. {"WRITE", "FINISH"} \cap p = {} /\ "WRITE" \in CqEvent
      BY <2>4, Zenon DEF CanSend, CqEvent
    <3>2. /\ StartOp(r, p, t, "WRITE")
          /\ finishing' = finishing
          /\ fault' = "op_in_flight" => t["WRITE"] # "idle"
      BY <2>4, OpInFlight, Zenon DEF PerformWrite
    <3>3. Handled(q, {"WRITE"})
      BY <1>1, <2>1, <3>1, <3>2, HandledOp, Zenon
    <3>4. QED
      BY <1>6, <3>1, <3>3, Zenon
  <2>5. QED
    BY <2>1, <2>2, <2>3, <2>4, Zenon DEF HandleSendQueue
<1>12. CASE HandleFinishOrDone(q)
  <2>1. Handled(q, {})
    BY <1>1, <1>4, <1>12, HandledNoOp, Zenon DEF HandleFinishOrDone
  <2>2. QED
    BY <1>6, <2>1, Zenon
<1>13. CASE IgnoreStaleEvent(q)
  <2>1. ev.event = "WRITE_NEEDED" /\ "WRITE_NEEDED" \notin CqEvent
    <3>1. ev.event = "WRITE_NEEDED"
      BY <1>13, Zenon DEF IgnoreStaleEvent, NextEventIn
    <3>2. "WRITE_NEEDED" \notin CqEvent
      BY Zenon DEF CqEvent
    <3>3. QED
      BY <3>1, <3>2, Zenon
  <2>2. pending[r] \ {ev.event} = pending[r] /\ TagsAfter(ev) = tag[r]
    <3>1. pending[r] \subseteq CqEvent /\ tag[r] \in [CqEvent -> TagState]
      BY <1>3, Zenon DEF TypeOK
    <3>2. \A e \in CqEvent : e # ev.event
      BY <2>1, Zenon
    <3>3. pending[r] \ {ev.event} = pending[r]
      BY <3>1, <3>2, Zenon
    <3>4. \A e \in CqEvent : TagsAfter(ev)[e] = tag[r][e]
      BY <3>2, Zenon DEF TagsAfter
    <3>5. TagsAfter(ev) = [e \in CqEvent |-> TagsAfter(ev)[e]]
      BY Zenon DEF TagsAfter
    <3>6. QED
      BY <3>1, <3>3, <3>4, <3>5, Zenon
  <2>3. /\ pending = [pending EXCEPT ![r] = @ \ {ev.event}]
        /\ tag = [tag EXCEPT ![r] = TagsAfter(ev)]
    BY <1>3, <2>2, Zenon DEF TypeOK
  <2>4. Handled(q, {})
    BY <1>1, <1>4, <1>13, <2>3, HandledNoOp, Zenon
       DEF IgnoreStaleEvent, rpcVars, grpcVars
  <2>5. QED
    BY <1>6, <2>4, Zenon
<1>14. QED
  BY <1>7, <1>8, <1>9, <1>10, <1>11, <1>12, <1>13, Zenon DEF EventStep

\* A push of WRITE_NEEDED by a Writer leaves the old events where they are.
LEMMA WriterPreservesTags ==
  ASSUME TagInv, TypeOK', NEW w \in Writers, WriterStep(w)
  PROVE TagInv'
<1>1. TypeOK /\ TypeOK'
  BY Zenon DEF TagInv
<1>2. UNCHANGED <<created, pending, queue, handler, relisten, tag, finishing>>
  BY Zenon DEF WriterStep, WriterEnqueue, WriterNotify, WriterReturn, rpcVars,
         threadVars, grpcVars
<1>3. /\ UsedTagsArePending' /\ ConnectionComesFirst' /\ PendingFinish'
      /\ ReadsDoneIsFinal'
  BY <1>2, Zenon
     DEF TagInv, UsedTagsArePending, ConnectionComesFirst, PendingFinish,
         ReadsDoneIsFinal
<1>4. ASSUME UNCHANGED event_queue, fault' # "op_in_flight"
      PROVE OneThreadPerRpc' /\ QueuedTags' /\ EventObjectsAreNotShared'
  <2>1. OneThreadPerRpc'
    BY <1>2, <1>4, Zenon DEF TagInv, OneThreadPerRpc
  <2>2. QueuedTags'
    BY <1>2, <1>4, QueuedTagsKept, Zenon
  <2>3. EventObjectsAreNotShared'
    BY <1>4, NothingPushed, Zenon DEF TagInv
  <2>4. QED
    BY <2>1, <2>2, <2>3, ZenonT(30)
<1>5. ASSUME NEW r \in Rpcs, NEW item \in WriterItems,
             WriterEnqueue(w, r, item)
      PROVE TagInv'
  <2>1. r \in 1..created
    BY <1>5, AliveIsCreated, Zenon DEF WriterEnqueue
  <2>2. /\ UNCHANGED event_queue
        /\ fault' = "none"
        /\ \A r2 \in Rpcs \ {r} : send_queue'[r2] = send_queue[r2]
        /\ \A w2 \in Writers : writer_rpc'[w2] \in {r, writer_rpc[w2]}
    BY <1>1, <1>5, Zenon DEF WriterEnqueue, threadVars, TypeOK
  <2>3. OnlyCreatedRpcs'
    BY <1>2, <2>1, <2>2, Zenon DEF TagInv, OnlyCreatedRpcs
  <2>4. QED
    BY <1>1, <1>3, <1>4, <2>2, <2>3, Zenon DEF TagInv
<1>6. CASE WriterReturn(w)
  <2>1. /\ UNCHANGED <<event_queue, send_queue>>
        /\ fault' = "none"
        /\ \A w2 \in Writers : writer_rpc'[w2] \in {NoRpc, writer_rpc[w2]}
    BY <1>1, <1>6, ZenonT(30) DEF WriterReturn, rpcVars, threadVars, TypeOK
  <2>2. OnlyCreatedRpcs'
    BY <1>2, <2>1, Zenon DEF TagInv, OnlyCreatedRpcs
  <2>3. QED
    BY <1>1, <1>3, <1>4, <2>1, <2>2, Zenon DEF TagInv
<1>7. CASE WriterNotify(w)
  <2> DEFINE r == writer_rpc[w]
  <2>1. UNCHANGED <<send_queue, writer_rpc>>
    BY <1>7, Zenon DEF WriterNotify, rpcVars
  <2>2. CASE r \notin active
    <3>1. UNCHANGED event_queue /\ fault' # "op_in_flight"
      BY <1>7, <2>2, Zenon DEF WriterNotify
    <3>2. OnlyCreatedRpcs'
      BY <1>2, <2>1, <3>1, Zenon DEF TagInv, OnlyCreatedRpcs
    <3>3. QED
      BY <1>1, <1>3, <1>4, <3>1, <3>2, Zenon DEF TagInv
  <2>3. CASE r \in active
    <3>1. r \in Rpcs /\ r \in 1..created /\ queue[r] \in EventQueues
      BY <1>1, <2>3, ActiveRpcs, Zenon DEF TypeOK
    <3>2. fault' = "none"
      BY <1>7, <2>3, Zenon DEF WriterNotify
    <3>3. event_queue' = [event_queue EXCEPT ![queue[r]] =
                            @ \o WriteNeeded(r, <<"MSG">>)]
      BY <1>7, <2>3, Zenon DEF WriterNotify
    <3>4. \A q \in EventQueues : \A i \in 1..Len(event_queue'[q]) :
            \/ /\ q = queue[r]
               /\ event_queue'[q][i].rpc = r
               /\ event_queue'[q][i].event = "WRITE_NEEDED"
            \/ /\ i \in 1..Len(event_queue[q])
               /\ event_queue'[q][i] = event_queue[q][i]
      BY <1>1, <3>1, <3>3, NotifyPushes, Zenon
    <3>5. OnlyCreatedRpcs'
      <4>1. \A q \in EventQueues : \A i \in 1..Len(event_queue'[q]) :
              event_queue'[q][i].rpc \in 1..created
        BY <3>1, <3>4, Zenon DEF TagInv, OnlyCreatedRpcs
      <4>2. QED
        BY <1>2, <2>1, <4>1, Zenon DEF TagInv, OnlyCreatedRpcs
    <3>6. OneThreadPerRpc'
      BY <1>2, <3>4 DEF TagInv, OneThreadPerRpc
    <3>7. QueuedTags'
      <4>1. "WRITE_NEEDED" \notin CqEvent
        BY Zenon DEF CqEvent
      <4>2. \A q \in EventQueues : \A i \in 1..Len(event_queue'[q]) :
              event_queue'[q][i].event \in CqEvent =>
                /\ i \in 1..Len(event_queue[q])
                /\ event_queue'[q][i] = event_queue[q][i]
        BY <3>4, <4>1, Zenon
      <4>3. \A q \in EventQueues : \A i \in 1..Len(event_queue[q]) :
              event_queue[q][i].event \in CqEvent =>
                tag[event_queue[q][i].rpc][event_queue[q][i].event] = "queued"
        BY ZenonT(40) DEF TagInv, QueuedTags
      <4>4. \A q \in EventQueues : \A i \in 1..Len(event_queue'[q]) :
              event_queue'[q][i].event \in CqEvent =>
                tag[event_queue'[q][i].rpc][event_queue'[q][i].event] = "queued"
        <5> SUFFICES ASSUME NEW q \in EventQueues,
                            NEW i \in 1..Len(event_queue'[q]),
                            event_queue'[q][i].event \in CqEvent
                     PROVE tag[event_queue'[q][i].rpc][event_queue'[q][i].event]
                             = "queued"
          BY Zenon
        <5>1. /\ i \in 1..Len(event_queue[q])
              /\ event_queue'[q][i] = event_queue[q][i]
          BY <4>2, Zenon
        <5>2. tag[event_queue[q][i].rpc][event_queue[q][i].event] = "queued"
          BY <4>3, <5>1, Zenon
        <5>3. QED
          BY <5>1, <5>2, Zenon
      <4>5. QED
        BY <1>2, <4>4, Zenon DEF QueuedTags
    <3>8. EventObjectsAreNotShared'
      <4>1. ASSUME NEW q1 \in EventQueues, NEW q2 \in EventQueues,
                   NEW i \in 1..Len(event_queue'[q1]),
                   NEW j \in 1..Len(event_queue'[q2]),
                   event_queue'[q1][i].rpc = event_queue'[q2][j].rpc,
                   event_queue'[q1][i].event = event_queue'[q2][j].event,
                   event_queue'[q1][i].event # "WRITE_NEEDED"
            PROVE q1 = q2 /\ i = j
        <5>1. /\ i \in 1..Len(event_queue[q1])
              /\ event_queue'[q1][i] = event_queue[q1][i]
              /\ j \in 1..Len(event_queue[q2])
              /\ event_queue'[q2][j] = event_queue[q2][j]
          BY <3>4, <4>1, Zenon
        <5>2. /\ event_queue[q1][i].rpc = event_queue[q2][j].rpc
              /\ event_queue[q1][i].event = event_queue[q2][j].event
              /\ event_queue[q1][i].event # "WRITE_NEEDED"
          BY <4>1, <5>1, Zenon
        <5>3. /\ EventObjectsAreNotShared
              /\ i \in 1..Len(event_queue[q1]) /\ j \in 1..Len(event_queue[q2])
          BY <5>1, Zenon DEF TagInv
        <5>4. QED
          BY <5>2, <5>3, OnePlacePerEvent, ZenonT(40)
      <4>2. QED
        BY <3>2, <4>1, ZenonT(30) DEF EventObjectsAreNotShared
    <3>9. QED
      BY <1>1, <1>3, <3>5, <3>6, <3>7, <3>8, Zenon DEF TagInv
  <2>4. QED
    BY <2>2, <2>3, Zenon
<1>8. QED
  BY <1>5, <1>6, <1>7, Zenon DEF WriterStep

-----------------------------------------------------------------------------
(* TagInv is an invariant *)

\* A step that changes none of the variables TagInv is about preserves it.
LEMMA FramePreservesTags ==
  ASSUME TagInv, TypeOK', fault' # "op_in_flight",
         UNCHANGED <<created, pending, queue, handler, send_queue, event_queue,
                     relisten, writer_rpc, finishing, tag>>
  PROVE TagInv'
<1>1. OnlyCreatedRpcs'
  BY Zenon DEF TagInv, OnlyCreatedRpcs
<1>2. OneThreadPerRpc'
  BY Zenon DEF TagInv, OneThreadPerRpc
<1>3. QueuedTags'
  BY QueuedTagsKept, Zenon
<1>4. EventObjectsAreNotShared'
  BY NothingPushed, Zenon DEF TagInv
<1>5. UsedTagsArePending' /\ ConnectionComesFirst'
  BY Zenon DEF TagInv, UsedTagsArePending, ConnectionComesFirst
<1>6. PendingFinish' /\ ReadsDoneIsFinal'
  BY Zenon DEF TagInv, PendingFinish, ReadsDoneIsFinal
<1>7. QED
  BY <1>1, <1>2, <1>3, <1>4, <1>5, <1>6, Zenon DEF TagInv

\* The event at the head of a queue, its Rpc and its tag.
LEMMA HeadOfQueue ==
  ASSUME TagInv, NEW q \in EventQueues, event_queue[q] # <<>>
  PROVE LET ev == Head(event_queue[q]) IN
        /\ 1 \in 1..Len(event_queue[q])
        /\ ev = event_queue[q][1]
        /\ ev.rpc \in Rpcs
        /\ ev.rpc \in 1..created
        /\ ev.event \in Event
        /\ queue[ev.rpc] = q
        /\ ev.event \in CqEvent => tag[ev.rpc][ev.event] = "queued"
<1>1. event_queue[q] \in Seq(QueuedEvent)
  BY Zenon DEF TagInv, TypeOK
<1>2. 1 \in 1..Len(event_queue[q]) /\ Head(event_queue[q]) = event_queue[q][1]
  BY <1>1
<1>3. PICK ev \in QueuedEvent : ev = Head(event_queue[q])
  BY HeadType, Zenon DEF TagInv
<1>4. ev.rpc \in Rpcs /\ ev.event \in Event
  BY DEF QueuedEvent
<1>5. ev.rpc \in 1..created /\ queue[ev.rpc] = q
  <2>1. event_queue[q][1].rpc \in 1..created
    BY <1>2, Zenon DEF TagInv, OnlyCreatedRpcs
  <2>2. queue[event_queue[q][1].rpc] = q
    BY <1>2, Zenon DEF TagInv, OneThreadPerRpc
  <2>3. QED
    BY <1>2, <1>3, <2>1, <2>2, Zenon
<1>6. ev.event \in CqEvent => tag[ev.rpc][ev.event] = "queued"
  BY <1>2, <1>3, Zenon DEF TagInv, QueuedTags
<1>7. QED
  BY <1>2, <1>3, <1>4, <1>5, <1>6, Zenon

LEMMA EffectsPreserveTags ==
  ASSUME TagInv, TypeOK', NEW q \in EventQueues, EventEffects(q)
  PROVE TagInv'
<1> DEFINE ev == Head(event_queue[q])
           r == ev.rpc
<1>1. /\ event_queue[q] # <<>>
      /\ relisten[q] = NoRpc
      /\ UNCHANGED <<created, listener, queue, writerVars>>
      /\ \A r2 \in Rpcs \ {r} : send_queue'[r2] = send_queue[r2]
      /\ \/ relisten' = relisten
         \/ relisten' = [relisten EXCEPT ![q] = r]
  BY Zenon DEF EventEffects
<1>2. PICK ops \in SUBSET CqEvent : Handled(q, ops)
  BY Zenon DEF EventEffects
<1>3. /\ 1 \in 1..Len(event_queue[q])
      /\ ev = event_queue[q][1]
      /\ r \in Rpcs
      /\ r \in 1..created
      /\ queue[r] = q
      /\ ev.event \in CqEvent => tag[r][ev.event] = "queued"
  BY <1>1, HeadOfQueue, Zenon
<1>4. TypeOK /\ TypeOK'
  BY Zenon DEF TagInv
<1>5. PopAndPush(q, r)
  BY <1>2, Zenon DEF Handled
<1>6. \A q2 \in EventQueues : /\ event_queue[q2] \in Seq(QueuedEvent)
                              /\ Len(event_queue[q2]) \in Nat
                              /\ event_queue'[q2] \in Seq(QueuedEvent)
                              /\ Len(event_queue'[q2]) \in Nat
  BY <1>4 DEF TypeOK
<1>60. \A q2 \in EventQueues : \A i \in 1..Len(event_queue'[q2]) :
         /\ event_queue'[q2][i].rpc \in Rpcs
         /\ event_queue'[q2][i].event \in Event
  <2>1. \A q2 \in EventQueues : \A i \in 1..Len(event_queue'[q2]) :
          event_queue'[q2][i] \in QueuedEvent
    BY <1>6
  <2>2. \A x \in QueuedEvent : x.rpc \in Rpcs /\ x.event \in Event
    BY Zenon DEF QueuedEvent
  <2>3. QED
    BY <2>1, <2>2, Zenon
<1>61. \A q2 \in EventQueues : \/ relisten'[q2] = relisten[q2]
                               \/ q2 = q /\ relisten'[q2] = r
  <2>1. relisten \in [EventQueues -> Rpcs \cup {NoRpc}]
    BY <1>4, Zenon DEF TypeOK
  <2>2. QED
    BY <1>1, <2>1, Zenon
\* What is still in a queue was in it, behind the head.
<1>7. \A q2 \in EventQueues : \A i \in 1..Len(event_queue'[q2]) :
        event_queue'[q2][i].event \in CqEvent =>
          /\ i + Shift(q2, q) \in 1..Len(event_queue[q2])
          /\ event_queue'[q2][i] = event_queue[q2][i + Shift(q2, q)]
  BY <1>5, Zenon DEF PopAndPush, CqEvent
<1>8. \A q2 \in EventQueues : \A i \in 1..Len(event_queue'[q2]) :
        event_queue'[q2][i].event \in CqEvent =>
          ~(event_queue'[q2][i].rpc = r /\ event_queue'[q2][i].event = ev.event)
  <2> SUFFICES ASSUME NEW q2 \in EventQueues,
                      NEW i \in 1..Len(event_queue'[q2]),
                      event_queue'[q2][i].event \in CqEvent,
                      event_queue'[q2][i].rpc = r,
                      event_queue'[q2][i].event = ev.event
               PROVE FALSE
    BY Zenon
  <2>1. /\ i + Shift(q2, q) \in 1..Len(event_queue[q2])
        /\ event_queue'[q2][i] = event_queue[q2][i + Shift(q2, q)]
    BY <1>7, Zenon
  <2>2. ev.event # "WRITE_NEEDED"
    BY Zenon DEF CqEvent
  <2>3. q2 = q /\ i + Shift(q2, q) = 1
    BY <1>3, <2>1, <2>2 DEF TagInv, EventObjectsAreNotShared
  <2>4. QED
    BY <1>6, <2>3 DEF Shift
<1>9. \A r2 \in Rpcs : \A e \in CqEvent :
        tag'[r2][e] = IF r2 # r THEN tag[r2][e]
                      ELSE IF e \in ops THEN "started"
                      ELSE IF e = ev.event THEN "idle"
                      ELSE tag[r2][e]
  <2>1. tag' = [tag EXCEPT ![r] = [e \in CqEvent |->
                                     IF e \in ops THEN "started"
                                     ELSE TagsAfter(ev)[e]]]
    BY <1>2, Zenon DEF Handled
  <2>2. tag \in [Rpcs -> [CqEvent -> TagState]]
    BY <1>4, Zenon DEF TypeOK
  <2>3. QED
    BY <1>3, <2>1, <2>2, Zenon DEF TagsAfter
<1>10. \A r2 \in Rpcs :
         pending'[r2] = IF r2 = r THEN (pending[r] \ {ev.event}) \cup ops
                        ELSE pending[r2]
  <2>1. pending' = [pending EXCEPT ![r] = (@ \ {ev.event}) \cup ops]
    BY <1>2, Zenon DEF Handled
  <2>2. pending \in [Rpcs -> SUBSET CqEvent]
    BY <1>4, Zenon DEF TypeOK
  <2>3. QED
    BY <1>3, <2>1, <2>2, Zenon
\* The operations that are started were not in flight.
<1>11. \A e \in ops : tag[r][e] = "idle" \/ e = ev.event
  <2> SUFFICES ASSUME NEW e \in ops, e # ev.event PROVE tag[r][e] = "idle"
    BY Zenon
  <2>1. e \in {"READ", "WRITE", "FINISH"}
    BY <1>2, Zenon DEF Handled
  <2>2. CASE e = "READ"
    <3>1. ev.event = "NEW_CONNECTION"
      BY <1>2, <2>2, Zenon DEF Handled
    <3>2. tag[r]["NEW_CONNECTION"] # "idle" /\ "NEW_CONNECTION" \in CqEvent
      BY <1>3, <3>1, Zenon DEF CqEvent
    <3>3. "NEW_CONNECTION" \in pending[r]
      BY <1>3, <3>2, Zenon DEF TagInv, UsedTagsArePending
    <3>4. QED
      BY <1>3, <2>2, <3>3, ZenonT(30) DEF TagInv, ConnectionComesFirst
  <2>3. CASE e \in {"WRITE", "FINISH"}
    <3>1. e \notin pending[r]
      BY <1>2, <2>3, Zenon DEF Handled
    <3>2. QED
      BY <1>3, <3>1, Zenon DEF TagInv, UsedTagsArePending
  <2>4. QED
    BY <2>1, <2>2, <2>3, Zenon
<1>12. OnlyCreatedRpcs'
  <2>1. \A q2 \in EventQueues : \A i \in 1..Len(event_queue'[q2]) :
          event_queue'[q2][i].rpc \in 1..created
    <3>1. \A q2 \in EventQueues : \A i \in 1..Len(event_queue[q2]) :
            event_queue[q2][i].rpc \in 1..created
      BY Zenon DEF TagInv, OnlyCreatedRpcs
    <3>2. QED
      BY <1>3, <1>5, <3>1, ZenonT(40) DEF PopAndPush
  <2>2. \A q2 \in EventQueues : relisten'[q2] # NoRpc => relisten'[q2] \in 1..created
    BY <1>3, <1>61, Zenon DEF TagInv, OnlyCreatedRpcs
  <2>3. \A r2 \in Rpcs : r2 \notin 1..created => /\ pending'[r2] = {}
                                                 /\ send_queue'[r2] = <<>>
                                                 /\ handler'[r2] = "null"
    <3> SUFFICES ASSUME NEW r2 \in Rpcs, r2 \notin 1..created
                 PROVE /\ pending'[r2] = {}
                       /\ send_queue'[r2] = <<>>
                       /\ handler'[r2] = "null"
      BY Zenon
    <3>1. r2 # r
      BY <1>3, Zenon
    <3>2. /\ pending[r2] = {}
          /\ send_queue[r2] = <<>>
          /\ handler[r2] = "null"
      BY Zenon DEF TagInv, OnlyCreatedRpcs
    <3>3. handler'[r2] = handler[r2]
      BY <1>2, <3>1, Zenon DEF Handled
    <3>4. QED
      BY <1>1, <1>10, <3>1, <3>2, <3>3, Zenon
  <2>4. QED
    BY <1>1, <2>1, <2>2, <2>3, Zenon DEF TagInv, OnlyCreatedRpcs, writerVars
<1>13. OneThreadPerRpc'
  <2>1. \A q2 \in EventQueues : \A i \in 1..Len(event_queue'[q2]) :
          queue[event_queue'[q2][i].rpc] = q2
    BY <1>5 DEF PopAndPush, TagInv, OneThreadPerRpc
  <2>2. \A q2 \in EventQueues : relisten'[q2] # NoRpc => queue[relisten'[q2]] = q2
    BY <1>3, <1>61, Zenon DEF TagInv, OneThreadPerRpc
  <2>3. QED
    BY <1>1, <2>1, <2>2, Zenon DEF OneThreadPerRpc
<1>14. QueuedTags'
  <2> SUFFICES ASSUME NEW q2 \in EventQueues,
                      NEW i \in 1..Len(event_queue'[q2]),
                      event_queue'[q2][i].event \in CqEvent
               PROVE tag'[event_queue'[q2][i].rpc][event_queue'[q2][i].event]
                       = "queued"
    BY Zenon DEF QueuedTags
  <2> DEFINE r2 == event_queue'[q2][i].rpc
             e == event_queue'[q2][i].event
  <2>1. r2 \in Rpcs
    BY <1>60, Zenon
  <2>2. tag[r2][e] = "queued"
    <3>1. QueuedTags
      BY Zenon DEF TagInv
    <3>2. /\ i + Shift(q2, q) \in 1..Len(event_queue[q2])
          /\ event_queue'[q2][i] = event_queue[q2][i + Shift(q2, q)]
      BY <1>7, Zenon
    <3>3. QED
      BY <3>1, <3>2, Zenon DEF QueuedTags
  <2>3. ~(r2 = r /\ e = ev.event)
    BY <1>8, Zenon
  <2>4. r2 = r => e \notin ops
    BY <1>11, <2>2, <2>3, Zenon
  <2>5. QED
    BY <1>9, <2>1, <2>2, <2>3, <2>4, Zenon
<1>15. EventObjectsAreNotShared'
  <2>1. fault' # "op_in_flight"
    <3>1. \A e \in ops : TagsAfter(ev)[e] = "idle"
      BY <1>11, Zenon DEF TagsAfter
    <3>2. QED
      BY <1>2, <3>1, Zenon DEF Handled
  <2>2. \A q1, q2 \in EventQueues :
          \A i \in 1..Len(event_queue'[q1]), j \in 1..Len(event_queue'[q2]) :
            (/\ event_queue'[q1][i].rpc = event_queue'[q2][j].rpc
             /\ event_queue'[q1][i].event = event_queue'[q2][j].event
             /\ event_queue'[q1][i].event # "WRITE_NEEDED")
              => q1 = q2 /\ i = j
    <3> TAKE q1, q2 \in EventQueues
    <3> TAKE i \in 1..Len(event_queue'[q1]), j \in 1..Len(event_queue'[q2])
    <3>0. HAVE /\ event_queue'[q1][i].rpc = event_queue'[q2][j].rpc
               /\ event_queue'[q1][i].event = event_queue'[q2][j].event
               /\ event_queue'[q1][i].event # "WRITE_NEEDED"
    <3>1. event_queue'[q1][i].event \in CqEvent
      BY <1>60, <3>0, Zenon DEF Event
    <3>2. /\ i + Shift(q1, q) \in 1..Len(event_queue[q1])
          /\ event_queue'[q1][i] = event_queue[q1][i + Shift(q1, q)]
          /\ j + Shift(q2, q) \in 1..Len(event_queue[q2])
          /\ event_queue'[q2][j] = event_queue[q2][j + Shift(q2, q)]
      BY <1>7, <3>0, <3>1, Zenon
    <3>3. q1 = q2 /\ i + Shift(q1, q) = j + Shift(q2, q)
      <4> DEFINE i2 == i + Shift(q1, q)
                 j2 == j + Shift(q2, q)
      <4>1. /\ event_queue[q1][i2].rpc = event_queue[q2][j2].rpc
            /\ event_queue[q1][i2].event = event_queue[q2][j2].event
            /\ event_queue[q1][i2].event # "WRITE_NEEDED"
        BY <3>0, <3>2, Zenon
      <4>2. /\ EventObjectsAreNotShared
            /\ i2 \in 1..Len(event_queue[q1]) /\ j2 \in 1..Len(event_queue[q2])
        BY <3>2, Zenon DEF TagInv
      <4> HIDE DEF i2, j2
      <4>3. q1 = q2 /\ i2 = j2
        BY <4>1, <4>2, OnePlacePerEvent
      <4>4. QED
        BY <4>3, Zenon DEF i2, j2
    <3>4. QED
      BY <1>6, <3>3 DEF Shift
  <2>3. QED
    BY <2>1, <2>2, EventsInOnePlace, Zenon
<1>16. UsedTagsArePending'
  BY <1>9, <1>10 DEF TagInv, UsedTagsArePending
<1>17. ConnectionComesFirst'
  <2> SUFFICES ASSUME NEW r2 \in Rpcs, "NEW_CONNECTION" \in pending'[r2]
               PROVE tag'[r2]["READ"] = "idle"
    BY Zenon DEF ConnectionComesFirst
  <2>1. "NEW_CONNECTION" \in pending[r2] /\ "READ" \in CqEvent
    BY <1>2, <1>10 DEF Handled, CqEvent
  <2>2. tag[r2]["READ"] = "idle"
    BY <2>1, Zenon DEF TagInv, ConnectionComesFirst
  <2>3. CASE r2 # r
    BY <1>9, <2>1, <2>2, <2>3, Zenon
  <2>4. CASE r2 = r
    <3>1. ev.event # "NEW_CONNECTION"
      BY <1>2, <1>10, <2>4 DEF Handled
    <3>2. ev.event # "READ"
      BY <1>3, <2>1, <2>2, <2>4, Zenon
    <3>3. "READ" \notin ops
      BY <1>2, <3>1, <3>2, ZenonT(30) DEF Handled
    <3>4. QED
      BY <1>9, <2>1, <2>2, <3>3, ZenonT(30)
  <2>5. QED
    BY <2>3, <2>4, Zenon
<1>18. PendingFinish'
  BY <1>2, <1>10 DEF TagInv, PendingFinish, Handled
<1>19. ReadsDoneIsFinal'
  <2> SUFFICES ASSUME NEW r2 \in Rpcs, handler'[r2] = "reads_done"
               PROVE tag'[r2]["READ"] = "idle"
    BY Zenon DEF ReadsDoneIsFinal
  <2>1. "READ" \in CqEvent /\ "NEW_CONNECTION" \in CqEvent
    BY Zenon DEF CqEvent
  <2>2. CASE r2 # r
    <3>1. handler'[r2] = handler[r2]
      BY <1>2, <2>2, Zenon DEF Handled
    <3>2. tag'[r2]["READ"] = tag[r2]["READ"]
      BY <1>9, <2>1, <2>2, Zenon
    <3>3. QED
      BY <3>1, <3>2, Zenon DEF TagInv, ReadsDoneIsFinal
  <2>3. CASE r2 = r
    <3>1. CASE handler[r] = "reads_done"
      <4>1. tag[r]["READ"] = "idle"
        BY <1>3, <3>1, Zenon DEF TagInv, ReadsDoneIsFinal
      <4>2. ev.event # "READ"
        BY <1>3, <2>1, <4>1, Zenon
      <4>3. "READ" \notin ops
        BY <1>2, <2>3, <4>2, Zenon DEF Handled
      <4>4. QED
        BY <1>9, <2>1, <2>3, <4>1, <4>3, Zenon
    <3>2. CASE handler[r] # "reads_done"
      <4>1. ev.event \in {"NEW_CONNECTION", "READ"} /\ "READ" \notin ops
        BY <1>2, <2>3, <3>2, Zenon DEF Handled
      <4>2. CASE ev.event = "READ"
        BY <1>9, <2>1, <2>3, <4>1, <4>2, Zenon
      <4>3. CASE ev.event = "NEW_CONNECTION"
        <5>1. "NEW_CONNECTION" \in pending[r]
          BY <1>3, <2>1, <4>3, Zenon DEF TagInv, UsedTagsArePending
        <5>2. tag[r]["READ"] = "idle"
          BY <1>3, <5>1, Zenon DEF TagInv, ConnectionComesFirst
        <5>3. QED
          BY <1>9, <2>1, <2>3, <4>1, <5>2, Zenon
      <4>4. QED
        BY <4>1, <4>2, <4>3, Zenon
    <3>3. QED
      BY <3>1, <3>2, Zenon
  <2>4. QED
    BY <2>2, <2>3, Zenon
<1>20. QED
  BY <1>4, <1>12, <1>13, <1>14, <1>15, <1>16, <1>17, <1>18, <1>19, Zenon DEF TagInv

\* The clone is an Rpc that nothing referred to.
LEMMA ListenAgainPreservesTags ==
  ASSUME TagInv, TypeOK', NEW q \in EventQueues, ListenAgain(q)
  PROVE TagInv'
<1> DEFINE new == created + 1
<1>1. TypeOK /\ TypeOK'
  BY Zenon DEF TagInv
<1>2. /\ created \in Nat
      /\ created' = new
      /\ new \in Rpcs
      /\ new \notin 1..created
      /\ 1..created \subseteq 1..new
  BY <1>1, Sizes DEF ListenAgain, TypeOK, Rpcs
<1>3. UNCHANGED <<event_queue, writer_rpc, send_queue, handler, finishing>>
  BY Zenon DEF ListenAgain, writerVars
<1>4. \A q2 \in EventQueues : relisten'[q2] \in {relisten[q2], NoRpc}
  BY <1>1, Zenon DEF ListenAgain, TypeOK
<1>5. \A r \in Rpcs : queue'[r] = IF r = new THEN current_event_queue_id'
                                  ELSE queue[r]
  BY <1>1, <1>2, Zenon DEF ListenAgain, SetEventQueue, TypeOK
<1>6. \A r \in Rpcs :
        /\ pending'[r] = IF r = new THEN {"DONE", "NEW_CONNECTION"}
                         ELSE pending[r]
        /\ \A e \in CqEvent :
             tag'[r][e] = IF r # new THEN tag[r][e]
                          ELSE IF e \in {"DONE", "NEW_CONNECTION"}
                          THEN "started" ELSE "idle"
  BY <1>1, <1>2, ZenonT(30)
     DEF ListenAgain, RequestNextMethodInvocation, TypeOK
<1>7. \A q2 \in EventQueues : \A i \in 1..Len(event_queue[q2]) :
        /\ event_queue[q2][i].rpc \in 1..created
        /\ event_queue[q2][i].rpc \in Rpcs
        /\ event_queue[q2][i].rpc # new
  BY <1>1, <1>2, ActiveRpcs, Zenon DEF TagInv, OnlyCreatedRpcs
<1>8. OnlyCreatedRpcs'
  <2>1. \A r \in Rpcs : r \notin 1..new => r \notin 1..created /\ r # new
    BY <1>2
  <2>2. \A r \in Rpcs : r \notin 1..created' => /\ pending'[r] = {}
                                                /\ send_queue'[r] = <<>>
                                                /\ handler'[r] = "null"
    BY <1>2, <1>3, <1>6, <2>1, ZenonT(30) DEF TagInv, OnlyCreatedRpcs
  <2>3. /\ \A q2 \in EventQueues : \A i \in 1..Len(event_queue'[q2]) :
             event_queue'[q2][i].rpc \in 1..created'
        /\ \A q2 \in EventQueues :
             relisten'[q2] # NoRpc => relisten'[q2] \in 1..created'
        /\ \A w \in Writers :
             writer_rpc'[w] # NoRpc => writer_rpc'[w] \in 1..created'
    BY <1>2, <1>3, <1>4, <1>7, Zenon DEF TagInv, OnlyCreatedRpcs
  <2>4. QED
    BY <2>2, <2>3, Zenon DEF OnlyCreatedRpcs
<1>9. OneThreadPerRpc'
  <2>1. \A q2 \in EventQueues : \A i \in 1..Len(event_queue'[q2]) :
          queue'[event_queue'[q2][i].rpc] = q2
    BY <1>3, <1>5, <1>7, ZenonT(30) DEF TagInv, OneThreadPerRpc
  <2>2. \A q2 \in EventQueues : relisten'[q2] # NoRpc => queue'[relisten'[q2]] = q2
    <3>1. \A r \in 1..created : r \in Rpcs /\ r # new
      BY <1>1, <1>2, ActiveRpcs, ZenonT(30)
    <3>2. QED
      BY <1>4, <1>5, <3>1, ZenonT(30)
         DEF TagInv, OneThreadPerRpc, OnlyCreatedRpcs
  <2>3. QED
    BY <2>1, <2>2, Zenon DEF OneThreadPerRpc
<1>10. QueuedTags'
  <2>1. \A r \in 1..created : r \in Rpcs /\ r # new
    BY <1>1, <1>2, ActiveRpcs, ZenonT(30)
  <2>2. \A r \in 1..created : \A e \in CqEvent : tag'[r][e] = tag[r][e]
    BY <1>6, <2>1, Zenon
  <2>3. QED
    BY <1>3, <2>2, QueuedTagsKept, Zenon
<1>11. EventObjectsAreNotShared'
  <2>1. fault' # "op_in_flight"
    BY Zenon DEF ListenAgain
  <2>2. QED
    BY <1>3, <2>1, NothingPushed, Zenon DEF TagInv
<1>12. UsedTagsArePending' /\ PendingFinish'
  <2>1. ASSUME NEW r \in Rpcs, r # new
        PROVE /\ \A e \in CqEvent : tag'[r][e] # "idle" => e \in pending'[r]
              /\ "FINISH" \in pending'[r] => r \in finishing'
    <3>1. pending'[r] = pending[r] /\ \A e \in CqEvent : tag'[r][e] = tag[r][e]
      BY <1>6, <2>1, Zenon
    <3>2. /\ \A e \in CqEvent : tag[r][e] # "idle" => e \in pending[r]
          /\ "FINISH" \in pending[r] => r \in finishing
      BY Zenon DEF TagInv, UsedTagsArePending, PendingFinish
    <3>3. finishing' = finishing
      BY <1>3, Zenon
    <3>4. QED
      BY <3>1, <3>2, <3>3, Zenon
  <2>2. ASSUME NEW e \in CqEvent, tag'[new][e] # "idle" PROVE e \in pending'[new]
    <3>1. /\ pending'[new] = {"DONE", "NEW_CONNECTION"}
          /\ tag'[new][e] = IF e \in {"DONE", "NEW_CONNECTION"} THEN "started"
                            ELSE "idle"
      BY <1>2, <1>6, Zenon
    <3>2. QED
      BY <2>2, <3>1, Zenon
  <2>3. "FINISH" \notin pending'[new]
    BY <1>2, <1>6
  <2>4. QED
    BY <2>1, <2>2, <2>3, Zenon DEF UsedTagsArePending, PendingFinish
<1>13. ConnectionComesFirst' /\ ReadsDoneIsFinal'
  <2>1. "READ" \in CqEvent
    BY Zenon DEF CqEvent
  <2>2. \A r \in Rpcs : tag'[r]["READ"] = IF r = new THEN "idle"
                                          ELSE tag[r]["READ"]
    BY <1>6, <2>1
  <2>3. QED
    BY <1>3, <1>6, <2>2, Zenon DEF TagInv, ConnectionComesFirst, ReadsDoneIsFinal
<1>14. QED
  BY <1>1, <1>8, <1>9, <1>10, <1>11, <1>12, <1>13, Zenon DEF TagInv

-----------------------------------------------------------------------------
(* All steps *)

LEMMA TagInvInit == TypeOK /\ Init => TagInv
<1> SUFFICES ASSUME TypeOK, Init PROVE TagInv
  BY Zenon
<1>2. \A q \in EventQueues : event_queue[q] = <<>> /\ relisten[q] = NoRpc
  BY Zenon DEF Init
<1>3. \A r \in Rpcs : /\ pending[r] = {}
                      /\ send_queue[r] = <<>>
                      /\ handler[r] = "null"
                      /\ \A e \in CqEvent : tag[r][e] = "idle"
  BY Zenon DEF Init
<1>4. \A q \in EventQueues : 1..Len(event_queue[q]) = {}
  BY <1>2
<1>5. OnlyCreatedRpcs /\ OneThreadPerRpc /\ QueuedTags
  BY <1>2, <1>3, <1>4, Zenon
     DEF Init, OnlyCreatedRpcs, OneThreadPerRpc, QueuedTags
<1>6. EventObjectsAreNotShared
  BY <1>4, Zenon DEF Init, EventObjectsAreNotShared
<1>7. UsedTagsArePending /\ ConnectionComesFirst /\ PendingFinish
  BY <1>3, Zenon DEF UsedTagsArePending, ConnectionComesFirst, PendingFinish
<1>8. ReadsDoneIsFinal
  BY <1>3, Zenon DEF ReadsDoneIsFinal
<1>9. QED
  BY <1>5, <1>6, <1>7, <1>8, Zenon DEF TagInv

\* Before StartServing there are no Rpcs, so that nothing refers to the new ones.
LEMMA StartPreservesTags ==
  ASSUME TagInv, TypeOK', StartServing
  PROVE TagInv'
<1>1. TypeOK /\ TypeOK'
  BY Zenon DEF TagInv
<1>2. created = 0 /\ 1..created = {} /\ created' = NumListeners
  BY DEF StartServing
<1>3. \A q \in EventQueues : 1..Len(event_queue[q]) = {} /\ relisten[q] = NoRpc
  BY <1>2, Zenon DEF TagInv, OnlyCreatedRpcs
<1>4. \A w \in Writers : writer_rpc[w] = NoRpc
  BY <1>2, Zenon DEF TagInv, OnlyCreatedRpcs
<1>5. \A r \in Rpcs : /\ pending[r] = {}
                      /\ send_queue[r] = <<>>
                      /\ handler[r] = "null"
                      /\ \A e \in CqEvent : tag[r][e] = "idle"
  BY <1>2, Zenon DEF TagInv, OnlyCreatedRpcs, UsedTagsArePending
<1>6. UNCHANGED <<event_queue, relisten, writer_rpc, send_queue, handler,
                  finishing, fault>>
  BY Zenon DEF StartServing, writerVars
<1>7. \A r \in Rpcs :
        /\ pending'[r] = IF r \in Listeners THEN {"DONE", "NEW_CONNECTION"}
                         ELSE {}
        /\ \A e \in CqEvent :
             tag'[r][e] = IF r \in Listeners /\ e \in {"DONE", "NEW_CONNECTION"}
                          THEN "started" ELSE "idle"
  BY <1>5, Zenon DEF StartServing
<1>8. OnlyCreatedRpcs'
  <2>1. \A r \in Rpcs : r \notin 1..created' => pending'[r] = {}
    BY <1>2, <1>7, Zenon DEF Listeners
  <2>2. QED
    BY <1>3, <1>4, <1>5, <1>6, <2>1, Zenon DEF OnlyCreatedRpcs
<1>9. OneThreadPerRpc' /\ QueuedTags' /\ EventObjectsAreNotShared'
  BY <1>3, <1>6, Zenon
     DEF OneThreadPerRpc, QueuedTags, EventObjectsAreNotShared, TagInv
<1>10. UsedTagsArePending' /\ PendingFinish'
  BY <1>7 DEF UsedTagsArePending, PendingFinish
<1>11. ConnectionComesFirst' /\ ReadsDoneIsFinal'
  <2>1. "READ" \in CqEvent
    BY Zenon DEF CqEvent
  <2>2. \A r \in Rpcs : tag'[r]["READ"] = "idle"
    BY <1>7, <2>1, Zenon
  <2>3. QED
    BY <2>2, Zenon DEF ConnectionComesFirst, ReadsDoneIsFinal
<1>12. QED
  BY <1>1, <1>8, <1>9, <1>10, <1>11, Zenon DEF TagInv

\* A completed tag is in no event queue, so that its event is pushed only once.
LEMMA CompletionPreservesTags ==
  ASSUME TagInv, TypeOK', NEW r \in Rpcs, NEW e \in CqEvent,
         RunCompletionQueue(r, e)
  PROVE TagInv'
<1> DEFINE ev == [rpc |-> r, event |-> e, ok |-> tag[r][e] = "ok"]
           n == Len(event_queue[queue[r]]) + 1
<1>1. TypeOK /\ TypeOK'
  BY Zenon DEF TagInv
<1>2. /\ UNCHANGED <<created, pending, queue, handler, send_queue, relisten,
                     writer_rpc, finishing>>
      /\ tag[r][e] \in {"ok", "failed"}
  BY Zenon DEF RunCompletionQueue, rpcVars, writerVars
<1>3. CASE ~Alive(r)
  <2>1. UNCHANGED <<tag, event_queue>> /\ fault' = "use_after_free"
    BY <1>3, Zenon DEF RunCompletionQueue
  <2>2. QED
    BY <1>1, <1>2, <2>1, FramePreservesTags, Zenon
<1>4. CASE Alive(r)
  <2>1. /\ tag' = [tag EXCEPT ![r][e] = "queued"]
        /\ event_queue' = [event_queue EXCEPT ![queue[r]] = Append(@, ev)]
        /\ fault' = "none"
    BY <1>4, Zenon DEF RunCompletionQueue
  <2>2. r \in 1..created
    BY <1>4, AliveIsCreated, Zenon
  <2>3. \A r2 \in Rpcs : \A e2 \in CqEvent :
          tag'[r2][e2] = IF r2 = r /\ e2 = e THEN "queued" ELSE tag[r2][e2]
    BY <1>1, <2>1, ZenonT(30) DEF TypeOK
  <2>4. \A q \in EventQueues : /\ event_queue[q] \in Seq(QueuedEvent)
                               /\ Len(event_queue[q]) \in Nat
    BY <1>1 DEF TypeOK
  <2>5. queue[r] \in EventQueues /\ n \in Nat
    BY <1>1, <2>4 DEF TypeOK
  \* An entry of a queue is an old one, or the new one at the end of the Rpc's.
  <2>6. \A q \in EventQueues : \A i \in 1..Len(event_queue'[q]) :
          \/ /\ i \in 1..Len(event_queue[q])
             /\ event_queue'[q][i] = event_queue[q][i]
          \/ /\ q = queue[r] /\ i = n
             /\ event_queue'[q][i] = ev
    <3> SUFFICES ASSUME NEW q \in EventQueues
                 PROVE \A i \in 1..Len(event_queue'[q]) :
                         \/ /\ i \in 1..Len(event_queue[q])
                            /\ event_queue'[q][i] = event_queue[q][i]
                         \/ /\ q = queue[r] /\ i = n
                            /\ event_queue'[q][i] = ev
      BY Zenon
    <3>1. CASE q = queue[r]
      <4>1. event_queue'[q] = Append(event_queue[q], ev)
        BY <1>1, <2>1, <3>1, Zenon DEF TypeOK
      <4> HIDE DEF ev
      <4>2. /\ Len(Append(event_queue[q], ev)) = Len(event_queue[q]) + 1
            /\ \A i \in 1..Len(event_queue[q]) :
                 Append(event_queue[q], ev)[i] = event_queue[q][i]
            /\ Append(event_queue[q], ev)[Len(event_queue[q]) + 1] = ev
        BY <2>4
      <4>3. n = Len(event_queue[q]) + 1
        BY <3>1, Zenon
      <4>4. \A i \in 1..(Len(event_queue[q]) + 1) :
              i \in 1..Len(event_queue[q]) \/ i = Len(event_queue[q]) + 1
        BY <2>4
      <4>5. QED
        BY <3>1, <4>1, <4>2, <4>3, <4>4, Zenon
    <3>2. CASE q # queue[r]
      BY <1>1, <2>1, <3>2, Zenon DEF TypeOK
    <3>3. QED
      BY <3>1, <3>2, Zenon
  <2>7. ev.rpc = r /\ ev.event = e
    BY Zenon
  \* No old entry is for this tag.
  <2>8. \A q \in EventQueues : \A i \in 1..Len(event_queue[q]) :
          ~(event_queue[q][i].rpc = r /\ event_queue[q][i].event = e)
    BY <1>2, Zenon DEF TagInv, QueuedTags
  <2> HIDE DEF ev, n
  <2>9. OnlyCreatedRpcs'
    <3>1. \A q \in EventQueues : \A i \in 1..Len(event_queue'[q]) :
            event_queue'[q][i].rpc \in 1..created
      BY <2>2, <2>6, <2>7, Zenon DEF TagInv, OnlyCreatedRpcs
    <3>2. QED
      BY <1>2, <3>1, Zenon DEF TagInv, OnlyCreatedRpcs
  <2>10. OneThreadPerRpc'
    BY <1>2, <2>6, <2>7, ZenonT(30) DEF TagInv, OneThreadPerRpc
  <2>11. QueuedTags'
    <3> SUFFICES ASSUME NEW q \in EventQueues,
                        NEW i \in 1..Len(event_queue'[q]),
                        event_queue'[q][i].event \in CqEvent
                 PROVE tag'[event_queue'[q][i].rpc][event_queue'[q][i].event]
                         = "queued"
      BY Zenon DEF QueuedTags
    <3>1. CASE event_queue'[q][i] = ev
      BY <2>3, <2>7, <3>1, Zenon
    <3>2. CASE /\ i \in 1..Len(event_queue[q])
               /\ event_queue'[q][i] = event_queue[q][i]
      <4>1. tag[event_queue[q][i].rpc][event_queue[q][i].event] = "queued"
        BY <3>2, Zenon DEF TagInv, QueuedTags
      <4>2. event_queue[q][i].rpc \in Rpcs
        BY <1>1, <3>2, ActiveRpcs, Zenon DEF TagInv, OnlyCreatedRpcs
      <4>3. QED
        BY <2>3, <3>2, <4>1, <4>2, ZenonT(30)
    <3>3. QED
      BY <2>6, <3>1, <3>2, Zenon
  <2>12. EventObjectsAreNotShared'
    <3>1. \A q1, q2 \in EventQueues :
            \A i \in 1..Len(event_queue'[q1]), j \in 1..Len(event_queue'[q2]) :
              (/\ event_queue'[q1][i].rpc = event_queue'[q2][j].rpc
               /\ event_queue'[q1][i].event = event_queue'[q2][j].event
               /\ event_queue'[q1][i].event # "WRITE_NEEDED")
                => q1 = q2 /\ i = j
      <4> TAKE q1, q2 \in EventQueues
      <4> TAKE i \in 1..Len(event_queue'[q1]), j \in 1..Len(event_queue'[q2])
      <4>0. HAVE /\ event_queue'[q1][i].rpc = event_queue'[q2][j].rpc
                 /\ event_queue'[q1][i].event = event_queue'[q2][j].event
                 /\ event_queue'[q1][i].event # "WRITE_NEEDED"
      <4>1. CASE /\ i \in 1..Len(event_queue[q1])
                 /\ event_queue'[q1][i] = event_queue[q1][i]
                 /\ j \in 1..Len(event_queue[q2])
                 /\ event_queue'[q2][j] = event_queue[q2][j]
        BY <4>0, <4>1 DEF TagInv, EventObjectsAreNotShared
      <4>2. CASE event_queue'[q1][i] = ev /\ q1 = queue[r] /\ i = n
        BY <2>6, <2>7, <2>8, <4>0, <4>2, ZenonT(30)
      <4>3. CASE event_queue'[q2][j] = ev /\ q2 = queue[r] /\ j = n
        BY <2>6, <2>7, <2>8, <4>0, <4>3
      <4>4. QED
        BY <2>6, <4>1, <4>2, <4>3, Zenon
    <3>2. QED
      BY <2>1, <3>1, EventsInOnePlace, Zenon
  <2>13. UsedTagsArePending'
    BY <1>2, <2>3, Zenon DEF TagInv, UsedTagsArePending
  <2>14. ConnectionComesFirst' /\ ReadsDoneIsFinal'
    <3>1. \A r2 \in Rpcs : tag[r2]["READ"] = "idle" => tag'[r2]["READ"] = "idle"
      BY <1>2, <2>3, Zenon DEF CqEvent
    <3>2. QED
      BY <1>2, <3>1, Zenon DEF TagInv, ConnectionComesFirst, ReadsDoneIsFinal
  <2>15. PendingFinish'
    BY <1>2, Zenon DEF TagInv, PendingFinish
  <2>16. QED
    BY <1>1, <2>9, <2>10, <2>11, <2>12, <2>13, <2>14, <2>15, Zenon DEF TagInv
<1>5. QED
  BY <1>3, <1>4, Zenon

\* gRPC returns tags it was given, and changes nothing in the library.
LEMMA GrpcPreservesTags ==
  ASSUME TagInv, TypeOK', NEW r \in Rpcs,
         \/ ClientStep(r)
         \/ RequestFails(r)
         \/ ReadFails(r)
         \/ WriteCompletes(r)
         \/ FinishCompletes(r)
         \/ CallIsDone(r)
  PROVE TagInv'
<1>1. TypeOK /\ TypeOK'
  BY Zenon DEF TagInv
<1>2. /\ UNCHANGED <<created, pending, queue, handler, send_queue, event_queue,
                     relisten, writer_rpc, finishing>>
      /\ fault' = "none"
  BY ZenonT(30)
     DEF ClientStep, IncomingCall, ClientSends, ClientWritesDone,
         ClientCancels, RequestFails, ReadFails, WriteCompletes,
         FinishCompletes, CallIsDone, Complete, rpcVars, threadVars,
         writerVars
<1>3. \/ tag' = tag
      \/ \E e \in CqEvent, result \in {"ok", "failed"} :
           /\ tag[r][e] = "started"
           /\ tag' = [tag EXCEPT ![r][e] = result]
  BY Zenon DEF ClientStep, IncomingCall, ClientSends, ClientWritesDone, ClientCancels,
         RequestFails, ReadFails, WriteCompletes, FinishCompletes, CallIsDone,
         Complete, CqEvent
<1>4. \A r2 \in Rpcs : \A e2 \in CqEvent :
        tag'[r2][e2] = tag[r2][e2] \/ tag[r2][e2] = "started"
  <2>1. tag \in [Rpcs -> [CqEvent -> TagState]]
    BY <1>1, Zenon DEF TypeOK
  <2>2. ASSUME NEW e \in CqEvent, NEW result \in {"ok", "failed"},
               tag[r][e] = "started", tag' = [tag EXCEPT ![r][e] = result],
               NEW r2 \in Rpcs, NEW e2 \in CqEvent
        PROVE tag'[r2][e2] = tag[r2][e2] \/ tag[r2][e2] = "started"
    BY <2>1, <2>2, Zenon
  <2>3. QED
    BY <1>3, <2>2, Zenon
<1>5. OnlyCreatedRpcs' /\ OneThreadPerRpc'
  BY <1>2, ZenonT(30) DEF TagInv, OnlyCreatedRpcs, OneThreadPerRpc
<1>50. EventObjectsAreNotShared' /\ PendingFinish'
  BY <1>2, NothingPushed, ZenonT(30) DEF TagInv, PendingFinish
<1>6. QueuedTags'
  <2>1. \A r2 \in 1..created : \A e2 \in CqEvent :
          tag[r2][e2] = "queued" => tag'[r2][e2] = "queued"
    BY <1>1, <1>4, ActiveRpcs, Zenon
  <2>2. QED
    BY <1>2, <2>1, QueuedTagsKept, Zenon
<1>7. UsedTagsArePending'
  BY <1>2, <1>4, Zenon DEF TagInv, UsedTagsArePending
<1>8. ConnectionComesFirst' /\ ReadsDoneIsFinal'
  <2>1. \A r2 \in Rpcs : tag[r2]["READ"] = "idle" => tag'[r2]["READ"] = "idle"
    BY <1>4, Zenon DEF CqEvent
  <2>2. QED
    BY <1>2, <2>1, Zenon DEF TagInv, ConnectionComesFirst, ReadsDoneIsFinal
<1>9. QED
  BY <1>1, <1>5, <1>50, <1>6, <1>7, <1>8, Zenon DEF TagInv

\* Stopping, a use of a destroyed Rpc and stuttering touch no event.
LEMMA OthersPreserveTags ==
  ASSUME TagInv,
         \/ Stop
         \/ \E q \in EventQueues : HandleEventOfDestroyedRpc(q)
         \/ UNCHANGED vars
  PROVE TagInv'
<1>1. TypeOK'
  BY TypeNext, TypeStop, TypeEventQueue, Zenon DEF TagInv, RunEventQueue, Next
<1>2. /\ UNCHANGED <<created, pending, queue, handler, send_queue, event_queue,
                     relisten, writer_rpc, finishing, tag>>
      /\ fault' # "op_in_flight"
  <2>1. CASE Stop
    BY <2>1, Zenon
       DEF Stop, StopServing, GrpcShutdown, CqDrained, DestroyService,
                rpcVars, threadVars, grpcVars, writerVars
  <2>2. CASE \E q \in EventQueues : HandleEventOfDestroyedRpc(q)
    BY <2>2, Zenon DEF HandleEventOfDestroyedRpc, rpcVars, threadVars, grpcVars,
                writerVars
  <2>3. CASE UNCHANGED vars
    BY <2>3, Zenon DEF vars, rpcVars, threadVars, grpcVars, writerVars, TagInv,
                EventObjectsAreNotShared
  <2>4. QED
    BY <2>1, <2>2, <2>3, Zenon
<1>3. QED
  BY <1>1, <1>2, FramePreservesTags, Zenon

LEMMA TagInvNext == TagInv /\ [Next]_vars => TagInv'
<1> SUFFICES ASSUME TagInv, [Next]_vars PROVE TagInv'
  BY Zenon
<1>0. TypeOK /\ TypeOK'
  BY TypeNext, Zenon DEF TagInv
<1>1. ASSUME NEW q \in EventQueues, RunEventQueue(q) PROVE TagInv'
  <2>1. CASE EventStep(q)
    BY <1>0, <2>1, EventIsHandled, EffectsPreserveTags, Zenon
  <2>2. CASE ListenAgain(q)
    BY <1>0, <2>2, ListenAgainPreservesTags, Zenon
  <2>3. CASE HandleEventOfDestroyedRpc(q)
    BY <2>3, OthersPreserveTags, Zenon
  <2>4. QED
    BY <1>1, <2>1, <2>2, <2>3, Zenon DEF RunEventQueue, EventStep
<1>2. ASSUME NEW r \in Rpcs, ClientStep(r) \/ GrpcStep(r) PROVE TagInv'
  BY <1>0, <1>2, GrpcPreservesTags, CompletionPreservesTags, Zenon DEF GrpcStep
<1>3. QED
  BY <1>0, <1>1, <1>2, StartPreservesTags, WriterPreservesTags,
     OthersPreserveTags, Zenon
     DEF Next, Serve

\* The strengthening of the three properties below that is inductive.
THEOREM TagInvariant == Spec => []TagInv
BY TypeInit, TagInvInit, TagInvNext, PTL DEF Spec

\* All events of an Rpc are handled by one event thread, whichever thread the
\* round robin chooses for it and its clones.
THEOREM RpcsHaveOneThread == Spec => []OneThreadPerRpc
<1>1. TagInv => OneThreadPerRpc
  BY Zenon DEF TagInv
<1>2. QED
  BY <1>1, TagInvariant, PTL

\* No event object is pushed while it is in an event queue, and no gRPC
\* operation is started with a tag that is still out: neither
\* RequestStreamingReadIfNeeded nor HandleSendQueue overlaps with an operation
\* of an earlier call.
THEOREM EventObjectsAreExclusive == Spec => []EventObjectsAreNotShared
<1>1. TagInv => EventObjectsAreNotShared
  BY Zenon DEF TagInv
<1>2. QED
  BY <1>1, TagInvariant, PTL

\* No READ is in flight after OnReadsDone, so that neither OnRequest nor
\* OnReadsDone is called after it.
THEOREM ReadsDoneIsLast == Spec => []ReadsDoneIsFinal
<1>1. TagInv => ReadsDoneIsFinal
  BY Zenon DEF TagInv
<1>2. QED
  BY <1>1, TagInvariant, PTL
=============================================================================
