--------------------------- MODULE RpcFaultProofs ---------------------------
(***************************************************************************)
(* What RpcService does for its calls: no wakeup is lost, every listener   *)
(* has an Rpc that waits for a connection, a call is finished once.  And   *)
(* what goes wrong: FinishInv and FaultInv are invariants.                 *)
(***************************************************************************)
EXTENDS RpcLifeProofs

\* The service will look at the send queue of r.
Woken(r) ==
  \/ {"WRITE", "FINISH"} \cap pending[r] # {}
  \/ r \in finishing
  \/ InQueue(r, "WRITE_NEEDED")
  \/ \E w \in Writers : writer_rpc[w] = r /\ writer_pc[w] = "enqueued"

-----------------------------------------------------------------------------
(* No lost wakeups *)

\* What an event handler sends is announced in the Rpc's event queue.
LEMMA SendWakes ==
  ASSUME TypeOK, NEW q \in EventQueues, event_queue[q] # <<>>, NEW r \in Rpcs,
         NEW s \in Seq(SendItem), Send(q, r, s), UNCHANGED queue
  PROVE /\ s # <<>> => InQueue(r, "WRITE_NEEDED")'
        /\ s = <<>> => send_queue'[r] = send_queue[r]
<1>1. ASSUME s # <<>> PROVE InQueue(r, "WRITE_NEEDED")'
  <2> DEFINE new == WriteNeeded(r, s)
             old == Popped(q)[queue[r]]
  <2>1. /\ new \in Seq(QueuedEvent)
        /\ Len(new) = Len(s)
        /\ \A i \in 1..Len(new) : /\ new[i].rpc = r
                                  /\ new[i].event = "WRITE_NEEDED"
    BY WriteNeededEvents, Zenon
  <2>2. /\ Popped(q) \in [EventQueues -> Seq(QueuedEvent)]
        /\ queue[r] \in EventQueues
    BY HeadType, Zenon DEF TypeOK
  <2>3. event_queue'[queue[r]] = old \o new
    BY <2>2, Zenon DEF Send
  <2>4. old \in Seq(QueuedEvent)
    BY <2>2, Zenon
  <2> HIDE DEF new, old
  <2>5. Len(s) \in Nat /\ Len(s) > 0
    BY <1>1
  <2>6. /\ Len(old \o new) = Len(old) + Len(new)
        /\ Len(old) \in Nat /\ Len(new) \in Nat
        /\ \A i \in (Len(old) + 1)..(Len(old) + Len(new)) :
             (old \o new)[i] = new[i - Len(old)]
    <3>1. old \in Seq(QueuedEvent) /\ new \in Seq(QueuedEvent)
      BY <2>1, <2>4, Zenon
    <3>2. QED
      BY <3>1, Concat
  <2>7. Len(new) > 0
    BY <2>1, <2>5
  <2>8. PICK i \in 1..Len(old \o new) :
          i \in (Len(old) + 1)..(Len(old) + Len(new)) /\ i - Len(old) \in 1..Len(new)
    <3>1. Len(old) + 1 \in 1..Len(old \o new)
      BY <2>6, <2>7
    <3>2. /\ Len(old) + 1 \in (Len(old) + 1)..(Len(old) + Len(new))
          /\ (Len(old) + 1) - Len(old) \in 1..Len(new)
      BY <2>6, <2>7
    <3>3. QED
      BY <3>1, <3>2, Zenon
  <2>9. (old \o new)[i].rpc = r /\ (old \o new)[i].event = "WRITE_NEEDED"
    BY <2>1, <2>6, <2>8, Zenon
  <2>10. \E k \in 1..Len(event_queue'[queue[r]]) :
           /\ event_queue'[queue[r]][k].rpc = r
           /\ event_queue'[queue[r]][k].event = "WRITE_NEEDED"
    BY <2>3, <2>8, <2>9, Zenon
  <2>11. queue' = queue
    BY Zenon
  <2>12. QED
    BY <2>10, <2>11, Zenon DEF InQueue
<1>2. ASSUME s = <<>> PROVE send_queue'[r] = send_queue[r]
  <2>1. send_queue'[r] = send_queue[r] \o s
    BY Zenon DEF Send, TypeOK
  <2>2. send_queue[r] \in Seq(SendItem)
    BY DEF TypeOK
  <2>3. QED
    BY <1>2, <2>1, <2>2
<1>3. QED
  BY <1>1, <1>2, Zenon

\* HandleSendQueue leaves nothing to send, or a write or finish pending.
LEMMA SendQueueWakes ==
  ASSUME TypeOK, NEW r \in Rpcs, NEW p \in SUBSET CqEvent, NEW t,
         HandleSendQueue(r, p, t)
  PROVE send_queue'[r] = <<>> \/ {"WRITE", "FINISH"} \cap pending'[r] # {}
<1>1. CASE ~CanSend(r, p)
  <2>1. pending' = [pending EXCEPT ![r] = p] /\ send_queue' = send_queue
    BY <1>1, Zenon DEF HandleSendQueue
  <2>2. pending'[r] = p
    BY <2>1, Zenon DEF TypeOK
  <2>3. QED
    BY <1>1, <2>1, <2>2, Zenon DEF CanSend
<1>2. CASE CanSend(r, p)
  <2>1. PICK e \in {"WRITE", "FINISH"} : StartOp(r, p, t, e)
    BY <1>2 DEF HandleSendQueue, PerformFinish, PerformWrite
  <2>2. pending'[r] = p \cup {e}
    BY <2>1, Zenon DEF StartOp, TypeOK
  <2>3. QED
    BY <2>2, Zenon
<1>3. QED
  BY <1>1, <1>2, Zenon

\* What a step of an event thread does to the Rpc of its event.
LEMMA EventWakes ==
  ASSUME TagInv, LifeInv, NoLostWakeup, TypeOK', NEW q \in EventQueues,
         EventStep(q), fault = "none", NEW r \in Rpcs,
         r = Head(event_queue[q]).rpc, r \in active', send_queue'[r] # <<>>
  PROVE Woken(r)'
<1>1. TypeOK /\ EventEffects(q) /\ LifeEffects(q)
  BY EventIsHandled, EventLife, Zenon DEF TagInv
<1>2. event_queue[q] # <<>> /\ queue' = queue /\ writer_rpc' = writer_rpc
      /\ writer_pc' = writer_pc
  BY <1>1, Zenon DEF EventEffects, writerVars
<1>3. PICK ev \in QueuedEvent : ev = Head(event_queue[q])
  BY <1>1, <1>2, HeadType, Zenon
<1>4. r = ev.rpc
  BY <1>3, Zenon
<1>5. PopAndPush(q, r) /\ finishing \subseteq finishing'
  BY <1>1, <1>3, <1>4, Zenon DEF EventEffects, Handled
<1>6. /\ ev.event \in CqEvent => ev.event \in pending[r]
      /\ ev.event = "NEW_CONNECTION" => handler[r] = "null"
  BY <1>2, <1>3, <1>4, HeadLife, Zenon
<1>7. r \in active
  BY <1>1, Zenon DEF LifeEffects
<1>8. pending \in [Rpcs -> SUBSET CqEvent] /\ pending[r] \subseteq CqEvent
  BY <1>1, Zenon DEF TypeOK
\* The Rpc is still woken, if neither a write nor a finish nor WRITE_NEEDED was
\* handled.
<1>9. ASSUME ev.event \notin {"WRITE", "FINISH", "WRITE_NEEDED"},
             send_queue'[r] = send_queue[r],
             pending[r] \ {ev.event} \subseteq pending'[r]
      PROVE Woken(r)'
  <2>1. Woken(r)
    BY <1>7, <1>9, Zenon DEF NoLostWakeup, Woken, InQueue
  <2>2. InQueue(r, "WRITE_NEEDED") => InQueue(r, "WRITE_NEEDED")'
    <3>1. ev.event # "WRITE_NEEDED"
      BY <1>9
    <3>2. QED
      BY <1>2, <1>3, <1>4, <1>5, <3>1, OtherEventsStay, Zenon
  <2>3. {"WRITE", "FINISH"} \cap pending[r] # {}
          => {"WRITE", "FINISH"} \cap pending'[r] # {}
    BY <1>9
  <2>4. QED
    BY <1>2, <1>5, <2>1, <2>2, <2>3, Zenon DEF Woken
\* What a callback sends wakes the service.
<1>10. ASSUME NEW s \in Seq(SendItem), Send(q, r, s),
              ev.event \notin {"WRITE", "FINISH", "WRITE_NEEDED"},
              pending[r] \ {ev.event} \subseteq pending'[r]
       PROVE Woken(r)'
  <2>1. CASE s = <<>>
    <3>1. send_queue'[r] = send_queue[r]
      BY <1>1, <1>2, <1>10, <2>1, SendWakes, Zenon
    <3>2. QED
      BY <1>9, <1>10, <3>1, Zenon
  <2>2. CASE s # <<>>
    <3>1. InQueue(r, "WRITE_NEEDED")'
      BY <1>1, <1>2, <1>10, <2>2, SendWakes, Zenon
    <3>2. QED
      BY <3>1, Zenon DEF Woken
  <2>3. QED
    BY <2>1, <2>2, Zenon
<1>11. /\ \A s \in RequestScripts[Type(r)] : s \in Seq(SendItem)
       /\ \A s \in ReadsDoneScripts[Type(r)] : s \in Seq(SendItem)
  BY <1>1, ScriptsOfRpc, Zenon
<1>12. CASE RefuseConnection(q)
  <2>1. active' = active \ {r}
    BY <1>3, <1>4, <1>12, Zenon DEF RefuseConnection
  <2>2. QED
    BY <2>1, Zenon
<1>13. CASE AcceptConnection(q)
  <2>1. ev.event = "NEW_CONNECTION"
    BY <1>3, <1>13, Zenon DEF AcceptConnection, NextEventIn
  <2>2. CASE ev.ok /\ StreamsRequests(r)
    <3>1. send_queue' = send_queue
      BY <1>3, <1>4, <1>13, <2>2, Zenon DEF AcceptConnection, OnConnection
    <3>2. send_queue[r] = <<>>
      BY <1>6, <2>1, Zenon DEF LifeInv, RpcLife
    <3>3. QED
      BY <3>1, <3>2, Zenon
  <2>3. CASE ev.ok /\ ~StreamsRequests(r)
    <3>1. pending' = [pending EXCEPT ![r] = pending[r] \ {ev.event}]
      BY <1>3, <1>4, <1>13, <2>3, Zenon DEF AcceptConnection, OnConnection
    <3>2. PICK s1 \in RequestScripts[Type(r)], s2 \in ReadsDoneScripts[Type(r)] :
            Send(q, r, s1 \o s2)
      <4>1. OnConnection(q, r, pending[r] \ {ev.event}, TagsAfter(ev))
        BY <1>3, <1>4, <1>13, <2>3, Zenon DEF AcceptConnection
      <4>2. \E s1 \in RequestScripts[Type(r)], s2 \in ReadsDoneScripts[Type(r)] :
              Send(q, r, s1 \o s2)
        BY <2>3, <4>1, Zenon DEF OnConnection
      <4>3. QED
        BY <4>2, Zenon
    <3>3. s1 \o s2 \in Seq(SendItem)
      <4>1. s1 \in Seq(SendItem) /\ s2 \in Seq(SendItem)
        BY <1>11, Zenon
      <4>2. QED
        BY <4>1
    <3>4. pending[r] \ {ev.event} \subseteq pending'[r]
      BY <1>8, <3>1, Zenon
    <3>5. ev.event \notin {"WRITE", "FINISH", "WRITE_NEEDED"}
      BY <2>1
    <3>6. QED
      BY <1>10, <3>2, <3>3, <3>4, <3>5, Zenon
  <2>4. CASE ~ev.ok
    <3>1. active' = active \ {r}
      BY <1>3, <1>4, <1>13, <2>4, Zenon DEF AcceptConnection
    <3>2. QED
      BY <3>1, Zenon
  <2>5. QED
    BY <2>2, <2>3, <2>4, Zenon
<1>14. CASE HandleRequest(q)
  <2>1. /\ ev.event = "READ"
        /\ pending' = [pending EXCEPT ![r] = (pending[r] \ {ev.event}) \cup {"READ"}]
    BY <1>3, <1>4, <1>14, Zenon DEF HandleRequest, NextEventIn, StartOp
  <2>2. PICK s \in RequestScripts[Type(r)] : Send(q, r, s)
    BY <1>3, <1>4, <1>14, Zenon DEF HandleRequest
  <2>3. pending[r] \ {ev.event} \subseteq pending'[r]
    BY <1>8, <2>1, Zenon
  <2>4. ev.event \notin {"WRITE", "FINISH", "WRITE_NEEDED"}
    BY <2>1
  <2>5. QED
    BY <1>10, <1>11, <2>2, <2>3, <2>4, Zenon
<1>15. CASE HandleReadsDone(q)
  <2>1. /\ ev.event = "READ"
        /\ pending' = [pending EXCEPT ![r] = @ \ {ev.event}]
    BY <1>3, <1>4, <1>15, Zenon DEF HandleReadsDone, NextEventIn
  <2>2. PICK s \in ReadsDoneScripts[Type(r)] : Send(q, r, s)
    BY <1>3, <1>4, <1>15, Zenon DEF HandleReadsDone
  <2>3. pending[r] \ {ev.event} \subseteq pending'[r]
    BY <1>8, <2>1, Zenon
  <2>4. ev.event \notin {"WRITE", "FINISH", "WRITE_NEEDED"}
    BY <2>1
  <2>5. QED
    BY <1>10, <1>11, <2>2, <2>3, <2>4, Zenon
<1>16. CASE HandleWrite(q)
  <2>1. HandleSendQueue(r, pending[r] \ {ev.event}, TagsAfter(ev))
    BY <1>3, <1>4, <1>16, Zenon DEF HandleWrite
  <2>2. pending[r] \ {ev.event} \in SUBSET CqEvent
    BY <1>8, Zenon
  <2>3. {"WRITE", "FINISH"} \cap pending'[r] # {}
    BY <1>1, <2>1, <2>2, SendQueueWakes, Zenon
  <2>4. QED
    BY <2>3, Zenon DEF Woken
<1>17. CASE HandleFinishOrDone(q)
  <2>1. /\ ev.event \in {"FINISH", "DONE"}
        /\ pending' = [pending EXCEPT ![r] = @ \ {ev.event}]
        /\ send_queue' = send_queue
    BY <1>3, <1>4, <1>17, Zenon DEF HandleFinishOrDone, NextEventIn
  <2>2. CASE ev.event = "FINISH"
    <3>1. "FINISH" \in pending[r]
      BY <1>6, <2>2 DEF CqEvent
    <3>2. r \in finishing'
      BY <1>5, <3>1, Zenon DEF TagInv, PendingFinish
    <3>3. QED
      BY <3>2, Zenon DEF Woken
  <2>3. CASE ev.event = "DONE"
    <3>1. pending[r] \ {ev.event} \subseteq pending'[r]
      BY <1>8, <2>1, Zenon
    <3>2. ev.event \notin {"WRITE", "FINISH", "WRITE_NEEDED"}
      BY <2>3
    <3>3. QED
      BY <1>9, <2>1, <3>1, <3>2, Zenon
  <2>4. QED
    BY <2>1, <2>2, <2>3, Zenon
<1>18. CASE IgnoreStaleEvent(q)
  BY <1>3, <1>4, <1>7, <1>18, Zenon DEF IgnoreStaleEvent, Alive
<1>19. QED
  BY <1>12, <1>13, <1>14, <1>15, <1>16, <1>17, <1>18, Zenon DEF EventStep

\* A step that wakes an Rpc, or leaves it alone.
LEMMA WakeStays ==
  ASSUME NEW r \in Rpcs, send_queue[r] # <<>> => Woken(r),
         send_queue'[r] = send_queue[r], pending'[r] = pending[r],
         finishing \subseteq finishing',
         InQueue(r, "WRITE_NEEDED") => InQueue(r, "WRITE_NEEDED")',
         \A w \in Writers :
           writer_rpc[w] = r /\ writer_pc[w] = "enqueued"
             => \/ writer_rpc'[w] = r /\ writer_pc'[w] = "enqueued"
                \/ InQueue(r, "WRITE_NEEDED")',
         send_queue'[r] # <<>>
  PROVE Woken(r)'
BY Zenon DEF Woken

LEMMA WakeupNext ==
  ASSUME TagInv, LifeInv, NoLostWakeup, TagInv', [Next]_vars, fault' = "none",
         NEW r \in active', send_queue'[r] # <<>>
  PROVE Woken(r)'
<1>0. TypeOK /\ TypeOK'
  BY Zenon DEF TagInv
<1>1. r \in Rpcs
  <2>1. r \in 1..created' /\ created' \in 0..MaxRpcs
    BY <1>0, Zenon DEF TypeOK
  <2>2. QED
    BY <2>1, Sizes DEF Rpcs
<1>2. fault = "none" /\ r \in active /\ send_queue[r] # <<>> => Woken(r)
  BY Zenon DEF NoLostWakeup, Woken, InQueue
\* A step that changes neither event queues nor Writers.
<1>3. ASSUME UNCHANGED <<active, queue, pending, send_queue, event_queue,
                         finishing, writer_rpc, writer_pc>>,
             fault = "none"
      PROVE Woken(r)'
  <2>1. /\ active' = active /\ queue' = queue /\ pending' = pending
        /\ send_queue' = send_queue /\ event_queue' = event_queue
        /\ finishing' = finishing
        /\ writer_rpc' = writer_rpc /\ writer_pc' = writer_pc
    BY <1>3, Zenon
  <2>2. InQueue(r, "WRITE_NEEDED") => InQueue(r, "WRITE_NEEDED")'
    BY <2>1, Zenon DEF InQueue
  <2>3. QED
    BY <1>1, <1>2, <1>3, <2>1, <2>2, WakeStays, Zenon
<1>4. CASE UNCHANGED vars
  <2>1. fault = "none"
    BY <1>4, Zenon DEF vars
  <2>2. QED
    BY <1>3, <1>4, <2>1, Zenon DEF vars, rpcVars, threadVars, grpcVars, writerVars
<1>5. CASE StartServing
  <2>1. created = 0 /\ send_queue' = send_queue
    BY <1>5, Zenon DEF StartServing
  <2>2. ~(r \in 1..created)
    BY <2>1
  <2>3. send_queue[r] = <<>>
    BY <1>1, <2>2, Zenon DEF TagInv, OnlyCreatedRpcs
  <2>4. QED
    BY <2>1, <2>3, Zenon
<1>6. CASE Stop
  <2>1. fault = "none"
    BY <1>6, Zenon DEF Stop, StopServing, GrpcShutdown, CqDrained, DestroyService
  <2>2. QED
    BY <1>3, <1>6, <2>1, Zenon
    DEF Stop, StopServing, GrpcShutdown, CqDrained, DestroyService, rpcVars,
        threadVars, grpcVars, writerVars
<1>7. ASSUME NEW q \in EventQueues, RunEventQueue(q) PROVE Woken(r)'
  <2>0. fault = "none"
    BY <1>7, Zenon DEF RunEventQueue, RefuseConnection, AcceptConnection,
       ListenAgain, HandleRequest, HandleReadsDone, HandleWrite,
       HandleFinishOrDone, IgnoreStaleEvent, HandleEventOfDestroyedRpc,
       NextEventIn
  <2>1. CASE EventStep(q)
    <3>1. EventEffects(q) /\ LifeEffects(q)
      BY <1>0, <2>1, EventIsHandled, EventLife, Zenon
    <3>2. CASE r = Head(event_queue[q]).rpc
      BY <1>0, <1>1, <2>0, <2>1, <3>2, EventWakes, Zenon
    <3>3. CASE r # Head(event_queue[q]).rpc
      <4>1. PICK x \in Rpcs : x = Head(event_queue[q]).rpc
        BY <1>0, <3>1, HeadType, Zenon DEF EventEffects
      <4>2. PICK ops \in SUBSET CqEvent : Handled(q, ops)
        BY <3>1, Zenon DEF EventEffects
      <4>3. /\ r \in Rpcs \ {x}
            /\ finishing \subseteq finishing' /\ PopAndPush(q, x)
            /\ send_queue'[r] = send_queue[r]
            /\ event_queue[q] # <<>> /\ queue' = queue
            /\ writer_rpc' = writer_rpc /\ writer_pc' = writer_pc
        BY <1>1, <3>1, <3>3, <4>1, <4>2, Zenon
        DEF EventEffects, Handled, writerVars
      <4>4. pending'[r] = pending[r]
        <5>1. pending' = [pending EXCEPT ![x] = (@ \ {Head(event_queue[q]).event})
                                                   \cup ops]
          BY <4>1, <4>2, Zenon DEF Handled
        <5>2. QED
          BY <1>0, <1>1, <3>3, <4>1, <5>1, ZenonT(40) DEF TypeOK
      <4>5. r \in active
        BY <3>1, Zenon DEF LifeEffects
      <4>6. InQueue(r, "WRITE_NEEDED") => InQueue(r, "WRITE_NEEDED")'
        BY <1>0, <1>1, <3>3, <4>1, <4>3, OtherEventsStay, Zenon
      <4>7. QED
        BY <1>1, <1>2, <2>0, <4>3, <4>4, <4>5, <4>6, WakeStays, Zenon
    <3>4. QED
      BY <3>2, <3>3, Zenon
  <2>2. CASE ListenAgain(q)
    <3>1. PICK new \in Rpcs : new = created + 1
      BY <1>0, <2>2, Sizes DEF ListenAgain, TypeOK, Rpcs
    <3>2. /\ pending' = [pending EXCEPT ![new] = {"DONE", "NEW_CONNECTION"}]
          /\ active' = active \cup {new}
          /\ queue' = [queue EXCEPT ![new] = current_event_queue_id']
          /\ send_queue' = send_queue /\ event_queue' = event_queue
          /\ finishing' = finishing
          /\ writer_rpc' = writer_rpc /\ writer_pc' = writer_pc
      BY <2>2, <3>1, Zenon
      DEF ListenAgain, RequestNextMethodInvocation, SetEventQueue, writerVars
    <3>3. r # new
      <4>1. ~(new \in 1..created)
        BY <1>0, <3>1 DEF TypeOK
      <4>2. send_queue[new] = <<>>
        BY <4>1, Zenon DEF TagInv, OnlyCreatedRpcs
      <4>3. QED
        BY <3>2, <4>2, Zenon
    <3>4. pending'[r] = pending[r] /\ queue'[r] = queue[r] /\ r \in active
      BY <1>0, <1>1, <3>2, <3>3, Zenon DEF TypeOK
    <3>5. InQueue(r, "WRITE_NEEDED") => InQueue(r, "WRITE_NEEDED")'
      BY <3>2, <3>4, Zenon DEF InQueue
    <3>6. QED
      BY <1>1, <1>2, <2>0, <3>2, <3>4, <3>5, WakeStays, ZenonT(40)
  <2>3. CASE HandleEventOfDestroyedRpc(q)
    BY <1>3, <2>0, <2>3, Zenon
    DEF HandleEventOfDestroyedRpc, rpcVars, threadVars, grpcVars, writerVars
  <2>4. QED
    BY <1>7, <2>1, <2>2, <2>3, Zenon DEF RunEventQueue, EventStep
<1>8. ASSUME NEW r2 \in Rpcs, ClientStep(r2) \/ GrpcStep(r2) PROVE Woken(r)'
  <2>1. ASSUME NEW e \in CqEvent, RunCompletionQueue(r2, e) PROVE Woken(r)'
    <3>1. /\ active' = active /\ queue' = queue /\ pending' = pending
          /\ send_queue' = send_queue /\ finishing' = finishing
          /\ writer_rpc' = writer_rpc /\ writer_pc' = writer_pc
          /\ fault = "none"
      BY <2>1, Zenon DEF RunCompletionQueue, rpcVars, writerVars
    <3>2. CASE event_queue' = event_queue
      BY <1>3, <3>1, <3>2, Zenon
    <3> DEFINE ev == [rpc |-> r2, event |-> e, ok |-> tag[r2][e] = "ok"]
    <3>3. CASE event_queue' = [event_queue EXCEPT ![queue[r2]] = Append(@, ev)]
      <4>1. ev \in QueuedEvent /\ ev.rpc = r2
        BY DEF QueuedEvent, Event
      <4> HIDE DEF ev
      <4>2. Pushed(r2, ev.event)
        BY <1>0, <3>3, <4>1, AppendPushes, Zenon
      <4>3. InQueue(r, "WRITE_NEEDED") => InQueue(r, "WRITE_NEEDED")'
        BY <1>0, <1>1, <3>1, <4>2, PushKeepsEvents, Zenon
      <4>4. QED
        BY <1>1, <1>2, <3>1, <4>3, WakeStays, Zenon
    <3>4. QED
      BY <2>1, <3>2, <3>3, Zenon DEF RunCompletionQueue
  <2>2. CASE ClientStep(r2)
    <3>1. fault = "none"
      BY <2>2, Zenon DEF ClientStep, IncomingCall, ClientSends,
         ClientWritesDone, ClientCancels, Complete
    <3>2. QED
      BY <1>3, <2>2, <3>1, Zenon DEF ClientStep, IncomingCall, ClientSends,
         ClientWritesDone, ClientCancels, Complete, rpcVars, threadVars,
         writerVars
  <2>3. CASE \/ RequestFails(r2) \/ ReadFails(r2) \/ WriteCompletes(r2)
             \/ FinishCompletes(r2) \/ CallIsDone(r2)
    <3>1. fault = "none"
      BY <2>3, Zenon DEF RequestFails, ReadFails, WriteCompletes,
         FinishCompletes, CallIsDone, Complete
    <3>2. QED
      BY <1>3, <2>3, <3>1, Zenon DEF RequestFails, ReadFails, WriteCompletes,
         FinishCompletes, CallIsDone, Complete, rpcVars, threadVars, writerVars
  <2>4. QED
    BY <1>8, <2>1, <2>2, <2>3, Zenon DEF GrpcStep
<1>9. ASSUME NEW w \in Writers, WriterStep(w) PROVE Woken(r)'
  <2>0. /\ writer_pc \in [Writers -> {"idle", "enqueued", "notified"}]
        /\ writer_rpc \in [Writers -> Rpcs \cup {NoRpc}]
    BY <1>0, Zenon DEF TypeOK
  <2>1. ASSUME NEW x \in Rpcs, NEW item \in WriterItems,
               WriterEnqueue(w, x, item)
        PROVE Woken(r)'
    <3>1. /\ active' = active /\ queue' = queue /\ pending' = pending
          /\ event_queue' = event_queue /\ finishing' = finishing
          /\ send_queue' = [send_queue EXCEPT ![x] = Append(@, item)]
          /\ writer_pc[w] = "idle"
          /\ writer_pc' = [writer_pc EXCEPT ![w] = "enqueued"]
          /\ writer_rpc' = [writer_rpc EXCEPT ![w] = x]
          /\ fault = "none"
      BY <2>1, Zenon DEF WriterEnqueue, threadVars, grpcVars
    <3>2. CASE r = x
      <4>1. writer_rpc'[w] = r /\ writer_pc'[w] = "enqueued"
        BY <2>0, <3>1, <3>2, Zenon
      <4>2. QED
        BY <4>1, Zenon DEF Woken
    <3>3. CASE r # x
      <4>1. send_queue'[r] = send_queue[r]
        BY <1>0, <1>1, <3>1, <3>3, Zenon DEF TypeOK
      <4>2. writer_pc[w] # "enqueued"
        BY <3>1
      <4>3. \A w2 \in Writers :
              writer_rpc[w2] = r /\ writer_pc[w2] = "enqueued"
                => writer_rpc'[w2] = r /\ writer_pc'[w2] = "enqueued"
        BY <2>0, <3>1, <4>2, Zenon
      <4>4. InQueue(r, "WRITE_NEEDED") => InQueue(r, "WRITE_NEEDED")'
        BY <3>1, Zenon DEF InQueue
      <4>5. QED
        BY <1>1, <1>2, <3>1, <4>1, <4>3, <4>4, WakeStays, Zenon
    <3>4. QED
      BY <3>2, <3>3, Zenon
  <2>2. ASSUME WriterNotify(w) PROVE Woken(r)'
    <3>1. /\ active' = active /\ queue' = queue /\ pending' = pending
          /\ send_queue' = send_queue /\ finishing' = finishing
          /\ writer_rpc' = writer_rpc
          /\ writer_pc[w] = "enqueued" /\ fault = "none"
      BY <2>2, Zenon DEF WriterNotify, rpcVars, grpcVars
    <3>2. PICK x : x = writer_rpc[w]
      BY Zenon
    <3>3. x \in Rpcs
      <4>1. writer_pc[w] # "idle"
        BY <3>1
      <4>2. writer_rpc[w] # NoRpc
        BY <4>1, Zenon DEF LifeInv, WriterLife
      <4>3. QED
        BY <2>0, <3>2, <4>2, Zenon
    <3>4. /\ event_queue' = [event_queue EXCEPT ![queue[x]] =
                               @ \o WriteNeeded(x, <<"MSG">>)]
          /\ writer_pc' = [writer_pc EXCEPT ![w] = "notified"]
      <4>1. fault' # "weak_ptr_check"
        OBVIOUS
      <4>2. QED
        BY <2>2, <3>2, <4>1, Zenon DEF WriterNotify
    <3>5. Pushed(x, "WRITE_NEEDED")
      BY <1>0, <3>3, <3>4, NotifyIsPushed, Zenon
    <3>6. InQueue(r, "WRITE_NEEDED") => InQueue(r, "WRITE_NEEDED")'
      BY <1>0, <1>1, <3>1, <3>5, PushKeepsEvents, Zenon
    <3>7. r = x => InQueue(r, "WRITE_NEEDED")'
      BY <3>1, <3>5, Zenon DEF Pushed, InQueue
    <3>8. \A w2 \in Writers : w2 # w => writer_pc'[w2] = writer_pc[w2]
      BY <2>0, <3>4, Zenon
    <3>9. QED
      BY <1>1, <1>2, <3>1, <3>2, <3>6, <3>7, <3>8, WakeStays, Zenon
  <2>3. ASSUME WriterReturn(w) PROVE Woken(r)'
    <3>1. /\ active' = active /\ queue' = queue /\ pending' = pending
          /\ send_queue' = send_queue /\ finishing' = finishing
          /\ event_queue' = event_queue
          /\ writer_pc' = [writer_pc EXCEPT ![w] = "idle"]
          /\ writer_rpc' = [writer_rpc EXCEPT ![w] = NoRpc]
          /\ writer_pc[w] = "notified" /\ fault = "none"
      BY <2>3, Zenon DEF WriterReturn, rpcVars, threadVars, grpcVars
    <3>2. writer_pc[w] # "enqueued"
      BY <3>1
    <3>3. \A w2 \in Writers :
            writer_rpc[w2] = r /\ writer_pc[w2] = "enqueued"
              => writer_rpc'[w2] = r /\ writer_pc'[w2] = "enqueued"
      BY <2>0, <3>1, <3>2, Zenon
    <3>4. InQueue(r, "WRITE_NEEDED") => InQueue(r, "WRITE_NEEDED")'
      BY <3>1, Zenon DEF InQueue
    <3>5. QED
      BY <1>1, <1>2, <3>1, <3>3, <3>4, WakeStays, Zenon
  <2>4. QED
    BY <1>9, <2>1, <2>2, <2>3, Zenon DEF WriterStep
<1>10. QED
  BY <1>4, <1>5, <1>6, <1>7, <1>8, <1>9, Zenon DEF Next, Serve

\* An Rpc of the service that has something to send is never forgotten,
\* although HandleSendQueue drops WRITE_NEEDED while a write is pending.
THEOREM SendersAreWoken == Spec => []NoLostWakeup
<1>1. Init => NoLostWakeup
  BY Zenon DEF Init, NoLostWakeup
<1>2. /\ TagInv /\ LifeInv /\ NoLostWakeup /\ TagInv' /\ [Next]_vars
      => NoLostWakeup'
  BY WakeupNext, Zenon DEF NoLostWakeup, Woken, InQueue
<1>3. QED
  BY <1>1, <1>2, TagInvariant, LifeInvariant, PTL DEF Spec

-----------------------------------------------------------------------------
(* One Rpc waits per listener *)

\* r waits for a connection or is about to be cloned.
LEMMA SameWaiting ==
  ASSUME UNCHANGED <<created, listener>>,
         \A r \in 1..created :
           ("NEW_CONNECTION" \in pending'[r] \/ \E q \in EventQueues : relisten'[q] = r)
           <=> \/ "NEW_CONNECTION" \in pending[r]
               \/ \E q \in EventQueues : relisten[q] = r,
         NEW l
  PROVE Waiting(l)' = Waiting(l)
<1>1. created' = created /\ listener' = listener
  BY Zenon
<1>2. QED
  BY <1>1, Zenon DEF Waiting

\* The thread that clones r is the only one, and r no longer waits itself.
LEMMA ListenAgainReplaces ==
  ASSUME TagInv, LifeInv, NEW q \in EventQueues, ListenAgain(q),
         NEW l \in Listeners, NEW x \in Rpcs, Waiting(l) = {x}
  PROVE \E y \in Rpcs : Waiting(l)' = {y}
<1>0. /\ TypeOK
      /\ created \in 0..MaxRpcs
      /\ relisten \in [EventQueues -> Rpcs \cup {NoRpc}]
      /\ pending \in [Rpcs -> SUBSET CqEvent]
      /\ listener \in [Rpcs -> Listeners]
  BY Zenon DEF TagInv, TypeOK
<1>1. PICK r \in Rpcs : r = relisten[q]
  BY <1>0, Zenon DEF ListenAgain
<1>2. r # NoRpc
  BY <1>1, Zenon DEF ListenAgain
<1>3. PICK new \in Rpcs : new = created + 1
  BY <1>0, Sizes DEF ListenAgain, Rpcs
<1>4. /\ created' = new
      /\ pending' = [pending EXCEPT ![new] = {"DONE", "NEW_CONNECTION"}]
      /\ listener' = [listener EXCEPT ![new] = listener[r]]
      /\ relisten' = [relisten EXCEPT ![q] = NoRpc]
  BY <1>1, <1>3, Zenon DEF ListenAgain, RequestNextMethodInvocation
<1>5. r \in 1..created
  BY <1>1, <1>2, Zenon DEF TagInv, OnlyCreatedRpcs
<1>6. "NEW_CONNECTION" \notin pending[r]
  BY <1>1, <1>2, Zenon DEF LifeInv, RelistenLife
<1>7. \A q2 \in EventQueues : relisten'[q2] # r
  <2>1. \A q2 \in EventQueues : relisten[q2] = r => q2 = q
    BY <1>1, <1>2, Zenon DEF TagInv, OneThreadPerRpc
  <2>2. QED
    BY <1>0, <1>2, <1>4, <2>1, Zenon
<1>8. /\ 1..created \subseteq Rpcs
      /\ \A y : y \in 1..created' <=> y \in 1..created \/ y = new
      /\ ~(new \in 1..created)
  BY <1>0, <1>3, <1>4, Sizes DEF Rpcs
<1>9. /\ listener'[new] = listener[r] /\ "NEW_CONNECTION" \in pending'[new]
      /\ \A y \in 1..created : /\ listener'[y] = listener[y]
                               /\ pending'[y] = pending[y]
  BY <1>0, <1>4, <1>8, Zenon
<1>10. \A y \in 1..created : y # r =>
         ((\E q2 \in EventQueues : relisten'[q2] = y)
            <=> \E q2 \in EventQueues : relisten[q2] = y)
  <2> SUFFICES ASSUME NEW y \in 1..created, y # r
               PROVE ((\E q2 \in EventQueues : relisten'[q2] = y)
                        <=> \E q2 \in EventQueues : relisten[q2] = y)
    BY Zenon
  <2>1. y # NoRpc
    BY <1>8, Sizes, Zenon
  <2>2. \A q2 \in EventQueues : relisten'[q2] = y <=> relisten[q2] = y
    BY <1>0, <1>1, <1>4, <2>1, Zenon
  <2>3. QED
    BY <2>2, Zenon
<1>11. \A y : y \in Waiting(l) <=>
         /\ y \in 1..created /\ listener[y] = l
         /\ \/ "NEW_CONNECTION" \in pending[y]
            \/ \E q2 \in EventQueues : relisten[q2] = y
  BY Zenon DEF Waiting
<1>12. \A y : y \in Waiting(l)' <=>
         /\ y \in 1..created' /\ listener'[y] = l
         /\ \/ "NEW_CONNECTION" \in pending'[y]
            \/ \E q2 \in EventQueues : relisten'[q2] = y
  BY Zenon DEF Waiting
<1>13. CASE listener[r] = l
  <2>1. r \in Waiting(l)
    BY <1>1, <1>5, <1>11, <1>13, Zenon
  <2>2. x = r
    BY <2>1, Zenon
  <2>3. ASSUME NEW y PROVE y \in Waiting(l)' <=> y = new
    <3>1. CASE y = new
      BY <1>8, <1>9, <1>12, <1>13, <3>1, Zenon
    <3>2. CASE y = r
      BY <1>5, <1>6, <1>7, <1>8, <1>9, <1>12, <3>2, Zenon
    <3>3. CASE y # new /\ y # r
      <4>1. y \in Waiting(l)' => y \in Waiting(l)
        BY <1>8, <1>9, <1>10, <1>11, <1>12, <3>3, Zenon
      <4>2. QED
        BY <2>2, <3>3, <4>1, Zenon
    <3>4. QED
      BY <3>1, <3>2, <3>3, Zenon
  <2>4. Waiting(l)' = {new}
    BY <2>3, SMT
  <2>5. QED
    BY <2>4, Zenon
<1>14. CASE listener[r] # l
  <2>1. ASSUME NEW y PROVE y \in Waiting(l)' <=> y \in Waiting(l)
    <3>1. CASE y = new
      BY <1>8, <1>9, <1>11, <1>12, <1>14, <3>1, Zenon
    <3>2. CASE y = r
      BY <1>5, <1>8, <1>9, <1>11, <1>12, <1>14, <3>2, Zenon
    <3>3. CASE y # new /\ y # r
      BY <1>8, <1>9, <1>10, <1>11, <1>12, <3>3, Zenon
    <3>4. QED
      BY <3>1, <3>2, <3>3, Zenon
  <2>2. Waiting(l)' = Waiting(l)
    BY <2>1, SMT
  <2>3. QED
    BY <2>2, Zenon
<1>15. QED
  BY <1>13, <1>14, Zenon

\* A handled event changes who waits only if it refuses a connection.
LEMMA EventKeepsWaiting ==
  ASSUME TagInv, LifeInv, NEW q \in EventQueues, EventStep(q), NEW l,
         ~service_shutting_down', fault' = "none"
  PROVE Waiting(l)' = Waiting(l)
<1>1. TypeOK /\ EventEffects(q) /\ LifeEffects(q)
  BY EventIsHandled, EventLife, Zenon DEF TagInv
<1>2. /\ event_queue[q] # <<>> /\ relisten[q] = NoRpc
      /\ UNCHANGED <<created, listener>>
  BY <1>1, Zenon DEF EventEffects
<1>3. PICK ev \in QueuedEvent : ev = Head(event_queue[q])
  BY <1>1, <1>2, HeadType, Zenon
<1>4. PICK r \in Rpcs : r = ev.rpc
  BY <1>2, <1>3, HeadOfQueue, Zenon
<1>5. PICK ops \in SUBSET CqEvent : Handled(q, ops)
  BY <1>1, Zenon DEF EventEffects
<1>6. /\ pending'[r] = (pending[r] \ {ev.event}) \cup ops
      /\ \A r2 \in Rpcs \ {r} : pending'[r2] = pending[r2]
  <2>1. FlagsAfter(r, ev, ops)
    BY <1>1, <1>3, <1>4, <1>5, HandledFlags, Zenon
  <2>2. QED
    BY <2>1, Zenon DEF FlagsAfter
<1>7. "NEW_CONNECTION" \notin ops
  <2>1. ops \subseteq {"READ", "WRITE", "FINISH"}
    BY <1>5, Zenon DEF Handled
  <2>2. QED
    BY <2>1
<1>8. 1..created \subseteq Rpcs
  BY <1>1, ActiveRpcs, Zenon
<1>9. CASE ev.event # "NEW_CONNECTION"
  <2>1. relisten' = relisten
    BY <1>1, <1>3, <1>9, Zenon DEF LifeEffects
  <2>2. \A r2 \in 1..created : "NEW_CONNECTION" \in pending'[r2]
                                 <=> "NEW_CONNECTION" \in pending[r2]
    BY <1>6, <1>7, <1>8, <1>9, Zenon
  <2>3. QED
    BY <1>2, <2>1, <2>2, SameWaiting, Zenon
<1>10. CASE ev.event = "NEW_CONNECTION"
  <2>1. AcceptConnection(q)
    <3>1. Head(event_queue[q]).event = "NEW_CONNECTION"
      BY <1>3, <1>10, Zenon
    <3>2. ~HandleRequest(q) /\ ~HandleReadsDone(q) /\ ~HandleWrite(q)
          /\ ~HandleFinishOrDone(q) /\ ~IgnoreStaleEvent(q)
      <4>1. (\/ HandleRequest(q) \/ HandleReadsDone(q) \/ HandleWrite(q)
             \/ HandleFinishOrDone(q) \/ IgnoreStaleEvent(q))
              => \/ Head(event_queue[q]).event \in {"READ"}
                 \/ Head(event_queue[q]).event \in {"WRITE", "WRITE_NEEDED"}
                 \/ Head(event_queue[q]).event \in {"FINISH", "DONE"}
                 \/ Head(event_queue[q]).event \in {"WRITE_NEEDED"}
        BY Zenon DEF HandleRequest, HandleReadsDone, HandleWrite,
           HandleFinishOrDone, IgnoreStaleEvent, NextEventIn
      <4>2. QED
        BY <3>1, <4>1
    <3>3. ~RefuseConnection(q)
      <4>1. RefuseConnection(q)
              => service_shutting_down /\ UNCHANGED service_shutting_down
        BY Zenon DEF RefuseConnection
      <4>2. QED
        BY <4>1
    <3>4. QED
      BY <3>2, <3>3, Zenon DEF EventStep
  <2>2. relisten' = [relisten EXCEPT ![q] = r]
    BY <1>3, <1>4, <2>1, Zenon DEF AcceptConnection
  <2>3. ev.event \in CqEvent /\ ev.event \in pending[r]
    <3>1. ev.event \in CqEvent
      BY <1>10 DEF CqEvent
    <3>2. QED
      BY <1>2, <1>3, <1>4, <3>1, HeadLife, Zenon
  <2>4. relisten \in [EventQueues -> Rpcs \cup {NoRpc}]
    BY <1>1, Zenon DEF TypeOK
  <2>5. ASSUME NEW r2 \in 1..created
        PROVE ("NEW_CONNECTION" \in pending'[r2]
                 \/ \E q2 \in EventQueues : relisten'[q2] = r2)
              <=> ("NEW_CONNECTION" \in pending[r2]
                     \/ \E q2 \in EventQueues : relisten[q2] = r2)
    <3>1. CASE r2 = r
      <4>1. relisten'[q] = r2
        BY <2>2, <2>4, <3>1, Zenon
      <4>2. "NEW_CONNECTION" \in pending[r2]
        BY <1>10, <2>3, <3>1, Zenon
      <4>3. QED
        BY <4>1, <4>2, Zenon
    <3>2. CASE r2 # r
      <4>1. r2 \in Rpcs /\ r2 # NoRpc
        BY <1>8, Sizes, Zenon
      <4>2. pending'[r2] = pending[r2]
        BY <1>6, <3>2, <4>1, Zenon
      <4>3. \A q2 \in EventQueues : relisten'[q2] = r2 <=> relisten[q2] = r2
        BY <1>2, <2>2, <2>4, <3>2, <4>1, Zenon
      <4>4. QED
        BY <4>2, <4>3, Zenon
    <3>3. QED
      BY <3>1, <3>2, Zenon
  <2>6. QED
    BY <1>2, <2>5, SameWaiting, Zenon
<1>11. QED
  BY <1>9, <1>10, Zenon

LEMMA WaitingNext ==
  ASSUME TagInv, LifeInv, OneRpcWaitsPerListener, [Next]_vars,
         fault' = "none", created' > 0, ~service_shutting_down',
         NEW l \in Listeners
  PROVE \E y \in Rpcs : Waiting(l)' = {y}
<1>0. TypeOK
  BY Zenon DEF TagInv
\* Steps that change nothing that counts.
<1>1. ASSUME fault = "none", ~service_shutting_down, created > 0,
             Waiting(l)' = Waiting(l)
      PROVE \E y \in Rpcs : Waiting(l)' = {y}
  BY <1>1, Zenon DEF OneRpcWaitsPerListener
<1>2. ASSUME UNCHANGED <<created, listener, pending, relisten,
                         service_shutting_down>>,
             fault = "none"
      PROVE \E y \in Rpcs : Waiting(l)' = {y}
  <2>1. /\ created' = created /\ listener' = listener /\ pending' = pending
        /\ relisten' = relisten
        /\ service_shutting_down' = service_shutting_down
    BY <1>2, Zenon
  <2>2. Waiting(l)' = Waiting(l)
    BY <2>1, Zenon DEF Waiting
  <2>3. ~service_shutting_down /\ created > 0
    BY <2>1
  <2>4. QED
    BY <1>1, <1>2, <2>2, <2>3, Zenon
<1>3. CASE UNCHANGED vars
  <2>1. fault = "none"
    BY <1>3, Zenon DEF vars
  <2>2. QED
    BY <1>2, <1>3, <2>1, Zenon DEF vars, rpcVars, threadVars
<1>4. CASE StartServing
  <2>1. /\ created = 0 /\ created' = NumListeners
        /\ listener' = [r \in Rpcs |-> IF r \in Listeners THEN r ELSE listener[r]]
        /\ pending' = [r \in Rpcs |-> IF r \in Listeners
                                      THEN {"DONE", "NEW_CONNECTION"}
                                      ELSE pending[r]]
    BY <1>4, Zenon DEF StartServing
  <2>2. \A r \in 1..created' : /\ listener'[r] = r
                               /\ "NEW_CONNECTION" \in pending'[r]
    BY <2>1, Sizes, Zenon DEF Listeners
  <2>3. l \in 1..created'
    BY <2>1, Zenon DEF Listeners
  <2>4. Waiting(l)' = {l}
    BY <2>2, <2>3, Zenon DEF Waiting
  <2>5. QED
    BY <2>4, Sizes, Zenon
<1>5. CASE Stop
  <2>1. fault = "none"
    BY <1>5, Zenon DEF Stop, StopServing, GrpcShutdown, CqDrained, DestroyService
  <2>2. ~(created > 0 /\ StopServing)
    BY Zenon DEF StopServing
  <2>3. QED
    BY <1>2, <1>5, <2>1, <2>2, Zenon
    DEF Stop, GrpcShutdown, CqDrained, DestroyService, rpcVars, threadVars
<1>6. ASSUME NEW q \in EventQueues, RunEventQueue(q)
      PROVE \E y \in Rpcs : Waiting(l)' = {y}
  <2>1. /\ fault = "none"
        /\ service_shutting_down' = service_shutting_down
    BY <1>6, Zenon DEF RunEventQueue, RefuseConnection, AcceptConnection,
       ListenAgain, HandleRequest, HandleReadsDone, HandleWrite,
       HandleFinishOrDone, IgnoreStaleEvent, HandleEventOfDestroyedRpc,
       NextEventIn
  <2>2. CASE EventStep(q)
    <3>1. Waiting(l)' = Waiting(l)
      BY <2>2, EventKeepsWaiting, Zenon
    <3>2. created' = created
      BY <1>0, <2>2, EventIsHandled, Zenon DEF EventEffects
    <3>3. ~service_shutting_down /\ created > 0
      BY <2>1, <3>2
    <3>4. QED
      BY <1>1, <2>1, <3>1, <3>3, Zenon
  <2>3. CASE ListenAgain(q)
    <3>1. created > 0
      <4>1. relisten[q] \in 1..created
        BY <2>3, Zenon DEF ListenAgain, TagInv, OnlyCreatedRpcs
      <4>2. QED
        BY <1>0, <4>1 DEF TypeOK
    <3>2. PICK x \in Rpcs : Waiting(l) = {x}
      BY <2>1, <3>1, Zenon DEF OneRpcWaitsPerListener
    <3>3. QED
      BY <2>3, <3>2, ListenAgainReplaces, Zenon
  <2>4. CASE HandleEventOfDestroyedRpc(q)
    BY <1>2, <2>1, <2>4, Zenon
    DEF HandleEventOfDestroyedRpc, rpcVars, threadVars
  <2>5. QED
    BY <1>6, <2>2, <2>3, <2>4, Zenon DEF RunEventQueue, EventStep
<1>7. ASSUME NEW w \in Writers, WriterStep(w)
      PROVE \E y \in Rpcs : Waiting(l)' = {y}
  <2>1. fault = "none"
    BY <1>7, Zenon DEF WriterStep, WriterEnqueue, WriterNotify, WriterReturn
  <2>2. QED
    BY <1>2, <1>7, <2>1, Zenon
    DEF WriterStep, WriterEnqueue, WriterNotify, WriterReturn, rpcVars, threadVars
<1>8. ASSUME NEW r \in Rpcs, ClientStep(r) \/ GrpcStep(r)
      PROVE \E y \in Rpcs : Waiting(l)' = {y}
  <2>1. CASE ClientStep(r)
    <3>1. fault = "none"
      BY <2>1, Zenon DEF ClientStep, IncomingCall, ClientSends,
         ClientWritesDone, ClientCancels, Complete
    <3>2. QED
      BY <1>2, <2>1, <3>1, Zenon DEF ClientStep, IncomingCall, ClientSends,
         ClientWritesDone, ClientCancels, Complete, rpcVars, threadVars
  <2>2. CASE GrpcStep(r)
    <3>1. fault = "none"
      BY <2>2, Zenon DEF GrpcStep, RequestFails, ReadFails, WriteCompletes,
         FinishCompletes, CallIsDone, Complete, RunCompletionQueue
    <3>2. QED
      BY <1>2, <2>2, <3>1, Zenon DEF GrpcStep, RequestFails, ReadFails,
         WriteCompletes, FinishCompletes, CallIsDone, Complete,
         RunCompletionQueue, rpcVars, threadVars
  <2>3. QED
    BY <1>8, <2>1, <2>2, Zenon
<1>9. QED
  BY <1>3, <1>4, <1>5, <1>6, <1>7, <1>8, Zenon DEF Next, Serve

\* Until the service is stopped, exactly one Rpc of every method on every
\* completion queue waits for the next client, whatever the threads of the
\* event queues do between OnConnection and Clone.
THEOREM ListenersStayOpen == Spec => []OneRpcWaitsPerListener
<1>1. Init => OneRpcWaitsPerListener
  BY DEF Init, OneRpcWaitsPerListener
<1>2. TagInv /\ LifeInv /\ OneRpcWaitsPerListener /\ [Next]_vars
        => OneRpcWaitsPerListener'
  BY WaitingNext, Zenon DEF OneRpcWaitsPerListener
<1>3. QED
  BY <1>1, <1>2, TagInvariant, LifeInvariant, PTL DEF Spec

-----------------------------------------------------------------------------
(* The end of a call, and faults *)

\* An item that HandleSendQueue ends the call with.
Finishes(r, item) == item # "MSG" \/ UnaryResponse(r)

RpcFinish(r) ==
  \* Until the requests are done nothing finishes the call.
  /\ handler[r] # "reads_done"
       => /\ r \notin finishing
          /\ \A item \in Items(send_queue[r]) : ~Finishes(r, item)
  /\ handler[r] = "reading" => StreamsRequests(r)
  \* Finish waits for the last write, and no event makes the service look for
  \* more to send when it is over.
  /\ r \in finishing => "WRITE" \notin pending[r]
  /\ (r \in finishing /\ "FINISH" \notin pending[r])
       => ~InQueue(r, "WRITE_NEEDED")
  /\ UnaryResponse(r) => "OK" \notin Items(send_queue[r])

\* All events that announced items come before the completion of Finish.
QueueFinish(q) ==
  \A i, j \in 1..Len(event_queue[q]) :
    (/\ event_queue[q][i].rpc = event_queue[q][j].rpc
     /\ event_queue[q][i].event = "WRITE_NEEDED"
     /\ event_queue[q][j].event = "FINISH") => i < j

\* Until a Writer is used, a call is finished once.
FinishInv ==
  writes = 0 => /\ \A r \in Rpcs : RpcFinish(r)
                /\ \A q \in EventQueues : QueueFinish(q)

\* Until a Writer is used, nothing goes wrong before the service is stopped, and
\* some things do not at all.
FaultInv ==
  writes = 0 =>
    /\ fault \notin {"weak_ptr_check", "op_after_finish", "finish_with_ok_error"}
    /\ fault # "none" => service_shutting_down

\* The CHECK of GetWeakPtr fails only for an Rpc whose call is over.
WeakPtrCheck ==
  fault = "weak_ptr_check" =>
    \E w \in Writers : /\ writer_pc[w] = "enqueued"
                       /\ writer_rpc[w] \notin active
                       /\ call[writer_rpc[w]] = "over"

-----------------------------------------------------------------------------
(* Items, and events that were in a queue before *)

LEMMA ItemsOfConcat ==
  ASSUME NEW S, NEW a \in Seq(S), NEW b \in Seq(S)
  PROVE \A x \in Items(a \o b) : x \in Items(a) \/ x \in Items(b)
<1>1. /\ Len(a \o b) = Len(a) + Len(b)
      /\ Len(a) \in Nat /\ Len(b) \in Nat
      /\ \A i \in 1..Len(a) : (a \o b)[i] = a[i]
      /\ \A i \in (Len(a) + 1)..(Len(a) + Len(b)) :
           (a \o b)[i] = b[i - Len(a)]
  BY Concat
<1> SUFFICES ASSUME NEW i \in 1..Len(a \o b)
             PROVE (a \o b)[i] \in Items(a) \/ (a \o b)[i] \in Items(b)
  BY Zenon DEF Items
<1>2. CASE i \in 1..Len(a)
  BY <1>1, <1>2, Zenon DEF Items
<1>3. CASE i \notin 1..Len(a)
  <2>1. /\ i \in (Len(a) + 1)..(Len(a) + Len(b))
        /\ i - Len(a) \in 1..Len(b)
    BY <1>1, <1>3
  <2>2. QED
    BY <1>1, <2>1, Zenon DEF Items
<1>4. QED
  BY <1>2, <1>3, Zenon

LEMMA ItemsOfTail ==
  ASSUME NEW S, NEW s \in Seq(S), s # <<>>
  PROVE /\ Head(s) \in Items(s)
        /\ \A x \in Items(Tail(s)) : x \in Items(s)
<1>1. /\ Len(s) \in Nat \ {0} /\ Head(s) = s[1]
      /\ Len(Tail(s)) = Len(s) - 1
  OBVIOUS
<1>2. ASSUME NEW i \in 1..Len(Tail(s))
      PROVE i + 1 \in 1..Len(s) /\ Tail(s)[i] = s[i + 1]
  <2>1. i \in 1..(Len(s) - 1) /\ i + 1 \in 1..Len(s)
    BY <1>1
  <2>2. Tail(s)[i] = s[i + 1]
    BY <2>1
  <2>3. QED
    BY <2>1, <2>2
<1>3. 1 \in 1..Len(s)
  BY <1>1
<1>4. Head(s) \in Items(s)
  BY <1>1, <1>3 DEF Items
<1>5. \A x \in Items(Tail(s)) : x \in Items(s)
  <2> DEFINE t == Tail(s)
  <2>1. \A i \in 1..Len(t) : i + 1 \in 1..Len(s) /\ t[i] = s[i + 1]
    BY <1>2, Zenon
  <2> HIDE DEF t
  <2>2. \A x \in Items(t) : x \in Items(s)
    BY <2>1, Zenon DEF Items
  <2>3. QED
    BY <2>2, Zenon DEF t
<1>6. QED
  BY <1>4, <1>5, Zenon

\* The events of other Rpcs, and all events when the step pushes nothing, were
\* in the queue before.
LEMMA OldEventsOfOthers ==
  ASSUME NEW q \in EventQueues, NEW r, PopAndPush(q, r),
         NEW q2 \in EventQueues, NEW i \in 1..Len(event_queue'[q2]),
         event_queue'[q2][i].rpc # r
  PROVE /\ i + Shift(q2, q) \in 1..Len(event_queue[q2])
        /\ event_queue'[q2][i] = event_queue[q2][i + Shift(q2, q)]
BY Zenon DEF PopAndPush

LEMMA OldEventsWhenPopped ==
  ASSUME TypeOK, TypeOK', NEW q \in EventQueues, event_queue[q] # <<>>,
         event_queue' = Popped(q), NEW q2 \in EventQueues,
         NEW i \in 1..Len(event_queue'[q2])
  PROVE /\ i + Shift(q2, q) \in 1..Len(event_queue[q2])
        /\ event_queue'[q2][i] = event_queue[q2][i + Shift(q2, q)]
<1>1. PopAndPush(q, NoRpc)
  BY PoppedIsPopAndPush, Zenon
<1>2. event_queue'[q2][i].rpc # NoRpc
  <2>1. event_queue'[q2] \in Seq(QueuedEvent)
    BY DEF TypeOK
  <2>2. event_queue'[q2][i] \in QueuedEvent
    BY <2>1
  <2>3. QED
    BY <2>2, Sizes DEF QueuedEvent
<1>3. QED
  BY <1>1, <1>2, OldEventsOfOthers, ZenonT(40)

\* What gRPC aborts on.
LEMMA OpFaults ==
  ASSUME NEW r, NEW t, NEW e
  PROVE /\ OpFault(r, t, e) \in {"none", "op_on_drained_cq", "op_in_flight",
                                 "op_after_finish"}
        /\ OpFault(r, t, e) = "op_on_drained_cq" => CqOfRpc(r) \in cq_drained
        /\ OpFault(r, t, e) = "op_after_finish"
             => r \in finishing /\ e \in {"WRITE", "FINISH"}
BY DEF OpFault

-----------------------------------------------------------------------------
(* FinishInv and FaultInv: steps of event threads *)

\* What an event thread does to the other Rpcs.
LEMMA OtherRpcsFinish ==
  ASSUME TagInv, TypeOK', NEW q \in EventQueues, event_queue[q] # <<>>,
         NEW r \in Rpcs, PopAndPush(q, r),
         UNCHANGED <<listener, queue>>,
         NEW r2 \in Rpcs, r2 # r, RpcFinish(r2),
         handler'[r2] = handler[r2], pending'[r2] = pending[r2],
         send_queue'[r2] = send_queue[r2],
         r2 \in finishing' => r2 \in finishing
  PROVE RpcFinish(r2)'
<1>1. ASSUME InQueue(r2, "WRITE_NEEDED")' PROVE InQueue(r2, "WRITE_NEEDED")
  <2>1. PICK q2 \in EventQueues : q2 = queue[r2]
    BY DEF TagInv, TypeOK
  <2>2. PICK i \in 1..Len(event_queue'[q2]) :
          /\ event_queue'[q2][i].rpc = r2
          /\ event_queue'[q2][i].event = "WRITE_NEEDED"
    BY <1>1, <2>1, Zenon DEF InQueue
  <2>3. /\ i + Shift(q2, q) \in 1..Len(event_queue[q2])
        /\ event_queue'[q2][i] = event_queue[q2][i + Shift(q2, q)]
    BY <2>2, OldEventsOfOthers, ZenonT(40)
  <2>4. QED
    BY <2>1, <2>2, <2>3, Zenon DEF InQueue
<1>2. /\ StreamsRequests(r2)' <=> StreamsRequests(r2)
      /\ UnaryResponse(r2)' <=> UnaryResponse(r2)
      /\ \A item : Finishes(r2, item)' <=> Finishes(r2, item)
  BY Zenon DEF StreamsRequests, UnaryResponse, Finishes, Type
<1>3. QED
  BY <1>1, <1>2, Zenon DEF RpcFinish

\* All WRITE_NEEDED of an Rpc stay before its FINISH.
LEMMA EventQueueFinish ==
  ASSUME TagInv, TypeOK', NEW q \in EventQueues, event_queue[q] # <<>>,
         NEW r \in Rpcs, PopAndPush(q, r),
         r \notin finishing \/ event_queue' = Popped(q),
         NEW q2 \in EventQueues, QueueFinish(q2)
  PROVE QueueFinish(q2)'
<1>1. SUFFICES ASSUME NEW i \in 1..Len(event_queue'[q2]),
                      NEW j \in 1..Len(event_queue'[q2]),
                      event_queue'[q2][i].rpc = event_queue'[q2][j].rpc,
                      event_queue'[q2][i].event = "WRITE_NEEDED",
                      event_queue'[q2][j].event = "FINISH"
               PROVE i < j
  BY Zenon DEF QueueFinish
<1>2. TypeOK
  BY Zenon DEF TagInv
<1>3. "FINISH" \in CqEvent
  BY DEF CqEvent
<1>4. /\ j + Shift(q2, q) \in 1..Len(event_queue[q2])
      /\ event_queue'[q2][j] = event_queue[q2][j + Shift(q2, q)]
  BY <1>1, <1>3, OldEvents, Zenon
<1>5. /\ i + Shift(q2, q) \in 1..Len(event_queue[q2])
      /\ event_queue'[q2][i] = event_queue[q2][i + Shift(q2, q)]
  <2>1. CASE event_queue'[q2][i].rpc # r
    BY <2>1, OldEventsOfOthers, Zenon
  <2>2. CASE event_queue' = Popped(q)
    BY <1>2, <2>2, OldEventsWhenPopped, Zenon
  <2>3. CASE r \notin finishing /\ event_queue'[q2][i].rpc = r
    <3>1. event_queue[q2][j + Shift(q2, q)].rpc = r
      BY <1>1, <1>4, <2>3, Zenon
    <3>2. tag[r]["FINISH"] = "queued"
      BY <1>1, <1>3, <1>4, <3>1, Zenon DEF TagInv, QueuedTags
    <3>3. "FINISH" \in pending[r]
      BY <1>3, <3>2 DEF TagInv, UsedTagsArePending
    <3>4. QED
      BY <2>3, <3>3, Zenon DEF TagInv, PendingFinish
  <2>4. QED
    BY <2>1, <2>2, <2>3, Zenon
<1>6. i + Shift(q2, q) < j + Shift(q2, q)
  BY <1>1, <1>4, <1>5, Zenon DEF QueueFinish
<1>7. Len(event_queue'[q2]) \in Nat
  BY DEF TypeOK
<1>8. QED
  BY <1>6, <1>7 DEF Shift

LEMMA SameKind ==
  ASSUME UNCHANGED listener, NEW r
  PROVE /\ StreamsRequests(r)' <=> StreamsRequests(r)
        /\ UnaryResponse(r)' <=> UnaryResponse(r)
        /\ \A item : Finishes(r, item)' <=> Finishes(r, item)
BY Zenon DEF StreamsRequests, UnaryResponse, Finishes, Type

\* An event is handled that sends nothing.
LEMMA QuietRpcFinish ==
  ASSUME TagInv, TypeOK', NEW q \in EventQueues, event_queue[q] # <<>>,
         NEW ev \in QueuedEvent, ev = Head(event_queue[q]),
         NEW r \in Rpcs, r = ev.rpc, RpcFinish(r), QueueFinish(q),
         UNCHANGED <<listener, queue>>,
         handler'[r] = handler[r], send_queue'[r] = send_queue[r],
         pending'[r] = pending[r] \ {ev.event},
         finishing' = finishing, event_queue' = Popped(q)
  PROVE RpcFinish(r)'
<1>1. /\ 1 \in 1..Len(event_queue[q]) /\ ev = event_queue[q][1]
      /\ queue[r] = q /\ TypeOK
  BY HeadOfQueue, ZenonT(40) DEF TagInv
<1>2. ASSUME r \in finishing, "FINISH" \notin pending'[r],
             InQueue(r, "WRITE_NEEDED")'
      PROVE FALSE
  <2>1. PICK i \in 1..Len(event_queue'[q]) :
          /\ event_queue'[q][i].rpc = r
          /\ event_queue'[q][i].event = "WRITE_NEEDED"
    BY <1>1, <1>2, Zenon DEF InQueue
  <2>2. /\ i + Shift(q, q) \in 1..Len(event_queue[q])
        /\ event_queue'[q][i] = event_queue[q][i + Shift(q, q)]
    <3>1. \A q2 \in EventQueues : \A j \in 1..Len(event_queue'[q2]) :
            /\ j + Shift(q2, q) \in 1..Len(event_queue[q2])
            /\ event_queue'[q2][j] = event_queue[q2][j + Shift(q2, q)]
      BY <1>1, OldEventsWhenPopped, Zenon
    <3>2. QED
      BY <3>1, Zenon
  <2>3. InQueue(r, "WRITE_NEEDED")
    BY <1>1, <2>1, <2>2, ZenonT(40) DEF InQueue
  <2>4. "FINISH" \in pending[r]
    BY <1>2, <2>3, Zenon DEF RpcFinish
  <2>5. ev.event = "FINISH"
    BY <1>2, <2>4
  <2>6. i + Shift(q, q) < 1
    BY <1>1, <2>1, <2>2, <2>5, ZenonT(40) DEF QueueFinish
  <2>7. Len(event_queue'[q]) \in Nat
    BY DEF TypeOK
  <2>8. QED
    BY <2>6, <2>7 DEF Shift
<1>3. "WRITE" \in pending'[r] => "WRITE" \in pending[r]
  BY Zenon
<1>4. QED
  BY <1>2, <1>3, SameKind, Zenon DEF RpcFinish

\* HandleSendQueue takes an item only before the call is finished.
LEMMA NothingSentAfterFinish ==
  ASSUME TagInv, LifeInv, NEW q \in EventQueues, event_queue[q] # <<>>,
         NEW ev \in QueuedEvent, ev = Head(event_queue[q]),
         NEW r \in Rpcs, r = ev.rpc, RpcFinish(r),
         ev.event \in {"WRITE", "WRITE_NEEDED"},
         CanSend(r, pending[r] \ {ev.event})
  PROVE r \notin finishing
<1>1. /\ 1 \in 1..Len(event_queue[q]) /\ ev = event_queue[q][1]
      /\ queue[r] = q
  BY HeadOfQueue, Zenon
<1>2. SUFFICES ASSUME r \in finishing PROVE FALSE
  BY Zenon
<1>3. "FINISH" \notin pending[r]
  BY DEF CanSend
<1>4. CASE ev.event = "WRITE"
  <2>1. ev.event \in CqEvent
    BY <1>4 DEF CqEvent
  <2>2. "WRITE" \in pending[r]
    BY <1>4, <2>1, HeadLife, Zenon
  <2>3. QED
    BY <1>2, <2>2, Zenon DEF RpcFinish
<1>5. CASE ev.event = "WRITE_NEEDED"
  <2>1. InQueue(r, "WRITE_NEEDED")
    BY <1>1, <1>5, Zenon DEF InQueue
  <2>2. QED
    BY <1>2, <1>3, <2>1, Zenon DEF RpcFinish
<1>6. QED
  BY <1>4, <1>5, Zenon

\* HandleSendQueue takes an item: nothing that gRPC refuses, unless its
\* completion queue is gone.
LEMMA SentRpcFinish ==
  ASSUME TypeOK, NEW r \in Rpcs, RpcFinish(r), r \notin finishing,
         NEW p \in SUBSET CqEvent, NEW t, CanSend(r, p),
         HandleSendQueue(r, p, t), UNCHANGED <<listener, handler>>
  PROVE /\ RpcFinish(r)'
        /\ \A r2 \in Rpcs \ {r} : r2 \in finishing' => r2 \in finishing
        /\ fault' \in {"none", "op_on_drained_cq", "op_in_flight"}
        /\ fault' = "op_on_drained_cq" => CqOfRpc(r) \in cq_drained
<1>1. /\ send_queue[r] \in Seq(SendItem) /\ send_queue[r] # <<>>
      /\ send_queue \in [Rpcs -> Seq(SendItem)]
      /\ pending \in [Rpcs -> SUBSET CqEvent]
  BY Zenon DEF TypeOK, CanSend
<1>2. PICK item : item = Head(send_queue[r])
  BY Zenon
<1>3. /\ item \in Items(send_queue[r])
      /\ \A x \in Items(Tail(send_queue[r])) : x \in Items(send_queue[r])
  BY <1>1, <1>2, ItemsOfTail, Zenon
<1>4. send_queue'[r] = Tail(send_queue[r])
  <2>1. send_queue' = [send_queue EXCEPT ![r] = Tail(@)]
    BY Zenon DEF HandleSendQueue
  <2>2. QED
    BY <1>1, <2>1, Zenon
<1>5. \A x \in Items(send_queue'[r]) : x \in Items(send_queue[r])
  BY <1>3, <1>4, Zenon
<1>6. "WRITE" \notin p
  BY DEF CanSend
<1>7. CASE item = "MSG" /\ ~UnaryResponse(r)
  <2>1. PerformWrite(r, p, t)
    BY <1>2, <1>7, Zenon DEF HandleSendQueue
  <2>2. finishing' = finishing /\ fault' = OpFault(r, t, "WRITE")
    BY <2>1, Zenon DEF PerformWrite
  <2>3. RpcFinish(r)'
    BY <1>5, <2>2, SameKind, Zenon DEF RpcFinish
  <2>4. QED
    BY <2>2, <2>3, OpFaults
<1>8. CASE ~(item = "MSG" /\ ~UnaryResponse(r))
  <2>1. PerformFinish(r, p, t, item) /\ Finishes(r, item)
    BY <1>2, <1>8, Zenon DEF HandleSendQueue, Finishes
  <2>2. handler[r] = "reads_done"
    BY <1>3, <2>1, Zenon DEF RpcFinish
  <2>3. ~(UnaryResponse(r) /\ item = "OK")
    BY <1>3, Zenon DEF RpcFinish
  <2>4. /\ finishing' = finishing \cup {r}
        /\ fault' = OpFault(r, t, "FINISH")
        /\ pending' = [pending EXCEPT ![r] = p \cup {"FINISH"}]
    BY <2>1, <2>3, Zenon DEF PerformFinish, StartOp
  <2>5. pending'[r] = p \cup {"FINISH"}
    BY <1>1, <2>4, Zenon
  <2>6. "WRITE" \notin pending'[r] /\ "FINISH" \in pending'[r]
    BY <1>6, <2>5
  <2>7. handler'[r] = "reads_done" /\ handler'[r] # "reading"
    BY <2>2
  <2>8. RpcFinish(r)'
    BY <1>5, <2>6, <2>7, SameKind, Zenon DEF RpcFinish
  <2>9. QED
    BY <2>4, <2>8, OpFaults
<1>9. QED
  BY <1>7, <1>8, Zenon

\* The items that a callback sends.
LEMMA SentItems ==
  ASSUME TypeOK, NEW q, NEW r \in Rpcs, NEW s \in Seq(SendItem), Send(q, r, s)
  PROVE \A x \in Items(send_queue'[r]) :
          x \in Items(send_queue[r]) \/ x \in Items(s)
<1>1. send_queue'[r] = send_queue[r] \o s /\ send_queue[r] \in Seq(SendItem)
  BY Zenon DEF Send, TypeOK
<1>2. QED
  BY <1>1, ItemsOfConcat, Zenon

\* A callback is called before anything finishes the call, and, if it is called
\* again, sends nothing that does.
LEMMA CallbackFinish ==
  ASSUME HandlersFinishLast, TagInv, LifeInv, NEW q \in EventQueues,
         event_queue[q] # <<>>, NEW ev \in QueuedEvent,
         ev = Head(event_queue[q]), NEW r \in Rpcs, r = ev.rpc, RpcFinish(r),
         \/ AcceptConnection(q) /\ ev.ok
         \/ HandleRequest(q)
         \/ HandleReadsDone(q)
  PROVE /\ RpcFinish(r)'
        /\ finishing' = finishing /\ r \notin finishing
        /\ fault' \in {"none", "op_on_drained_cq", "op_in_flight"}
        /\ fault' = "op_on_drained_cq" => CqOfRpc(r) \in cq_drained
<1>1. /\ TypeOK /\ handler \in [Rpcs -> {"null", "reading", "reads_done"}]
      /\ listener' = listener /\ finishing' = finishing /\ fault = "none"
      /\ Type(r) \in RpcType
  <2>1. TypeOK
    BY ZenonT(40) DEF TagInv
  <2>2. Type(r) \in RpcType
    BY <2>1, MethodOfListener, HandlerAssumption DEF Type, TypeOK
  <2>3. listener' = listener /\ finishing' = finishing /\ fault = "none"
    BY Zenon DEF AcceptConnection, HandleRequest, HandleReadsDone, NextEventIn
  <2>4. QED
    BY <2>1, <2>2, <2>3, Zenon DEF TypeOK
<1>2. /\ AcceptConnection(q) => handler[r] = "null"
      /\ HandleRequest(q) => handler[r] = "reading"
      /\ HandleReadsDone(q) => handler[r] = "reading"
  <2>1. /\ ev.event = "NEW_CONNECTION" => handler[r] = "null"
        /\ ev.event = "READ" => handler[r] = "reading"
    BY HeadLife, Zenon
  <2>2. /\ AcceptConnection(q) => ev.event = "NEW_CONNECTION"
        /\ HandleRequest(q) => ev.event = "READ"
        /\ HandleReadsDone(q) => ev.event = "READ"
    BY Zenon DEF AcceptConnection, HandleRequest, HandleReadsDone, NextEventIn
  <2>3. QED
    BY <2>1, <2>2, Zenon
<1>3. /\ r \notin finishing
      /\ \A item \in Items(send_queue[r]) : ~Finishes(r, item)
  <2>1. handler[r] # "reads_done"
    BY <1>2
  <2>2. QED
    BY <2>1, Zenon DEF RpcFinish
<1>4. /\ \A s \in RequestScripts[Type(r)] : s \in Seq(SendItem)
      /\ \A s \in ReadsDoneScripts[Type(r)] : s \in Seq(SendItem)
  BY <1>1, ScriptsOfRpc, Zenon
<1>5. UnaryResponse(r) =>
        /\ \A s \in RequestScripts[Type(r)] : "OK" \notin Items(s)
        /\ \A s \in ReadsDoneScripts[Type(r)] : "OK" \notin Items(s)
  BY Zenon DEF UnaryResponse, HandlersFinishLast
<1>6. StreamsRequests(r) =>
        \A s \in RequestScripts[Type(r)] : \A x \in Items(s) : ~Finishes(r, x)
  <2>1. CASE Type(r) = "CLIENT_STREAMING"
    BY <2>1, Zenon DEF HandlersFinishLast
  <2>2. CASE Type(r) = "BIDI_STREAMING"
    <3>1. ~UnaryResponse(r)
      BY <2>2 DEF UnaryResponse
    <3>2. \A s \in RequestScripts[Type(r)] : \A x \in Items(s) : x = "MSG"
      BY <2>2, Zenon DEF HandlersFinishLast
    <3>3. QED
      BY <3>1, <3>2, Zenon DEF Finishes
  <2>3. QED
    BY <2>1, <2>2, Zenon DEF StreamsRequests
<1>7. "OK" \notin Items(send_queue[r]) \/ ~UnaryResponse(r)
  BY Zenon DEF RpcFinish
<1>8. CASE AcceptConnection(q) /\ ev.ok
  <2>1. OnConnection(q, r, pending[r] \ {ev.event}, TagsAfter(ev))
    BY <1>8, ZenonT(40) DEF AcceptConnection
  <2>2. CASE StreamsRequests(r)
    <3>1. /\ handler' = [handler EXCEPT ![r] = "reading"]
          /\ fault' = OpFault(r, TagsAfter(ev), "READ")
          /\ send_queue' = send_queue
      BY <2>1, <2>2, Zenon DEF OnConnection
    <3>2. handler'[r] = "reading"
      BY <1>1, <3>1, Zenon
    <3>3. RpcFinish(r)'
      BY <1>1, <1>3, <1>7, <2>2, <3>1, SameKind, ZenonT(40) DEF RpcFinish
    <3>4. QED
      BY <1>1, <1>3, <3>1, <3>3, OpFaults
  <2>3. CASE ~StreamsRequests(r)
    <3>1. /\ handler' = [handler EXCEPT ![r] = "reads_done"]
          /\ fault' = fault
          /\ \E s1 \in RequestScripts[Type(r)], s2 \in ReadsDoneScripts[Type(r)] :
               Send(q, r, s1 \o s2)
      BY <2>1, <2>3, ZenonT(40) DEF OnConnection
    <3>2. handler'[r] = "reads_done" /\ handler'[r] # "reading"
      BY <1>1, <3>1
    <3>3. PICK s1 \in RequestScripts[Type(r)], s2 \in ReadsDoneScripts[Type(r)] :
            Send(q, r, s1 \o s2)
      BY <3>1, Zenon
    <3>4. /\ s1 \o s2 \in Seq(SendItem)
          /\ \A x \in Items(s1 \o s2) : x \in Items(s1) \/ x \in Items(s2)
      <4>1. s1 \in Seq(SendItem) /\ s2 \in Seq(SendItem)
        BY <1>4, Zenon
      <4>2. s1 \o s2 \in Seq(SendItem)
        BY <4>1
      <4>3. QED
        BY <4>1, <4>2, ItemsOfConcat, Zenon
    <3>5. \A x \in Items(send_queue'[r]) :
            x \in Items(send_queue[r]) \/ x \in Items(s1) \/ x \in Items(s2)
      BY <1>1, <3>3, <3>4, SentItems, Zenon
    <3>6. UnaryResponse(r) => "OK" \notin Items(send_queue'[r])
      BY <1>5, <1>7, <3>5, Zenon
    <3>7. RpcFinish(r)'
      BY <1>1, <1>3, <3>2, <3>6, SameKind, ZenonT(40) DEF RpcFinish
    <3>8. QED
      BY <1>1, <1>3, <3>1, <3>7
  <2>4. QED
    BY <2>2, <2>3, Zenon
<1>9. CASE HandleRequest(q)
  <2>1. /\ handler' = handler /\ fault' = OpFault(r, TagsAfter(ev), "READ")
        /\ \E s \in RequestScripts[Type(r)] : Send(q, r, s)
    BY <1>9, Zenon DEF HandleRequest
  <2>2. StreamsRequests(r)
    BY <1>2, <1>9, Zenon DEF RpcFinish
  <2>3. PICK s \in RequestScripts[Type(r)] : Send(q, r, s)
    BY <2>1, Zenon
  <2>4. \A x \in Items(send_queue'[r]) :
          x \in Items(send_queue[r]) \/ x \in Items(s)
    BY <1>1, <1>4, <2>3, SentItems, Zenon
  <2>5. /\ \A x \in Items(send_queue'[r]) : ~Finishes(r, x)
        /\ UnaryResponse(r) => "OK" \notin Items(send_queue'[r])
    BY <1>3, <1>5, <1>6, <1>7, <2>2, <2>4, Zenon
  <2>6. RpcFinish(r)'
    BY <1>1, <1>3, <2>1, <2>2, <2>5, SameKind, ZenonT(40) DEF RpcFinish
  <2>7. QED
    BY <1>1, <1>3, <2>1, <2>6, OpFaults
<1>10. CASE HandleReadsDone(q)
  <2>1. /\ handler' = [handler EXCEPT ![r] = "reads_done"] /\ fault' = fault
        /\ \E s \in ReadsDoneScripts[Type(r)] : Send(q, r, s)
    BY <1>10, Zenon DEF HandleReadsDone
  <2>2. handler'[r] = "reads_done" /\ handler'[r] # "reading"
    BY <1>1, <2>1
  <2>3. PICK s \in ReadsDoneScripts[Type(r)] : Send(q, r, s)
    BY <2>1, Zenon
  <2>4. \A x \in Items(send_queue'[r]) :
          x \in Items(send_queue[r]) \/ x \in Items(s)
    BY <1>1, <1>4, <2>3, SentItems, Zenon
  <2>5. UnaryResponse(r) => "OK" \notin Items(send_queue'[r])
    BY <1>5, <1>7, <2>4, Zenon
  <2>6. RpcFinish(r)'
    BY <1>1, <1>3, <2>2, <2>5, SameKind, Zenon DEF RpcFinish
  <2>7. QED
    BY <1>1, <1>3, <2>1, <2>6
<1>11. QED
  BY <1>8, <1>9, <1>10, Zenon

LEMMA EventPreservesFinish ==
  ASSUME HandlersFinishLast, TagInv, LifeInv, RemovalInv, TagInv',
         NEW q \in EventQueues, EventStep(q), writes = 0, FinishInv
  PROVE FinishInv' /\ FaultInv'
<1>1. TypeOK /\ TypeOK' /\ EventEffects(q)
  BY EventIsHandled, Zenon DEF TagInv
<1>2. /\ event_queue[q] # <<>> /\ listener' = listener /\ queue' = queue
  BY <1>1, Zenon DEF EventEffects
<1>3. PICK ops \in SUBSET CqEvent : Handled(q, ops)
  BY <1>1, Zenon DEF EventEffects
<1>4. PICK ev \in QueuedEvent : ev = Head(event_queue[q])
  BY <1>1, <1>2, HeadType, Zenon
<1>5. PICK r \in Rpcs : r = ev.rpc
  BY <1>2, <1>4, HeadOfQueue, Zenon
<1>6. /\ \A r2 \in Rpcs \ {r} : handler'[r2] = handler[r2]
      /\ \A r2 \in Rpcs \ {r} : send_queue'[r2] = send_queue[r2]
      /\ PopAndPush(q, r)
  BY <1>1, <1>3, <1>4, <1>5, ZenonT(40) DEF Handled, EventEffects
<1>7. \A r2 \in Rpcs \ {r} : pending'[r2] = pending[r2]
  <2>1. FlagsAfter(r, ev, ops)
    BY <1>1, <1>3, <1>4, <1>5, HandledFlags, Zenon
  <2>2. QED
    BY <2>1, Zenon DEF FlagsAfter
<1>8. /\ fault = "none"
      /\ service_shutting_down' = service_shutting_down
  <2>1. RunEventQueue(q)
    BY Zenon DEF EventStep, RunEventQueue
  <2>2. QED
    BY <2>1, EventFrame, Zenon
<1>9. /\ \A r2 \in Rpcs : RpcFinish(r2)
      /\ \A q2 \in EventQueues : QueueFinish(q2)
  BY Zenon DEF FinishInv
<1>10. /\ RpcFinish(r)'
       /\ \A r2 \in Rpcs \ {r} : r2 \in finishing' => r2 \in finishing
       /\ r \notin finishing \/ event_queue' = Popped(q)
       /\ fault' \in {"none", "op_on_drained_cq", "op_in_flight"}
       /\ fault' = "op_on_drained_cq" => CqOfRpc(r) \in cq_drained
  <2>1. CASE \/ AcceptConnection(q) /\ ev.ok
             \/ HandleRequest(q)
             \/ HandleReadsDone(q)
    BY <1>2, <1>4, <1>5, <1>9, <2>1, CallbackFinish, Zenon
  <2>2. CASE HandleWrite(q) /\ CanSend(r, pending[r] \ {ev.event})
    <3>1. /\ ev.event \in {"WRITE", "WRITE_NEEDED"}
          /\ event_queue' = Popped(q) /\ handler' = handler
          /\ HandleSendQueue(r, pending[r] \ {ev.event}, TagsAfter(ev))
      BY <1>4, <1>5, <2>2, Zenon DEF HandleWrite, NextEventIn
    <3>2. r \notin finishing
      BY <1>2, <1>4, <1>5, <1>9, <2>2, <3>1, NothingSentAfterFinish, Zenon
    <3>3. pending[r] \ {ev.event} \in SUBSET CqEvent
      BY <1>1, Zenon DEF TypeOK
    <3>4. QED
      BY <1>1, <1>2, <1>9, <2>2, <3>1, <3>2, <3>3, SentRpcFinish, Zenon
  <2>3. CASE /\ event_queue' = Popped(q) /\ finishing' = finishing
             /\ handler' = handler /\ send_queue' = send_queue
             /\ pending' = [pending EXCEPT ![r] = @ \ {ev.event}]
             /\ fault' = fault
    <3>1. pending'[r] = pending[r] \ {ev.event}
      BY <1>1, <2>3, Zenon DEF TypeOK
    <3>2. RpcFinish(r)'
      BY <1>1, <1>2, <1>4, <1>5, <1>9, <2>3, <3>1, QuietRpcFinish, Zenon
    <3>3. QED
      BY <1>8, <2>3, <3>2
  <2>4. CASE AcceptConnection(q) /\ ~ev.ok
    <3>1. ev.event = "NEW_CONNECTION" /\ ~service_shutting_down
      BY <1>4, <2>4, Zenon DEF AcceptConnection, NextEventIn
    <3>2. ev = event_queue[q][1] /\ 1 \in 1..Len(event_queue[q])
      BY <1>2, <1>4, HeadOfQueue, Zenon
    <3>3. service_shutting_down
      BY <2>4, <3>1, <3>2, Zenon DEF RemovalInv, ShutdownOrder
    <3>4. QED
      BY <3>1, <3>3, Zenon
  <2>5. CASE IgnoreStaleEvent(q)
    <3>1. /\ event_queue' = Popped(q) /\ finishing' = finishing
          /\ handler' = handler /\ send_queue' = send_queue
          /\ pending' = pending /\ fault' = fault
          /\ ev.event = "WRITE_NEEDED"
      BY <1>4, <2>5, Zenon DEF IgnoreStaleEvent, NextEventIn, rpcVars, grpcVars
    <3>2. pending'[r] = pending[r] \ {ev.event}
      <4>1. pending[r] \in SUBSET CqEvent
        BY <1>1, Zenon DEF TypeOK
      <4>2. QED
        BY <3>1, <4>1 DEF CqEvent
    <3>3. RpcFinish(r)'
      BY <1>1, <1>2, <1>4, <1>5, <1>9, <3>1, <3>2, QuietRpcFinish, Zenon
    <3>4. QED
      BY <1>8, <3>1, <3>3
  <2>6. CASE HandleWrite(q) /\ ~CanSend(r, pending[r] \ {ev.event})
    <3>1. /\ event_queue' = Popped(q) /\ handler' = handler
          /\ HandleSendQueue(r, pending[r] \ {ev.event}, TagsAfter(ev))
      BY <1>4, <1>5, <2>6, Zenon DEF HandleWrite
    <3>2. /\ finishing' = finishing /\ send_queue' = send_queue
          /\ pending' = [pending EXCEPT ![r] = pending[r] \ {ev.event}]
          /\ fault' = fault
      BY <2>6, <3>1, Zenon DEF HandleSendQueue
    <3>3. QED
      BY <2>3, <3>1, <3>2, Zenon
  <2>7. RefuseConnection(q) \/ HandleFinishOrDone(q) => <2>3!1
    BY <1>4, <1>5, Zenon DEF RefuseConnection, HandleFinishOrDone
  <2>8. QED
    BY <2>1, <2>2, <2>3, <2>4, <2>5, <2>6, <2>7, Zenon DEF EventStep
<1>11. \A r2 \in Rpcs : RpcFinish(r2)'
  BY <1>1, <1>2, <1>6, <1>7, <1>9, <1>10, OtherRpcsFinish, Zenon
<1>12. \A q2 \in EventQueues : QueueFinish(q2)'
  BY <1>1, <1>2, <1>6, <1>9, <1>10, EventQueueFinish, Zenon
<1>13. FaultInv'
  <2>1. fault' # "op_in_flight"
    BY Zenon DEF TagInv, EventObjectsAreNotShared
  <2>2. cq_drained # {} => service_shutting_down
    BY Zenon DEF RemovalInv, ShutdownOrder
  <2>3. fault' # "none" => service_shutting_down'
    BY <1>8, <1>10, <2>1, <2>2
  <2>4. QED
    BY <1>10, <2>1, <2>3 DEF FaultInv
<1>14. QED
  BY <1>11, <1>12, <1>13, Zenon DEF FinishInv

-----------------------------------------------------------------------------
(* FinishInv and FaultInv: all other steps *)

LEMMA FramePreservesFinish ==
  ASSUME FinishInv, writes = 0,
         UNCHANGED <<listener, queue, handler, pending, send_queue, finishing>>,
         \A r \in Rpcs : InQueue(r, "WRITE_NEEDED")' => InQueue(r, "WRITE_NEEDED"),
         \A q \in EventQueues : QueueFinish(q) => QueueFinish(q)'
  PROVE FinishInv'
<1>1. ASSUME NEW r \in Rpcs PROVE RpcFinish(r)'
  <2>1. RpcFinish(r)
    BY Zenon DEF FinishInv
  <2>2. QED
    BY <2>1, SameKind, Zenon DEF RpcFinish
<1>2. QED
  BY <1>1, Zenon DEF FinishInv

LEMMA CompletionPreservesFinish ==
  ASSUME TagInv, RemovalInv, NEW r \in Rpcs, NEW e \in CqEvent,
         RunCompletionQueue(r, e), writes = 0, FinishInv
  PROVE FinishInv' /\ FaultInv'
<1>1. /\ fault = "none" /\ listener' = listener /\ queue' = queue
      /\ handler' = handler /\ pending' = pending /\ send_queue' = send_queue
      /\ finishing' = finishing
      /\ service_shutting_down' = service_shutting_down
  BY CompletionFrame, Zenon
<1>2. TypeOK
  BY Zenon DEF TagInv
<1>3. CASE Alive(r)
  <2> DEFINE ev == [rpc |-> r, event |-> e, ok |-> tag[r][e] = "ok"]
  <2>1. /\ event_queue' = [event_queue EXCEPT ![queue[r]] = Append(@, ev)]
        /\ fault' = fault
    BY <1>3, Zenon DEF RunCompletionQueue
  <2>2. ev \in QueuedEvent /\ ev.rpc = r /\ ev.event = e
    BY DEF QueuedEvent, Event
  <2> HIDE DEF ev
  <2>3. Pushed(r, e)
    <3>1. Pushed(r, ev.event)
      BY <1>2, <2>1, <2>2, AppendPushes, Zenon
    <3>2. QED
      BY <2>2, <3>1, Zenon
  <2>4. e # "WRITE_NEEDED"
    BY DEF CqEvent
  <2>5. ASSUME NEW q \in EventQueues, NEW i \in 1..Len(event_queue'[q]),
               event_queue'[q][i].event = "WRITE_NEEDED"
        PROVE /\ i \in 1..Len(event_queue[q])
              /\ event_queue'[q][i] = event_queue[q][i]
    BY <2>3, <2>4, <2>5, Zenon DEF Pushed
  <2>6. ASSUME NEW r2 \in Rpcs, InQueue(r2, "WRITE_NEEDED")'
        PROVE InQueue(r2, "WRITE_NEEDED")
    <3>1. PICK q \in EventQueues : q = queue[r2]
      BY <1>2 DEF TypeOK
    <3>2. QED
      BY <1>1, <2>5, <2>6, <3>1, Zenon DEF InQueue
  <2>7. ASSUME NEW q \in EventQueues, QueueFinish(q) PROVE QueueFinish(q)'
    <3>1. SUFFICES ASSUME NEW i \in 1..Len(event_queue'[q]),
                          NEW j \in 1..Len(event_queue'[q]),
                          event_queue'[q][i].rpc = event_queue'[q][j].rpc,
                          event_queue'[q][i].event = "WRITE_NEEDED",
                          event_queue'[q][j].event = "FINISH"
                   PROVE i < j
      BY Zenon DEF QueueFinish
    <3>2. /\ i \in 1..Len(event_queue[q])
          /\ event_queue'[q][i] = event_queue[q][i]
      BY <2>5, <3>1, Zenon
    <3>3. CASE j \in 1..Len(event_queue[q])
      <4>1. event_queue'[q][j] = event_queue[q][j]
        BY <2>3, <3>3, Zenon DEF Pushed
      <4>2. QED
        BY <2>7, <3>1, <3>2, <3>3, <4>1, Zenon DEF QueueFinish
    <3>4. CASE j \notin 1..Len(event_queue[q])
      BY <2>3, <3>2, <3>4, Zenon DEF Pushed
    <3>5. QED
      BY <3>3, <3>4, Zenon
  <2>8. FinishInv'
    BY <1>1, <2>6, <2>7, FramePreservesFinish, Zenon
  <2>9. QED
    BY <1>1, <2>1, <2>8 DEF FaultInv
<1>4. CASE ~Alive(r)
  <2>1. event_queue' = event_queue /\ fault' = "use_after_free"
    BY <1>4, Zenon DEF RunCompletionQueue
  <2>2. FinishInv'
    BY <1>1, <2>1, FramePreservesFinish, Zenon DEF InQueue, QueueFinish
  <2>3. tag[r][e] \in {"ok", "failed"}
    BY Zenon DEF RunCompletionQueue
  <2>4. tag[r][e] # "idle"
    BY <2>3
  <2>5. r \in 1..created
    <3>1. e \in pending[r]
      BY <2>4, Zenon DEF TagInv, UsedTagsArePending
    <3>2. QED
      BY <3>1, Zenon DEF TagInv, OnlyCreatedRpcs
  <2>6. service_shutting_down'
    BY <1>1, <1>4, <2>4, <2>5, OnlyRefusedRpcsAreMissed
  <2>7. QED
    BY <2>1, <2>2, <2>6 DEF FaultInv
<1>5. QED
  BY <1>3, <1>4, Zenon

LEMMA NewRpcFinish ==
  ASSUME NEW r \in Rpcs, handler'[r] = "null", send_queue'[r] = <<>>,
         r \notin finishing'
  PROVE RpcFinish(r)'
<1>1. Items(send_queue'[r]) = {}
  BY DEF Items
<1>2. handler'[r] # "reading" /\ "OK" \notin Items(send_queue'[r])
  BY <1>1
<1>3. QED
  BY <1>1, <1>2, Zenon DEF RpcFinish

LEMMA ListenAgainPreservesFinish ==
  ASSUME TagInv, RemovalInv, NEW q \in EventQueues, ListenAgain(q), writes = 0,
         FinishInv
  PROVE FinishInv' /\ FaultInv'
<1>1. TypeOK
  BY Zenon DEF TagInv
<1>2. PICK new \in Rpcs : new = created + 1
  <2>1. created < MaxRpcs /\ created \in 0..MaxRpcs
    BY <1>1, Zenon DEF ListenAgain, TypeOK
  <2>2. QED
    BY <2>1, Sizes DEF Rpcs
<1>3. ~(new \in 1..created)
  BY <1>1, <1>2 DEF TypeOK
<1>4. /\ pending' = [pending EXCEPT ![new] = {"DONE", "NEW_CONNECTION"}]
      /\ queue' = [queue EXCEPT ![new] = current_event_queue_id']
      /\ listener' = [listener EXCEPT ![new] = listener[relisten[q]]]
      /\ handler' = handler /\ send_queue' = send_queue
      /\ event_queue' = event_queue /\ finishing' = finishing
      /\ service_shutting_down' = service_shutting_down
      /\ fault' = IF CqOfRpc(relisten[q]) \in cq_drained
                  THEN "op_on_drained_cq" ELSE "none"
  BY <1>2, Zenon DEF ListenAgain, RequestNextMethodInvocation, SetEventQueue
<1>5. ASSUME NEW r \in Rpcs PROVE RpcFinish(r)'
  <2>1. RpcFinish(r)
    BY Zenon DEF FinishInv
  <2>2. CASE r = new
    <3>1. handler[r] = "null" /\ send_queue[r] = <<>>
      BY <1>3, <2>2, Zenon DEF TagInv, OnlyCreatedRpcs
    <3>2. handler[r] # "reads_done"
      BY <3>1
    <3>3. r \notin finishing
      BY <2>1, <3>2, Zenon DEF RpcFinish
    <3>4. QED
      BY <1>4, <3>1, <3>3, NewRpcFinish, Zenon
  <2>3. CASE r # new
    <3>1. /\ pending'[r] = pending[r] /\ queue'[r] = queue[r]
          /\ listener'[r] = listener[r]
      BY <1>1, <1>4, <2>3, Zenon DEF TypeOK
    <3>2. /\ StreamsRequests(r)' <=> StreamsRequests(r)
          /\ UnaryResponse(r)' <=> UnaryResponse(r)
          /\ \A item : Finishes(r, item)' <=> Finishes(r, item)
          /\ InQueue(r, "WRITE_NEEDED")' => InQueue(r, "WRITE_NEEDED")
      BY <1>4, <3>1, Zenon DEF StreamsRequests, UnaryResponse, Finishes, Type,
         InQueue
    <3>3. QED
      BY <1>4, <2>1, <3>1, <3>2, Zenon DEF RpcFinish
  <2>4. QED
    BY <2>2, <2>3, Zenon
<1>6. ASSUME NEW q2 \in EventQueues PROVE QueueFinish(q2)'
  <2>1. QueueFinish(q2)
    BY Zenon DEF FinishInv
  <2>2. QED
    BY <1>4, <2>1, Zenon DEF QueueFinish
<1>7. cq_drained # {} => service_shutting_down
  BY Zenon DEF RemovalInv, ShutdownOrder
<1>8. FaultInv'
  BY <1>4, <1>7 DEF FaultInv
<1>9. QED
  BY <1>5, <1>6, <1>8, Zenon DEF FinishInv

LEMMA StartPreservesFinish ==
  ASSUME TagInv, StartServing, writes = 0, FinishInv
  PROVE FinishInv' /\ FaultInv'
<1>1. TypeOK /\ created = 0
  BY Zenon DEF TagInv, StartServing
<1>2. /\ handler' = handler /\ send_queue' = send_queue
      /\ event_queue' = event_queue /\ finishing' = finishing
      /\ fault' = fault /\ fault = "none"
  BY Zenon DEF StartServing
<1>3. \A r \in Rpcs : ~(r \in 1..created)
  BY <1>1
<1>4. ASSUME NEW r \in Rpcs PROVE RpcFinish(r)'
  <2>1. RpcFinish(r)
    BY Zenon DEF FinishInv
  <2>2. handler[r] = "null" /\ send_queue[r] = <<>>
    BY <1>3, Zenon DEF TagInv, OnlyCreatedRpcs
  <2>3. handler[r] # "reads_done"
    BY <2>2
  <2>4. r \notin finishing
    BY <2>1, <2>3, Zenon DEF RpcFinish
  <2>5. QED
    BY <1>2, <2>2, <2>4, NewRpcFinish, Zenon
<1>5. ASSUME NEW q \in EventQueues PROVE QueueFinish(q)'
  <2>1. QueueFinish(q)
    BY Zenon DEF FinishInv
  <2>2. QED
    BY <1>2, <2>1, Zenon DEF QueueFinish
<1>6. FaultInv'
  BY <1>2 DEF FaultInv
<1>7. QED
  BY <1>4, <1>5, <1>6, Zenon DEF FinishInv

LEMMA FinishInvInit ==
  ASSUME Init
  PROVE FinishInv /\ FaultInv
<1>1. ASSUME NEW r \in Rpcs PROVE RpcFinish(r)
  <2>1. handler[r] = "null" /\ send_queue[r] = <<>> /\ finishing = {}
    BY Zenon DEF Init
  <2>2. Items(send_queue[r]) = {}
    BY <2>1 DEF Items
  <2>3. QED
    BY <2>1, <2>2 DEF RpcFinish
<1>2. ASSUME NEW q \in EventQueues PROVE QueueFinish(q)
  <2>1. event_queue[q] = <<>>
    BY Zenon DEF Init
  <2>2. 1..Len(event_queue[q]) = {}
    BY <2>1
  <2>3. QED
    BY <2>2, Zenon DEF QueueFinish
<1>3. FaultInv
  BY DEF Init, FaultInv
<1>4. QED
  BY <1>1, <1>2, <1>3, Zenon DEF FinishInv

LEMMA FinishInvNext ==
  ASSUME HandlersFinishLast, TagInv, LifeInv, RemovalInv, TagInv', FinishInv,
         FaultInv, [Next]_vars
  PROVE FinishInv' /\ FaultInv'
<1>1. CASE writes' # 0
  BY <1>1, Zenon DEF FinishInv, FaultInv
<1>2. CASE writes' = 0
  <2>1. ASSUME event_queue' = event_queue, listener' = listener,
               queue' = queue, handler' = handler, pending' = pending,
               send_queue' = send_queue, finishing' = finishing, writes' = writes
        PROVE FinishInv'
    <3>1. \A r \in Rpcs : InQueue(r, "WRITE_NEEDED")' => InQueue(r, "WRITE_NEEDED")
      BY <2>1, Zenon DEF InQueue
    <3>2. \A q \in EventQueues : QueueFinish(q) => QueueFinish(q)'
      BY <2>1, Zenon DEF QueueFinish
    <3>3. QED
      BY <1>2, <2>1, <3>1, <3>2, FramePreservesFinish, Zenon
  <2>2. ASSUME NEW q \in EventQueues, HandleEventOfDestroyedRpc(q)
        PROVE FinishInv' /\ FaultInv'
    <3>1. /\ event_queue' = event_queue /\ listener' = listener
          /\ queue' = queue /\ handler' = handler /\ pending' = pending
          /\ send_queue' = send_queue /\ finishing' = finishing
          /\ writes' = writes /\ fault = "none" /\ fault' = "use_after_free"
          /\ service_shutting_down' = service_shutting_down
      BY <2>2, Zenon DEF HandleEventOfDestroyedRpc, NextEventIn, rpcVars,
         threadVars, grpcVars, writerVars
    <3>2. PICK ev : ev = Head(event_queue[q])
      BY Zenon
    <3>3. /\ event_queue[q] # <<>> /\ ev.event \in CqEvent /\ ~Alive(ev.rpc)
      BY <2>2, <3>2, Zenon DEF HandleEventOfDestroyedRpc, NextEventIn
    <3>4. ev.rpc \in 1..created /\ tag[ev.rpc][ev.event] = "queued"
      BY <3>2, <3>3, HeadOfQueue, Zenon
    <3>5. tag[ev.rpc][ev.event] # "idle"
      BY <3>4
    <3>6. service_shutting_down'
      BY <1>2, <3>1, <3>3, <3>4, <3>5, OnlyRefusedRpcsAreMissed
    <3>7. QED
      BY <2>1, <3>1, <3>6 DEF FaultInv
  <2>3. ASSUME NEW w \in Writers, WriterStep(w) PROVE FALSE
    BY <1>2, <2>3, WriterCounts, Zenon
  <2>4. ASSUME NEW r \in Rpcs,
               \/ IncomingCall(r) \/ RequestFails(r) \/ ClientSends(r)
               \/ ClientWritesDone(r) \/ ReadFails(r) \/ WriteCompletes(r)
               \/ FinishCompletes(r) \/ CallIsDone(r) \/ ClientCancels(r)
        PROVE FinishInv' /\ FaultInv'
    <3>1. /\ event_queue' = event_queue /\ listener' = listener
          /\ queue' = queue /\ handler' = handler /\ pending' = pending
          /\ send_queue' = send_queue /\ finishing' = finishing
          /\ writes' = writes /\ fault = "none" /\ fault' = fault
      BY <2>4, GrpcFrame, Zenon
    <3>2. QED
      BY <2>1, <3>1 DEF FaultInv
  <2>5. ASSUME Stop PROVE FinishInv' /\ FaultInv'
    <3>1. /\ event_queue' = event_queue /\ listener' = listener
          /\ queue' = queue /\ handler' = handler /\ pending' = pending
          /\ send_queue' = send_queue /\ finishing' = finishing
          /\ writes' = writes /\ fault = "none"
          /\ service_shutting_down => service_shutting_down'
      BY <2>5, StopFrame, Zenon
    <3>2. CASE fault' = fault
      BY <2>1, <3>1, <3>2 DEF FaultInv
    <3>3. CASE fault' # fault
      <4>1. cq_drained = Cqs /\ fault' \in {"none", "rpcs_in_flight"}
        BY <2>5, <3>3 DEF Stop, StopServing, GrpcShutdown, CqDrained,
           DestroyService
      <4>2. Cqs # {}
        BY SizeAssumption DEF Cqs
      <4>3. service_shutting_down'
        BY <3>1, <4>1, <4>2, Zenon DEF RemovalInv, ShutdownOrder
      <4>4. QED
        BY <2>1, <3>1, <4>1, <4>3 DEF FaultInv
    <3>4. QED
      BY <3>2, <3>3, Zenon
  <2>6. ASSUME UNCHANGED vars PROVE FinishInv' /\ FaultInv'
    <3>1. /\ event_queue' = event_queue /\ listener' = listener
          /\ queue' = queue /\ handler' = handler /\ pending' = pending
          /\ send_queue' = send_queue /\ finishing' = finishing
          /\ writes' = writes /\ fault' = fault
          /\ service_shutting_down' = service_shutting_down
      BY <2>6, Zenon DEF vars, rpcVars, threadVars, grpcVars, writerVars
    <3>2. QED
      BY <2>1, <3>1 DEF FaultInv
  <2>7. /\ \A q \in EventQueues : EventStep(q) => writes' = writes
        /\ \A q \in EventQueues : ListenAgain(q) => writes' = writes
        /\ \A r \in Rpcs : \A e \in CqEvent :
             RunCompletionQueue(r, e) => writes' = writes
        /\ StartServing => writes' = writes
    <3>1. \A q \in EventQueues :
            EventStep(q) \/ ListenAgain(q) => RunEventQueue(q)
      BY Zenon DEF EventStep, RunEventQueue
    <3>2. StartServing => writes' = writes
      BY Zenon DEF StartServing, writerVars
    <3>3. QED
      BY <3>1, <3>2, EventFrame, CompletionFrame, Zenon
  <2>8. QED
    BY <1>2, <2>2, <2>3, <2>4, <2>5, <2>6, <2>7, NextCases,
       StartPreservesFinish, EventPreservesFinish, ListenAgainPreservesFinish,
       CompletionPreservesFinish, Zenon
<1>3. QED
  BY <1>1, <1>2, Zenon

-----------------------------------------------------------------------------
(* What can go wrong *)

\* If handlers finish last, the call of an Rpc that no Writer is used on is
\* finished once and nothing is sent on it after that; and nothing goes wrong
\* before the service is stopped.
THEOREM FinishInvariant ==
  ASSUME HandlersFinishLast
  PROVE Spec => [](FinishInv /\ FaultInv)
<1>1. Init => FinishInv /\ FaultInv
  BY FinishInvInit, Zenon
<1>2. TagInv /\ LifeInv /\ RemovalInv /\ TagInv' /\ (FinishInv /\ FaultInv)
        /\ [Next]_vars => (FinishInv /\ FaultInv)'
  BY FinishInvNext, Zenon
<1>3. QED
  BY <1>1, <1>2, TagInvariant, LifeInvariant, RemovalInvariant, PTL DEF Spec

\* Only a Writer fails the CHECK of GetWeakPtr.
LEMMA EventFaults ==
  ASSUME NEW q \in EventQueues, EventStep(q)
  PROVE fault' # "weak_ptr_check"
<1> DEFINE ev == Head(event_queue[q])
           r == ev.rpc
<1>1. fault = "none"
  BY Zenon DEF EventStep, RefuseConnection, AcceptConnection, HandleRequest,
     HandleReadsDone, HandleWrite, HandleFinishOrDone, IgnoreStaleEvent,
     NextEventIn
<1>2. \A e : OpFault(r, TagsAfter(ev), e) # "weak_ptr_check"
  BY OpFaults
<1>3. CASE fault' = fault
  BY <1>1, <1>3
<1>4. CASE HandleRequest(q)
  BY <1>2, <1>4, Zenon DEF HandleRequest
<1>5. CASE AcceptConnection(q)
  <2>1. CASE ev.ok
    <3>1. OnConnection(q, r, pending[r] \ {ev.event}, TagsAfter(ev))
      BY <1>5, <2>1, Zenon DEF AcceptConnection
    <3>2. fault' = OpFault(r, TagsAfter(ev), "READ") \/ fault' = fault
      BY <3>1, Zenon DEF OnConnection
    <3>3. QED
      BY <1>2, <1>3, <3>2, Zenon
  <2>2. CASE ~ev.ok
    <3>1. fault' = "use_after_free"
      BY <1>5, <2>2, Zenon DEF AcceptConnection
    <3>2. QED
      BY <3>1
  <2>3. QED
    BY <2>1, <2>2, Zenon
<1>6. CASE HandleWrite(q)
  <2>1. HandleSendQueue(r, pending[r] \ {ev.event}, TagsAfter(ev))
    BY <1>6, Zenon DEF HandleWrite
  <2>2. \/ fault' = fault \/ fault' = OpFault(r, TagsAfter(ev), "WRITE")
        \/ fault' = "finish_with_ok_error"
        \/ fault' = OpFault(r, TagsAfter(ev), "FINISH")
    BY <2>1, Zenon DEF HandleSendQueue, PerformWrite, PerformFinish
  <2>3. QED
    BY <1>1, <1>2, <2>2
<1>7. QED
  BY <1>3, <1>4, <1>5, <1>6, Zenon DEF EventStep, RefuseConnection,
     HandleReadsDone, HandleFinishOrDone, IgnoreStaleEvent

LEMMA WeakPtrCheckNext ==
  ASSUME TagInv, LifeInv, WeakPtrCheck, [Next]_vars
  PROVE WeakPtrCheck'
<1>1. ASSUME NEW w \in Writers, WriterStep(w) PROVE WeakPtrCheck'
  <2>1. CASE fault' # "weak_ptr_check"
    BY <2>1, Zenon DEF WeakPtrCheck
  <2>2. CASE fault' = "weak_ptr_check"
    <3>1. fault = "none"
      BY <1>1, WriterFrame, Zenon
    <3>2. fault' # fault
      BY <2>2, <3>1
    <3>3. /\ writer_pc[w] = "enqueued" /\ writer_rpc[w] \notin active
          /\ writer_pc' = writer_pc /\ writer_rpc' = writer_rpc
          /\ active' = active /\ call' = call
      BY <1>1, <3>2, Zenon DEF WriterStep, WriterEnqueue, WriterNotify,
         WriterReturn, rpcVars, grpcVars
    <3>4. /\ writer_rpc[w] # NoRpc /\ handler[writer_rpc[w]] # "null"
      <4>1. WriterLife(w) /\ writer_pc[w] # "idle"
        BY <3>3 DEF LifeInv
      <4>2. QED
        BY <4>1, Zenon DEF WriterLife
    <3>5. writer_rpc[w] \in 1..created
      BY <3>4, Zenon DEF TagInv, OnlyCreatedRpcs
    <3>6. writer_rpc[w] \in Rpcs
      BY <3>5, ActiveRpcs, Zenon DEF TagInv
    <3>7. call[writer_rpc[w]] = "over"
      BY <3>3, <3>4, <3>5, <3>6, Zenon DEF LifeInv, RpcLife
    <3>8. QED
      BY <3>3, <3>7, Zenon DEF WeakPtrCheck
  <2>3. QED
    BY <2>1, <2>2, Zenon
<1>2. ASSUME fault' # "weak_ptr_check" PROVE WeakPtrCheck'
  BY <1>2, Zenon DEF WeakPtrCheck
<1>3. ASSUME UNCHANGED vars PROVE WeakPtrCheck'
  BY <1>3, Zenon DEF vars, rpcVars, grpcVars, writerVars, WeakPtrCheck
<1>4. ASSUME NEW q \in EventQueues, ListenAgain(q)
      PROVE fault' # "weak_ptr_check"
  BY <1>4 DEF ListenAgain
<1>5. ASSUME NEW q \in EventQueues, HandleEventOfDestroyedRpc(q)
      PROVE fault' # "weak_ptr_check"
  BY <1>5 DEF HandleEventOfDestroyedRpc
<1>6. ASSUME NEW r \in Rpcs, NEW e \in CqEvent, RunCompletionQueue(r, e)
      PROVE fault' # "weak_ptr_check"
  BY <1>6 DEF RunCompletionQueue
<1>7. ASSUME NEW r \in Rpcs,
             \/ IncomingCall(r) \/ RequestFails(r) \/ ClientSends(r)
             \/ ClientWritesDone(r) \/ ReadFails(r) \/ WriteCompletes(r)
             \/ FinishCompletes(r) \/ CallIsDone(r) \/ ClientCancels(r)
      PROVE fault' # "weak_ptr_check"
  <2>1. fault' = fault /\ fault = "none"
    BY <1>7, GrpcFrame, Zenon
  <2>2. QED
    BY <2>1
<1>8. ASSUME Stop PROVE fault' # "weak_ptr_check"
  <2>1. fault = "none" /\ (fault' = fault \/ fault' = "rpcs_in_flight")
    BY <1>8, Zenon DEF Stop, StopServing, GrpcShutdown, CqDrained, DestroyService
  <2>2. QED
    BY <2>1
<1>9. ASSUME StartServing PROVE fault' # "weak_ptr_check"
  BY <1>9 DEF StartServing
<1>10. QED
  BY <1>1, <1>2, <1>3, <1>4, <1>5, <1>6, <1>7, <1>8, <1>9, EventFaults,
     NextCases, Zenon

\* An Rpc is removed when DONE has been handled, and not before, so that
\* GetWeakPtr fails only for a Writer of an Rpc whose call is over.  If handlers
\* finish last, nothing is sent after Finish unless a Writer is used.
THEOREM WritersAreSafeDuringCalls ==
  ASSUME HandlersFinishLast
  PROVE Spec => []WriterIsSafeDuringTheCall
<1>1. Init => WeakPtrCheck
  BY DEF Init, WeakPtrCheck
<1>2. TagInv /\ LifeInv /\ WeakPtrCheck /\ [Next]_vars => WeakPtrCheck'
  BY WeakPtrCheckNext, Zenon
<1>3. TagInv /\ LifeInv /\ WeakPtrCheck /\ FinishInv /\ FaultInv
        => WriterIsSafeDuringTheCall
  <2> SUFFICES ASSUME TagInv, LifeInv, WeakPtrCheck, FaultInv
               PROVE WriterIsSafeDuringTheCall
    BY Zenon
  <2>1. writes \in Nat
    BY SizeAssumption DEF TagInv, TypeOK
  <2>2. fault = "op_after_finish" => writes > 0
    BY <2>1 DEF FaultInv
  <2>3. 1..created \subseteq Rpcs
    BY ActiveRpcs, Zenon DEF TagInv
  <2>4. ASSUME NEW r \in 1..created, handler[r] # "null", r \notin active
        PROVE call[r] = "over"
    BY <2>3, <2>4, Zenon DEF LifeInv, RpcLife
  <2>5. QED
    BY <2>2, <2>4, Zenon DEF WeakPtrCheck, WriterIsSafeDuringTheCall
<1>4. QED
  BY <1>1, <1>2, <1>3, TagInvariant, LifeInvariant, FinishInvariant, PTL
     DEF Spec

\* While it serves, a service whose handlers finish last fails no CHECK, does
\* not misuse gRPC and uses no destroyed Rpc, however its event threads, its
\* completion queues and its clients interleave.
THEOREM ServingIsFaultless ==
  ASSUME HandlersFinishLast
  PROVE ServeSpec => [](writes = 0 => NoFault)
<1>1. [Serve]_vars => [Next]_vars
  BY Zenon DEF Next
<1>2. Init => ~service_shutting_down
  BY DEF Init
<1>3. ~service_shutting_down /\ [Serve]_vars => ~service_shutting_down'
  <2> SUFFICES ASSUME [Serve]_vars
               PROVE service_shutting_down' = service_shutting_down
    BY SMT
  <2>1. CASE StartServing
    BY <2>1, Zenon DEF StartServing
  <2>2. CASE \E q \in EventQueues : RunEventQueue(q)
    BY <2>2, EventFrame, Zenon
  <2>3. CASE \E w \in Writers : WriterStep(w)
    BY <2>3, WriterFrame, Zenon
  <2>4. CASE \E r \in Rpcs : ClientStep(r) \/ GrpcStep(r)
    BY <2>4, GrpcFrame, CompletionFrame, Zenon DEF ClientStep, GrpcStep
  <2>5. CASE UNCHANGED vars
    BY <2>5, Zenon DEF vars
  <2>6. QED
    BY <2>1, <2>2, <2>3, <2>4, <2>5, Zenon DEF Serve
<1>4. ~service_shutting_down /\ FinishInv /\ FaultInv => (writes = 0 => NoFault)
  BY DEF FaultInv, NoFault
<1>5. QED
  BY <1>1, <1>2, <1>3, <1>4, FinishInvariant, PTL DEF ServeSpec, Spec

-----------------------------------------------------------------------------
(* Sends do not overlap *)

OneSend(p) == "WRITE" \notin p \/ "FINISH" \notin p

OneSendPending == \A r \in Rpcs : OneSend(pending[r])

\* HandleSendQueue starts at most one of them, and nothing while one is pending.
LEMMA SendQueueStartsOne ==
  ASSUME NEW r \in Rpcs, NEW p, NEW t, OneSend(p), HandleSendQueue(r, p, t)
  PROVE \E new : pending' = [pending EXCEPT ![r] = new] /\ OneSend(new)
<1>1. CASE ~CanSend(r, p)
  BY <1>1, Zenon DEF HandleSendQueue
<1>2. CASE CanSend(r, p)
  <2>1. "WRITE" \notin p /\ "FINISH" \notin p
    BY <1>2, Zenon DEF CanSend
  <2>2. \/ pending' = [pending EXCEPT ![r] = p \cup {"WRITE"}]
        \/ pending' = [pending EXCEPT ![r] = p \cup {"FINISH"}]
    BY <1>2, Zenon DEF HandleSendQueue, PerformWrite, PerformFinish, StartOp
  <2>3. OneSend(p \cup {"WRITE"}) /\ OneSend(p \cup {"FINISH"})
    BY <2>1 DEF OneSend
  <2>4. QED
    BY <2>2, <2>3, Zenon
<1>3. QED
  BY <1>1, <1>2, Zenon

LEMMA EventStartsOneSend ==
  ASSUME TagInv, OneSendPending, NEW q \in EventQueues, EventStep(q)
  PROVE OneSendPending'
<1>1. event_queue[q] # <<>>
  BY Zenon DEF EventStep, RefuseConnection, AcceptConnection, HandleRequest,
     HandleReadsDone, HandleWrite, HandleFinishOrDone, IgnoreStaleEvent,
     NextEventIn
<1>2. PICK r \in Rpcs : r = Head(event_queue[q]).rpc
  BY <1>1, HeadType, Zenon DEF TagInv
<1>3. pending \in [Rpcs -> SUBSET CqEvent]
  BY Zenon DEF TagInv, TypeOK
<1> DEFINE p == pending[r] \ {Head(event_queue[q]).event}
<1>4. OneSend(p) /\ OneSend(p \cup {"READ"})
  <2>1. OneSend(pending[r])
    BY <1>2, Zenon DEF OneSendPending
  <2>2. QED
    BY <2>1 DEF OneSend
<1>5. ASSUME NEW new, pending' = [pending EXCEPT ![r] = new], OneSend(new)
      PROVE OneSendPending'
  <2>1. pending'[r] = new /\ \A r2 \in Rpcs \ {r} : pending'[r2] = pending[r2]
    BY <1>2, <1>3, <1>5, Zenon
  <2>2. QED
    BY <1>5, <2>1, Zenon DEF OneSendPending, OneSend
<1>6. CASE HandleWrite(q)
  <2>1. HandleSendQueue(r, p, TagsAfter(Head(event_queue[q])))
    BY <1>2, <1>6, Zenon DEF HandleWrite
  <2> HIDE DEF p
  <2>2. QED
    BY <1>4, <1>5, <2>1, SendQueueStartsOne, Zenon
<1>7. CASE IgnoreStaleEvent(q)
  BY <1>7, Zenon DEF IgnoreStaleEvent, rpcVars, OneSendPending
<1>8. CASE RefuseConnection(q) \/ HandleReadsDone(q) \/ HandleFinishOrDone(q)
  <2>1. pending' = [pending EXCEPT ![r] = p]
    BY <1>2, <1>8, Zenon DEF RefuseConnection, HandleReadsDone,
       HandleFinishOrDone
  <2>2. QED
    BY <1>4, <1>5, <2>1, Zenon
<1>9. CASE AcceptConnection(q) \/ HandleRequest(q)
  <2>1. \/ pending' = [pending EXCEPT ![r] = p]
        \/ pending' = [pending EXCEPT ![r] = p \cup {"READ"}]
    BY <1>2, <1>9, Zenon DEF AcceptConnection, OnConnection, HandleRequest,
       StartOp
  <2>2. QED
    BY <1>4, <1>5, <2>1, Zenon
<1>10. QED
  BY <1>6, <1>7, <1>8, <1>9, Zenon DEF EventStep

\* HandleSendQueue never has gRPC send two things of a call at once, although
\* Writers add to the send queue at any time, also after the call is finished or
\* its Rpc removed, and whatever the handlers send.
THEOREM OneSendAtATime == Spec => []SendsDoNotOverlap
<1>1. Init => OneSendPending
  BY Zenon DEF Init, OneSendPending, OneSend
<1>2. TagInv /\ OneSendPending /\ [Next]_vars => OneSendPending'
  <2> SUFFICES ASSUME TagInv, OneSendPending, [Next]_vars PROVE OneSendPending'
    BY Zenon
  <2>0. pending \in [Rpcs -> SUBSET CqEvent]
    BY Zenon DEF TagInv, TypeOK
  <2>1. ASSUME pending' = pending PROVE OneSendPending'
    BY <2>1, Zenon DEF OneSendPending
  <2>2. OneSend({"DONE", "NEW_CONNECTION"})
    BY DEF OneSend
  <2>3. ASSUME StartServing PROVE OneSendPending'
    <3>1. \A r \in Rpcs : \/ pending'[r] = {"DONE", "NEW_CONNECTION"}
                           \/ pending'[r] = pending[r]
      BY <2>3, Zenon DEF StartServing
    <3>2. QED
      BY <2>2, <3>1, Zenon DEF OneSendPending
  <2>4. ASSUME NEW q \in EventQueues, ListenAgain(q) PROVE OneSendPending'
    <3>1. \A r \in Rpcs : \/ pending'[r] = {"DONE", "NEW_CONNECTION"}
                           \/ pending'[r] = pending[r]
      BY <2>0, <2>4, Zenon DEF ListenAgain, RequestNextMethodInvocation
    <3>2. QED
      BY <2>2, <3>1, Zenon DEF OneSendPending
  <2>5. ASSUME NEW q \in EventQueues, EventStep(q) PROVE OneSendPending'
    BY <2>5, EventStartsOneSend, Zenon
  <2>6. ASSUME NEW q \in EventQueues, HandleEventOfDestroyedRpc(q)
        PROVE OneSendPending'
    BY <2>1, <2>6, Zenon DEF HandleEventOfDestroyedRpc, rpcVars
  <2>7. ASSUME NEW w \in Writers, WriterStep(w) PROVE OneSendPending'
    BY <2>1, <2>7, Zenon DEF WriterStep, WriterEnqueue, WriterNotify,
       WriterReturn, rpcVars
  <2>8. ASSUME NEW r \in Rpcs,
               \/ IncomingCall(r) \/ RequestFails(r) \/ ClientSends(r)
               \/ ClientWritesDone(r) \/ ReadFails(r) \/ WriteCompletes(r)
               \/ FinishCompletes(r) \/ CallIsDone(r) \/ ClientCancels(r)
        PROVE OneSendPending'
    BY <2>1, <2>8, GrpcFrame, Zenon
  <2>9. ASSUME NEW r \in Rpcs, NEW e \in CqEvent, RunCompletionQueue(r, e)
        PROVE OneSendPending'
    BY <2>1, <2>9, Zenon DEF RunCompletionQueue, rpcVars
  <2>10. ASSUME Stop PROVE OneSendPending'
    BY <2>1, <2>10, StopFrame, Zenon
  <2>11. ASSUME UNCHANGED vars PROVE OneSendPending'
    BY <2>1, <2>11, Zenon DEF vars, rpcVars
  <2>12. QED
    BY <2>3, <2>4, <2>5, <2>6, <2>7, <2>8, <2>9, <2>10, <2>11, NextCases, Zenon
\* A send in flight is pending.
<1>3. TagInv /\ OneSendPending => SendsDoNotOverlap
  <2> SUFFICES ASSUME TagInv, OneSendPending, NEW r \in Rpcs
               PROVE tag[r]["WRITE"] = "idle" \/ tag[r]["FINISH"] = "idle"
    BY Zenon DEF SendsDoNotOverlap
  <2>1. "WRITE" \in CqEvent /\ "FINISH" \in CqEvent
    BY DEF CqEvent
  <2>2. QED
    BY <2>1, Zenon DEF TagInv, UsedTagsArePending, OneSendPending, OneSend
<1>4. QED
  BY <1>1, <1>2, <1>3, TagInvariant, PTL DEF Spec
=============================================================================
